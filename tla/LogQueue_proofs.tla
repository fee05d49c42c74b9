-------------------------- MODULE LogQueue_proofs --------------------------
(***************************************************************************)
(* Machine-checked proofs about the buffers of AsyncLog as linked lists,   *)
(* for any number and size of buffers: each thread finds along the         *)
(* pointers just the buffers it owns, and the lines in them are the queue  *)
(* of LogPromise.                                                          *)
(*                                                                         *)
(* IndInv of AsyncLog_proofs says of each buffer what it is linked to; it  *)
(* does not say that the links reach every buffer.  Here a list is a       *)
(* sequence s with Path(s, p, next): the list that begins at p.  QueueInv  *)
(* says that the list of inst and the lists of the worker are such         *)
(* sequences, whose buffers are just those each thread owns and, but for   *)
(* the last of inst, are full where the worker may drop them.              *)
(*                                                                         *)
(* What the recursive definitions compute (ChainFrom here, FlattenSeq of   *)
(* SequencesExt) is proved by the least counterexample: see Least.         *)
(***************************************************************************)
EXTENDS AsyncLog_proofs, FiniteSetTheorems, WellFoundedInduction

-----------------------------------------------------------------------------
(* A set of natural numbers that is not empty has a least one. *)
LEMMA Least ==
  ASSUME NEW T \in SUBSET Nat, T # {}
  PROVE  \E n \in T : \A k \in T : n <= k
<1> DEFINE R == {p \in Nat \X Nat : p[1] < p[2]}
<1>1. IsWellFoundedOn(R, Nat)
  BY NatLessThanWellFounded DEF OpToRel
<1>2. PICK n \in T : \A k \in T : <<k, n>> \notin R
  BY <1>1, WFMin
<1>3. ASSUME NEW k \in T PROVE n <= k
  <2>1. ~(k < n)  BY <1>2
  <2> QED BY <2>1
<1> QED BY <1>2, <1>3

-----------------------------------------------------------------------------
(* The buffers that the links nxt lead to from b: ChainFrom for any links. *)
ChainBy(nxt, b) ==
  LET chain[n \in 0 .. Cardinality(Buffers)] ==
        [p \in Pointer |-> IF n = 0 \/ p = NULL THEN <<>>
                          ELSE <<p>> \o chain[n - 1][nxt[p]]]
  IN chain[Cardinality(Buffers)][b]

Follows(f, nxt, N) ==
  f = [n \in 0 .. N |-> [p \in Pointer |-> IF n = 0 \/ p = NULL THEN <<>>
                                          ELSE <<p>> \o f[n - 1][nxt[p]]]]

(* The recursive function in ChainBy exists, whatever the links are, ... *)
LEMMA FollowsExists ==
  ASSUME NEW nxt, NEW N \in Nat
  PROVE  \E f : Follows(f, nxt, N)
<1> DEFINE T == {n \in Nat : ~ \E f : Follows(f, nxt, n)}
<1> SUFFICES ASSUME T # {} PROVE FALSE
  OBVIOUS
<1>1. PICK n \in T : \A k \in T : n <= k
  BY Least
<1>2. CASE n = 0
  <2> DEFINE f == [m \in 0 .. 0 |-> [p \in Pointer |-> <<>>]]
  <2>1. Follows(f, nxt, 0)
    BY DEF Follows
  <2> QED BY <1>1, <1>2, <2>1
<1>3. CASE n # 0
  <2>1. n - 1 \in Nat /\ n - 1 \notin T
    BY <1>1, <1>3
  <2>2. PICK g : Follows(g, nxt, n - 1)
    BY <2>1
  <2> DEFINE f == [m \in 0 .. n |->
                     IF m < n THEN g[m]
                     ELSE [p \in Pointer |-> IF p = NULL THEN <<>>
                                            ELSE <<p>> \o g[n - 1][nxt[p]]]]
             h == [m \in 0 .. n |-> [p \in Pointer |->
                     IF m = 0 \/ p = NULL THEN <<>> ELSE <<p>> \o f[m - 1][nxt[p]]]]
  <2>3. \A m \in 0 .. n - 1 : g[m] = [p \in Pointer |->
            IF m = 0 \/ p = NULL THEN <<>> ELSE <<p>> \o g[m - 1][nxt[p]]]
    BY <2>2 DEF Follows
  <2>4. ASSUME NEW m \in 0 .. n PROVE f[m] = h[m]
    <3>1. CASE m < n
      <4>1. m \in 0 .. n - 1  BY <3>1, <1>1
      <4>2. f[m] = g[m]  BY <3>1
      <4>3. m # 0 => f[m - 1] = g[m - 1]
        <5>1. m # 0 => m - 1 \in 0 .. n /\ m - 1 < n  BY <3>1, <1>1
        <5> QED BY <5>1
      <4>4. h[m] = [p \in Pointer |->
              IF m = 0 \/ p = NULL THEN <<>> ELSE <<p>> \o g[m - 1][nxt[p]]]
        BY <4>3
      <4> QED BY <4>1, <4>2, <4>4, <2>3
    <3>2. CASE ~(m < n)
      <4>1. m = n /\ m # 0 /\ m - 1 \in 0 .. n /\ m - 1 < n  BY <3>2, <1>3, <1>1
      <4>2. f[m - 1] = g[n - 1]  BY <4>1
      <4> HIDE DEF f
      <4>3. h[m] = [p \in Pointer |->
              IF p = NULL THEN <<>> ELSE <<p>> \o g[n - 1][nxt[p]]]
        BY <4>1, <4>2
      <4>4. f[m] = [p \in Pointer |->
              IF p = NULL THEN <<>> ELSE <<p>> \o g[n - 1][nxt[p]]]
        BY <4>1 DEF f
      <4> QED BY <4>3, <4>4
    <3> QED BY <3>1, <3>2
  <2>5. f = h
    <3>1. /\ f = [m \in 0 .. n |-> f[m]]
          /\ h = [m \in 0 .. n |-> h[m]]
      OBVIOUS
    <3> HIDE DEF f, h
    <3> QED BY <3>1, <2>4
  <2>6. Follows(f, nxt, n)
    BY <2>5 DEF Follows
  <2> QED BY <1>1, <2>6
<1> QED BY <1>2, <1>3

(* ... so ChainBy is its value. *)
LEMMA ChainByFollows ==
  ASSUME NEW nxt, Cardinality(Buffers) \in Nat
  PROVE  \E f : /\ Follows(f, nxt, Cardinality(Buffers))
                /\ \A b \in Pointer : ChainBy(nxt, b) = f[Cardinality(Buffers)][b]
<1> DEFINE g == CHOOSE f : Follows(f, nxt, Cardinality(Buffers))
<1>1. Follows(g, nxt, Cardinality(Buffers))
  BY FollowsExists
<1>2. \A b \in Pointer : ChainBy(nxt, b) = g[Cardinality(Buffers)][b]
  BY DEF ChainBy, Follows
<1> QED BY <1>1, <1>2
-----------------------------------------------------------------------------
(* s is the list that begins at p, when the links are nxt. *)
Path(s, p, nxt) ==
  /\ s \in Seq(Buffers)
  /\ \A i, j \in 1 .. Len(s) : s[i] = s[j] => i = j
  /\ p = IF s = <<>> THEN NULL ELSE s[1]
  /\ \A i \in 1 .. Len(s) : nxt[s[i]] = IF i = Len(s) THEN NULL ELSE s[i + 1]

(* The members of a sequence, by position. *)
LEMMA Members ==
  ASSUME NEW S, NEW s \in Seq(S)
  PROVE  \A x : x \in ToSet(s) <=> \E i \in 1 .. Len(s) : s[i] = x
<1>1. DOMAIN s = 1 .. Len(s)
  BY LenProperties
<1> QED BY <1>1 DEF ToSet

(* A list without its first buffer is the list of the next one. *)
LEMMA PathTail ==
  ASSUME NEW s, NEW p, NEW nxt, Path(s, p, nxt), s # <<>>
  PROVE  /\ Path(Tail(s), nxt[p], nxt) /\ s = <<p>> \o Tail(s) /\ p \in Buffers
         /\ p \notin ToSet(Tail(s)) /\ ToSet(s) = {p} \cup ToSet(Tail(s))
<1>p. /\ \A i, j \in 1 .. Len(s) : s[i] = s[j] => i = j
      /\ \A i \in 1 .. Len(s) : nxt[s[i]] = IF i = Len(s) THEN NULL ELSE s[i + 1]
  BY DEF Path
<1>1. /\ s \in Seq(Buffers) /\ p = s[1] /\ Len(s) \in Nat \ {0}
  BY EmptySeq DEF Path
<1> DEFINE t == Tail(s)
<1>2. /\ t \in Seq(Buffers) /\ Len(t) = Len(s) - 1
      /\ \A i \in 1 .. Len(t) : t[i] = s[i + 1]
  BY <1>1, HeadTailProperties
<1>d. /\ \A x : x \in ToSet(t) <=> \E i \in 1 .. Len(t) : t[i] = x
      /\ \A x : x \in ToSet(s) <=> \E i \in 1 .. Len(s) : s[i] = x
  BY <1>1, <1>2, Members
<1> HIDE DEF t
<1>3. \A i, j \in 1 .. Len(t) : t[i] = t[j] => i = j
  <2> TAKE i, j \in 1 .. Len(t)
  <2>1. i + 1 \in 1 .. Len(s) /\ j + 1 \in 1 .. Len(s)  BY <1>1, <1>2
  <2> QED BY <2>1, <1>2, <1>p
<1>4. nxt[p] = IF t = <<>> THEN NULL ELSE t[1]
  <2>1. 1 \in 1 .. Len(s)  BY <1>1
  <2>2. t = <<>> <=> Len(s) = 1  BY <1>1, <1>2
  <2>3. t # <<>> => 1 \in 1 .. Len(t)  BY <1>1, <1>2, <2>2
  <2> QED BY <1>1, <1>2, <1>p, <2>1, <2>2, <2>3
<1>5. \A i \in 1 .. Len(t) : nxt[t[i]] = IF i = Len(t) THEN NULL ELSE t[i + 1]
  <2> TAKE i \in 1 .. Len(t)
  <2>1. i + 1 \in 1 .. Len(s) /\ t[i] = s[i + 1]  BY <1>1, <1>2
  <2>2. i # Len(t) => i + 1 \in 1 .. Len(t)  BY <1>2
  <2> QED BY <1>1, <1>2, <1>p, <2>1, <2>2
<1>6. s = <<p>> \o t
  <2>1. <<p>> \in Seq(Buffers)  BY <1>1
  <2>2. /\ <<p>> \o t \in Seq(Buffers) /\ Len(<<p>> \o t) = Len(s)
        /\ \A i \in 1 .. Len(s) :
             (<<p>> \o t)[i] = IF i <= 1 THEN p ELSE t[i - 1]
    BY <1>1, <1>2, <2>1, ConcatProperties
  <2>3. \A i \in 1 .. Len(s) : (<<p>> \o t)[i] = s[i]
    <3> TAKE i \in 1 .. Len(s)
    <3>1. i > 1 => i - 1 \in 1 .. Len(t)  BY <1>1, <1>2
    <3> QED BY <1>1, <1>2, <2>2, <3>1
  <2> QED BY <1>1, <2>2, <2>3, SeqEqual
<1>7. p \notin ToSet(t)
  <2> SUFFICES ASSUME NEW i \in 1 .. Len(t), t[i] = p PROVE FALSE
    BY <1>d
  <2>1. i + 1 \in 1 .. Len(s) /\ 1 \in 1 .. Len(s) /\ s[i + 1] = s[1]
    BY <1>1, <1>2
  <2> QED BY <2>1, <1>p, <1>1, <1>2
<1>8. ToSet(s) = {p} \cup ToSet(t)
  <2>1. \A i \in 1 .. Len(s) : i = 1 \/ (i - 1 \in 1 .. Len(t) /\ t[i - 1] = s[i])
    BY <1>1, <1>2
  <2>2. \A i \in 1 .. Len(t) : i + 1 \in 1 .. Len(s) /\ t[i] = s[i + 1]
    BY <1>1, <1>2
  <2>3. ToSet(s) \subseteq {p} \cup ToSet(t)
    BY <1>1, <1>d, <2>1
  <2>4. {p} \cup ToSet(t) \subseteq ToSet(s)
    <3>1. p \in ToSet(s)  BY <1>1, <1>d
    <3>2. ToSet(t) \subseteq ToSet(s)  BY <1>d, <2>2
    <3> QED BY <3>1, <3>2
  <2> QED BY <2>3, <2>4
<1>9. Path(t, nxt[p], nxt)
  BY <1>2, <1>3, <1>4, <1>5 DEF Path
<1> QED BY <1>1, <1>6, <1>7, <1>8, <1>9 DEF t

(* A list has each buffer once, so it is no longer than there are buffers. *)
LEMMA PathFits ==
  ASSUME NEW s, NEW p, NEW nxt, Path(s, p, nxt)
  PROVE  Cardinality(Buffers) \in Nat /\ Len(s) \in 0 .. Cardinality(Buffers)
<1>1. IsFiniteSet(Buffers)  BY LogAssumption DEF LogAssumption
<1>2. s \in [1 .. Len(s) -> Buffers] /\ Len(s) \in Nat
  BY LenProperties DEF Path
<1>3. s \in Injection(1 .. Len(s), Buffers)
  BY <1>2 DEF Injection, IsInjective, Path
<1>4. Cardinality(1 .. Len(s)) = Len(s)
  <2> DEFINE n == Len(s)
  <2>1. n \in Nat  BY <1>2
  <2> HIDE DEF n
  <2>2. Cardinality(1 .. n) = n  BY <2>1, FS_Interval
  <2> QED BY <2>2 DEF n
<1> QED BY <1>1, <1>2, <1>3, <1>4, FS_Injection, FS_CardinalityType

(* ChainFrom finds the list. *)
LEMMA ChainIsPath ==
  ASSUME NEW s, NEW p, NEW nxt \in [Buffers -> Pointer], Path(s, p, nxt)
  PROVE  ChainBy(nxt, p) = s
<1> DEFINE N == Cardinality(Buffers)
<1>1. N \in Nat /\ Len(s) \in 0 .. N
  BY PathFits
<1> HIDE DEF N
<1>2. PICK f : Follows(f, nxt, N) /\ \A b \in Pointer : ChainBy(nxt, b) = f[N][b]
  BY <1>1, ChainByFollows DEF N
<1> DEFINE Wrong(n, u, b) == Path(u, b, nxt) /\ Len(u) <= n /\ f[n][b] # u
           T == {n \in 0 .. N : \E u, b : Wrong(n, u, b)}
<1>3. T = {}
  <2> SUFFICES ASSUME T # {} PROVE FALSE
    OBVIOUS
  <2>1. PICK n \in T : \A k \in T : n <= k
    <3>1. T \in SUBSET Nat  BY <1>1
    <3> QED BY <3>1, Least
  <2>2. PICK u, b : Wrong(n, u, b)
    BY <2>1
  <2>3. b \in Pointer
    BY <2>2, PathTail DEF Path, Pointer
  <2>4. f[n][b] = IF n = 0 \/ b = NULL THEN <<>> ELSE <<b>> \o f[n - 1][nxt[b]]
    <3>1. PICK m : m = n /\ m \in 0 .. N
      BY <2>1
    <3> HIDE DEF T
    <3>2. f[m] = [q \in Pointer |-> IF m = 0 \/ q = NULL THEN <<>>
                                    ELSE <<q>> \o f[m - 1][nxt[q]]]
      BY ONLY <1>2, <3>1 DEF Follows
    <3>3. PICK g : g = f[m - 1]
      OBVIOUS
    <3>4. f[m][b] = IF m = 0 \/ b = NULL THEN <<>> ELSE <<b>> \o g[nxt[b]]
      BY ONLY <2>3, <3>2, <3>3
    <3> QED BY <3>1, <3>3, <3>4
  <2>5. CASE u = <<>>
    <3>1. b = NULL  BY <2>2, <2>5 DEF Path
    <3> QED BY <2>2, <2>4, <2>5, <3>1
  <2>6. CASE u # <<>>
    <3>1. /\ Path(Tail(u), nxt[b], nxt) /\ u = <<b>> \o Tail(u) /\ b \in Buffers
      BY <2>2, <2>6, PathTail
    <3>2. Len(u) \in Nat \ {0} /\ Len(Tail(u)) = Len(u) - 1
      BY <2>2, <2>6, EmptySeq, HeadTailProperties DEF Path
    <3>3. n # 0 /\ n - 1 \in 0 .. N /\ Len(Tail(u)) <= n - 1
      BY <1>1, <2>1, <2>2, <3>2
    <3>4. n - 1 \notin T
      BY <2>1, <3>3
    <3>5. f[n - 1][nxt[b]] = Tail(u)
      BY <3>1, <3>3, <3>4
    <3>6. b # NULL
      BY <3>1, LogAssumption DEF LogAssumption
    <3> QED BY <2>2, <2>4, <3>1, <3>3, <3>5, <3>6
  <2> QED BY <2>5, <2>6
<1>4. p \in Pointer
  BY PathTail DEF Path, Pointer
<1>5. f[N][p] = s
  BY <1>1, <1>3
<1> QED BY <1>2, <1>4, <1>5
(* A list depends on the links of its own buffers only. *)
LEMMA PathFrame ==
  ASSUME NEW s, NEW p, NEW nxt, NEW nxt2, Path(s, p, nxt),
         \A b \in ToSet(s) : nxt2[b] = nxt[b]
  PROVE  Path(s, p, nxt2)
<1>1. \A i \in 1 .. Len(s) : s[i] \in ToSet(s)
  BY Members DEF Path
<1> QED BY <1>1 DEF Path

(* A list of one, ... *)
LEMMA PathOne ==
  ASSUME NEW b \in Buffers, NEW nxt, nxt[b] = NULL
  PROVE  /\ Path(<<b>>, b, nxt) /\ ToSet(<<b>>) = {b} /\ Len(<<b>>) = 1
         /\ <<b>>[1] = b /\ <<b>> # <<>>
<1>1. /\ <<b>> \in Seq(Buffers) /\ Len(<<b>>) = 1 /\ <<b>>[1] = b /\ <<b>> # <<>>
  OBVIOUS
<1>2. ToSet(<<b>>) = {b}
  <2> DEFINE v == <<b>>
  <2>1. v \in Seq(Buffers) /\ Len(v) = 1 /\ v[1] = b
    BY <1>1
  <2> HIDE DEF v
  <2>2. \A x : x \in ToSet(v) <=> \E i \in 1 .. 1 : v[i] = x
    BY <2>1, Members
  <2>3. ToSet(v) = {b}
    BY <2>1, <2>2
  <2> QED BY <2>3 DEF v
<1> QED BY <1>1, <1>2 DEF Path

(* ... one more at the end, ... *)
LEMMA PathExtend ==
  ASSUME NEW s, NEW p, NEW nxt, NEW nxt2, Path(s, p, nxt), s # <<>>,
         NEW b \in Buffers, b \notin ToSet(s), nxt2[b] = NULL,
         \A a \in ToSet(s) : nxt2[a] = IF a = s[Len(s)] THEN b ELSE nxt[a]
  PROVE  /\ Path(Append(s, b), p, nxt2) /\ ToSet(Append(s, b)) = ToSet(s) \cup {b}
         /\ Len(Append(s, b)) = Len(s) + 1 /\ Append(s, b)[Len(s) + 1] = b
         /\ Append(s, b) # <<>> /\ \A i \in 1 .. Len(s) : Append(s, b)[i] = s[i]
<1> DEFINE t == Append(s, b)
<1>1. /\ s \in Seq(Buffers) /\ Len(s) \in Nat \ {0} /\ p = s[1]
      /\ \A i, j \in 1 .. Len(s) : s[i] = s[j] => i = j
      /\ \A i \in 1 .. Len(s) : nxt[s[i]] = IF i = Len(s) THEN NULL ELSE s[i + 1]
  BY EmptySeq DEF Path
<1>2. /\ t \in Seq(Buffers) /\ t # <<>> /\ Len(t) = Len(s) + 1
      /\ \A i \in 1 .. Len(s) : t[i] = s[i]
      /\ t[Len(s) + 1] = b
  BY <1>1, AppendProperties
<1> HIDE DEF t
<1>3. /\ \A x : x \in ToSet(s) <=> \E i \in 1 .. Len(s) : s[i] = x
      /\ \A x : x \in ToSet(t) <=> \E i \in 1 .. Len(t) : t[i] = x
  BY <1>1, <1>2, Members
<1>4. \A i, j \in 1 .. Len(t) : t[i] = t[j] => i = j
  <2> TAKE i, j \in 1 .. Len(t)
  <2>1. /\ i \in 1 .. Len(s) \/ i = Len(s) + 1
        /\ j \in 1 .. Len(s) \/ j = Len(s) + 1
    BY <1>1, <1>2
  <2> QED BY <2>1, <1>1, <1>2, <1>3
<1>5. \A i \in 1 .. Len(t) : nxt2[t[i]] = IF i = Len(t) THEN NULL ELSE t[i + 1]
  <2> TAKE i \in 1 .. Len(t)
  <2>1. CASE i = Len(s) + 1
    BY <2>1, <1>2
  <2>2. CASE i = Len(s)
    <3>1. i \in 1 .. Len(s) /\ s[i] \in ToSet(s)  BY <2>2, <1>1, <1>3
    <3> QED BY <3>1, <2>2, <1>1, <1>2
  <2>3. CASE i < Len(s)
    <3>1. /\ i \in 1 .. Len(s) /\ i + 1 \in 1 .. Len(s) /\ s[i] \in ToSet(s)
          /\ Len(s) \in 1 .. Len(s) /\ s[i] # s[Len(s)]
      BY <2>3, <1>1, <1>2, <1>3
    <3>2. t[i] = s[i] /\ t[i + 1] = s[i + 1] /\ i # Len(t)  BY <3>1, <1>1, <1>2
    <3>3. nxt2[s[i]] = nxt[s[i]] /\ nxt[s[i]] = s[i + 1]  BY <3>1, <2>3, <1>1
    <3> QED BY <3>2, <3>3
  <2> QED BY <2>1, <2>2, <2>3, <1>1, <1>2
<1>6. t[1] = p
  <2>1. 1 \in 1 .. Len(s)  BY <1>1
  <2> QED BY <2>1, <1>1, <1>2
<1>7. Path(t, p, nxt2)
  BY <1>2, <1>4, <1>5, <1>6 DEF Path
<1>8. ToSet(t) = ToSet(s) \cup {b}
  <2>1. ASSUME NEW x \in ToSet(t) PROVE x \in ToSet(s) \cup {b}
    <3>1. PICK i \in 1 .. Len(t) : t[i] = x  BY <1>3
    <3>2. i \in 1 .. Len(s) \/ i = Len(s) + 1  BY <1>1, <1>2
    <3> QED BY <3>1, <3>2, <1>2, <1>3
  <2>2. ASSUME NEW x \in ToSet(s) PROVE x \in ToSet(t)
    <3>1. PICK i \in 1 .. Len(s) : s[i] = x  BY <1>3
    <3>2. i \in 1 .. Len(t)  BY <1>1, <1>2
    <3> QED BY <3>1, <3>2, <1>2, <1>3
  <2>3. b \in ToSet(t)
    <3>1. Len(s) + 1 \in 1 .. Len(t)  BY <1>1, <1>2
    <3> QED BY <3>1, <1>2, <1>3
  <2> QED BY <2>1, <2>2, <2>3
<1> QED BY <1>1, <1>2, <1>7, <1>8 DEF t

(* ... and a list cut behind the second. *)
LEMMA PathCut ==
  ASSUME NEW s, NEW p, NEW nxt \in [Buffers -> Pointer], Path(s, p, nxt), Len(s) >= 2
  PROVE  LET q == nxt[p]
             u == Tail(Tail(s))
             nxt2 == [nxt EXCEPT ![q] = NULL]
         IN  /\ p \in Buffers /\ q \in Buffers
             /\ s = <<p, q>> \o u /\ s[1] = p /\ s[2] = q
             /\ Path(<<p, q>>, p, nxt2) /\ Path(u, nxt[q], nxt2)
             /\ ToSet(<<p, q>>) = {p, q} /\ ToSet(s) = {p, q} \cup ToSet(u)
<1> DEFINE q == nxt[p]
           t == Tail(s)
           u == Tail(t)
           nxt2 == [nxt EXCEPT ![q] = NULL]
<1>1. s \in Seq(Buffers) /\ s # <<>> /\ p = s[1] /\ Len(s) \in Nat /\ Len(s) >= 2
  BY EmptySeq DEF Path
<1>2. /\ Path(t, q, nxt) /\ s = <<p>> \o t /\ p \in Buffers
      /\ p \notin ToSet(t) /\ ToSet(s) = {p} \cup ToSet(t)
  BY <1>1, PathTail
<1>3. t \in Seq(Buffers) /\ Len(t) = Len(s) - 1 /\ t # <<>> /\ t[1] = s[2]
  <2>1. /\ t \in Seq(Buffers) /\ Len(t) = Len(s) - 1
        /\ \A i \in 1 .. Len(t) : t[i] = s[i + 1]
    BY <1>1, HeadTailProperties
  <2>2. 1 \in 1 .. Len(t)
    BY <2>1, <1>1
  <2> HIDE DEF t
  <2>3. t # <<>>
    BY <2>1, <1>1
  <2> QED BY <2>1, <2>2, <2>3
<1> HIDE DEF t
<1>q. q = t[1]
  BY <1>2, <1>3 DEF Path
<1>4. /\ Path(u, nxt[q], nxt) /\ t = <<q>> \o u /\ q \in Buffers
      /\ q \notin ToSet(u) /\ ToSet(t) = {q} \cup ToSet(u) /\ q = t[1]
  BY <1>2, <1>3, <1>q, PathTail
<1> HIDE DEF q, u
<1>5. s = <<p, q>> \o u
  <2>1. u \in Seq(Buffers) /\ <<p>> \in Seq(Buffers) /\ <<q>> \in Seq(Buffers)
    BY <1>2, <1>4 DEF Path
  <2>2. <<p>> \o (<<q>> \o u) = (<<p>> \o <<q>>) \o u
    BY <2>1, ConcatAssociative
  <2>3. <<p>> \o <<q>> = <<p, q>>
    <3>1. /\ <<p, q>> \in Seq(Buffers) /\ Len(<<p, q>>) = 2
          /\ <<p, q>>[1] = p /\ <<p, q>>[2] = q
      BY <1>2, <1>4
    <3>2. /\ <<p>> \o <<q>> \in Seq(Buffers) /\ Len(<<p>> \o <<q>>) = 2
          /\ (<<p>> \o <<q>>)[1] = p /\ (<<p>> \o <<q>>)[2] = q
      BY <2>1, ConcatProperties
    <3>3. \A i \in 1 .. 2 : (<<p>> \o <<q>>)[i] = <<p, q>>[i]
      <4>1. \A i \in 1 .. 2 : i = 1 \/ i = 2  OBVIOUS
      <4> QED BY <3>1, <3>2, <4>1
    <3> QED BY <3>1, <3>2, <3>3, SeqEqual
  <2> QED BY <1>2, <1>4, <2>2, <2>3
<1>6. Path(u, nxt[q], nxt2)
  <2>1. \A b \in ToSet(u) : nxt2[b] = nxt[b]
    <3>1. \A b \in ToSet(u) : b \in Buffers
      BY <1>4, Members, ElementOfSeq DEF Path
    <3> QED BY <3>1, <1>4
  <2> HIDE DEF nxt2
  <2> QED BY <1>4, <2>1, PathFrame
<1>7. p # q
  BY <1>2, <1>4
<1>8. <<p, q>> \in Seq(Buffers) /\ Len(<<p, q>>) = 2 /\ <<p, q>>[1] = p
      /\ <<p, q>>[2] = q /\ <<p, q>> # <<>>
  BY <1>2, <1>4
<1>9. nxt2[p] = q /\ nxt2[q] = NULL
  BY <1>2, <1>4, <1>7 DEF q
<1>10. Path(<<p, q>>, p, nxt2)
  <2> DEFINE v == <<p, q>>
  <2>1. v \in Seq(Buffers) /\ Len(v) = 2 /\ v[1] = p /\ v[2] = q /\ v # <<>>
    BY <1>8
  <2> HIDE DEF v, nxt2
  <2>2. Path(v, p, nxt2)
    BY <2>1, <1>7, <1>9 DEF Path
  <2> QED BY <2>2 DEF v
<1>11. ToSet(<<p, q>>) = {p, q}
  <2> DEFINE v == <<p, q>>
  <2>1. v \in Seq(Buffers) /\ Len(v) = 2 /\ v[1] = p /\ v[2] = q
    BY <1>8
  <2> HIDE DEF v
  <2>2. \A x : x \in ToSet(v) <=> \E i \in 1 .. 2 : v[i] = x
    BY <2>1, Members
  <2>3. \A i \in 1 .. 2 : i = 1 \/ i = 2  OBVIOUS
  <2>4. ToSet(v) = {p, q}
    BY <2>1, <2>2, <2>3
  <2> QED BY <2>4 DEF v
<1> QED BY <1>1, <1>2, <1>3, <1>4, <1>5, <1>6, <1>10, <1>11 DEF q, u, t
-----------------------------------------------------------------------------
(* FlattenSeq, one more at the end. *)
Flattens(f, q, n) ==
  f = [i \in 1 .. n |-> IF i = 1 THEN q[i] ELSE f[i - 1] \o q[i]]

(* The recursive function in FlattenSeq exists, ... *)
LEMMA FlattensExists ==
  ASSUME NEW q, NEW N \in Nat
  PROVE  \E f : Flattens(f, q, N)
<1> DEFINE T == {n \in Nat : ~ \E f : Flattens(f, q, n)}
<1> SUFFICES ASSUME T # {} PROVE FALSE
  OBVIOUS
<1>1. PICK n \in T : \A k \in T : n <= k
  BY Least
<1>2. CASE n = 0
  <2> DEFINE f == [i \in 1 .. 0 |-> {}]
  <2>1. Flattens(f, q, 0)
    BY DEF Flattens
  <2> QED BY <1>1, <1>2, <2>1
<1>3. CASE n # 0
  <2>1. n - 1 \in Nat /\ n - 1 \notin T
    BY <1>1, <1>3
  <2>2. PICK g : Flattens(g, q, n - 1)
    BY <2>1
  <2> DEFINE f == [i \in 1 .. n |-> IF i < n THEN g[i]
                                    ELSE IF i = 1 THEN q[i] ELSE g[i - 1] \o q[i]]
             h == [i \in 1 .. n |-> IF i = 1 THEN q[i] ELSE f[i - 1] \o q[i]]
  <2>3. \A i \in 1 .. n - 1 : g[i] = IF i = 1 THEN q[i] ELSE g[i - 1] \o q[i]
    BY <2>2 DEF Flattens
  <2>4. ASSUME NEW i \in 1 .. n PROVE f[i] = h[i]
    <3>1. i # 1 => i - 1 \in 1 .. n /\ i - 1 < n
      BY <1>1
    <3>2. i # 1 => f[i - 1] = g[i - 1]
      BY <3>1
    <3>3. h[i] = IF i = 1 THEN q[i] ELSE g[i - 1] \o q[i]
      BY <3>2
    <3>4. i < n => i \in 1 .. n - 1
      BY <1>1
    <3> QED BY <3>3, <3>4, <2>3
  <2>5. f = h
    <3>1. /\ f = [i \in 1 .. n |-> f[i]]
          /\ h = [i \in 1 .. n |-> h[i]]
      OBVIOUS
    <3> HIDE DEF f, h
    <3> QED BY <3>1, <2>4
  <2>6. Flattens(f, q, n)
    BY <2>5 DEF Flattens
  <2> QED BY <1>1, <2>6
<1> QED BY <1>2, <1>3

(* ... so FlattenSeq is its value, ... *)
LEMMA FlattenFollows ==
  ASSUME NEW S, NEW q \in Seq(Seq(S))
  PROVE  \E f : /\ Flattens(f, q, Len(q))
                /\ FlattenSeq(q) = IF Len(q) = 0 THEN <<>> ELSE f[Len(q)]
                /\ \A i \in 1 .. Len(q) : f[i] \in Seq(S)
<1> DEFINE f == CHOOSE f : Flattens(f, q, Len(q))
           n == Len(q)
<1>1. n \in Nat /\ \A i \in 1 .. n : q[i] \in Seq(S)
  BY ElementOfSeq
<1>2. Flattens(f, q, n)
  BY <1>1, FlattensExists
<1>3. FlattenSeq(q) = IF n = 0 THEN <<>> ELSE f[n]
  <2>1. n = 0 => q = <<>>  BY EmptySeq
  <2> QED BY <2>1 DEF FlattenSeq, Flattens
<1> HIDE DEF f, n
<1> DEFINE T == {i \in 1 .. n : f[i] \notin Seq(S)}
<1>4. T = {}
  <2> SUFFICES ASSUME T # {} PROVE FALSE
    OBVIOUS
  <2>1. PICK i \in T : \A k \in T : i <= k
    <3>1. T \in SUBSET Nat  BY <1>1
    <3> QED BY <3>1, Least
  <2>2. f[i] = IF i = 1 THEN q[i] ELSE f[i - 1] \o q[i]
    BY <1>2, <2>1 DEF Flattens
  <2>3. i # 1 => i - 1 \in 1 .. n /\ i - 1 \notin T
    BY <1>1, <2>1
  <2>4. i # 1 => f[i - 1] \in Seq(S)
    BY <2>3
  <2>5. q[i] \in Seq(S)
    BY <1>1, <2>1
  <2>6. f[i] \in Seq(S)
    BY <2>2, <2>4, <2>5, ConcatProperties
  <2> QED BY <2>1, <2>6
<1> QED BY <1>1, <1>2, <1>3, <1>4 DEF n

(* ... and what comes last in the sequence comes last in the result. *)
LEMMA FlattenAppend ==
  ASSUME NEW S, NEW q \in Seq(Seq(S)), NEW e \in Seq(S)
  PROVE  /\ FlattenSeq(Append(q, e)) = FlattenSeq(q) \o e
         /\ FlattenSeq(q) \in Seq(S) /\ FlattenSeq(Append(q, e)) \in Seq(S)
<1> DEFINE r == Append(q, e)
           n == Len(q)
<1>1. /\ r \in Seq(Seq(S)) /\ Len(r) = n + 1 /\ n \in Nat
      /\ \A i \in 1 .. n : r[i] = q[i]
      /\ r[n + 1] = e
  BY AppendProperties, LenProperties
<1> HIDE DEF r
<1>2. PICK f : /\ Flattens(f, q, n)
               /\ FlattenSeq(q) = IF n = 0 THEN <<>> ELSE f[n]
               /\ \A i \in 1 .. n : f[i] \in Seq(S)
  BY FlattenFollows
<1>3. PICK g : /\ Flattens(g, r, n + 1)
               /\ FlattenSeq(r) = IF n + 1 = 0 THEN <<>> ELSE g[n + 1]
               /\ \A i \in 1 .. n + 1 : g[i] \in Seq(S)
  BY <1>1, FlattenFollows, ZenonT(30)
<1> HIDE DEF n
<1> DEFINE T == {i \in 1 .. n : f[i] # g[i]}
<1>4. T = {}
  <2> SUFFICES ASSUME T # {} PROVE FALSE
    OBVIOUS
  <2>1. PICK i \in T : \A k \in T : i <= k
    <3>1. T \in SUBSET Nat  BY <1>1
    <3> QED BY <3>1, Least
  <2>2. f[i] = IF i = 1 THEN q[i] ELSE f[i - 1] \o q[i]
    BY <1>2, <2>1 DEF Flattens
  <2>3. i \in 1 .. n + 1
    BY <1>1, <2>1
  <2>4. g[i] = IF i = 1 THEN r[i] ELSE g[i - 1] \o r[i]
    BY <1>3, <2>3 DEF Flattens
  <2>5. i # 1 => f[i - 1] = g[i - 1]
    <3>1. i # 1 => i - 1 \in 1 .. n /\ i - 1 \notin T
      BY <1>1, <2>1
    <3> QED BY <3>1
  <2> QED BY <1>1, <2>1, <2>2, <2>4, <2>5
<1>5. g[n + 1] = IF n = 0 THEN e ELSE f[n] \o e
  <2>1. n + 1 \in 1 .. n + 1 /\ n + 1 - 1 = n /\ (n + 1 = 1 <=> n = 0)
    BY <1>1
  <2>2. g[n + 1] = IF n = 0 THEN e ELSE g[n] \o e
    <3>1. \A i \in 1 .. n + 1 : g[i] = IF i = 1 THEN r[i] ELSE g[i - 1] \o r[i]
      BY <1>3 DEF Flattens
    <3>2. PICK m : m = n + 1
      OBVIOUS
    <3>3. g[m] = IF m = 1 THEN r[m] ELSE g[m - 1] \o r[m]
      BY <2>1, <3>1, <3>2
    <3> QED BY <3>2, <3>3, <2>1, <1>1
  <2>3. n # 0 => n \in 1 .. n
    BY <1>1
  <2> QED BY <2>2, <2>3, <1>4
<1>6. FlattenSeq(r) = IF n = 0 THEN e ELSE f[n] \o e
  BY <1>1, <1>3, <1>5
<1>7. FlattenSeq(q) \in Seq(S)
  <2>1. n # 0 => n \in 1 .. n
    BY <1>1
  <2> QED BY <1>2, <2>1, EmptySeq
<1>8. FlattenSeq(r) = FlattenSeq(q) \o e
  BY <1>2, <1>6, ConcatEmptySeq
<1>9. FlattenSeq(r) \in Seq(S)
  BY <1>7, <1>8, ConcatProperties
<1> QED BY <1>7, <1>8, <1>9 DEF r
-----------------------------------------------------------------------------
(* The lines in a list of buffers: Lines for any contents d. *)
Contents(d, s) == [i \in DOMAIN s |-> d[s[i]]]
LinesIn(d, s) == FlattenSeq(Contents(d, s))

(* Intervals from 1 tell their ends apart. *)
LEMMA SameBound ==
  ASSUME NEW m \in Nat, NEW n \in Nat, 1 .. m = 1 .. n
  PROVE  m = n
<1>1. CASE m < n
  <2>1. n \in 1 .. n /\ n \notin 1 .. m  BY <1>1
  <2> QED BY <2>1
<1>2. CASE n < m
  <2>1. m \in 1 .. m /\ m \notin 1 .. n  BY <1>2
  <2> QED BY <2>1
<1> QED BY <1>1, <1>2

(* The contents of a list of buffers are a sequence of sequences. *)
LEMMA ContentsSeq ==
  ASSUME NEW d \in [Buffers -> Seq(Nat)], NEW s \in Seq(Buffers)
  PROVE  /\ Contents(d, s) \in Seq(Seq(Nat)) /\ Len(Contents(d, s)) = Len(s)
         /\ \A i \in 1 .. Len(s) : Contents(d, s)[i] = d[s[i]]
<1> DEFINE n == Len(s)
           c == Contents(d, s)
<1>1. n \in Nat /\ DOMAIN s = 1 .. n /\ \A i \in 1 .. n : s[i] \in Buffers
  BY LenProperties, ElementOfSeq
<1> HIDE DEF n
<1>2. c = [i \in 1 .. n |-> d[s[i]]]
  BY <1>1 DEF Contents
<1> HIDE DEF c
<1>3. c \in [1 .. n -> Seq(Nat)]
  BY <1>1, <1>2
<1>4. c \in Seq(Seq(Nat))
  BY <1>1, <1>3, SeqDef
<1>5. Len(c) = n
  <2>1. DOMAIN c = 1 .. Len(c) /\ DOMAIN c = 1 .. n /\ Len(c) \in Nat
    BY <1>3, <1>4, LenProperties
  <2>2. 1 .. Len(c) = 1 .. n
    BY <2>1
  <2> QED BY <2>1, <2>2, <1>1, SameBound
<1>6. \A i \in 1 .. n : c[i] = d[s[i]]
  BY <1>2
<1> QED BY <1>4, <1>5, <1>6 DEF c, n

(* No buffers have no lines, ... *)
LEMMA LinesEmpty == \A d : LinesIn(d, <<>>) = <<>>
<1> TAKE d
<1> DEFINE c == Contents(d, <<>>)
<1>1. c = <<>>
  BY DEF Contents
<1> HIDE DEF c
<1>2. Len(c) = 0
  BY <1>1
<1>3. FlattenSeq(c) = c
  BY <1>2 DEF FlattenSeq
<1> QED BY <1>1, <1>3 DEF LinesIn, c

(* ... one buffer more has its lines at the end, ... *)
LEMMA LinesAppend ==
  ASSUME NEW d \in [Buffers -> Seq(Nat)], NEW s \in Seq(Buffers), NEW b \in Buffers
  PROVE  /\ LinesIn(d, Append(s, b)) = LinesIn(d, s) \o d[b]
         /\ LinesIn(d, s) \in Seq(Nat)
<1> DEFINE t == Append(s, b)
<1>1. /\ t \in Seq(Buffers) /\ Len(t) = Len(s) + 1 /\ Len(s) \in Nat
      /\ \A i \in 1 .. Len(s) : t[i] = s[i]
      /\ t[Len(s) + 1] = b
  BY AppendProperties, LenProperties
<1> HIDE DEF t
<1> DEFINE c == Contents(d, s)
           e == Contents(d, t)
<1>2. /\ c \in Seq(Seq(Nat)) /\ Len(c) = Len(s)
      /\ \A i \in 1 .. Len(s) : c[i] = d[s[i]]
  BY ContentsSeq
<1>3. /\ e \in Seq(Seq(Nat)) /\ Len(e) = Len(t)
      /\ \A i \in 1 .. Len(t) : e[i] = d[t[i]]
  BY <1>1, ContentsSeq
<1> HIDE DEF c, e
<1>4. d[b] \in Seq(Nat)
  OBVIOUS
<1>5. e = Append(c, d[b])
  <2> DEFINE a == Append(c, d[b])
  <2>1. /\ a \in Seq(Seq(Nat)) /\ Len(a) = Len(c) + 1
        /\ \A i \in 1 .. Len(c) : a[i] = c[i]
        /\ a[Len(c) + 1] = d[b]
    BY <1>2, <1>4, AppendProperties
  <2> HIDE DEF a
  <2>2. \A i \in 1 .. Len(e) : e[i] = a[i]
    <3> TAKE i \in 1 .. Len(e)
    <3>1. i \in 1 .. Len(s) \/ i = Len(s) + 1
      BY <1>1, <1>3
    <3> QED BY <3>1, <2>1, <1>1, <1>2, <1>3
  <2> QED BY <2>1, <2>2, <1>1, <1>2, <1>3, SeqEqual DEF a
<1> QED BY <1>2, <1>4, <1>5, FlattenAppend DEF LinesIn, c, e, t

(* ... and the lines of a list are a sequence of numbers. *)
LEMMA LinesType ==
  ASSUME NEW d \in [Buffers -> Seq(Nat)], NEW s \in Seq(Buffers)
  PROVE  LinesIn(d, s) \in Seq(Nat)
<1>1. Buffers # {}
  BY FourBuffers
<1> QED BY <1>1, LinesAppend

(* The provers find associativity for these two kinds of sequences only    *)
(* when it is stated for them.                                             *)
LEMMA Assoc ==
  ASSUME NEW S, NEW x \in Seq(S), NEW y \in Seq(S), NEW z \in Seq(S)
  PROVE  x \o (y \o z) = (x \o y) \o z
BY ConcatAssociative, SMTT(30)

(* For lines, ... *)
LEMMA AssocLines ==
  ASSUME NEW x \in Seq(Nat), NEW y \in Seq(Nat), NEW z \in Seq(Nat)
  PROVE  x \o (y \o z) = (x \o y) \o z
BY Assoc, SMT

(* ... and for buffers. *)
LEMMA AssocBuffers ==
  ASSUME NEW x \in Seq(Buffers), NEW y \in Seq(Buffers), NEW z \in Seq(Buffers)
  PROVE  x \o (y \o z) = (x \o y) \o z
BY Assoc, SMT

(* A list of buffers goes on at its end. *)
LEMMA AppendBuffers ==
  ASSUME NEW s \in Seq(Buffers), NEW v \in Seq(Buffers), NEW b \in Buffers
  PROVE  s \o Append(v, b) = Append(s \o v, b)
<1> DEFINE w == <<b>>
<1>1. s \in Seq(Buffers) /\ v \in Seq(Buffers) /\ w \in Seq(Buffers)
  OBVIOUS
<1>2. s \o v \in Seq(Buffers)
  BY ConcatProperties
<1>3. Append(s \o v, b) = (s \o v) \o w /\ Append(v, b) = v \o w
  BY <1>1, <1>2, AppendIsConcat
<1> HIDE DEF w
<1>4. s \o (v \o w) = (s \o v) \o w
  BY ONLY <1>1, AssocBuffers, SMTT(30)
<1> QED BY <1>3, <1>4

(* The lines of a list are those of its parts. *)
LEMMA LinesConcat ==
  ASSUME NEW d \in [Buffers -> Seq(Nat)],
         NEW s \in Seq(Buffers), NEW t \in Seq(Buffers)
  PROVE  LinesIn(d, s \o t) = LinesIn(d, s) \o LinesIn(d, t)
<1> DEFINE Wrong(u) == LinesIn(d, s \o u) # LinesIn(d, s) \o LinesIn(d, u)
           T == {n \in Nat : \E u \in Seq(Buffers) : Len(u) = n /\ Wrong(u)}
<1>1. T = {}
  <2> SUFFICES ASSUME T # {} PROVE FALSE
    OBVIOUS
  <2>1. PICK n \in T : \A k \in T : n <= k
    BY Least
  <2>2. PICK u \in Seq(Buffers) : Len(u) = n /\ Wrong(u)
    BY <2>1
  <2>3. CASE u = <<>>
    <3>1. s \o u = s /\ LinesIn(d, u) = <<>>
      BY <2>3, ConcatEmptySeq, LinesEmpty
    <3>2. LinesIn(d, s) \o <<>> = LinesIn(d, s)
      BY LinesType, ConcatEmptySeq
    <3> QED BY <2>2, <3>1, <3>2
  <2>4. CASE u # <<>>
    <3>1. PICK v \in Seq(Buffers), b \in Buffers : u = Append(v, b)
      BY <2>4, SequenceEmptyOrAppend
    <3>2. Len(v) \in Nat /\ Len(u) = Len(v) + 1
      BY <3>1, AppendProperties, LenProperties
    <3>3. Len(v) \notin T
      <4>1. n = Len(v) + 1
        BY <2>2, <3>2
      <4> HIDE DEF T
      <4>2. Len(v) \in T => n <= Len(v)
        BY <2>1
      <4> QED BY <4>1, <4>2, <3>2
    <3>4. LinesIn(d, s \o v) = LinesIn(d, s) \o LinesIn(d, v)
      BY <3>2, <3>3
    <3>5. s \o u = Append(s \o v, b) /\ s \o v \in Seq(Buffers)
      <4>1. s \o Append(v, b) = Append(s \o v, b)
        BY AppendBuffers
      <4> QED BY <3>1, <4>1, ConcatProperties
    <3>6. LinesIn(d, s \o u) = (LinesIn(d, s) \o LinesIn(d, v)) \o d[b]
      BY <3>4, <3>5, LinesAppend
    <3>7. LinesIn(d, u) = LinesIn(d, v) \o d[b]
      BY <3>1, LinesAppend
    <3>8. LinesIn(d, s) \o (LinesIn(d, v) \o d[b]) = (LinesIn(d, s) \o LinesIn(d, v)) \o d[b]
      <4>1. LinesIn(d, s) \in Seq(Nat) /\ LinesIn(d, v) \in Seq(Nat) /\ d[b] \in Seq(Nat)
        BY LinesType
      <4> QED BY <4>1, AssocLines
    <3> QED BY <2>2, <3>6, <3>7, <3>8
  <2> QED BY <2>3, <2>4
<1> HIDE DEF Wrong
<1>2. Len(t) \in Nat
  BY LenProperties
<1>3. ~ Wrong(t)
  BY <1>1, <1>2
<1> QED BY <1>3 DEF Wrong

(* The lines of one buffer, ... *)
LEMMA LinesOne ==
  ASSUME NEW d \in [Buffers -> Seq(Nat)], NEW b \in Buffers
  PROVE  LinesIn(d, <<b>>) = d[b]
<1>1. <<>> \in Seq(Buffers) /\ Append(<<>>, b) = <<b>>
  OBVIOUS
<1>2. LinesIn(d, <<b>>) = <<>> \o d[b]
  BY <1>1, LinesAppend, LinesEmpty
<1> QED BY <1>2, ConcatEmptySeq

(* ... and of a list by its first. *)
LEMMA LinesFirst ==
  ASSUME NEW d \in [Buffers -> Seq(Nat)], NEW b \in Buffers, NEW t \in Seq(Buffers)
  PROVE  LinesIn(d, <<b>> \o t) = d[b] \o LinesIn(d, t)
<1>1. <<b>> \in Seq(Buffers)
  OBVIOUS
<1> QED BY <1>1, LinesConcat, LinesOne

(* They depend on the buffers of the list only. *)
LEMMA LinesSame ==
  ASSUME NEW d, NEW e, NEW s \in Seq(Buffers), \A b \in ToSet(s) : e[b] = d[b]
  PROVE  LinesIn(e, s) = LinesIn(d, s)
<1>1. \A i \in DOMAIN s : e[s[i]] = d[s[i]]
  BY DEF ToSet
<1>2. Contents(e, s) = Contents(d, s)
  BY <1>1 DEF Contents
<1> QED BY <1>2 DEF LinesIn

(* Every buffer of the list has at least k lines. *)
LEMMA LinesMany ==
  ASSUME NEW d \in [Buffers -> Seq(Nat)], NEW s \in Seq(Buffers), NEW k \in Nat,
         \A i \in 1 .. Len(s) : Len(d[s[i]]) >= k
  PROVE  Len(LinesIn(d, s)) >= Len(s) * k
<1> DEFINE Few(u) == /\ \A i \in 1 .. Len(u) : Len(d[u[i]]) >= k
                     /\ ~ (Len(LinesIn(d, u)) >= Len(u) * k)
           T == {n \in Nat : \E u \in Seq(Buffers) : Len(u) = n /\ Few(u)}
<1>1. T = {}
  <2> SUFFICES ASSUME T # {} PROVE FALSE
    OBVIOUS
  <2>1. PICK n \in T : \A m \in T : n <= m
    BY Least
  <2>2. PICK u \in Seq(Buffers) : Len(u) = n /\ Few(u)
    BY <2>1
  <2>3. CASE u = <<>>
    <3>1. LinesIn(d, u) = <<>> /\ Len(u) = 0
      BY <2>3, LinesEmpty
    <3>2. Len(LinesIn(d, u)) = 0 /\ Len(u) * k = 0
      BY <3>1
    <3> QED BY <2>2, <3>2
  <2>4. CASE u # <<>>
    <3>1. PICK v \in Seq(Buffers), b \in Buffers : u = Append(v, b)
      BY <2>4, SequenceEmptyOrAppend
    <3>2. /\ Len(v) \in Nat /\ Len(u) = Len(v) + 1
          /\ \A i \in 1 .. Len(v) : u[i] = v[i]
          /\ u[Len(v) + 1] = b
      BY <3>1, AppendProperties, LenProperties
    <3>3. Len(v) \notin T
      <4>1. n = Len(v) + 1
        BY <2>2, <3>2
      <4> HIDE DEF T
      <4>2. Len(v) \in T => n <= Len(v)
        BY <2>1
      <4> QED BY <4>1, <4>2, <3>2
    <3>4. \A i \in 1 .. Len(v) : Len(d[v[i]]) >= k
      <4> TAKE i \in 1 .. Len(v)
      <4>1. i \in 1 .. Len(u)  BY <3>2
      <4> QED BY <4>1, <3>2, <2>2
    <3>5. Len(LinesIn(d, v)) >= Len(v) * k
      BY <3>2, <3>3, <3>4
    <3>6. Len(d[b]) >= k
      <4>1. Len(v) + 1 \in 1 .. Len(u)  BY <3>2
      <4> QED BY <4>1, <3>2, <2>2
    <3>7. Len(LinesIn(d, u)) = Len(LinesIn(d, v)) + Len(d[b])
      <4>1. LinesIn(d, u) = LinesIn(d, v) \o d[b]
        BY <3>1, LinesAppend
      <4>2. LinesIn(d, v) \in Seq(Nat) /\ d[b] \in Seq(Nat)
        BY LinesType
      <4> QED BY <4>1, <4>2, ConcatProperties
    <3>8. Len(LinesIn(d, v)) \in Nat /\ Len(d[b]) \in Nat
      BY LinesType, LenProperties
    <3> DEFINE lv == Len(LinesIn(d, v))
               lb == Len(d[b])
               m == Len(v)
    <3>9. lv + lb >= (m + 1) * k
      <4>1. lv \in Nat /\ lb \in Nat /\ m \in Nat /\ lv >= m * k /\ lb >= k
        BY <3>2, <3>5, <3>6, <3>8
      <4> HIDE DEF lv, lb, m
      <4>2. (m + 1) * k = m * k + k
        BY <4>1
      <4>3. m * k \in Nat
        BY <4>1
      <4> QED BY <4>1, <4>2, <4>3
    <3> QED BY <2>2, <3>2, <3>7, <3>9
  <2> QED BY <2>3, <2>4
<1> HIDE DEF Few
<1>2. Len(s) \in Nat
  BY LenProperties
<1>3. ~ Few(s)
  BY <1>1, <1>2
<1> QED BY <1>3 DEF Few
-----------------------------------------------------------------------------
(* The inductive invariant: the list of inst is s, the worker has the list *)
(* t and behind node the list u, and nobody has anything else.             *)
Full(b) == Len(data[b]) = LogBufferSize - 1

FrontIs(s) ==
  /\ Path(s, IF head = NULL THEN curr_buffer ELSE head, next)
  /\ s # <<>> /\ s[Len(s)] = curr_buffer /\ Len(s) = size + 1
  /\ \A b \in Buffers : owner[b] = "front" <=> b \in ToSet(s) \/ b = next_buffer
  /\ \A i \in 1 .. size : Full(s[i])
  /\ Len(data[curr_buffer]) < LogBufferSize

BackIs(t, u) ==
  /\ Path(t, whead, next)
  /\ Path(u, IF pc \in {"dropping", "write"} THEN node ELSE NULL, next)
  /\ \A b \in ToSet(u) : owner[b] = "back"
  /\ \A b \in Buffers : owner[b] = "back" <=>
       \/ b \in ToSet(t) \/ b = new_buffer1 \/ b = new_buffer2
       \/ pc = "dropping" /\ b \in ToSet(u)
  /\ pc \in {"notice", "drop"} =>
       Len(t) = wsize /\ wsize > MaxKept /\ \A i \in 1 .. wsize - 1 : Full(t[i])
  /\ pc = "dropping" => Len(t) = 2 /\ Full(t[1]) /\ Full(t[2])

Clean ==
  /\ \A b \in Buffers : owner[b] = "free" => data[b] = <<>>
  /\ next_buffer # NULL => data[next_buffer] = <<>>

QueueInv == IndInv /\ Clean /\ \E s, t, u : FrontIs(s) /\ BackIs(t, u)

(* The lines on their way. *)
Shedding == pc \in {"notice", "drop", "dropping"}
Held(t, u) == IF Shedding THEN t \o u ELSE u
PendingOf(s, t, u) == LinesIn(data, Held(t, u)) \o LinesIn(data, s)

-----------------------------------------------------------------------------
(* The buffers of a list are buffers, and it is empty where the pointer is *)
(* nil.                                                                    *)
LEMMA PathTypes ==
  ASSUME NEW s, NEW p, NEW nxt, Path(s, p, nxt)
  PROVE  /\ s \in Seq(Buffers) /\ ToSet(s) \subseteq Buffers /\ Len(s) \in Nat
         /\ \A i \in 1 .. Len(s) : s[i] \in Buffers /\ s[i] \in ToSet(s)
         /\ p = NULL <=> s = <<>>
         /\ p # NULL => p \in ToSet(s)
<1>1. s \in Seq(Buffers) /\ NULL \notin Buffers
  BY LogAssumption DEF Path, LogAssumption
<1>2. \A i \in 1 .. Len(s) : s[i] \in Buffers
  BY <1>1, ElementOfSeq
<1>3. \A x : x \in ToSet(s) <=> \E i \in 1 .. Len(s) : s[i] = x
  BY <1>1, Members
<1>4. Len(s) \in Nat /\ (s # <<>> => 1 \in 1 .. Len(s))
  <2>1. s # <<>> => Len(s) \in Nat \ {0}
    BY <1>1, EmptySeq
  <2> QED BY <1>1, <2>1, LenProperties
<1>5. p = IF s = <<>> THEN NULL ELSE s[1]
  BY DEF Path
<1> QED BY <1>1, <1>2, <1>3, <1>4, <1>5

(* A buffer that no link leads to is in no list but its own. *)
LEMMA NotInPath ==
  ASSUME NEW s, NEW p, NEW nxt, Path(s, p, nxt), NEW b \in Buffers, b # p,
         \A a \in Buffers : nxt[a] # b
  PROVE  b \notin ToSet(s)
<1> SUFFICES ASSUME b \in ToSet(s) PROVE FALSE
  OBVIOUS
<1>1. PICK i \in 1 .. Len(s) : s[i] = b
  BY Members DEF Path
<1>2. CASE i = 1
  <2>1. s # <<>>
    BY <1>1
  <2> QED BY <1>1, <1>2, <2>1 DEF Path
<1>3. CASE i # 1
  <2>1. i - 1 \in 1 .. Len(s) /\ i - 1 # Len(s) /\ i - 1 + 1 = i
    BY <1>1, <1>3, PathTypes
  <2>2. nxt[s[i - 1]] = s[i] /\ s[i - 1] \in Buffers
    <3>1. nxt[s[i - 1]] = IF i - 1 = Len(s) THEN NULL ELSE s[i - 1 + 1]
      BY <2>1 DEF Path
    <3> QED BY <2>1, <3>1, PathTypes
  <2> QED BY <1>1, <2>2
<1> QED BY <1>2, <1>3

(* The list at a nil pointer. *)
LEMMA EmptyPath ==
  \A nxt : Path(<<>>, NULL, nxt)
BY DEF Path

(* The empty list has no members. *)
LEMMA NoMembers == ToSet(<<>>) = {}
BY DEF ToSet

(* Without its last buffer. *)
LEMMA AllButLast ==
  ASSUME NEW s, NEW p, NEW nxt, Path(s, p, nxt), s # <<>>
  PROVE  \E v \in Seq(Buffers) :
           /\ s = Append(v, s[Len(s)]) /\ Len(s) = Len(v) + 1 /\ s[Len(s)] \in Buffers
           /\ \A i \in 1 .. Len(v) : v[i] = s[i]
           /\ s[Len(s)] \notin ToSet(v) /\ ToSet(v) \subseteq ToSet(s)
<1>1. s \in Seq(Buffers)
  BY DEF Path
<1>2. PICK v \in Seq(Buffers), b \in Buffers : s = Append(v, b)
  BY <1>1, SequenceEmptyOrAppend
<1>3. /\ Len(s) = Len(v) + 1 /\ Len(v) \in Nat /\ s[Len(v) + 1] = b
      /\ \A i \in 1 .. Len(v) : v[i] = s[i]
  BY <1>2, AppendProperties, LenProperties
<1>4. \A i \in 1 .. Len(v) : i \in 1 .. Len(s) /\ i # Len(s) /\ v[i] = s[i]
  BY <1>3
<1>5. s[Len(s)] = b /\ Len(s) \in 1 .. Len(s)
  BY <1>3
<1>6. b \notin ToSet(v)
  <2> SUFFICES ASSUME NEW i \in 1 .. Len(v), v[i] = b PROVE FALSE
    BY Members
  <2> QED BY <1>4, <1>5 DEF Path
<1>7. ToSet(v) \subseteq ToSet(s)
  <2>1. \A i \in 1 .. Len(v) : v[i] \in ToSet(s)
    BY <1>4, PathTypes
  <2> QED BY <2>1, Members
<1> QED BY <1>2, <1>3, <1>5, <1>6, <1>7

(* So do lines. *)
LEMMA ConcatAppend ==
  ASSUME NEW x \in Seq(Nat), NEW y \in Seq(Nat), NEW e \in Nat
  PROVE  x \o Append(y, e) = Append(x \o y, e)
<1> DEFINE w == <<e>>
<1>1. w \in Seq(Nat) /\ x \o y \in Seq(Nat)
  BY ConcatProperties
<1>2. Append(y, e) = y \o w /\ Append(x \o y, e) = (x \o y) \o w
  BY <1>1, AppendIsConcat
<1> HIDE DEF w
<1> QED BY <1>1, <1>2, AssocLines, SMTT(30)

(* What the front has is its own business, ... *)
LEMMA FrontFrame ==
  ASSUME IndInv, NEW s, FrontIs(s), UNCHANGED instVars,
         \A b \in Buffers : owner[b] = "front" <=> owner'[b] = "front",
         \A b \in Buffers : owner[b] = "front" =>
            next'[b] = next[b] /\ data'[b] = data[b]
  PROVE  FrontIs(s)' /\ LinesIn(data', s) = LinesIn(data, s)
<1>1. UNCHANGED <<curr_buffer, next_buffer, head, tail, size>>
  BY DEF instVars
<1> DEFINE p == IF head = NULL THEN curr_buffer ELSE head
<1>2. Path(s, p, next)
  BY DEF FrontIs
<1> HIDE DEF p
<1>3. \A b \in ToSet(s) : /\ b \in Buffers /\ owner[b] = "front"
                          /\ next'[b] = next[b] /\ data'[b] = data[b]
  BY <1>2, PathTypes DEF FrontIs
<1>4. Path(s, p, next')
  BY <1>2, <1>3, PathFrame
<1>5. LinesIn(data', s) = LinesIn(data, s)
  BY <1>2, <1>3, LinesSame, PathTypes
<1>6. \A i \in 1 .. Len(s) : data'[s[i]] = data[s[i]]
  BY <1>2, <1>3, PathTypes
<1>7. data'[curr_buffer] = data[curr_buffer]
  BY <1>3 DEF IndInv, FrontSound, TypeOK
<1>8. \A i \in 1 .. size : i \in 1 .. Len(s)
  <2>1. Len(s) = size + 1 /\ size \in Nat
    BY DEF FrontIs, IndInv, TypeOK
  <2> QED BY <2>1
<1> QED BY <1>1, <1>4, <1>5, <1>6, <1>7, <1>8 DEF FrontIs, Full, p

(* The members of two lists, one behind the other. *)
LEMMA MembersConcat ==
  ASSUME NEW s \in Seq(Buffers), NEW t \in Seq(Buffers)
  PROVE  s \o t \in Seq(Buffers) /\ ToSet(s \o t) = ToSet(s) \cup ToSet(t)
<1> DEFINE r == s \o t
<1>1. /\ r \in Seq(Buffers) /\ Len(r) = Len(s) + Len(t)
      /\ \A i \in 1 .. Len(s) + Len(t) :
           r[i] = IF i <= Len(s) THEN s[i] ELSE t[i - Len(s)]
      /\ Len(s) \in Nat /\ Len(t) \in Nat
  BY ConcatProperties, LenProperties
<1> HIDE DEF r
<1>2. /\ \A x : x \in ToSet(s) <=> \E i \in 1 .. Len(s) : s[i] = x
      /\ \A x : x \in ToSet(t) <=> \E i \in 1 .. Len(t) : t[i] = x
      /\ \A x : x \in ToSet(r) <=> \E i \in 1 .. Len(r) : r[i] = x
  BY <1>1, Members
<1>3. ASSUME NEW x \in ToSet(s) PROVE x \in ToSet(r)
  <2>1. PICK i \in 1 .. Len(s) : s[i] = x  BY <1>2
  <2>2. i \in 1 .. Len(r) /\ r[i] = s[i]  BY <1>1
  <2> QED BY <2>1, <2>2, <1>2
<1>4. ASSUME NEW x \in ToSet(t) PROVE x \in ToSet(r)
  <2>1. PICK i \in 1 .. Len(t) : t[i] = x  BY <1>2
  <2>2. /\ i + Len(s) \in 1 .. Len(s) + Len(t) /\ ~(i + Len(s) <= Len(s))
        /\ i + Len(s) - Len(s) = i
    BY <1>1
  <2>3. r[i + Len(s)] = t[i]  BY <1>1, <2>2
  <2> QED BY <2>1, <2>2, <2>3, <1>1, <1>2
<1>5. ASSUME NEW x \in ToSet(r) PROVE x \in ToSet(s) \cup ToSet(t)
  <2>1. PICK i \in 1 .. Len(r) : r[i] = x  BY <1>2
  <2>2. i <= Len(s) => i \in 1 .. Len(s)  BY <1>1
  <2>3. ~(i <= Len(s)) => i - Len(s) \in 1 .. Len(t)  BY <1>1
  <2> QED BY <2>1, <2>2, <2>3, <1>1, <1>2
<1> QED BY <1>1, <1>3, <1>4, <1>5 DEF r
(* ... and what is appended comes last. *)
LEMMA FrontAppend ==
  ASSUME IndInv, Clean, append, NEW s, FrontIs(s)
  PROVE  \E r : /\ FrontIs(r)' /\ Clean'
                /\ LinesIn(data', r) = Append(LinesIn(data, s), accepted + 1)
                /\ LinesIn(data, s) \in Seq(Nat)
<1>a. NULL \notin Buffers /\ LogBufferSize \in Nat /\ LogBufferSize >= 2
  BY LogAssumption DEF LogAssumption
<1>t. /\ curr_buffer \in Buffers /\ data \in [Buffers -> Seq(Nat)]
      /\ next \in [Buffers -> Pointer] /\ head \in Pointer /\ tail \in Pointer
      /\ owner \in [Buffers -> {"front", "back", "free"}]
      /\ size \in Nat /\ accepted \in Nat /\ next_buffer \in Pointer
  BY DEF IndInv, TypeOK
<1> DEFINE p == IF head = NULL THEN curr_buffer ELSE head
           n == accepted + 1
<1>1. /\ Path(s, p, next) /\ s # <<>> /\ s[Len(s)] = curr_buffer
      /\ Len(s) = size + 1
      /\ \A b \in Buffers : owner[b] = "front" <=> b \in ToSet(s) \/ b = next_buffer
      /\ \A i \in 1 .. size : Full(s[i])
      /\ Len(data[curr_buffer]) < LogBufferSize
  BY DEF FrontIs
<1> HIDE DEF p
<1>2. /\ s \in Seq(Buffers) /\ ToSet(s) \subseteq Buffers
      /\ \A i \in 1 .. Len(s) : s[i] \in Buffers /\ s[i] \in ToSet(s)
  BY <1>1, PathTypes
<1>3. LinesIn(data, s) \in Seq(Nat) /\ n \in Nat
  <2>1. LinesIn(data, s) \in Seq(Nat)
    BY <1>t, <1>2, LinesType
  <2> QED BY <2>1, <1>t
<1> HIDE DEF n
<1>4. PICK v \in Seq(Buffers) :
         /\ s = Append(v, curr_buffer) /\ Len(s) = Len(v) + 1
         /\ \A i \in 1 .. Len(v) : v[i] = s[i]
         /\ curr_buffer \notin ToSet(v) /\ ToSet(v) \subseteq ToSet(s)
  BY <1>1, AllButLast
<1>5. CASE Fits
  <2>1. Put(curr_buffer) /\ UNCHANGED <<next, owner, instVars>>
    BY <1>5 DEF append
  <2>2. /\ data' = [data EXCEPT ![curr_buffer] = Append(@, n)]
        /\ UNCHANGED <<next, owner, curr_buffer, next_buffer, head, size>>
    BY <2>1 DEF Put, instVars, n
  <2>3. /\ data'[curr_buffer] = Append(data[curr_buffer], n)
        /\ \A b \in Buffers : b # curr_buffer => data'[b] = data[b]
        /\ data' \in [Buffers -> Seq(Nat)]
    <3>1. Append(data[curr_buffer], n) \in Seq(Nat)
      BY <1>t, <1>3, AppendProperties
    <3> QED BY <2>2, <1>t, <3>1
  <2>4. FrontIs(s)'
    <3>1. Path(s, p, next') /\ p = IF head' = NULL THEN curr_buffer' ELSE head'
      BY <1>1, <2>2 DEF p
    <3>2. ASSUME NEW i \in 1 .. size' PROVE Full(s[i])'
      <4>1. i \in 1 .. Len(v) /\ i \in 1 .. Len(s) /\ i \in 1 .. size
        BY <1>1, <1>4, <1>t, <2>2
      <4>2. v[i] \in ToSet(v)
        BY <4>1, Members
      <4>3. s[i] # curr_buffer /\ s[i] \in Buffers
        BY <4>1, <4>2, <1>2, <1>4
      <4>4. Len(data'[s[i]]) = LogBufferSize - 1
        BY <4>1, <4>3, <1>1, <2>3 DEF Full
      <4> QED BY <4>4 DEF Full
    <3>3. Len(data'[curr_buffer']) < LogBufferSize
      <4>1. Len(data'[curr_buffer]) = Len(data[curr_buffer]) + 1
        BY <1>t, <1>3, <2>3, AppendProperties
      <4> QED BY <4>1, <1>5, <2>2 DEF Fits
    <3> QED BY <1>1, <2>2, <3>1, <3>2, <3>3 DEF FrontIs
  <2>5. Clean'
    <3>1. owner[curr_buffer] # "free" /\ next_buffer # curr_buffer
      BY <1>a, <1>t DEF IndInv, FrontSound
    <3> QED BY <2>2, <2>3, <3>1, <1>t DEF Clean, Pointer
  <2>6. LinesIn(data', s) = Append(LinesIn(data, s), n)
    <3>1. LinesIn(data', s) = LinesIn(data', v) \o Append(data[curr_buffer], n)
      BY <1>4, <1>t, <2>3, LinesAppend
    <3>2. LinesIn(data', v) = LinesIn(data, v)
      BY <1>2, <1>4, <2>3, LinesSame
    <3>3. LinesIn(data, s) = LinesIn(data, v) \o data[curr_buffer]
      BY <1>4, <1>t, LinesAppend
    <3>4. LinesIn(data, v) \in Seq(Nat) /\ data[curr_buffer] \in Seq(Nat)
      BY <1>t, LinesType
    <3>5. LinesIn(data, v) \o Append(data[curr_buffer], n)
            = Append(LinesIn(data, v) \o data[curr_buffer], n)
      BY ONLY <3>4, <1>3, ConcatAppend, SMTT(30)
    <3> QED BY <3>1, <3>2, <3>3, <3>5
  <2> QED BY <2>4, <2>5, <2>6, <1>3 DEF n
<1>6. CASE ~Fits
  <2> DEFINE new == NewBuffer
  <2>1. /\ new \in Buffers /\ new # curr_buffer /\ owner[new] # "back"
        /\ next[new] = NULL /\ new # head
        /\ \A b \in Buffers : next[b] # new
    BY <1>6, NewBufferFresh
  <2>2. /\ Link(new) /\ Put(new) /\ owner' = [owner EXCEPT ![new] = "front"]
        /\ head' = (IF head = NULL THEN curr_buffer ELSE head)
        /\ size' = size + 1 /\ curr_buffer' = new /\ next_buffer' = NULL
    BY <1>6 DEF append
  <2>3. next_buffer # NULL => new = next_buffer
    BY DEF NewBuffer
  <2>4. data[new] = <<>>
    <3>1. CASE next_buffer # NULL
      BY <2>3, <3>1 DEF Clean
    <3>2. CASE next_buffer = NULL
      <4>1. new \in Free
        BY <1>6, <3>2 DEF append, NewBuffer
      <4> QED BY <4>1, <2>1 DEF Free, Clean
    <3> QED BY <3>1, <3>2
  <2> HIDE DEF new
  <2>5. new \notin ToSet(s)
    <3>1. new # p
      BY <2>1 DEF p
    <3> QED BY <1>1, <2>1, <3>1, NotInPath
  <2>6. \A b \in Buffers : next'[b] = IF b = curr_buffer THEN new ELSE next[b]
    <3>1. head # NULL => next[tail] = curr_buffer
      BY DEF IndInv, FrontSound
    <3> QED BY <2>1, <2>2, <3>1, <1>t DEF Link
  <2>7. \A a \in ToSet(s) : next'[a] = IF a = s[Len(s)] THEN new ELSE next[a]
    BY <1>1, <1>2, <2>6
  <2>8. next'[new] = NULL
    BY <2>1, <2>6
  <2>9. PICK r : /\ r = Append(s, new) /\ Path(r, p, next')
                 /\ ToSet(r) = ToSet(s) \cup {new}
                 /\ Len(r) = Len(s) + 1 /\ r[Len(s) + 1] = new /\ r # <<>>
                 /\ \A i \in 1 .. Len(s) : r[i] = s[i]
    <3> DEFINE m == next'
    <3>1. /\ \A a \in ToSet(s) : m[a] = IF a = s[Len(s)] THEN new ELSE next[a]
          /\ m[new] = NULL
      BY <2>7, <2>8
    <3> HIDE DEF m
    <3>2. /\ Path(Append(s, new), p, m)
          /\ ToSet(Append(s, new)) = ToSet(s) \cup {new}
          /\ Len(Append(s, new)) = Len(s) + 1 /\ Append(s, new)[Len(s) + 1] = new
          /\ Append(s, new) # <<>>
          /\ \A i \in 1 .. Len(s) : Append(s, new)[i] = s[i]
      BY <1>1, <2>1, <2>5, <3>1, PathExtend
    <3> QED BY <3>2 DEF m
  <2>10. /\ data'[new] = <<n>>
         /\ \A b \in Buffers : b # new => data'[b] = data[b]
         /\ data' \in [Buffers -> Seq(Nat)]
    <3>1. data' = [data EXCEPT ![new] = Append(@, n)]
      BY <2>2 DEF Put, n
    <3>2. Append(<<>>, n) = <<n>> /\ <<n>> \in Seq(Nat)
      BY <1>3
    <3> QED BY <3>1, <3>2, <2>1, <2>4, <1>t
  <2>11. FrontIs(r)'
    <3>1. p = IF head' = NULL THEN curr_buffer' ELSE head'
      BY <2>2, <1>a, <1>t DEF p, Pointer
    <3>2. r[Len(r)] = curr_buffer' /\ Len(r) = size' + 1
      BY <1>1, <2>2, <2>9
    <3>3. ASSUME NEW b \in Buffers
          PROVE  owner'[b] = "front" <=> b \in ToSet(r) \/ b = next_buffer'
      BY <1>a, <1>1, <1>t, <2>1, <2>2, <2>3, <2>9
    <3>4. ASSUME NEW i \in 1 .. size' PROVE Full(r[i])'
      <4>1. i \in 1 .. Len(s) /\ (i \in 1 .. size \/ i = Len(s))
        BY <1>1, <1>t, <2>2
      <4>2. r[i] = s[i] /\ s[i] \in Buffers /\ s[i] # new
        BY <4>1, <1>2, <2>5, <2>9
      <4>3. Len(data[s[i]]) = LogBufferSize - 1
        <5>1. CASE i \in 1 .. size
          BY <5>1, <1>1 DEF Full
        <5>2. CASE i = Len(s)
          <6>1. s[i] = curr_buffer
            BY <5>2, <1>1
          <6>2. Len(data[curr_buffer]) \in Nat
            BY <1>t, LenProperties
          <6> QED BY <6>1, <6>2, <1>a, <1>1, <1>6 DEF Fits
        <5> QED BY <4>1, <5>1, <5>2
      <4>4. Len(data'[r[i]]) = LogBufferSize - 1
        BY <4>2, <4>3, <2>10
      <4> QED BY <4>4 DEF Full
    <3>5. Len(data'[curr_buffer']) < LogBufferSize
      <4>1. Len(<<n>>) = 1
        OBVIOUS
      <4> QED BY <4>1, <1>a, <2>2, <2>10
    <3> QED BY <2>9, <3>1, <3>2, <3>3, <3>4, <3>5 DEF FrontIs
  <2>12. Clean'
    <3>1. \A b \in Buffers : owner'[b] = "free" => b # new /\ owner[b] = "free"
      BY <2>1, <2>2, <1>t
    <3> QED BY <2>2, <2>10, <3>1 DEF Clean
  <2>13. LinesIn(data', r) = Append(LinesIn(data, s), n)
    <3>1. LinesIn(data', r) = LinesIn(data', s) \o <<n>>
      BY <1>2, <2>1, <2>9, <2>10, LinesAppend
    <3>2. LinesIn(data', s) = LinesIn(data, s)
      <4>1. \A b \in ToSet(s) : data'[b] = data[b]
        BY <1>2, <2>5, <2>10
      <4> QED BY <4>1, <1>2, LinesSame
    <3> QED BY <3>1, <3>2, <1>3, AppendIsConcat
  <2> QED BY <2>11, <2>12, <2>13, <1>3 DEF n
<1> QED BY <1>5, <1>6

(* The thread that logs leaves the worker's buffers alone. *)
LEMMA BackAppend ==
  ASSUME IndInv, append, NEW t, NEW u, BackIs(t, u), UNCHANGED <<workerVars, node>>,
         pc' = pc \/ (pc = "notice" /\ pc' = "drop")
  PROVE  BackIs(t, u)' /\ Held(t, u)' = Held(t, u)
         /\ LinesIn(data', Held(t, u)) = LinesIn(data, Held(t, u))
         /\ LinesIn(data, Held(t, u)) \in Seq(Nat)
<1>t. /\ data \in [Buffers -> Seq(Nat)]
      /\ owner \in [Buffers -> {"front", "back", "free"}] /\ wsize \in Nat
  BY DEF IndInv, TypeOK
<1> DEFINE q == IF pc \in {"dropping", "write"} THEN node ELSE NULL
<1>1. /\ Path(t, whead, next) /\ Path(u, q, next)
      /\ \A b \in ToSet(u) : owner[b] = "back"
      /\ \A b \in Buffers : owner[b] = "back" <=>
           \/ b \in ToSet(t) \/ b = new_buffer1 \/ b = new_buffer2
           \/ pc = "dropping" /\ b \in ToSet(u)
      /\ pc \in {"notice", "drop"} =>
           Len(t) = wsize /\ wsize > MaxKept /\ \A i \in 1 .. wsize - 1 : Full(t[i])
      /\ pc = "dropping" => Len(t) = 2 /\ Full(t[1]) /\ Full(t[2])
  BY DEF BackIs
<1>2. q' = q /\ UNCHANGED <<whead, wsize, new_buffer1, new_buffer2>>
  BY DEF workerVars
<1> HIDE DEF q
<1>3. /\ \A b \in Buffers : owner[b] = "back" =>
            owner'[b] = "back" /\ next'[b] = next[b] /\ data'[b] = data[b]
      /\ \A b \in Buffers : owner'[b] = "back" => owner[b] = "back"
  <2>1. ASSUME NEW b \in Buffers, owner'[b] = "back" PROVE owner[b] = "back"
    <3>1. CASE Fits
      BY <2>1, <3>1 DEF append
    <3>2. CASE ~Fits
      <4>1. owner' = [owner EXCEPT ![NewBuffer] = "front"]
        BY <3>2 DEF append
      <4> QED BY <2>1, <4>1, <1>t
    <3> QED BY <3>1, <3>2
  <2> QED BY <2>1, AppendFrame
<1>4. /\ \A b \in ToSet(t) : b \in Buffers /\ owner[b] = "back"
      /\ \A b \in ToSet(u) : b \in Buffers /\ owner[b] = "back"
  BY <1>1, PathTypes
<1>5. Path(t, whead, next') /\ Path(u, q, next')
  BY <1>1, <1>3, <1>4, PathFrame
<1>6. \A i \in 1 .. Len(t) : data'[t[i]] = data[t[i]]
  BY <1>1, <1>3, <1>4, PathTypes
<1>7. pc' \in {"notice", "drop"} => \A i \in 1 .. wsize - 1 : Full(t[i])'
  <2> SUFFICES ASSUME pc \in {"notice", "drop"}, NEW i \in 1 .. wsize - 1
               PROVE  Full(t[i])'
    OBVIOUS
  <2>1. i \in 1 .. Len(t) /\ Full(t[i])
    BY <1>1, <1>t
  <2> QED BY <2>1, <1>6 DEF Full
<1>8. pc' = "dropping" => Full(t[1])' /\ Full(t[2])'
  <2> SUFFICES ASSUME pc = "dropping" PROVE Full(t[1])' /\ Full(t[2])'
    OBVIOUS
  <2>1. 1 \in 1 .. Len(t) /\ 2 \in 1 .. Len(t)
    BY <1>1
  <2> QED BY <2>1, <1>1, <1>6 DEF Full
<1>9. BackIs(t, u)'
  BY <1>1, <1>2, <1>3, <1>4, <1>5, <1>7, <1>8 DEF BackIs, q
<1>10. Held(t, u)' = Held(t, u)
  BY DEF Held, Shedding
<1>11. Held(t, u) \in Seq(Buffers)
       /\ \A b \in ToSet(Held(t, u)) : data'[b] = data[b]
  <2>1. t \in Seq(Buffers) /\ u \in Seq(Buffers)
    BY <1>1, PathTypes
  <2>2. t \o u \in Seq(Buffers) /\ ToSet(t \o u) = ToSet(t) \cup ToSet(u)
    BY <2>1, MembersConcat
  <2> QED BY <2>1, <2>2, <1>3, <1>4 DEF Held
<1>12. LinesIn(data', Held(t, u)) = LinesIn(data, Held(t, u))
  BY <1>11, LinesSame
<1> QED BY <1>9, <1>10, <1>11, <1>12, <1>t, LinesType

-----------------------------------------------------------------------------
(* One step per action: what becomes of the lists, and of the lines on     *)
(* their way.                                                              *)
LEMMA PendingType ==
  ASSUME IndInv, NEW s, NEW t, NEW u, FrontIs(s), BackIs(t, u)
  PROVE  /\ s \in Seq(Buffers) /\ t \in Seq(Buffers) /\ u \in Seq(Buffers)
         /\ LinesIn(data, Held(t, u)) \in Seq(Nat) /\ LinesIn(data, s) \in Seq(Nat)
         /\ LinesIn(data, t) \in Seq(Nat) /\ LinesIn(data, u) \in Seq(Nat)
         /\ PendingOf(s, t, u) \in Seq(Nat)
<1>1. s \in Seq(Buffers) /\ t \in Seq(Buffers) /\ u \in Seq(Buffers)
  BY DEF FrontIs, BackIs, Path
<1>2. Held(t, u) \in Seq(Buffers)
  BY <1>1, ConcatProperties DEF Held
<1>3. data \in [Buffers -> Seq(Nat)]
  BY DEF IndInv, TypeOK
<1>4. /\ LinesIn(data, Held(t, u)) \in Seq(Nat) /\ LinesIn(data, s) \in Seq(Nat)
      /\ LinesIn(data, t) \in Seq(Nat) /\ LinesIn(data, u) \in Seq(Nat)
  BY <1>1, <1>2, <1>3, LinesType
<1> QED BY <1>1, <1>4, ConcatProperties DEF PendingOf

(* append puts its line at the end of the queue, by the thread that logs   *)
(* or in the notice of the worker.                                         *)
LEMMA AppendQueue ==
  ASSUME IndInv, Clean, append, NEW s, NEW t, NEW u, FrontIs(s), BackIs(t, u),
         UNCHANGED <<workerVars, node>>, pc' = pc \/ (pc = "notice" /\ pc' = "drop")
  PROVE  \E r : /\ FrontIs(r)' /\ BackIs(t, u)' /\ Clean'
                /\ PendingOf(r, t, u)' = Append(PendingOf(s, t, u), accepted + 1)
                /\ Shedding' = Shedding
<1>1. PICK r : /\ FrontIs(r)' /\ Clean'
               /\ LinesIn(data', r) = Append(LinesIn(data, s), accepted + 1)
               /\ LinesIn(data, s) \in Seq(Nat)
  BY FrontAppend
<1>2. /\ BackIs(t, u)' /\ Held(t, u)' = Held(t, u)
      /\ LinesIn(data', Held(t, u)) = LinesIn(data, Held(t, u))
      /\ LinesIn(data, Held(t, u)) \in Seq(Nat)
  BY BackAppend
<1>3. accepted + 1 \in Nat
  BY DEF IndInv, TypeOK
<1>4. PendingOf(r, t, u)' = Append(PendingOf(s, t, u), accepted + 1)
  <2> DEFINE x == LinesIn(data, Held(t, u))
             y == LinesIn(data, s)
             e == accepted + 1
  <2>1. PendingOf(r, t, u)' = x \o Append(y, e)
    BY <1>1, <1>2 DEF PendingOf
  <2>2. x \in Seq(Nat) /\ y \in Seq(Nat) /\ e \in Nat
    BY <1>1, <1>2, <1>3
  <2> HIDE DEF x, y, e
  <2>3. x \o Append(y, e) = Append(x \o y, e)
    BY <2>2, ConcatAppend
  <2> QED BY <2>1, <2>3 DEF PendingOf, x, y, e
<1>5. Shedding' = Shedding
  BY DEF Shedding
<1> QED BY <1>1, <1>2, <1>4, <1>5

(* Steps that leave the heap alone. *)
LEMMA StillQueue ==
  ASSUME IndInv, Clean, NEW s, NEW t, NEW u, FrontIs(s), BackIs(t, u),
         \/ Begin \/ Exit \/ Joined \/ Midnight \/ Written
         \/ UNCHANGED vars
  PROVE  /\ FrontIs(s)' /\ BackIs(t, u)' /\ Clean'
         /\ PendingOf(s, t, u)' = PendingOf(s, t, u) /\ Shedding' = Shedding
<1>1. /\ UNCHANGED <<data, next, owner, instVars, workerVars>>
      /\ node' = node
      /\ \/ pc' = pc
         \/ pc = "write" /\ node = NULL /\ pc' = "first"
         \/ pc = "loop" /\ pc' \in {"done", "wait"}
  <2>1. CASE Begin
    BY <2>1 DEF Begin, heapVars
  <2>2. CASE Exit
    BY <2>2 DEF Exit, heapVars
  <2>3. CASE Joined
    BY <2>3 DEF Joined, heapVars
  <2>4. CASE Midnight
    BY <2>4 DEF Midnight, heapVars
  <2>5. CASE Written
    BY <2>5 DEF Written, WorkerOnly, heapVars
  <2>6. CASE UNCHANGED vars
    BY <2>6 DEF vars, heapVars
  <2> QED BY <2>1, <2>2, <2>3, <2>4, <2>5, <2>6
<1>2. FrontIs(s)' /\ Clean'
  BY <1>1 DEF FrontIs, Full, Clean, instVars
<1>3. (IF pc \in {"dropping", "write"} THEN node ELSE NULL)'
        = IF pc \in {"dropping", "write"} THEN node ELSE NULL
  BY <1>1
<1>4. /\ Shedding' = Shedding
      /\ pc' \in {"notice", "drop"} <=> pc \in {"notice", "drop"}
      /\ pc' = "dropping" <=> pc = "dropping"
  BY <1>1 DEF Shedding
<1>5. BackIs(t, u)'
  BY <1>1, <1>3, <1>4 DEF BackIs, Full, workerVars
<1>6. PendingOf(s, t, u)' = PendingOf(s, t, u)
  BY <1>1, <1>4 DEF PendingOf, Held
<1> QED BY <1>2, <1>4, <1>5, <1>6

(* More buffers have no fewer lines. *)
LEMMA TimesMonotone ==
  ASSUME NEW m \in Nat, NEW n \in Nat, NEW k \in Nat, m >= n
  PROVE  m * k >= n * k
<1>1. PICK d \in Nat : m = n + d
  <2>1. m - n \in Nat /\ m = n + (m - n)
    OBVIOUS
  <2> QED BY <2>1
<1>2. (n + d) * k = n * k + d * k
  OBVIOUS
<1>3. d * k \in Nat /\ n * k \in Nat
  OBVIOUS
<1> QED BY <1>1, <1>2, <1>3

(* The worker takes the list. *)
LEMMA SwapQueue ==
  ASSUME IndInv, Clean, NEW s, NEW t, NEW u, FrontIs(s), BackIs(t, u), Swap
  PROVE  \E r, v : /\ FrontIs(r)' /\ BackIs(s, v)' /\ Clean'
                   /\ PendingOf(r, s, v)' = PendingOf(s, t, u) /\ ~Shedding
                   /\ Shedding' => Len(PendingOf(s, t, u)) >= MaxKept * (LogBufferSize - 1)
<1>a. NULL \notin Buffers /\ LogBufferSize \in Nat /\ LogBufferSize >= 2 /\ MaxKept \in Nat
  BY LogAssumption DEF LogAssumption
<1>t. /\ curr_buffer \in Buffers /\ data \in [Buffers -> Seq(Nat)]
      /\ next \in [Buffers -> Pointer] /\ head \in Pointer
      /\ owner \in [Buffers -> {"front", "back", "free"}]
      /\ size \in Nat /\ next_buffer \in Pointer
      /\ new_buffer1 \in Pointer /\ new_buffer2 \in Pointer
  BY DEF IndInv, TypeOK
<1> DEFINE p == IF head = NULL THEN curr_buffer ELSE head
<1>1. /\ pc \in {"loop", "wait"}
      /\ whead' = p /\ wsize' = size + 1 /\ node' = p
      /\ head' = NULL /\ size' = 0
      /\ curr_buffer' = new_buffer1 /\ new_buffer1' = NULL
      /\ IF next_buffer = NULL THEN next_buffer' = new_buffer2 /\ new_buffer2' = NULL
         ELSE UNCHANGED <<next_buffer, new_buffer2>>
      /\ owner' = [b \in Buffers |->
                     IF b \in {curr_buffer', next_buffer'} THEN "front"
                     ELSE IF owner[b] = "front" THEN "back" ELSE owner[b]]
      /\ pc' = (IF wsize' > MaxKept THEN "notice" ELSE "write")
      /\ UNCHANGED <<data, next>>
  BY DEF Swap, Ready
<1>2. /\ Path(s, p, next) /\ s # <<>> /\ s[Len(s)] = curr_buffer
      /\ Len(s) = size + 1
      /\ \A b \in Buffers : owner[b] = "front" <=> b \in ToSet(s) \/ b = next_buffer
      /\ \A i \in 1 .. size : Full(s[i])
  BY DEF FrontIs
<1>p. p = curr_buffer \/ (head # NULL /\ p = head)
  OBVIOUS
<1> HIDE DEF p
<1>3. /\ whead = NULL /\ new_buffer1 \in Buffers /\ new_buffer2 \in Buffers
      /\ new_buffer1 # new_buffer2
      /\ owner[new_buffer1] = "back" /\ owner[new_buffer2] = "back"
      /\ next[new_buffer1] = NULL
      /\ data[new_buffer1] = <<>> /\ data[new_buffer2] = <<>>
  <2>1. whead = NULL /\ new_buffer1 # NULL /\ new_buffer2 # NULL
    BY <1>1 DEF IndInv, PhaseSound
  <2> QED BY <2>1, <1>t DEF IndInv, BackSound, Spare, Pointer
<1>4. t = <<>> /\ u = <<>>
  <2>1. Path(t, whead, next) /\ Path(u, NULL, next)
    BY <1>1 DEF BackIs
  <2> QED BY <2>1, <1>3, PathTypes
<1>5. \A b \in Buffers : owner[b] = "back" <=> b = new_buffer1 \/ b = new_buffer2
  BY <1>1, <1>4, NoMembers DEF BackIs
<1>6. next_buffer \notin ToSet(s)
  <2>1. CASE next_buffer = NULL
    BY <2>1, <1>a, <1>2, PathTypes
  <2>2. CASE next_buffer # NULL
    <3>1. next_buffer \in Buffers /\ next_buffer # curr_buffer
      BY <2>2, <1>t DEF IndInv, FrontSound, Pointer
    <3>2. \A a \in Buffers : next[a] # next_buffer
      BY <2>2 DEF IndInv, Links
    <3>3. next_buffer # p
      BY <2>2, <3>1, <1>p DEF IndInv, FrontSound
    <3> QED BY <1>2, <3>1, <3>2, <3>3, NotInPath
  <2> QED BY <2>1, <2>2
<1>r. PICK r : r = <<new_buffer1>>
  OBVIOUS
<1>7. /\ Path(r, new_buffer1, next) /\ ToSet(r) = {new_buffer1} /\ Len(r) = 1
      /\ r[1] = new_buffer1 /\ r # <<>>
  BY <1>3, <1>r, PathOne
<1>8. LinesIn(data, r) = <<>>
  BY <1>3, <1>r, <1>t, LinesOne
<1>9. \A b \in Buffers : owner'[b] = IF b = curr_buffer' \/ b = next_buffer' THEN "front"
                           ELSE IF owner[b] = "front" THEN "back" ELSE owner[b]
  BY <1>1
<1>10. FrontIs(r)'
  <2>1. Len(data'[curr_buffer']) < LogBufferSize
    BY <1>1, <1>3, <1>a
  <2>2. \A b \in Buffers : owner'[b] = "front" <=> b \in ToSet(r) \/ b = next_buffer'
    BY <1>9, <1>1, <1>7
  <2>3. \A i \in 1 .. size' : FALSE
    BY <1>1
  <2> QED BY <1>1, <1>7, <2>1, <2>2, <2>3 DEF FrontIs
<1>v. PICK v : v = IF pc' = "write" THEN s ELSE <<>>
  OBVIOUS
<1>11. BackIs(s, v)'
  <2>1. Path(s, whead', next')
    BY <1>1, <1>2
  <2>2. Path(v, IF pc' \in {"dropping", "write"} THEN node' ELSE NULL, next')
    <3>1. CASE pc' = "write"
      BY <3>1, <1>1, <1>2, <1>v
    <3>2. CASE pc' = "notice"
      BY <3>2, <1>v, EmptyPath
    <3> QED BY <3>1, <3>2, <1>1
  <2>3. \A b \in Buffers : owner'[b] = "back" <=>
          b \in ToSet(s) \/ b = new_buffer1' \/ b = new_buffer2'
    <3> TAKE b \in Buffers
    <3>1. b \in ToSet(s) => owner[b] = "front"
      BY <1>2
    <3>2. CASE next_buffer = NULL
      <4>1. next_buffer' = new_buffer2 /\ new_buffer2' = NULL
        BY <3>2, <1>1
      <4> QED BY <4>1, <3>1, <3>2, <1>a, <1>t, <1>1, <1>2, <1>3, <1>5, <1>9
    <3>3. CASE next_buffer # NULL
      <4>1. next_buffer' = next_buffer /\ new_buffer2' = new_buffer2
        BY <3>3, <1>1
      <4>2. owner[next_buffer] = "front"
        BY <3>3, <1>t, <1>2 DEF Pointer
      <4> QED BY <4>1, <4>2, <3>1, <3>3, <1>a, <1>t, <1>1, <1>2, <1>3, <1>5, <1>6, <1>9
    <3> QED BY <3>2, <3>3
  <2>4. \A b \in ToSet(v) : owner'[b] = "back"
    <3>1. \A b \in ToSet(s) : b \in Buffers
      BY <1>2, PathTypes
    <3> QED BY <3>1, <2>3, <1>v, NoMembers
  <2>5. pc' \in {"notice", "drop"} =>
          Len(s) = wsize' /\ wsize' > MaxKept /\ \A i \in 1 .. wsize' - 1 : Full(s[i])'
    <3>1. \A i \in 1 .. size : Full(s[i])'
      BY <1>1, <1>2 DEF Full
    <3>2. wsize' - 1 = size
      BY <1>1, <1>t
    <3> QED BY <1>1, <1>2, <3>1, <3>2
  <2>6. pc' # "dropping"
    BY <1>1
  <2> QED BY <2>1, <2>2, <2>3, <2>4, <2>5, <2>6 DEF BackIs
<1>12. Clean'
  <2>1. \A b \in Buffers : owner'[b] = "free" => owner[b] = "free"
    BY <1>9
  <2>2. next_buffer' # NULL => data'[next_buffer'] = <<>>
    BY <1>1, <1>3 DEF Clean
  <2> QED BY <1>1, <2>1, <2>2 DEF Clean
<1>13. ~Shedding /\ Held(t, u) = <<>>
  BY <1>1, <1>4 DEF Shedding, Held
<1>14. s \in Seq(Buffers) /\ LinesIn(data, s) \in Seq(Nat)
  BY PendingType
<1>15. PendingOf(s, t, u) = LinesIn(data, s)
  BY <1>13, <1>14, LinesEmpty, ConcatEmptySeq DEF PendingOf
<1>16. PendingOf(r, s, v)' = LinesIn(data, s)
  <2>1. Held(s, v)' = s
    <3>1. CASE pc' = "write"
      BY <3>1, <1>v DEF Held, Shedding
    <3>2. CASE pc' = "notice"
      BY <3>2, <1>v, <1>14, ConcatEmptySeq DEF Held, Shedding
    <3> QED BY <3>1, <3>2, <1>1
  <2>2. PendingOf(r, s, v)' = LinesIn(data, s) \o <<>>
    BY <2>1, <1>1, <1>8 DEF PendingOf
  <2> QED BY <2>2, <1>14, ConcatEmptySeq
<1>17. Shedding' => Len(LinesIn(data, s)) >= MaxKept * (LogBufferSize - 1)
  <2> SUFFICES ASSUME Shedding'
               PROVE  Len(LinesIn(data, s)) >= MaxKept * (LogBufferSize - 1)
    OBVIOUS
  <2>1. size >= MaxKept
    BY <1>1, <1>a, <1>t DEF Shedding
  <2>2. PICK w \in Seq(Buffers) :
          /\ s = Append(w, curr_buffer) /\ Len(s) = Len(w) + 1
          /\ \A i \in 1 .. Len(w) : w[i] = s[i]
    BY <1>2, AllButLast
  <2>3. Len(w) = size
    BY <2>2, <1>2, <1>t, LenProperties
  <2> DEFINE k == LogBufferSize - 1
  <2>4. k \in Nat /\ \A i \in 1 .. Len(w) : Len(data[w[i]]) >= k
    BY <1>a, <1>2, <2>2, <2>3 DEF Full
  <2> HIDE DEF k
  <2>5. Len(LinesIn(data, w)) >= Len(w) * k
    BY <1>t, <2>4, LinesMany
  <2>6. Len(LinesIn(data, s)) = Len(LinesIn(data, w)) + Len(data[curr_buffer])
    <3>1. LinesIn(data, s) = LinesIn(data, w) \o data[curr_buffer]
      BY <1>t, <2>2, LinesAppend
    <3>2. LinesIn(data, w) \in Seq(Nat) /\ data[curr_buffer] \in Seq(Nat)
      BY <1>t, LinesType
    <3> QED BY <3>1, <3>2, ConcatProperties
  <2>7. Len(LinesIn(data, w)) \in Nat /\ Len(data[curr_buffer]) \in Nat
    BY <1>t, LinesType, LenProperties
  <2>8. size * k >= MaxKept * k
    BY <2>1, <2>4, <1>a, <1>t, TimesMonotone
  <2>9. size * k \in Nat /\ MaxKept * k \in Nat
    BY <2>4, <1>a, <1>t
  <2>10. Len(LinesIn(data, s)) >= MaxKept * k
    BY <2>3, <2>5, <2>6, <2>7, <2>8, <2>9
  <2> QED BY <2>10 DEF k
<1> QED BY <1>10, <1>11, <1>12, <1>13, <1>15, <1>16, <1>17

(* What it does with a buffer of its own is nobody else's business. *)
LEMMA WorkerFrame ==
  ASSUME IndInv, Clean, NEW s, FrontIs(s), UNCHANGED instVars,
         NEW b \in Buffers, owner[b] = "back",
         \A a \in Buffers : a # b =>
            next'[a] = next[a] /\ data'[a] = data[a] /\ owner'[a] = owner[a],
         owner'[b] = "back" \/ (owner'[b] = "free" /\ data'[b] = <<>>)
  PROVE  FrontIs(s)' /\ Clean' /\ LinesIn(data', s) = LinesIn(data, s)
<1>1. FrontIs(s)' /\ LinesIn(data', s) = LinesIn(data, s)
  <2>1. \A a \in Buffers : owner[a] = "front" <=> owner'[a] = "front"
    OBVIOUS
  <2>2. \A a \in Buffers : owner[a] = "front" => next'[a] = next[a] /\ data'[a] = data[a]
    OBVIOUS
  <2> QED BY <2>1, <2>2, FrontFrame
<1>2. Clean'
  <2>1. UNCHANGED next_buffer
    BY DEF instVars
  <2>2. next_buffer # NULL => next_buffer \in Buffers /\ next_buffer # b
    BY DEF IndInv, TypeOK, FrontSound, Pointer
  <2>3. \A a \in Buffers : owner'[a] = "free" => data'[a] = <<>>
    BY DEF Clean
  <2> QED BY <2>1, <2>2, <2>3 DEF Clean
<1> QED BY <1>1, <1>2

(* It cuts the list behind the second buffer, ... *)
LEMMA DropQueue ==
  ASSUME IndInv, Clean, NEW s, NEW t, NEW u, FrontIs(s), BackIs(t, u), Drop
  PROVE  \E v, w : /\ FrontIs(s)' /\ BackIs(v, w)' /\ Clean'
                   /\ PendingOf(s, v, w)' = PendingOf(s, t, u)
                   /\ Shedding /\ Shedding'
<1>a. NULL \notin Buffers /\ LogBufferSize \in Nat /\ LogBufferSize >= 2
      /\ MaxKept \in Nat /\ MaxKept >= 2
  BY LogAssumption DEF LogAssumption
<1>t. /\ data \in [Buffers -> Seq(Nat)] /\ next \in [Buffers -> Pointer]
      /\ owner \in [Buffers -> {"front", "back", "free"}] /\ wsize \in Nat
  BY DEF IndInv, TypeOK
<1> DEFINE q == next[whead]
           v == <<whead, q>>
           w == Tail(Tail(t))
           m == [next EXCEPT ![q] = NULL]
<1>1. /\ pc = "drop" /\ pc' = "dropping" /\ node' = next[q] /\ next' = m
      /\ UNCHANGED <<data, owner, new_buffer1, new_buffer2, whead, instVars>>
  BY DEF Drop, WorkerOnly, second_buffer
<1>2. /\ Path(t, whead, next) /\ Len(t) = wsize /\ wsize > MaxKept
      /\ \A i \in 1 .. wsize - 1 : Full(t[i])
      /\ \A b \in Buffers : owner[b] = "back" <=>
           b \in ToSet(t) \/ b = new_buffer1 \/ b = new_buffer2
      /\ u = <<>>
  <2>1. Path(u, NULL, next)
    BY <1>1 DEF BackIs
  <2>2. u = <<>>
    BY <2>1, PathTypes
  <2> QED BY <1>1, <2>2 DEF BackIs
<1>3. /\ whead \in Buffers /\ q \in Buffers
      /\ t = v \o w /\ t[1] = whead /\ t[2] = q
      /\ Path(v, whead, m) /\ Path(w, next[q], m)
      /\ ToSet(v) = {whead, q} /\ ToSet(t) = {whead, q} \cup ToSet(w)
  <2>1. Len(t) >= 2
    BY <1>2, <1>a, <1>t
  <2> QED BY <2>1, <1>2, <1>t, PathCut
<1>4. Len(v) = 2 /\ v[1] = whead /\ v[2] = q
  OBVIOUS
<1>5. owner[q] = "back"
  BY <1>2, <1>3
<1>6. \A a \in Buffers : a # q => m[a] = next[a]
  BY <1>t
<1>7. Full(whead) /\ Full(q)
  <2>1. 1 \in 1 .. wsize - 1 /\ 2 \in 1 .. wsize - 1
    BY <1>2, <1>a, <1>t
  <2> QED BY <2>1, <1>2, <1>3
<1> HIDE DEF v, w, m, q
<1>8. FrontIs(s)' /\ Clean' /\ LinesIn(data', s) = LinesIn(data, s)
  <2>1. \A a \in Buffers : a # q =>
           next'[a] = next[a] /\ data'[a] = data[a] /\ owner'[a] = owner[a]
    BY <1>1, <1>6
  <2> QED BY <2>1, <1>1, <1>3, <1>5, WorkerFrame
<1>9. PICK x, y, z : x = v /\ y = w /\ z = q
  OBVIOUS
<1>10. BackIs(x, y)'
  <2>1. Path(x, whead', next') /\ Path(y, node', next')
    BY <1>1, <1>3, <1>9
  <2>2. \A b \in Buffers : owner'[b] = "back" <=>
          b \in ToSet(x) \/ b = new_buffer1' \/ b = new_buffer2' \/ b \in ToSet(y)
    BY <1>1, <1>2, <1>3, <1>9
  <2>3. \A b \in ToSet(y) : owner'[b] = "back"
    BY <2>1, <2>2, PathTypes
  <2>4. Len(x) = 2 /\ Full(x[1])' /\ Full(x[2])'
    BY <1>1, <1>4, <1>7, <1>9 DEF Full
  <2> QED BY <1>1, <2>1, <2>2, <2>3, <2>4 DEF BackIs
<1>11. Shedding /\ Shedding'
  BY <1>1 DEF Shedding
<1>12. PendingOf(s, x, y)' = PendingOf(s, t, u)
  <2>1. Held(t, u) = t
    BY <1>2, <1>11, ConcatEmptySeq DEF Held, Path
  <2>2. Held(x, y)' = t
    BY <1>3, <1>9, <1>11 DEF Held
  <2> QED BY <2>1, <2>2, <1>1 DEF PendingOf
<1> QED BY <1>8, <1>10, <1>11, <1>12

(* The lines of one buffer, if any, leave the queue, behind those of the   *)
(* first two buffers.                                                      *)
Shed(s, t, u, w) ==
  \/ /\ node = NULL /\ ~Shedding' /\ lost' = lost
     /\ PendingOf(s, t, w)' = PendingOf(s, t, u)
  \/ /\ node \in Buffers /\ Shedding'
     /\ lost' = lost \cup ToSet(data[node])
     /\ \E a, c \in Seq(Nat) :
          /\ Len(a) = 2 * (LogBufferSize - 1)
          /\ PendingOf(s, t, u) = a \o (data[node] \o c)
          /\ PendingOf(s, t, w)' = a \o c

(* ... frees the buffers behind the cut, ... *)
LEMMA DroppingQueue ==
  ASSUME IndInv, Clean, NEW s, NEW t, NEW u, FrontIs(s), BackIs(t, u), Dropping
  PROVE  \E w : /\ FrontIs(s)' /\ BackIs(t, w)' /\ Clean' /\ Shedding
                /\ Shed(s, t, u, w)
<1>a. NULL \notin Buffers /\ LogBufferSize \in Nat /\ LogBufferSize >= 2
  BY LogAssumption DEF LogAssumption
<1>t. /\ data \in [Buffers -> Seq(Nat)] /\ next \in [Buffers -> Pointer]
      /\ owner \in [Buffers -> {"front", "back", "free"}] /\ node \in Pointer
  BY DEF IndInv, TypeOK
<1>1. /\ pc = "dropping" /\ Shedding
      /\ UNCHANGED <<new_buffer1, new_buffer2, whead, instVars>>
  BY DEF Dropping, WorkerOnly, workerVars, Shedding
<1>2. /\ Path(t, whead, next) /\ Path(u, node, next)
      /\ \A b \in Buffers : owner[b] = "back" <=>
           b \in ToSet(t) \/ b = new_buffer1 \/ b = new_buffer2 \/ b \in ToSet(u)
      /\ Len(t) = 2 /\ Full(t[1]) /\ Full(t[2])
      /\ \A b \in ToSet(u) : owner[b] = "back"
  BY <1>1 DEF BackIs
<1>3. /\ t \in Seq(Buffers) /\ LinesIn(data, t) \in Seq(Nat)
      /\ u \in Seq(Buffers) /\ LinesIn(data, s) \in Seq(Nat)
      /\ LinesIn(data, u) \in Seq(Nat)
  BY PendingType
<1>4. CASE node = NULL
  <2>1. pc' = "write" /\ node' = whead /\ UNCHANGED <<data, next, owner, lost>>
    BY <1>4, <1>1 DEF Dropping, heapVars
  <2>2. u = <<>>
    BY <1>2, <1>4, PathTypes
  <2>3. FrontIs(s)' /\ Clean'
    BY <1>1, <2>1 DEF FrontIs, Full, Clean, instVars
  <2>4. BackIs(t, t)'
    <3>1. \A b \in Buffers : owner'[b] = "back" <=>
            b \in ToSet(t) \/ b = new_buffer1' \/ b = new_buffer2'
      BY <1>1, <1>2, <2>1, <2>2, NoMembers
    <3>2. \A b \in ToSet(t) : owner'[b] = "back"
      BY <3>1, <1>2, PathTypes
    <3> QED BY <3>1, <3>2, <1>1, <1>2, <2>1 DEF BackIs
  <2>5. ~Shedding'
    BY <2>1 DEF Shedding
  <2>6. PendingOf(s, t, t)' = PendingOf(s, t, u)
    <3>1. Held(t, u) = t
      BY <1>1, <1>3, <2>2, ConcatEmptySeq DEF Held
    <3>2. Held(t, t)' = t
      BY <2>5 DEF Held
    <3> QED BY <3>1, <3>2, <2>1 DEF PendingOf
  <2>7. Shed(s, t, u, t)
    BY <1>4, <2>1, <2>5, <2>6 DEF Shed
  <2> QED BY <1>1, <2>3, <2>4, <2>7
<1>5. CASE node # NULL
  <2>1. /\ lost' = lost \cup ToSet(data[node]) /\ node' = next[node] /\ Erase(node)
        /\ owner' = [owner EXCEPT ![node] = "free"] /\ pc' = pc
    BY <1>5 DEF Dropping
  <2>2. /\ node \in Buffers /\ owner[node] = "back" /\ node # whead
        /\ node \notin {new_buffer1, new_buffer2}
        /\ \A b \in Buffers : next[b] # node
    BY <1>1, <1>5, <1>t DEF IndInv, PhaseSound, Pointer
  <2>3. \A a \in Buffers :
          /\ next'[a] = IF a = node THEN NULL ELSE next[a]
          /\ data'[a] = IF a = node THEN <<>> ELSE data[a]
          /\ owner'[a] = IF a = node THEN "free" ELSE owner[a]
    <3>1. \A a \in Buffers :
            /\ next'[a] = IF a = node THEN NULL ELSE next[a]
            /\ data'[a] = IF a = node THEN <<>> ELSE data[a]
      BY <1>1, <2>1, <2>2, EraseFrame
    <3> QED BY <3>1, <1>t, <2>1
  <2>4. FrontIs(s)' /\ Clean' /\ LinesIn(data', s) = LinesIn(data, s)
    BY <1>1, <2>2, <2>3, WorkerFrame
  <2> DEFINE w == Tail(u)
  <2>5. /\ Path(w, next[node], next) /\ u = <<node>> \o w
        /\ node \notin ToSet(w) /\ ToSet(u) = {node} \cup ToSet(w)
    <3>1. u # <<>>
      BY <1>2, <1>5, PathTypes
    <3> QED BY <3>1, <1>2, PathTail
  <2>6. node \notin ToSet(t)
    BY <1>2, <2>2, NotInPath
  <2> HIDE DEF w
  <2>7. \A b \in ToSet(t) \cup ToSet(w) :
           b \in Buffers /\ b # node /\ next'[b] = next[b] /\ data'[b] = data[b]
           /\ owner'[b] = owner[b]
    BY <1>2, <2>3, <2>5, <2>6, PathTypes
  <2>8. PICK x : x = w
    OBVIOUS
  <2>9. BackIs(t, x)'
    <3>1. Path(t, whead', next')
      BY <1>1, <1>2, <2>7, PathFrame
    <3>2. Path(x, node', next')
      BY <2>1, <2>5, <2>7, <2>8, PathFrame
    <3>3. \A b \in ToSet(x) : owner'[b] = "back"
      BY <1>2, <2>5, <2>7, <2>8
    <3>4. \A b \in Buffers : owner'[b] = "back" <=>
            b \in ToSet(t) \/ b = new_buffer1' \/ b = new_buffer2' \/ b \in ToSet(x)
      BY <1>1, <1>2, <2>2, <2>3, <2>5, <2>6, <2>8
    <3>5. Full(t[1])' /\ Full(t[2])'
      <4>1. t[1] \in ToSet(t) /\ t[2] \in ToSet(t)
        <5>1. 1 \in 1 .. Len(t) /\ 2 \in 1 .. Len(t)
          BY <1>2
        <5> QED BY <5>1, <1>2, PathTypes
      <4> QED BY <4>1, <1>2, <2>7 DEF Full
    <3> QED BY <1>1, <1>2, <2>1, <3>1, <3>2, <3>3, <3>4, <3>5 DEF BackIs
  <2>10. Shedding'
    BY <1>1, <2>1 DEF Shedding
  <2>11. x \in Seq(Buffers) /\ LinesIn(data, x) \in Seq(Nat) /\ data[node] \in Seq(Nat)
    BY <1>t, <2>2, <2>5, <2>8, PathTypes, LinesType
  <2> DEFINE a == LinesIn(data, t)
             b == LinesIn(data, x)
             c == LinesIn(data, s)
             d == data[node]
  <2>12. PendingOf(s, t, u) = (a \o (d \o b)) \o c
    <3>1. LinesIn(data, t \o u) = LinesIn(data, t) \o LinesIn(data, u)
      BY <1>3, <1>t, LinesConcat
    <3>2. LinesIn(data, u) = d \o b
      BY <1>t, <2>2, <2>5, <2>8, <2>11, LinesFirst
    <3> QED BY <1>1, <3>1, <3>2 DEF PendingOf, Held
  <2>13. PendingOf(s, t, x)' = (a \o b) \o c
    <3>1. LinesIn(data', t \o x) = LinesIn(data, t \o x)
      <4>1. t \o x \in Seq(Buffers) /\ \A e \in ToSet(t \o x) : data'[e] = data[e]
        BY <1>3, <2>7, <2>8, <2>11, MembersConcat
      <4> QED BY <4>1, LinesSame
    <3>2. LinesIn(data, t \o x) = a \o b
      BY <1>3, <1>t, <2>11, LinesConcat
    <3> QED BY <2>4, <2>10, <3>1, <3>2 DEF PendingOf, Held
  <2>14. Len(a) = 2 * (LogBufferSize - 1)
    <3>1. t = <<t[1], t[2]>> /\ t[1] \in Buffers /\ t[2] \in Buffers
      <4>1. 1 \in 1 .. Len(t) /\ 2 \in 1 .. Len(t)
        BY <1>2
      <4>2. t[1] \in Buffers /\ t[2] \in Buffers
        BY <4>1, <1>2, PathTypes
      <4> DEFINE z == <<t[1], t[2]>>
      <4>3. z \in Seq(Buffers) /\ Len(z) = 2 /\ z[1] = t[1] /\ z[2] = t[2]
        BY <4>2
      <4> HIDE DEF z
      <4>4. \A i \in 1 .. 2 : i = 1 \/ i = 2
        OBVIOUS
      <4>5. t = z
        BY <4>3, <4>4, <1>2, <1>3, SeqEqual
      <4> QED BY <4>2, <4>5 DEF z
    <3>2. PICK f, g : f = t[1] /\ g = t[2]
      OBVIOUS
    <3>3. t = Append(<<f>>, g) /\ f \in Buffers /\ g \in Buffers /\ <<f>> \in Seq(Buffers)
      BY <3>1, <3>2
    <3>4. a = data[f] \o data[g]
      BY <1>t, <3>3, LinesAppend, LinesOne
    <3>5. data[f] \in Seq(Nat) /\ data[g] \in Seq(Nat)
      BY <1>t, <3>3
    <3>6. Len(data[f]) = LogBufferSize - 1 /\ Len(data[g]) = LogBufferSize - 1
      BY <1>2, <3>2 DEF Full
    <3>7. Len(a) = Len(data[f]) + Len(data[g])
      BY <3>4, <3>5, ConcatProperties
    <3> QED BY <3>6, <3>7, <1>a
  <2>15. a \in Seq(Nat) /\ b \in Seq(Nat) /\ c \in Seq(Nat) /\ d \in Seq(Nat)
    BY <1>3, <2>11
  <2> HIDE DEF a, b, c, d
  <2>16. (a \o (d \o b)) \o c = a \o (d \o (b \o c)) /\ (a \o b) \o c = a \o (b \o c)
         /\ b \o c \in Seq(Nat)
    <3>1. d \o b \in Seq(Nat) /\ b \o c \in Seq(Nat)
      BY <2>15, ConcatProperties
    <3>2. (a \o (d \o b)) \o c = a \o ((d \o b) \o c)
      <4>1. PICK p : p = d \o b
        OBVIOUS
      <4>2. a \in Seq(Nat) /\ p \in Seq(Nat) /\ c \in Seq(Nat)
        BY <2>15, <3>1, <4>1
      <4>3. (a \o p) \o c = a \o (p \o c)
        BY ONLY <4>2, AssocLines, SMTT(30)
      <4> QED BY <4>1, <4>3
    <3>3. (d \o b) \o c = d \o (b \o c)
      BY ONLY <2>15, AssocLines, SMTT(30)
    <3>4. (a \o b) \o c = a \o (b \o c)
      BY ONLY <2>15, AssocLines, SMTT(30)
    <3> QED BY <3>1, <3>2, <3>3, <3>4
  <2>17. PICK e : e = b \o c
    OBVIOUS
  <2>18. PICK h : h = a
    OBVIOUS
  <2>19. /\ h \in Seq(Nat) /\ e \in Seq(Nat) /\ Len(h) = 2 * (LogBufferSize - 1)
         /\ PendingOf(s, t, u) = h \o (data[node] \o e)
         /\ PendingOf(s, t, x)' = h \o e
    BY <2>12, <2>13, <2>14, <2>15, <2>16, <2>17, <2>18 DEF d
  <2>20. Shed(s, t, u, x)
    BY <2>1, <2>2, <2>10, <2>19 DEF Shed
  <2> QED BY <1>1, <2>4, <2>9, <2>20
<1> QED BY <1>4, <1>5

(* ... writes one buffer after the other, ... *)
LEMMA WriteQueue ==
  ASSUME IndInv, Clean, NEW s, NEW t, NEW u, FrontIs(s), BackIs(t, u), Write
  PROVE  \E w : /\ FrontIs(s)' /\ BackIs(t, w)' /\ Clean' /\ ~Shedding /\ ~Shedding'
                /\ node \in Buffers
                /\ PendingOf(s, t, w)' \in Seq(Nat)
                /\ PendingOf(s, t, u) = data[node] \o PendingOf(s, t, w)'
<1>t. /\ data \in [Buffers -> Seq(Nat)] /\ node \in Pointer
  BY DEF IndInv, TypeOK
<1>1. /\ pc = "write" /\ node # NULL /\ node' = next[node] /\ pc' = "write"
      /\ UNCHANGED <<data, next, owner, instVars, new_buffer1, new_buffer2, whead, wsize>>
  BY DEF Write, WorkerOnly, heapVars, workerVars
<1>2. Path(u, node, next) /\ u # <<>>
  <2>1. Path(u, node, next)
    BY <1>1 DEF BackIs
  <2> QED BY <2>1, <1>1, PathTypes
<1> DEFINE w == Tail(u)
<1>3. /\ Path(w, next[node], next) /\ u = <<node>> \o w /\ node \in Buffers
      /\ ToSet(u) = {node} \cup ToSet(w)
  BY <1>2, PathTail
<1> HIDE DEF w
<1>4. PICK x : x = w
  OBVIOUS
<1>5. FrontIs(s)' /\ Clean'
  BY <1>1 DEF FrontIs, Full, Clean, instVars
<1>6. BackIs(t, x)'
  <2>1. Path(x, node', next')
    BY <1>1, <1>3, <1>4
  <2>2. \A b \in ToSet(x) : owner[b] = "back"
    BY <1>3, <1>4 DEF BackIs
  <2> QED BY <1>1, <2>1, <2>2 DEF BackIs
<1>7. ~Shedding /\ ~Shedding'
  BY <1>1 DEF Shedding
<1>8. x \in Seq(Buffers) /\ LinesIn(data, x) \in Seq(Nat) /\ LinesIn(data, s) \in Seq(Nat)
      /\ data[node] \in Seq(Nat)
  <2>1. x \in Seq(Buffers)
    BY <1>3, <1>4, PathTypes
  <2>2. LinesIn(data, x) \in Seq(Nat)
    BY <2>1, <1>t, LinesType
  <2>3. LinesIn(data, s) \in Seq(Nat)
    BY PendingType
  <2> QED BY <2>1, <2>2, <2>3, <1>3, <1>t
<1>9. PendingOf(s, t, x)' = LinesIn(data, x) \o LinesIn(data, s)
  BY <1>1, <1>7 DEF PendingOf, Held
<1>10. PendingOf(s, t, u) = (data[node] \o LinesIn(data, x)) \o LinesIn(data, s)
  <2>1. LinesIn(data, u) = data[node] \o LinesIn(data, x)
    BY <1>3, <1>4, <1>8, <1>t, LinesFirst
  <2> QED BY <2>1, <1>7 DEF PendingOf, Held
<1>11. (data[node] \o LinesIn(data, x)) \o LinesIn(data, s)
         = data[node] \o (LinesIn(data, x) \o LinesIn(data, s))
  BY <1>8, AssocLines
<1>12. PendingOf(s, t, x)' \in Seq(Nat)
  BY <1>8, <1>9, ConcatProperties
<1> QED BY <1>3, <1>5, <1>6, <1>7, <1>9, <1>10, <1>11, <1>12

(* ... and keeps two of them, or frees them. *)
LEMMA KeepQueue ==
  ASSUME IndInv, Clean, NEW s, NEW t, NEW u, FrontIs(s), BackIs(t, u),
         KeepFirst \/ KeepSecond \/ FreeRest
  PROVE  \E v : /\ FrontIs(s)' /\ BackIs(v, u)' /\ Clean' /\ ~Shedding /\ ~Shedding'
                /\ PendingOf(s, v, u)' = PendingOf(s, t, u)
<1>a. NULL \notin Buffers
  BY LogAssumption DEF LogAssumption
<1>t. /\ data \in [Buffers -> Seq(Nat)] /\ next \in [Buffers -> Pointer]
      /\ owner \in [Buffers -> {"front", "back", "free"}]
      /\ whead \in Pointer
  BY DEF IndInv, TypeOK
<1>1. /\ pc \in {"first", "second", "free"} /\ pc' \in {"second", "free", "loop"}
      /\ UNCHANGED instVars
  BY DEF KeepFirst, KeepSecond, FreeRest, WorkerOnly
<1>2. ~Shedding /\ ~Shedding'
  BY <1>1 DEF Shedding
<1>3. u = <<>> /\ Path(t, whead, next)
      /\ \A b \in Buffers : owner[b] = "back" <=>
           b \in ToSet(t) \/ b = new_buffer1 \/ b = new_buffer2
  <2>1. Path(u, NULL, next)
    BY <1>1 DEF BackIs
  <2>2. u = <<>>
    BY <2>1, PathTypes
  <2> QED BY <2>2, <1>1 DEF BackIs
<1>4. CASE UNCHANGED <<data, next, owner, whead, new_buffer1, new_buffer2>>
  <2>1. FrontIs(s)' /\ Clean'
    BY <1>1, <1>4 DEF FrontIs, Full, Clean, instVars
  <2>2. BackIs(t, u)'
    BY <1>1, <1>3, <1>4, EmptyPath, NoMembers DEF BackIs
  <2>3. PendingOf(s, t, u)' = PendingOf(s, t, u)
    BY <1>2, <1>4 DEF PendingOf, Held
  <2> QED BY <1>2, <2>1, <2>2, <2>3
<1>5. CASE /\ whead # NULL /\ whead' = next[whead] /\ Erase(whead)
           /\ \/ /\ owner' = owner
                 /\ \/ new_buffer1 = NULL /\ new_buffer1' = whead /\ UNCHANGED new_buffer2
                    \/ new_buffer2 = NULL /\ new_buffer2' = whead /\ UNCHANGED new_buffer1
              \/ /\ owner' = [owner EXCEPT ![whead] = "free"]
                 /\ UNCHANGED <<new_buffer1, new_buffer2>>
  <2>1. whead \in Buffers /\ owner[whead] = "back" /\ whead \notin {new_buffer1, new_buffer2}
    BY <1>5, <1>t DEF IndInv, BackSound, Pointer
  <2>2. \A a \in Buffers :
          /\ next'[a] = IF a = whead THEN NULL ELSE next[a]
          /\ data'[a] = IF a = whead THEN <<>> ELSE data[a]
    BY <1>5, <1>t DEF Erase
  <2>3. \A a \in Buffers : a # whead => owner'[a] = owner[a]
    BY <1>5, <1>t
  <2>4. FrontIs(s)' /\ Clean' /\ LinesIn(data', s) = LinesIn(data, s)
    <3>1. owner'[whead] \in {"back", "free"}
      BY <1>5, <1>t, <2>1
    <3> QED BY <3>1, <1>1, <2>1, <2>2, <2>3, WorkerFrame
  <2> DEFINE v == Tail(t)
  <2>5. /\ Path(v, next[whead], next)
        /\ whead \notin ToSet(v) /\ ToSet(t) = {whead} \cup ToSet(v)
    <3>1. t # <<>>
      BY <1>3, <1>5, PathTypes
    <3> QED BY <3>1, <1>3, PathTail
  <2> HIDE DEF v
  <2>6. PICK x : x = v
    OBVIOUS
  <2>7. BackIs(x, u)'
    <3>1. Path(x, whead', next')
      <4>1. \A b \in ToSet(x) : next'[b] = next[b]
        BY <2>2, <2>5, <2>6, PathTypes
      <4> QED BY <4>1, <1>5, <2>5, <2>6, PathFrame
    <3>2. \A b \in Buffers : owner'[b] = "back" <=>
            b \in ToSet(x) \/ b = new_buffer1' \/ b = new_buffer2'
      <4> TAKE b \in Buffers
      <4>1. CASE b = whead
        BY <4>1, <1>a, <1>3, <1>5, <1>t, <2>1, <2>5, <2>6
      <4>2. CASE b # whead
        BY <4>2, <1>a, <1>3, <1>5, <1>t, <2>1, <2>3, <2>5, <2>6
      <4> QED BY <4>1, <4>2
    <3> QED BY <3>1, <3>2, <1>1, <1>3, EmptyPath, NoMembers DEF BackIs
  <2>8. PendingOf(s, x, u)' = PendingOf(s, t, u)
    <3>1. LinesIn(data', u) = LinesIn(data, u)
      BY <1>3, LinesEmpty
    <3> QED BY <3>1, <1>2, <2>4 DEF PendingOf, Held
  <2> QED BY <1>2, <2>4, <2>7, <2>8
<1>6. \/ UNCHANGED <<data, next, owner, whead, new_buffer1, new_buffer2>>
      \/ /\ whead # NULL /\ whead' = next[whead] /\ Erase(whead)
         /\ \/ /\ owner' = owner
               /\ \/ new_buffer1 = NULL /\ new_buffer1' = whead /\ UNCHANGED new_buffer2
                  \/ new_buffer2 = NULL /\ new_buffer2' = whead /\ UNCHANGED new_buffer1
            \/ /\ owner' = [owner EXCEPT ![whead] = "free"]
               /\ UNCHANGED <<new_buffer1, new_buffer2>>
  <2>1. CASE KeepFirst
    BY <2>1 DEF KeepFirst, IndInv, PhaseSound
  <2>2. CASE KeepSecond
    BY <2>2 DEF KeepSecond, IndInv, PhaseSound
  <2>3. CASE FreeRest
    BY <2>3 DEF FreeRest, heapVars
  <2> QED BY <2>1, <2>2, <2>3
<1> QED BY <1>4, <1>5, <1>6

-----------------------------------------------------------------------------
(* The first state has a list of one buffer, and two buffers in reserve. *)
LEMMA QueueInit == Init => QueueInv
<1> SUFFICES ASSUME Init PROVE QueueInv
  OBVIOUS
<1>a. NULL \notin Buffers /\ LogBufferSize \in Nat /\ LogBufferSize >= 2
  BY LogAssumption DEF LogAssumption
<1>1. IndInv
  BY InitInv
<1>2. /\ \A b \in Buffers : next[b] = NULL /\ data[b] = <<>>
      /\ owner = [b \in Buffers |-> IF b \in {first[1], first[2]} THEN "front"
                    ELSE IF b \in {first[3], first[4]} THEN "back" ELSE "free"]
      /\ curr_buffer = first[1] /\ next_buffer = first[2] /\ head = NULL /\ size = 0
      /\ pc = "loop" /\ new_buffer1 = first[3] /\ new_buffer2 = first[4] /\ whead = NULL
  BY DEF Init
<1>3. Clean
  BY <1>2, FourBuffers DEF Clean
<1>4. PICK s : s = <<curr_buffer>>
  OBVIOUS
<1>5. /\ Path(s, curr_buffer, next) /\ ToSet(s) = {curr_buffer} /\ Len(s) = 1
      /\ s[1] = curr_buffer /\ s # <<>>
  BY <1>2, <1>4, FourBuffers, PathOne
<1>6. FrontIs(s)
  <2>1. \A b \in Buffers : owner[b] = "front" <=> b \in ToSet(s) \/ b = next_buffer
    BY <1>2, <1>5
  <2>2. Len(data[curr_buffer]) < LogBufferSize
    BY <1>a, <1>2, FourBuffers
  <2> QED BY <1>2, <1>5, <2>1, <2>2 DEF FrontIs
<1>7. BackIs(<<>>, <<>>)
  <2>1. \A b \in Buffers : owner[b] = "back" <=> b = new_buffer1 \/ b = new_buffer2
    BY <1>2, FourBuffers
  <2> QED BY <1>2, <2>1, EmptyPath, NoMembers DEF BackIs
<1> QED BY <1>1, <1>3, <1>6, <1>7 DEF QueueInv

(* Log and Notice do to the buffers what append does. *)
LEMMA LogIs ==
  ASSUME Log \/ Notice
  PROVE  append /\ UNCHANGED <<workerVars, node, lost, disk>>
         /\ (pc' = pc \/ (pc = "notice" /\ pc' = "drop"))
BY DEF Log, Notice, fileVars

(* The lists stay lists, in every step. *)
LEMMA QueueStep == QueueInv /\ [Next]_vars => QueueInv'
<1> SUFFICES ASSUME QueueInv, [Next]_vars PROVE QueueInv'
  OBVIOUS
<1>1. IndInv /\ IndInv' /\ Clean
  BY Step DEF QueueInv
<1>2. PICK s, t, u : FrontIs(s) /\ BackIs(t, u)
  BY DEF QueueInv
<1>3. Clean' /\ \E x, y, z : FrontIs(x)' /\ BackIs(y, z)'
  <2>1. CASE Log \/ Notice
    <3>1. append /\ UNCHANGED <<workerVars, node>>
          /\ (pc' = pc \/ (pc = "notice" /\ pc' = "drop"))
      BY <2>1, LogIs
    <3>2. PICK r : FrontIs(r)' /\ BackIs(t, u)' /\ Clean'
      BY <1>1, <1>2, <3>1, AppendQueue
    <3> QED BY <3>2
  <2>2. CASE Begin \/ Exit \/ Joined \/ Midnight \/ Written \/ UNCHANGED vars
    BY <1>1, <1>2, <2>2, StillQueue
  <2>3. CASE Swap
    BY <1>1, <1>2, <2>3, SwapQueue
  <2>4. CASE Drop
    BY <1>1, <1>2, <2>4, DropQueue
  <2>5. CASE Dropping
    BY <1>1, <1>2, <2>5, DroppingQueue
  <2>6. CASE Write
    BY <1>1, <1>2, <2>6, WriteQueue
  <2>7. CASE KeepFirst \/ KeepSecond \/ FreeRest
    BY <1>1, <1>2, <2>7, KeepQueue
  <2> QED BY <2>1, <2>2, <2>3, <2>4, <2>5, <2>6, <2>7 DEF Next, Worker
<1> QED BY <1>1, <1>3 DEF QueueInv

(* Every reachable state has its buffers in order.                         *)
THEOREM QueueInvariant == Spec => []QueueInv
<1> QED BY QueueInit, QueueStep, PTL DEF Spec

(* The chains that BuffersAccounted and KeepsPromise follow are the lists. *)
LEMMA ChainsAre ==
  \A s, t, u : IndInv /\ FrontIs(s) /\ BackIs(t, u) =>
    /\ InstChain = s /\ ChainFrom(whead) = t
    /\ pc \in {"dropping", "write"} => ChainFrom(node) = u
    /\ pc \notin {"dropping", "write"} => u = <<>>
<1> SUFFICES ASSUME NEW s, NEW t, NEW u, IndInv, FrontIs(s), BackIs(t, u)
             PROVE  /\ InstChain = s /\ ChainFrom(whead) = t
                    /\ pc \in {"dropping", "write"} => ChainFrom(node) = u
                    /\ pc \notin {"dropping", "write"} => u = <<>>
  OBVIOUS
<1>1. next \in [Buffers -> Pointer]
  BY DEF IndInv, TypeOK
<1>2. \A p : ChainFrom(p) = ChainBy(next, p)
  BY DEF ChainFrom, ChainBy
<1>3. /\ Path(s, IF head = NULL THEN curr_buffer ELSE head, next)
      /\ Path(t, whead, next)
      /\ Path(u, IF pc \in {"dropping", "write"} THEN node ELSE NULL, next)
  BY DEF FrontIs, BackIs
<1>4. InstChain = s
  BY <1>1, <1>2, <1>3, ChainIsPath DEF InstChain
<1>5. ChainFrom(whead) = t
  BY <1>1, <1>2, <1>3, ChainIsPath
<1>6. ASSUME pc \in {"dropping", "write"} PROVE ChainFrom(node) = u
  <2>1. Path(u, node, next)
    BY <1>3, <1>6
  <2> QED BY <1>1, <1>2, <2>1, ChainIsPath
<1>7. ASSUME pc \notin {"dropping", "write"} PROVE u = <<>>
  <2>1. Path(u, NULL, next)
    BY <1>3, <1>7
  <2> QED BY <2>1, PathTypes
<1> QED BY <1>4, <1>5, <1>6, <1>7

(* Nothing leaks and nothing that was freed is in use: each thread finds,  *)
(* along the pointers of lua-log.c, just the buffers it owns, and the list *)
(* of inst is as long as inst says and ends with the current buffer.       *)
THEOREM NothingLeaks == Spec => []BuffersAccounted
<1>1. QueueInv => BuffersAccounted
  <2> SUFFICES ASSUME QueueInv PROVE BuffersAccounted
    OBVIOUS
  <2>a. NULL \notin Buffers
    BY LogAssumption DEF LogAssumption
  <2>1. PICK s, t, u : FrontIs(s) /\ BackIs(t, u)
    BY DEF QueueInv
  <2>2. IndInv
    BY DEF QueueInv
  <2>3. /\ InstChain = s /\ ChainFrom(whead) = t
        /\ pc = "dropping" => ChainFrom(node) = u
    BY <2>1, <2>2, ChainsAre
  <2>t. /\ next_buffer \in Pointer /\ new_buffer1 \in Pointer /\ new_buffer2 \in Pointer
    BY <2>2 DEF IndInv, TypeOK
  <2>4. Last(InstChain) = curr_buffer /\ Len(InstChain) = size + 1
    BY <2>1, <2>3 DEF FrontIs, Last
  <2>5. {b \in Buffers : owner[b] = "front"} = (ToSet(InstChain) \cup {next_buffer}) \ {NULL}
    <3>1. ToSet(s) \subseteq Buffers
      BY <2>1, PathTypes DEF FrontIs
    <3>2. \A b \in Buffers : owner[b] = "front" <=> b \in ToSet(s) \/ b = next_buffer
      BY <2>1 DEF FrontIs
    <3> QED BY <2>a, <2>t, <2>3, <3>1, <3>2 DEF Pointer
  <2>6. {b \in Buffers : owner[b] = "back"}
          = (ToSet(ChainFrom(whead)) \cup {new_buffer1, new_buffer2}
               \cup (IF pc = "dropping" THEN ToSet(ChainFrom(node)) ELSE {})) \ {NULL}
    <3>1. ToSet(t) \subseteq Buffers /\ ToSet(u) \subseteq Buffers
      BY <2>1, PathTypes DEF BackIs
    <3>2. \A b \in Buffers : owner[b] = "back" <=>
            \/ b \in ToSet(t) \/ b = new_buffer1 \/ b = new_buffer2
            \/ pc = "dropping" /\ b \in ToSet(u)
      BY <2>1 DEF BackIs
    <3>3. CASE pc = "dropping"
      BY <2>a, <2>t, <2>3, <3>1, <3>2, <3>3 DEF Pointer
    <3>4. CASE pc # "dropping"
      BY <2>a, <2>t, <2>3, <3>1, <3>2, <3>4 DEF Pointer
    <3> QED BY <3>3, <3>4
  <2> QED BY <2>4, <2>5, <2>6 DEF BuffersAccounted
<1> QED BY QueueInvariant, <1>1, PTL

-----------------------------------------------------------------------------
(* The refinement.                                                         *)

(* The two parts of a concatenation. *)
LEMMA Parts ==
  ASSUME NEW x \in Seq(Nat), NEW y \in Seq(Nat)
  PROVE  /\ x \o y \in Seq(Nat) /\ Len(x \o y) = Len(x) + Len(y)
         /\ Len(x) \in Nat /\ Len(y) \in Nat
         /\ SubSeq(x \o y, 1, Len(x)) = x
         /\ SubSeq(x \o y, Len(x) + 1, Len(x \o y)) = y
<1> DEFINE z == x \o y
           m == Len(x)
           n == Len(y)
<1>1. /\ z \in Seq(Nat) /\ Len(z) = m + n /\ m \in Nat /\ n \in Nat
      /\ \A i \in 1 .. m + n : z[i] = IF i <= m THEN x[i] ELSE y[i - m]
      /\ \A i \in 1 .. m + n : z[i] \in Nat
  <2>1. /\ z \in Seq(Nat) /\ Len(z) = m + n
        /\ \A i \in 1 .. m + n : z[i] = IF i <= m THEN x[i] ELSE y[i - m]
    BY ConcatProperties
  <2>2. m \in Nat /\ n \in Nat
    BY LenProperties
  <2> HIDE DEF z
  <2> QED BY <2>1, <2>2, ElementOfSeq
<1> HIDE DEF z
<1>2. SubSeq(z, 1, m) = x
  <2>1. \A i \in 1 .. m : z[i] \in Nat /\ z[i] = x[i]
    BY <1>1
  <2> DEFINE w == SubSeq(z, 1, m)
  <2>2. /\ w \in Seq(Nat) /\ Len(w) = (IF 1 <= m THEN m - 1 + 1 ELSE 0)
        /\ \A i \in 1 .. m - 1 + 1 : w[i] = z[1 + i - 1]
    BY <1>1, <2>1, SubSeqProperties
  <2> HIDE DEF w
  <2>3. Len(w) = m /\ \A i \in 1 .. m : w[i] = x[i]
    BY <1>1, <2>1, <2>2
  <2>4. w = x
    BY <2>2, <2>3, SeqEqual
  <2> QED BY <2>4 DEF w
<1>3. SubSeq(z, m + 1, m + n) = y
  <2>1. \A i \in m + 1 .. m + n : z[i] \in Nat
    BY <1>1
  <2> DEFINE w == SubSeq(z, m + 1, m + n)
             k == m + 1
             l == m + n
  <2>2. /\ w \in Seq(Nat) /\ Len(w) = (IF k <= l THEN l - k + 1 ELSE 0)
        /\ \A i \in 1 .. l - k + 1 : w[i] = z[k + i - 1]
    <3>1. k \in Int /\ l \in Int /\ \A i \in k .. l : z[i] \in Nat
      BY <1>1, <2>1
    <3>2. w = SubSeq(z, k, l)
      OBVIOUS
    <3> HIDE DEF w, k, l, m, n
    <3> QED BY <3>1, <3>2, SubSeqProperties
  <2> HIDE DEF w
  <2>3. Len(w) = n
    BY <1>1, <2>2
  <2>4. ASSUME NEW i \in 1 .. n PROVE w[i] = y[i]
    <3>1. i \in 1 .. l - k + 1 /\ k + i - 1 = m + i
      BY <1>1
    <3>2. w[i] = z[m + i]
      BY <2>2, <3>1
    <3>3. m + i \in 1 .. m + n /\ ~(m + i <= m) /\ m + i - m = i
      BY <1>1
    <3> QED BY <1>1, <3>2, <3>3, SMTT(20)
  <2>5. w = y
    BY <2>2, <2>3, <2>4, SeqEqual
  <2> QED BY <2>5 DEF w
<1> QED BY <1>1, <1>2, <1>3 DEF z

(* The sequence of no lines. *)
LEMMA NoLength ==
  ASSUME NEW x \in Seq(Nat), Len(x) = 0
  PROVE  x = <<>> /\ ToSet(x) = {} /\ \A y \in Seq(Nat) : x \o y = y
<1>1. x = <<>>
  BY EmptySeq
<1> QED BY <1>1, NoMembers, ConcatEmptySeq

(* The lines on their way are those of the lists, ... *)
LEMMA PendingIs ==
  \A s, t, u : IndInv /\ FrontIs(s) /\ BackIs(t, u) =>
    Lines(BeingWritten \o InstChain) = PendingOf(s, t, u)
<1> SUFFICES ASSUME NEW s, NEW t, NEW u, IndInv, FrontIs(s), BackIs(t, u)
             PROVE  Lines(BeingWritten \o InstChain) = PendingOf(s, t, u)
  OBVIOUS
<1>1. /\ InstChain = s /\ ChainFrom(whead) = t
      /\ pc \in {"dropping", "write"} => ChainFrom(node) = u
      /\ pc \notin {"dropping", "write"} => u = <<>>
  BY ChainsAre
<1>2. s \in Seq(Buffers) /\ t \in Seq(Buffers) /\ u \in Seq(Buffers)
  BY PendingType
<1>3. BeingWritten = Held(t, u)
  <2>1. pc \in {"notice", "drop"} => t \o u = t
    BY <1>1, <1>2, ConcatEmptySeq
  <2> QED BY <1>1, <2>1 DEF BeingWritten, Held, Shedding
<1>4. Held(t, u) \in Seq(Buffers) /\ data \in [Buffers -> Seq(Nat)]
  BY <1>2, ConcatProperties DEF Held, IndInv, TypeOK
<1>5. LinesIn(data, Held(t, u) \o s) = PendingOf(s, t, u)
  BY <1>2, <1>4, LinesConcat DEF PendingOf
<1>6. Lines(Held(t, u) \o s) = LinesIn(data, Held(t, u) \o s)
  BY DEF Lines, LinesIn, Contents
<1> QED BY <1>1, <1>3, <1>5, <1>6

(* ... after a step, too. *)
LEMMA PendingIsNext ==
  (\A s, t, u : IndInv /\ FrontIs(s) /\ BackIs(t, u) =>
     Lines(BeingWritten \o InstChain) = PendingOf(s, t, u))'
BY PendingIs, PTL

DiskLines == [i \in DOMAIN disk |-> disk[i].line]

(* One fwrite puts the lines of the buffer behind those on the disk. *)
LEMMA DiskAfterWrite ==
  ASSUME IndInv, Write, node \in Buffers
  PROVE  DiskLines' = DiskLines \o data[node] /\ data[node] \in Seq(Nat)
<1> DEFINE d == data[node]
           e == [i \in DOMAIN d |-> [line |-> d[i], file |-> handle]]
           n == Len(disk)
           k == Len(d)
           File == [day : Nat, index : {0, 1}]
           Entry == [line : Nat, file : File]
<1>1. d \in Seq(Nat) /\ handle \in File /\ disk \in Seq(Entry)
  BY DEF IndInv, TypeOK
<1>2. disk' = disk \o e
  BY DEF Write
<1> HIDE DEF d
<1>3. /\ DOMAIN d = 1 .. k /\ k \in Nat /\ \A i \in 1 .. k : d[i] \in Nat
      /\ DOMAIN disk = 1 .. n /\ n \in Nat /\ \A i \in 1 .. n : disk[i] \in Entry
  BY <1>1, LenProperties, ElementOfSeq
<1>4. /\ e \in Seq(Entry) /\ Len(e) = k /\ \A i \in 1 .. k : e[i].line = d[i]
  <2>1. e \in [1 .. k -> Entry]
    BY <1>1, <1>3
  <2>2. \A i \in 1 .. k : e[i].line = d[i]
    BY <1>3
  <2> HIDE DEF e, Entry
  <2>3. e \in Seq(Entry)
    BY <2>1, <1>3, SeqDef
  <2>4. 1 .. Len(e) = 1 .. k /\ Len(e) \in Nat
    BY <2>1, <2>3, LenProperties
  <2> QED BY <2>2, <2>3, <2>4, <1>3, SameBound
<1> HIDE DEF e, Entry
<1>5. /\ disk' \in Seq(Entry) /\ Len(disk') = n + k
      /\ \A i \in 1 .. n + k : disk'[i] = IF i <= n THEN disk[i] ELSE e[i - n]
  <2> HIDE DEF n, k, File
  <2>1. PICK x, y, z : x = disk /\ y = disk' /\ z = e
    OBVIOUS
  <2>2. x \in Seq(Entry) /\ z \in Seq(Entry) /\ y = x \o z /\ Len(x) = n /\ Len(z) = k
    BY <1>1, <1>2, <1>4, <2>1 DEF n
  <2>3. /\ x \o z \in Seq(Entry) /\ Len(x \o z) = Len(x) + Len(z)
        /\ \A i \in 1 .. Len(x) + Len(z) :
             (x \o z)[i] = IF i <= Len(x) THEN x[i] ELSE z[i - Len(x)]
    BY ONLY <2>2, ConcatProperties
  <2> QED BY <2>1, <2>2, <2>3
<1>6. DOMAIN disk' = 1 .. n + k
  BY <1>5, LenProperties
<1> HIDE DEF n, k
<1> DEFINE f == [i \in 1 .. n |-> disk[i].line]
           g == [i \in 1 .. n + k |-> disk'[i].line]
<1>7. DiskLines = f /\ DiskLines' = g
  BY <1>3, <1>6 DEF DiskLines
<1>8. /\ \A i \in 1 .. n : disk[i].line \in Nat
      /\ \A i \in 1 .. n + k : disk'[i].line \in Nat
  <2> HIDE DEF File
  <2>1. \A x \in Entry : x.line \in Nat
    BY DEF Entry
  <2>2. PICK m : m = n + k /\ m \in Nat
    BY <1>3 DEF n, k
  <2>3. \A i \in 1 .. m : disk'[i] \in Entry
    BY <1>5, <2>2, ElementOfSeq
  <2> QED BY <1>3, <2>1, <2>2, <2>3
<1>9. f \in Seq(Nat) /\ Len(f) = n /\ \A i \in 1 .. n : f[i] = disk[i].line
  <2>1. f \in [1 .. n -> Nat] /\ \A i \in 1 .. n : f[i] = disk[i].line
    BY <1>8
  <2> HIDE DEF f
  <2>2. f \in Seq(Nat)
    BY <2>1, <1>3, SeqDef
  <2>3. 1 .. Len(f) = 1 .. n /\ Len(f) \in Nat
    BY <2>1, <2>2, LenProperties
  <2> QED BY <2>1, <2>2, <2>3, <1>3, SameBound
<1>10. g \in Seq(Nat) /\ Len(g) = n + k
       /\ \A i \in 1 .. n + k : g[i] = disk'[i].line
  <2>1. g \in [1 .. n + k -> Nat] /\ \A i \in 1 .. n + k : g[i] = disk'[i].line
    BY <1>8
  <2>2. n + k \in Nat
    BY <1>3
  <2> HIDE DEF g
  <2>3. PICK m : m = n + k
    OBVIOUS
  <2>4. g \in Seq(Nat)
    BY <2>1, <2>2, <2>3, SeqDef
  <2>5. 1 .. Len(g) = 1 .. n + k /\ Len(g) \in Nat
    BY <2>1, <2>4, LenProperties
  <2> QED BY <2>1, <2>2, <2>4, <2>5, SameBound
<1> HIDE DEF f, g
<1>11. /\ f \o d \in Seq(Nat) /\ Len(f \o d) = n + k
       /\ \A i \in 1 .. n + k : (f \o d)[i] = IF i <= n THEN f[i] ELSE d[i - n]
  BY <1>1, <1>9, ConcatProperties DEF k
<1>12. ASSUME NEW i \in 1 .. n + k PROVE g[i] = (f \o d)[i]
  <2>1. CASE i <= n
    <3>1. i \in 1 .. n
      BY <2>1, <1>3
    <3> QED BY <2>1, <3>1, <1>5, <1>9, <1>10, <1>11
  <2>2. CASE ~(i <= n)
    <3>1. i - n \in 1 .. k
      BY <2>2, <1>3
    <3> QED BY <2>2, <3>1, <1>4, <1>5, <1>10, <1>11
  <2> QED BY <2>1, <2>2
<1>13. g = f \o d
  BY <1>10, <1>11, <1>12, SeqEqual
<1> QED BY <1>1, <1>7, <1>13 DEF d

Pending == Lines(BeingWritten \o InstChain)

(* Every step of the logger is one of the promise, or none. *)
LEMMA PromiseStep ==
  QueueInv /\ QueueInv' /\ [Next]_vars =>
    [Promise!Next]_<<accepted, Pending, DiskLines, Shedding, lost>>
<1> SUFFICES ASSUME QueueInv, QueueInv', [Next]_vars
             PROVE  [Promise!Next]_<<accepted, Pending, DiskLines, Shedding, lost>>
  OBVIOUS
<1>a. LogBufferSize \in Nat /\ LogBufferSize >= 2 /\ MaxKept \in Nat
  BY LogAssumption DEF LogAssumption
<1>i. IndInv /\ IndInv' /\ Clean
  BY DEF QueueInv
<1>1. PICK s, t, u : FrontIs(s) /\ BackIs(t, u)
  BY DEF QueueInv
<1>2. PICK P : P = PendingOf(s, t, u)
  OBVIOUS
<1>3. Pending = P /\ P \in Seq(Nat)
  BY <1>i, <1>1, <1>2, PendingIs, PendingType DEF Pending
<1>4. ASSUME NEW x, NEW y, NEW z, FrontIs(x)', BackIs(y, z)'
      PROVE  Pending' = PendingOf(x, y, z)'
  BY <1>i, <1>4, PendingIsNext DEF Pending
<1>5. CASE Log \/ Notice
  <2>1. /\ append /\ UNCHANGED <<workerVars, node, lost, disk>>
        /\ (pc' = pc \/ (pc = "notice" /\ pc' = "drop"))
    BY <1>5, LogIs
  <2>2. PICK r : /\ FrontIs(r)' /\ BackIs(t, u)'
                 /\ PendingOf(r, t, u)' = Append(PendingOf(s, t, u), accepted + 1)
                 /\ Shedding' = Shedding
    BY <1>i, <1>1, <2>1, AppendQueue
  <2>3. Pending' = Append(Pending, accepted + 1)
    BY <2>2, <1>2, <1>3, <1>4
  <2>4. accepted' = accepted + 1
    BY <2>1 DEF append
  <2>5. Promise!Accept
    BY <2>1, <2>2, <2>3, <2>4 DEF Promise!Accept, Pending, Shedding, DiskLines
  <2> QED BY <2>5 DEF Promise!Next
<1>6. CASE Begin \/ Exit \/ Joined \/ Midnight \/ Written \/ UNCHANGED vars
  <2>1. /\ FrontIs(s)' /\ BackIs(t, u)'
        /\ PendingOf(s, t, u)' = PendingOf(s, t, u) /\ Shedding' = Shedding
    BY <1>i, <1>1, <1>6, StillQueue
  <2>2. Pending' = Pending
    BY <2>1, <1>2, <1>3, <1>4
  <2>3. UNCHANGED <<accepted, disk, lost>>
    BY <1>6 DEF Begin, Exit, Joined, Midnight, Written, vars, fileVars
  <2> QED BY <2>1, <2>2, <2>3 DEF DiskLines
<1>7. CASE Swap
  <2>1. PICK r, v : /\ FrontIs(r)' /\ BackIs(s, v)'
                    /\ PendingOf(r, s, v)' = PendingOf(s, t, u) /\ ~Shedding
                    /\ Shedding' => Len(PendingOf(s, t, u)) >= MaxKept * (LogBufferSize - 1)
    BY <1>i, <1>1, <1>7, SwapQueue
  <2>2. Pending' = Pending
    BY <2>1, <1>2, <1>3, <1>4
  <2>3. UNCHANGED <<accepted, disk, lost>>
    BY <1>7 DEF Swap
  <2>4. CASE Shedding'
    <3>1. Shedding' = TRUE
      BY <2>4 DEF Shedding
    <3>2. Promise!Overloaded
      BY <2>1, <2>2, <2>3, <2>4, <1>2, <1>3
         DEF Promise!Overloaded, Pending, Shedding, DiskLines
    <3> QED BY <3>2 DEF Promise!Next
  <2>5. CASE ~Shedding'
    <3>1. Shedding' = Shedding
      BY <2>1, <2>5 DEF Shedding
    <3> QED BY <2>2, <2>3, <3>1 DEF DiskLines
  <2> QED BY <2>4, <2>5
<1>8. CASE Drop
  <2>1. PICK v, w : /\ FrontIs(s)' /\ BackIs(v, w)'
                    /\ PendingOf(s, v, w)' = PendingOf(s, t, u)
                    /\ Shedding /\ Shedding'
    BY <1>i, <1>1, <1>8, DropQueue
  <2>2. Pending' = Pending
    BY <2>1, <1>2, <1>3, <1>4
  <2>3. UNCHANGED <<accepted, disk, lost>>
    BY <1>8 DEF Drop, fileVars
  <2>4. Shedding' = Shedding
    BY <2>1 DEF Shedding
  <2> QED BY <2>2, <2>3, <2>4 DEF DiskLines
<1>9. CASE Dropping
  <2>1. PICK w : FrontIs(s)' /\ BackIs(t, w)' /\ Clean' /\ Shedding /\ Shed(s, t, u, w)
    BY <1>i, <1>1, <1>9, DroppingQueue
  <2>2. UNCHANGED <<accepted, disk>>
    BY <1>9 DEF Dropping, fileVars
  <2>3. CASE node = NULL /\ ~Shedding' /\ lost' = lost
             /\ PendingOf(s, t, w)' = PendingOf(s, t, u)
    <3>1. Pending' = Pending
      BY <2>1, <2>3, <1>2, <1>3, <1>4
    <3>2. Promise!Relieved
      BY <2>2, <2>3, <3>1 DEF Promise!Relieved, Pending, Shedding, DiskLines
    <3> QED BY <3>2 DEF Promise!Next
  <2>4. CASE /\ node \in Buffers /\ Shedding'
             /\ lost' = lost \cup ToSet(data[node])
             /\ \E a, c \in Seq(Nat) :
                  /\ Len(a) = 2 * (LogBufferSize - 1)
                  /\ PendingOf(s, t, u) = a \o (data[node] \o c)
                  /\ PendingOf(s, t, w)' = a \o c
    <3>1. PICK a \in Seq(Nat), c \in Seq(Nat) :
             /\ Len(a) = 2 * (LogBufferSize - 1)
             /\ Pending = a \o (data[node] \o c) /\ Pending' = a \o c
      BY <2>1, <2>4, <1>2, <1>3, <1>4
    <3>2. PICK d : d = data[node]
      OBVIOUS
    <3>3. d \in Seq(Nat)
      BY <1>i, <2>4, <3>2 DEF IndInv, TypeOK
    <3>4. CASE Len(d) = 0
      <4>1. d = <<>> /\ ToSet(d) = {} /\ d \o c = c
        BY <3>3, <3>4, NoLength
      <4>2. Pending' = Pending /\ lost' = lost
        BY <2>4, <3>1, <3>2, <4>1
      <4>3. Shedding' = Shedding
        BY <2>1, <2>4 DEF Shedding
      <4> QED BY <2>2, <4>2, <4>3 DEF DiskLines
    <3>5. CASE Len(d) # 0
      <4> DEFINE k == Len(a)
                 l == Len(d)
                 p == a \o (d \o c)
      <4>1. /\ k \in Nat /\ l \in Nat /\ d \o c \in Seq(Nat)
            /\ Len(p) = k + Len(d \o c) /\ Len(d \o c) = l + Len(c) /\ Len(c) \in Nat
            /\ SubSeq(p, 1, k) = a
        BY <3>3, Parts
      <4>2. p = (a \o d) \o c /\ a \o d \in Seq(Nat) /\ Len(a \o d) = k + l
            /\ SubSeq(p, k + l + 1, Len(p)) = c
        <5>1. p = (a \o d) \o c
          BY <3>3, AssocLines
        <5>2. a \o d \in Seq(Nat) /\ Len(a \o d) = k + l
          BY <3>3, Parts
        <5>3. SubSeq((a \o d) \o c, Len(a \o d) + 1, Len((a \o d) \o c)) = c
          BY <5>2, Parts
        <5> QED BY <5>1, <5>2, <5>3
      <4>3. ToSet(d) = {p[j] : j \in k + 1 .. k + l}
        <5>1. \A j \in 1 .. k + l + Len(c) :
                 p[j] = IF j <= k THEN a[j] ELSE (d \o c)[j - k]
          BY <4>1, ConcatProperties
        <5>2. \A j \in 1 .. l + Len(c) : (d \o c)[j] = IF j <= l THEN d[j] ELSE c[j - l]
          BY <3>3, ConcatProperties
        <5>3. \A x : x \in ToSet(d) <=> \E i \in 1 .. l : d[i] = x
          BY <3>3, Members
        <5> HIDE DEF p, k, l
        <5>4. \A j \in 1 .. l : k + j \in k + 1 .. k + l /\ p[k + j] = d[j]
          <6> TAKE j \in 1 .. l
          <6>1. /\ k + j \in 1 .. k + l + Len(c) /\ ~(k + j <= k) /\ k + j - k = j
                /\ j \in 1 .. l + Len(c) /\ j <= l /\ k + j \in k + 1 .. k + l
            BY <4>1
          <6>2. p[k + j] = (d \o c)[j]
            <7>1. PICK m : m = k + j
              OBVIOUS
            <7>2. p[m] = (d \o c)[m - k]
              BY <5>1, <6>1, <7>1
            <7> QED BY <6>1, <7>1, <7>2, <4>1
          <6> QED BY <5>2, <6>1, <6>2
        <5>5. \A j \in k + 1 .. k + l : j - k \in 1 .. l /\ k + (j - k) = j
          BY <4>1
        <5>6. \A j \in k + 1 .. k + l : p[j] = d[j - k]
          BY <5>4, <5>5
        <5>7. ToSet(d) \subseteq {p[j] : j \in k + 1 .. k + l}
          BY <5>3, <5>4
        <5>8. {p[j] : j \in k + 1 .. k + l} \subseteq ToSet(d)
          BY <5>3, <5>5, <5>6
        <5> QED BY <5>7, <5>8
      <4> HIDE DEF p, k, l
      <4>4. PICK i, j : i = k + 1 /\ j = k + l
        OBVIOUS
      <4>5. /\ i \in 2 * (LogBufferSize - 1) + 1 .. Len(p) /\ j \in 1 .. Len(p) /\ i <= j
        <5>1. k = 2 * (LogBufferSize - 1) /\ l # 0
          BY <3>1, <3>5 DEF k, l
        <5> QED BY <5>1, <4>1, <4>4, <1>a
      <4>6. /\ Pending' = SubSeq(Pending, 1, i - 1) \o SubSeq(Pending, j + 1, Len(Pending))
            /\ lost' = lost \cup {Pending[m] : m \in i .. j}
            /\ i \in 2 * (LogBufferSize - 1) + 1 .. Len(Pending)
            /\ j \in 1 .. Len(Pending) /\ i <= j
        <5>1. Pending = p
          BY <3>1, <3>2 DEF p
        <5>2. i - 1 = k
          BY <4>1, <4>4
        <5>3. Pending' = a \o c
          BY <3>1
        <5> QED BY <2>4, <3>2, <4>1, <4>2, <4>3, <4>4, <4>5, <5>1, <5>2, <5>3
      <4>7. Shedding /\ Shedding' = Shedding
        BY <2>1, <2>4 DEF Shedding
      <4>8. Promise!GiveUp
        BY <2>2, <4>6, <4>7 DEF Promise!GiveUp, Pending, Shedding, DiskLines
      <4> QED BY <4>8 DEF Promise!Next
    <3> QED BY <3>4, <3>5
  <2> QED BY <2>1, <2>3, <2>4 DEF Shed
<1>10. CASE Write
  <2>1. PICK w : /\ FrontIs(s)' /\ BackIs(t, w)' /\ ~Shedding /\ ~Shedding'
                 /\ node \in Buffers
                 /\ PendingOf(s, t, w)' \in Seq(Nat)
                 /\ PendingOf(s, t, u) = data[node] \o PendingOf(s, t, w)'
    BY <1>i, <1>1, <1>10, WriteQueue
  <2>2. PICK c, d : c = Pending' /\ d = data[node]
    OBVIOUS
  <2>3. Pending = d \o c /\ c \in Seq(Nat)
    BY <2>1, <2>2, <1>2, <1>3, <1>4
  <2>4. DiskLines' = DiskLines \o d /\ d \in Seq(Nat)
    BY <1>i, <1>10, <2>1, <2>2, DiskAfterWrite
  <2>5. UNCHANGED <<accepted, lost>> /\ Shedding' = Shedding
    BY <1>10, <2>1 DEF Write, Shedding
  <2>6. /\ Len(d) \in Nat /\ Len(c) \in Nat /\ Len(Pending) = Len(d) + Len(c)
        /\ SubSeq(Pending, 1, Len(d)) = d
        /\ SubSeq(Pending, Len(d) + 1, Len(Pending)) = c
    BY <2>3, <2>4, Parts
  <2>7. CASE Len(d) = 0
    <3>1. d = <<>> /\ d \o c = c
      BY <2>3, <2>4, <2>7, NoLength
    <3>2. DiskLines \o <<>> = DiskLines
      <4>1. \A i \in DOMAIN disk : disk[i].line \in Nat
        <5> DEFINE File == [day : Nat, index : {0, 1}]
                   Entry == [line : Nat, file : File]
        <5>1. disk \in Seq(Entry)
          BY <1>i DEF IndInv, TypeOK
        <5>2. \A x \in Entry : x.line \in Nat
          OBVIOUS
        <5> HIDE DEF Entry
        <5>3. DOMAIN disk = 1 .. Len(disk) /\ \A i \in 1 .. Len(disk) : disk[i] \in Entry
          BY <5>1, LenProperties, ElementOfSeq
        <5> QED BY <5>2, <5>3
      <4>2. DiskLines \in Seq(Nat)
        <5> DEFINE n == Len(disk)
        <5>1. n \in Nat /\ DOMAIN disk = 1 .. n
          BY <1>i, LenProperties DEF IndInv, TypeOK
        <5>2. DiskLines \in [1 .. n -> Nat]
          BY <4>1, <5>1 DEF DiskLines
        <5> HIDE DEF n
        <5> QED BY <5>1, <5>2, SeqDef
      <4> QED BY <4>2, ConcatEmptySeq
    <3>3. Pending' = Pending /\ DiskLines' = DiskLines
      BY <2>2, <2>3, <2>4, <3>1, <3>2
    <3> QED BY <2>5, <3>3
  <2>8. CASE Len(d) # 0
    <3>1. Len(d) \in 1 .. Len(Pending)
      BY <2>6, <2>8
    <3>2. /\ DiskLines' = DiskLines \o SubSeq(Pending, 1, Len(d))
          /\ Pending' = SubSeq(Pending, Len(d) + 1, Len(Pending))
      BY <2>2, <2>4, <2>6
    <3>3. Promise!Write
      BY <2>1, <2>5, <3>1, <3>2 DEF Promise!Write, Pending, Shedding, DiskLines
    <3> QED BY <3>3 DEF Promise!Next
  <2> QED BY <2>7, <2>8
<1>11. CASE KeepFirst \/ KeepSecond \/ FreeRest
  <2>1. PICK v : /\ FrontIs(s)' /\ BackIs(v, u)' /\ ~Shedding /\ ~Shedding'
                 /\ PendingOf(s, v, u)' = PendingOf(s, t, u)
    BY <1>i, <1>1, <1>11, KeepQueue
  <2>2. Pending' = Pending
    BY <2>1, <1>2, <1>3, <1>4
  <2>3. UNCHANGED <<accepted, disk, lost>>
    BY <1>11 DEF KeepFirst, KeepSecond, FreeRest, fileVars
  <2>4. Shedding' = Shedding
    BY <2>1 DEF Shedding
  <2> QED BY <2>2, <2>3, <2>4 DEF DiskLines
<1> QED BY <1>5, <1>6, <1>7, <1>8, <1>9, <1>10, <1>11 DEF Next, Worker

(* The logger implements LogPromise: lines reach the disk in the order in  *)
(* which they were accepted, none twice, and lines are given up only in a  *)
(* round that found more than MaxKept buffers, never those of the first    *)
(* two.                                                                    *)
THEOREM PromiseKept == Spec => KeepsPromise
<1>1. Init => Promise!Init
  <2> SUFFICES ASSUME Init PROVE Promise!Init
    OBVIOUS
  <2>1. QueueInv
    BY QueueInit
  <2>2. PICK s, t, u : FrontIs(s) /\ BackIs(t, u)
    BY <2>1 DEF QueueInv
  <2>3. Lines(BeingWritten \o InstChain) = PendingOf(s, t, u)
    BY <2>1, <2>2, PendingIs DEF QueueInv
  <2>4. PendingOf(s, t, u) = <<>>
    <3>1. s = <<curr_buffer>> /\ curr_buffer \in Buffers /\ data[curr_buffer] = <<>>
      <4>1. /\ s \in Seq(Buffers) /\ Len(s) = 1 /\ s[1] = curr_buffer
            /\ curr_buffer \in Buffers /\ data[curr_buffer] = <<>>
        BY <2>2, FourBuffers DEF Init, FrontIs, Path
      <4> DEFINE z == <<curr_buffer>>
      <4>2. z \in Seq(Buffers) /\ Len(z) = 1 /\ z[1] = curr_buffer
        BY <4>1
      <4> HIDE DEF z
      <4>3. s = z
        BY <4>1, <4>2, SeqEqual
      <4> QED BY <4>1, <4>3 DEF z
    <3>2. u = <<>> /\ ~Shedding
      <4>1. pc = "loop"
        BY DEF Init
      <4>2. Path(u, NULL, next)
        BY <2>2, <4>1 DEF BackIs
      <4> QED BY <4>1, <4>2, PathTypes DEF Shedding
    <3>3. data \in [Buffers -> Seq(Nat)]
      BY <2>1 DEF QueueInv, IndInv, TypeOK
    <3>4. LinesIn(data, s) = <<>> /\ LinesIn(data, Held(t, u)) = <<>>
      BY <3>1, <3>2, <3>3, LinesOne, LinesEmpty DEF Held
    <3> QED BY <3>4 DEF PendingOf
  <2>5. /\ accepted = 0 /\ lost = {} /\ pc = "loop" /\ disk = <<>>
    BY DEF Init
  <2>6. [i \in DOMAIN disk |-> disk[i].line] = <<>>
    BY <2>5
  <2>7. (pc \in {"notice", "drop", "dropping"}) = FALSE
    BY <2>5
  <2> QED BY <2>3, <2>4, <2>5, <2>6, <2>7 DEF Promise!Init
<1>2. QueueInv /\ QueueInv' /\ [Next]_vars =>
        [Promise!Next]_<<accepted, Lines(BeingWritten \o InstChain),
            [i \in DOMAIN disk |-> disk[i].line],
            pc \in {"notice", "drop", "dropping"}, lost>>
  BY PromiseStep DEF Pending, DiskLines, Shedding
<1> QED
  BY <1>1, <1>2, QueueInvariant, PTL DEF Spec, KeepsPromise, Promise!Spec
=============================================================================
