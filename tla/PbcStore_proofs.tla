-------------------------- MODULE PbcStore_proofs --------------------------
(***************************************************************************)
(* Machine-checked proofs about PbcStore, for any names and hash values,   *)
(* any sizes of values, strings and pages, and any number of operations:   *)
(* what is in use fits into its block and is apart from all the rest, the  *)
(* two ways through a table visit every entry once, and table and array    *)
(* implement StorePromise.                                                 *)
(*                                                                         *)
(* None of this is inductive.  StoreInv adds what the code relies on and   *)
(* never checks.  TableInv: in the slots, whose chains end, every name is  *)
(* on the chain of its home slot, or Find misses it; used slots are as     *)
(* many as size says, or the probe for a free slot finds none; and the     *)
(* pointers are the numbers of the values, each once.  ArrayInv: an array  *)
(* that has outgrown its inner storage has as many cells as the least      *)
(* power of two above its entries, or Grows misses the moment to move.     *)
(* Sound: the regions in use are those of a Layout, a family of regions    *)
(* that fit and are apart; the heap keeps its free space behind the mark   *)
(* of its current page; without a heap each container has blocks of its    *)
(* own, so that what it frees is nobody else's; and the pool has given     *)
(* away the first part of its current page only.                           *)
(*                                                                         *)
(* What recursive functions compute (Doubled, Find, sp_rehash, sp_foreach, *)
(* the walk along sp_next) is proved by the least counterexample: Least.   *)
(***************************************************************************)
EXTENDS PbcStore, FiniteSetTheorems, WellFoundedInduction, FunctionTheorems,
        SequenceTheorems, TLAPS

-----------------------------------------------------------------------------
(* Least numbers and recursion. *)

(* A set of natural numbers that is not empty has a least one. *)
LEMMA Least ==
  ASSUME NEW T \in SUBSET Nat, T # {}
  PROVE  \E n \in T : \A k \in T : n <= k
<1> DEFINE R == {p \in Nat \X Nat : p[1] < p[2]}
<1>1. IsWellFoundedOn(R, Nat)
  BY NatLessThanWellFounded DEF OpToRel
<1>2. PICK n \in T : \A k \in T : <<k, n>> \notin R
  BY <1>1, WFMin
<1>3. ASSUME NEW k \in T PROVE n <= k
  <2>1. ~(k < n)  BY <1>2
  <2> QED BY <2>1
<1> QED BY <1>2, <1>3

(* Min of FiniteSetsExt is that one. *)
LEMMA MinIs ==
  ASSUME NEW T \in SUBSET Nat, T # {}
  PROVE  Min(T) \in T /\ \A k \in T : Min(T) <= k
BY Least DEF Min

-----------------------------------------------------------------------------
(* Doubling. *)

Doubles(f, want) == f = [c \in Nat |-> IF c < want THEN f[2 * c] ELSE c]

(* The recursive function in Doubled exists: there is one that is right for *)
(* all numbers from want - n on, whatever n is.                             *)
LEMMA DoublesExists ==
  ASSUME NEW want \in Nat
  PROVE  \E f : Doubles(f, want)
<1> DEFINE Good(f, n) ==
             \A c \in Nat : c >= want - n /\ c # 0
                              => f[c] = IF c < want THEN f[2 * c] ELSE c
           T == {n \in Nat : ~ \E f \in [Nat -> Nat] : f[0] = 0 /\ Good(f, n)}
<1>1. T = {}
  <2> SUFFICES ASSUME T # {} PROVE FALSE
    OBVIOUS
  <2>1. PICK n \in T : \A k \in T : n <= k
    BY Least
  <2>2. CASE n = 0
    <3> DEFINE f == [c \in Nat |-> c]
    <3>1. f \in [Nat -> Nat] /\ f[0] = 0 /\ Good(f, 0)  OBVIOUS
    <3> QED BY <2>1, <2>2, <3>1
  <2>3. CASE n # 0
    <3>1. n - 1 \in Nat /\ n - 1 \notin T
      BY <2>1, <2>3
    <3>2. PICK g \in [Nat -> Nat] : g[0] = 0 /\ Good(g, n - 1)
      BY <3>1
    <3> DEFINE a == want - n
               f == [c \in Nat |-> IF c = a /\ c # 0 THEN g[2 * a] ELSE g[c]]
    <3>3. ASSUME NEW c \in Nat, c >= a, c # 0
          PROVE  f[c] = IF c < want THEN f[2 * c] ELSE c
      <4>1. 2 * c \in Nat /\ 2 * c # a /\ f[2 * c] = g[2 * c]  BY <3>3
      <4>2. CASE c = a
        <5>1. f[c] = g[2 * c]  BY <3>3, <4>2
        <5>2. c < want BY <4>2, <2>3, <2>1
        <5> QED BY <5>1, <5>2, <4>1
      <4>3. CASE c # a
        <5>1. f[c] = g[c] /\ c >= want - (n - 1)  BY <3>3, <4>3, <2>1
        <5>2. g[c] = IF c < want THEN g[2 * c] ELSE c  BY <5>1, <3>2, <3>3
        <5> QED BY <5>1, <5>2, <4>1
      <4> QED BY <4>2, <4>3
    <3>4. f \in [Nat -> Nat] /\ f[0] = 0
      <4>1. \A c \in Nat : f[c] \in Nat
        <5>1. ASSUME NEW c \in Nat, c = a, c # 0 PROVE f[c] \in Nat
          <6>1. 2 * a \in Nat /\ f[c] = g[2 * a] BY <5>1
          <6> QED BY <6>1, <3>2
        <5> QED BY <5>1, <3>2
      <4>2. f[0] = 0 BY <3>2
      <4> QED BY <4>1, <4>2
    <3> HIDE DEF f
    <3>5. Good(f, n)  BY <3>3
    <3> QED BY <2>1, <3>4, <3>5
  <2> QED BY <2>2, <2>3
<1>2. PICK f \in [Nat -> Nat] : f[0] = 0 /\ Good(f, want)
  BY <1>1
<1> DEFINE h == [c \in Nat |-> IF c < want THEN f[2 * c] ELSE c]
<1>3. \A c \in Nat : f[c] = h[c]
  <2> TAKE c \in Nat
  <2>1. CASE c = 0  BY <1>2, <2>1
  <2>2. CASE c # 0
    <3>1. c >= want - want  OBVIOUS
    <3> QED BY <3>1, <2>2, <1>2
  <2> QED BY <2>1, <2>2
<1>4. f = h  BY <1>2, <1>3
<1> QED BY <1>4 DEF Doubles

(* So Doubled goes on doubling while it is below want. *)
LEMMA DoubledUnfolds ==
  ASSUME NEW want \in Nat, NEW c \in Nat
  PROVE  Doubled(c, want) = IF c < want THEN Doubled(2 * c, want) ELSE c
<1> DEFINE f == CHOOSE f : Doubles(f, want)
<1>1. Doubles(f, want)
  BY DoublesExists
<1>2. \A d \in Nat : Doubled(d, want) = f[d]
  BY DEF Doubled, Doubles
<1> HIDE DEF f
<1>3. f[c] = IF c < want THEN f[2 * c] ELSE c
  BY <1>1 DEF Doubles
<1>4. 2 * c \in Nat  OBVIOUS
<1> QED BY <1>2, <1>3, <1>4

(* What doubling reaches want from c: at least either of the two, and what  *)
(* it reaches it reaches again, and its double too.                         *)
DoubledIs(c, w) ==
  LET d == Doubled(c, w) IN
  /\ d \in Nat /\ d >= c /\ d >= w
  /\ Doubled(c, d) = d
  /\ c <= 2 * (w - 1) => d <= 2 * (w - 1)
  /\ d = w => Doubled(c, 2 * w) = 2 * w
  /\ \A v \in Nat : v < w /\ Doubled(c, v) = v /\ d = w => 2 * v <= w

(* Doubling reaches what it should from any positive number. *)
LEMMA DoubledFacts ==
  ASSUME NEW c \in Nat \ {0}, NEW w \in Nat
  PROVE  DoubledIs(c, w)
<1> DEFINE T == {n \in Nat : \E a \in Nat \ {0} :
                   ~DoubledIs(a, w) /\ n = IF a < w THEN w - a ELSE 0}
<1> SUFFICES ASSUME T # {} PROVE FALSE
  <2>1. T = {} OBVIOUS
  <2>2. ASSUME ~DoubledIs(c, w) PROVE FALSE
    <3>1. (IF c < w THEN w - c ELSE 0) \in Nat OBVIOUS
    <3>2. (IF c < w THEN w - c ELSE 0) \in T BY <3>1, <2>2
    <3> QED BY <2>1, <3>2
  <2> QED BY <2>2
<1>1. PICK n \in T : \A k \in T : n <= k
  BY Least
<1>2. PICK a \in Nat \ {0} : ~DoubledIs(a, w) /\ n = IF a < w THEN w - a ELSE 0
  BY <1>1
<1>3. CASE a < w
  <2> DEFINE k == IF 2 * a < w THEN w - 2 * a ELSE 0
  <2>1. k \in Nat /\ k < n /\ 2 * a \in Nat \ {0}  BY <1>2, <1>3
  <2>2. DoubledIs(2 * a, w)
    <3>1. n \in Nat  OBVIOUS
    <3>2. k \notin T
      <4> HIDE DEF k, T
      <4> QED BY <2>1, <1>1, <3>1
    <3> QED BY <3>2, <2>1
  <2> DEFINE d == Doubled(a, w)
  <2>3. d = Doubled(2 * a, w)
    BY DoubledUnfolds, <1>3
  <2>4. d \in Nat /\ d >= 2 * a /\ d >= w /\ Doubled(2 * a, d) = d
    BY <2>2, <2>3 DEF DoubledIs
  <2>5. Doubled(a, d) = d
    <3>1. a < d BY <2>4, <1>3
    <3>2. Doubled(a, d) = Doubled(2 * a, d) BY DoubledUnfolds, <2>4, <3>1
    <3> QED BY <3>2, <2>4
  <2>6. d <= 2 * (w - 1)
    <3>1. 2 * a <= 2 * (w - 1) BY <1>3
    <3> QED BY <3>1, <2>2, <2>3 DEF DoubledIs
  <2>7. d = w => Doubled(a, 2 * w) = 2 * w
    <3>1. Doubled(a, 2 * w) = Doubled(2 * a, 2 * w)
      <4>1. a < 2 * w /\ 2 * w \in Nat BY <1>3
      <4> QED BY DoubledUnfolds, <4>1
    <3> QED BY <3>1, <2>2, <2>3 DEF DoubledIs
  <2>8. ASSUME NEW v \in Nat, v < w, Doubled(a, v) = v, d = w
        PROVE  2 * v <= w
    <3>1. CASE a < v
      <4>1. Doubled(2 * a, v) = v  BY <3>1, <2>8, DoubledUnfolds
      <4> QED BY <4>1, <2>8, <2>2, <2>3 DEF DoubledIs
    <3>2. CASE ~(a < v)
      <4>1. v = a  BY <3>2, <2>8, DoubledUnfolds
      <4> QED BY <4>1, <2>8, <2>4
    <3> QED BY <3>1, <3>2
  <2>9. DoubledIs(a, w)
    <3>1. d >= a BY <2>4
    <3> QED BY <3>1, <2>4, <2>5, <2>6, <2>7, <2>8 DEF DoubledIs
  <2> QED BY <2>9, <1>2
<1>4. CASE ~(a < w)
  <2>1. Doubled(a, w) = a /\ Doubled(a, a) = a
    BY DoubledUnfolds, <1>4
  <2>2. Doubled(a, w) = w => Doubled(a, 2 * w) = 2 * w
    <3> SUFFICES ASSUME a = w PROVE Doubled(a, 2 * a) = 2 * a
      BY <2>1
    <3>1. 2 * a \in Nat /\ a < 2 * a OBVIOUS
    <3>2. Doubled(a, 2 * a) = Doubled(2 * a, 2 * a) BY DoubledUnfolds, <3>1
    <3>3. Doubled(2 * a, 2 * a) = 2 * a BY DoubledUnfolds, <3>1
    <3> QED BY <3>2, <3>3
  <2>3. ASSUME NEW v \in Nat, v < w, Doubled(a, v) = v PROVE FALSE
    <3>1. ~(a < v) BY <1>4, <2>3
    <3>2. Doubled(a, v) = a BY DoubledUnfolds, <3>1
    <3> QED BY <3>2, <2>3, <1>4
  <2>4. DoubledIs(a, w)
    BY <2>1, <2>2, <2>3, <1>4 DEF DoubledIs
  <2> QED BY <2>4, <1>2
<1> QED BY <1>3, <1>4

(* A function on 1..n is a sequence of length n. *)
LEMMA FunIsSeq ==
  ASSUME NEW S, NEW n \in Nat, NEW f \in [1 .. n -> S]
  PROVE  f \in Seq(S) /\ Len(f) = n /\ DOMAIN f = 1 .. n
OBVIOUS

(* And a sequence is a function on 1..n. *)
LEMMA SeqIs ==
  ASSUME NEW S, NEW f \in Seq(S)
  PROVE  Len(f) \in Nat /\ f \in [1 .. Len(f) -> S]
OBVIOUS

(* The first n numbers. *)
LEMMA UpTo ==
  ASSUME NEW n \in Nat
  PROVE  IsFiniteSet(1 .. n) /\ Cardinality(1 .. n) = n
<1>1. 1 \in Int /\ n \in Int /\ n - 1 + 1 = n  OBVIOUS
<1> QED BY <1>1, FS_Interval

(* One number more. *)
LEMMA OneMore ==
  ASSUME NEW n \in Nat
  PROVE  1 .. n + 1 = (1 .. n) \cup {n + 1}
OBVIOUS

(* The places of a ring of n, from home on: each of them comes once. *)
LEMMA Ring ==
  ASSUME NEW n \in Nat \ {0}, NEW home \in 1 .. n
  PROVE  /\ \A k \in 1 .. n : ((home - 1 + k) % n) + 1 \in 1 .. n
         /\ \A j \in 1 .. n : \E k \in 1 .. n : ((home - 1 + k) % n) + 1 = j
<1>1. \A k \in 1 .. n : ((home - 1 + k) % n) + 1 \in 1 .. n  OBVIOUS
<1>2. ASSUME NEW j \in 1 .. n
      PROVE  \E k \in 1 .. n : ((home - 1 + k) % n) + 1 = j
  <2>1. CASE j > home
    <3>1. j - home \in 1 .. n /\ ((home - 1 + (j - home)) % n) + 1 = j  BY <2>1
    <3> QED BY <3>1
  <2>2. CASE j <= home
    <3>1. j - home + n \in 1 .. n /\ ((home - 1 + (j - home + n)) % n) + 1 = j
      BY <2>2
    <3> QED BY <3>1
  <2> QED BY <2>1, <2>2
<1> QED BY <1>1, <1>2

-----------------------------------------------------------------------------
(* Tables. *)
Names == Keys \cup {NULL}
Pointers == 1 .. MaxEntries
SlotType == [key : Names, pointer : Pointers \cup {NULL}, next : Nat]

(* c[i] is the set of slots on the chain that begins at i. *)
Chains(slot, c) ==
  /\ c \in [1 .. Len(slot) -> SUBSET (1 .. Len(slot))]
  /\ \A i \in 1 .. Len(slot) :
       /\ slot[i].next = 0 => c[i] = {i}
       /\ slot[i].next # 0 => /\ slot[i].next \in 1 .. Len(slot)
                              /\ c[i] = {i} \cup c[slot[i].next]
                              /\ i \notin c[slot[i].next]
       /\ \A j \in c[i] : slot[j].key = NULL => i = j

Used(slot) == {i \in 1 .. Len(slot) : slot[i].key # NULL}

AtHome(m, c) == \A j \in Used(m.slot) : j \in c[sp_home(m, m.slot[j].key)]

SlotsOK(slot) ==
  /\ slot \in Seq(SlotType) /\ Len(slot) # 0
  /\ \A i \in 1 .. Len(slot) : slot[i].key = NULL =>
       slot[i].pointer = NULL /\ slot[i].next = 0
  /\ \A i, j \in Used(slot) : slot[i].key = slot[j].key => i = j

TableOK(m) ==
  /\ SlotsOK(m.slot)
  /\ m.size = Cardinality(Used(m.slot))
  /\ \E c : Chains(m.slot, c) /\ AtHome(m, c)

(* What the slots of a table are. *)
LEMMA SlotTypes ==
  ASSUME NEW slot, SlotsOK(slot)
  PROVE  /\ Len(slot) \in Nat \ {0}
         /\ \A i \in 1 .. Len(slot) :
              /\ slot[i] \in SlotType /\ slot[i].next \in Nat
              /\ slot[i].key \in Names /\ slot[i].pointer \in Pointers \cup {NULL}
<1>1. slot \in Seq(SlotType) /\ Len(slot) # 0
  BY DEF SlotsOK
<1>2. Len(slot) \in Nat /\ \A i \in 1 .. Len(slot) : slot[i] \in SlotType
  BY <1>1, SeqIs
<1> QED BY <1>1, <1>2 DEF SlotType

Follow(f, slot, key) ==
  f = [i \in 0 .. Len(slot) |->
         IF i = 0 THEN 0 ELSE IF slot[i].key = key THEN i ELSE f[slot[i].next]]

(* The recursive function in Find exists: chains get shorter as it follows *)
(* them.                                                                   *)
LEMMA FollowExists ==
  ASSUME NEW slot, SlotsOK(slot), NEW c, Chains(slot, c), NEW key, key # NULL
  PROVE  \E f : Follow(f, slot, key)
<1> DEFINE n == Len(slot)
           On(i, j) == j \in c[i] /\ slot[j].key = key
           f == [i \in 0 .. n |-> IF i = 0 \/ ~ \E j \in 1 .. n : On(i, j)
                                  THEN 0 ELSE CHOOSE j \in 1 .. n : On(i, j)]
           h == [i \in 0 .. n |->
                   IF i = 0 THEN 0 ELSE IF slot[i].key = key THEN i ELSE f[slot[i].next]]
<1>1. n \in Nat /\ \A i \in 1 .. n : slot[i].next \in Nat
  BY SlotTypes
<1>2. \A i, j \in 1 .. n : slot[i].key = key /\ slot[j].key = key => i = j
  BY DEF SlotsOK, Used
<1>3. \A i \in 1 .. n : i \in c[i] /\ c[i] \subseteq 1 .. n
  BY DEF Chains
<1>4. ASSUME NEW i \in 0 .. n PROVE f[i] = h[i]
  <2>1. CASE i = 0  BY <2>1
  <2>2. CASE i # 0 /\ slot[i].key = key
    <3>1. i \in 1 .. n /\ On(i, i)  BY <2>2, <1>1, <1>3
    <3>2. \A j \in 1 .. n : On(i, j) => j = i  BY <3>1, <1>2
    <3>3. f[i] = i  BY <2>2, <3>1, <3>2
    <3> QED BY <2>2, <3>3
  <2>3. CASE i # 0 /\ slot[i].key # key
    <3> DEFINE x == slot[i].next
    <3>1. i \in 1 .. n  BY <2>3, <1>1
    <3>2. h[i] = f[x]  BY <2>3
    <3>3. CASE x = 0
      <4>1. c[i] = {i}  BY <3>1, <3>3 DEF Chains
      <4>2. f[i] = 0  BY <4>1, <2>3
      <4> QED BY <4>2, <3>2, <3>3, <1>1, SMTT(20)
    <3>4. CASE x # 0
      <4>1. x \in 1 .. n /\ c[i] = {i} \cup c[x]  BY <3>1, <3>4 DEF Chains
      <4>2. \A j \in 1 .. n : On(i, j) <=> On(x, j)  BY <4>1, <2>3
      <4>3. x \in 0 .. n /\ x # 0 BY <4>1, <1>1
      <4>4. (CHOOSE j \in 1 .. n : On(i, j)) = (CHOOSE j \in 1 .. n : On(x, j))
        BY <4>2
      <4> HIDE DEF On
      <4>5. f[i] = f[x]  BY <2>3, <4>2, <4>3, <4>4
      <4> QED BY <4>5, <3>2
    <3> QED BY <3>3, <3>4
  <2> QED BY <2>1, <2>2, <2>3
<1>5. f = h
  <2>1. f = [i \in 0 .. n |-> f[i]] /\ h = [i \in 0 .. n |-> h[i]]  OBVIOUS
  <2> HIDE DEF f, h
  <2> QED BY <2>1, <1>4
<1>6. Follow(f, slot, key)  BY <1>5 DEF Follow
<1> QED BY <1>6

(* Find finds key where it is on the chain. *)
Finds(slot, c, home, key, j) ==
  /\ j \in 0 .. Len(slot)
  /\ j # 0 => j \in c[home] /\ slot[j].key = key
  /\ \A i \in c[home] : slot[i].key = key => j = i

(* Find answers a slot with the name, or NULL when the chain has none. *)
LEMMA FindIs ==
  ASSUME NEW slot, SlotsOK(slot), NEW c, Chains(slot, c), NEW key, key # NULL,
         NEW home \in 1 .. Len(slot)
  PROVE  Finds(slot, c, home, key, Find(slot, home, key))
<1> DEFINE n == Len(slot)
           f == CHOOSE f : Follow(f, slot, key)
<1>1. Follow(f, slot, key)
  BY FollowExists
<1>2. Find(slot, home, key) = f[home]
  BY DEF Find, Follow
<1> HIDE DEF f
<1>3. n \in Nat /\ \A i \in 1 .. n : slot[i].next \in Nat
  BY SlotTypes
<1>4. \A i, j \in 1 .. n : slot[i].key = key /\ slot[j].key = key => i = j
  BY DEF SlotsOK, Used
<1>5. \A i \in 1 .. n : i \in c[i] /\ c[i] \subseteq 1 .. n
  BY DEF Chains
<1>6. \A i \in 1 .. n : IsFiniteSet(c[i]) /\ Cardinality(c[i]) \in Nat
  <2> TAKE i \in 1 .. n
  <2>1. IsFiniteSet(1 .. n)  BY <1>3, FS_Interval
  <2>2. IsFiniteSet(c[i])  BY <2>1, <1>5, FS_Subset
  <2> QED BY <2>2, FS_CardinalityType
<1> DEFINE T == {k \in Nat : \E i \in 1 .. n :
                   ~Finds(slot, c, i, key, f[i]) /\ k = Cardinality(c[i])}
<1>7. T = {}
  <2> SUFFICES ASSUME T # {} PROVE FALSE
    OBVIOUS
  <2>1. PICK k \in T : \A l \in T : k <= l
    BY Least
  <2>2. PICK i \in 1 .. n : ~Finds(slot, c, i, key, f[i]) /\ k = Cardinality(c[i])
    BY <2>1
  <2>3. i # 0 /\ i \in 0 .. n  BY <1>3
  <2>4. f[i] = IF slot[i].key = key THEN i ELSE f[slot[i].next]
    BY <1>1, <2>3 DEF Follow
  <2>5. CASE slot[i].key = key
    <3>1. f[i] = i  BY <2>4, <2>5
    <3>2. Finds(slot, c, i, key, i)
      BY <2>3, <2>5, <1>4, <1>5 DEF Finds
    <3> QED BY <3>1, <3>2, <2>2
  <2>6. CASE slot[i].key # key /\ slot[i].next = 0
    <3>1. f[i] = 0
      <4>1. f[0] = 0 BY <1>1, <1>3 DEF Follow
      <4> QED BY <4>1, <2>4, <2>6
    <3>2. c[i] = {i}  BY <2>6 DEF Chains
    <3>3. Finds(slot, c, i, key, 0)
      BY <2>6, <3>2, <1>3 DEF Finds
    <3> QED BY <3>1, <3>3, <2>2
  <2>7. CASE slot[i].key # key /\ slot[i].next # 0
    <3> DEFINE x == slot[i].next
    <3>1. x \in 1 .. n /\ c[i] = {i} \cup c[x] /\ i \notin c[x]
      BY <2>7 DEF Chains
    <3>2. f[i] = f[x]  BY <2>4, <2>7
    <3>3. Cardinality(c[x]) < k
      <4>1. c[x] \subseteq c[i] /\ c[x] # c[i] /\ IsFiniteSet(c[i])
        BY <3>1, <1>6
      <4>2. /\ Cardinality(c[x]) <= Cardinality(c[i])
            /\ Cardinality(c[x]) = Cardinality(c[i]) => c[x] = c[i]
        BY <4>1, FS_Subset
      <4> QED BY <4>1, <4>2, <2>2, <1>6, <3>1
    <3>4. Finds(slot, c, x, key, f[x])
      <4>1. Cardinality(c[x]) \in Nat  BY <3>1, <1>6
      <4>2. Cardinality(c[x]) \notin T
        <5> HIDE DEF T
        <5>1. k \in Nat BY <2>2, <1>6
        <5> QED BY <4>1, <3>3, <2>1, <5>1
      <4> QED BY <4>1, <4>2, <3>1
    <3>5. Finds(slot, c, i, key, f[i])
      BY <3>1, <3>2, <3>4, <2>7 DEF Finds
    <3> QED BY <3>5, <2>2
  <2> QED BY <2>5, <2>6, <2>7
<1>8. Cardinality(c[home]) \in Nat  BY <1>6
<1> QED BY <1>2, <1>7, <1>8

ToEnd(f, slot) ==
  f = [i \in 1 .. Len(slot) |-> IF slot[i].next = 0 THEN i ELSE f[slot[i].next]]

(* The recursive function in LastOn exists: a chain and what follows its    *)
(* first slot end in the same slot.                                         *)
LEMMA ToEndExists ==
  ASSUME NEW slot, SlotsOK(slot), NEW c, Chains(slot, c)
  PROVE  \E f : ToEnd(f, slot)
<1> DEFINE n == Len(slot)
           Ends(i, j) == j \in c[i] /\ slot[j].next = 0
           f == [i \in 1 .. n |-> CHOOSE j : Ends(i, j)]
           h == [i \in 1 .. n |-> IF slot[i].next = 0 THEN i ELSE f[slot[i].next]]
<1>1. ASSUME NEW i \in 1 .. n PROVE f[i] = h[i]
  <2>1. CASE slot[i].next = 0
    <3>1. c[i] = {i}  BY <2>1 DEF Chains
    <3>2. \A j : Ends(i, j) <=> j = i  BY <3>1, <2>1
    <3>3. (CHOOSE j : Ends(i, j)) = i  BY <3>2
    <3> QED BY <3>3, <2>1
  <2>2. CASE slot[i].next # 0
    <3> DEFINE x == slot[i].next
    <3>1. x \in 1 .. n /\ c[i] = {i} \cup c[x]  BY <2>2 DEF Chains
    <3>2. \A j : Ends(i, j) <=> Ends(x, j)  BY <3>1, <2>2
    <3>3. (CHOOSE j : Ends(i, j)) = (CHOOSE j : Ends(x, j))  BY <3>2
    <3>4. f[i] = f[x] /\ h[i] = f[x]
      <4> HIDE DEF Ends
      <4>1. f[i] = (CHOOSE j : Ends(i, j)) /\ f[x] = (CHOOSE j : Ends(x, j))  BY <3>1
      <4>2. h[i] = f[x]  BY <2>2
      <4> QED BY <4>1, <4>2, <3>3
    <3> QED BY <3>4
  <2> QED BY <2>1, <2>2
<1>2. f = h
  <2>1. f = [i \in 1 .. n |-> f[i]] /\ h = [i \in 1 .. n |-> h[i]]  OBVIOUS
  <2> HIDE DEF f, h
  <2> QED BY <2>1, <1>1
<1>3. ToEnd(f, slot)  BY <1>2 DEF ToEnd
<1> QED BY <1>3

(* The last slot of a chain is one of its slots. *)
LEMMA LastOnChain ==
  ASSUME NEW slot, SlotsOK(slot), NEW c, Chains(slot, c), NEW home \in 1 .. Len(slot)
  PROVE  LastOn(slot, home) \in c[home]
<1> DEFINE n == Len(slot)
           f == CHOOSE f : ToEnd(f, slot)
<1>1. ToEnd(f, slot)
  BY ToEndExists
<1>2. LastOn(slot, home) = f[home]
  BY DEF LastOn, ToEnd
<1> HIDE DEF f
<1>3. n \in Nat  BY SlotTypes
<1>4. \A i \in 1 .. n : i \in c[i] /\ c[i] \subseteq 1 .. n
  BY DEF Chains
<1>5. \A i \in 1 .. n : IsFiniteSet(c[i]) /\ Cardinality(c[i]) \in Nat
  <2> TAKE i \in 1 .. n
  <2>1. IsFiniteSet(1 .. n)  BY <1>3, FS_Interval
  <2>2. IsFiniteSet(c[i])  BY <2>1, <1>4, FS_Subset
  <2> QED BY <2>2, FS_CardinalityType
<1> DEFINE T == {k \in Nat : \E i \in 1 .. n : f[i] \notin c[i] /\ k = Cardinality(c[i])}
<1>6. T = {}
  <2> SUFFICES ASSUME T # {} PROVE FALSE
    OBVIOUS
  <2>1. PICK k \in T : \A l \in T : k <= l
    BY Least
  <2>2. PICK i \in 1 .. n : f[i] \notin c[i] /\ k = Cardinality(c[i])
    BY <2>1
  <2>3. f[i] = IF slot[i].next = 0 THEN i ELSE f[slot[i].next]
    BY <1>1 DEF ToEnd
  <2>4. CASE slot[i].next = 0
    BY <2>2, <2>3, <2>4, <1>4
  <2>5. CASE slot[i].next # 0
    <3> DEFINE x == slot[i].next
    <3>1. x \in 1 .. n /\ c[i] = {i} \cup c[x] /\ i \notin c[x]
      BY <2>5 DEF Chains
    <3>2. Cardinality(c[x]) < k
      <4>1. c[x] \subseteq c[i] /\ c[x] # c[i] /\ IsFiniteSet(c[i])
        BY <3>1, <1>5
      <4>2. /\ Cardinality(c[x]) <= Cardinality(c[i])
            /\ Cardinality(c[x]) = Cardinality(c[i]) => c[x] = c[i]
        BY <4>1, FS_Subset
      <4> QED BY <4>1, <4>2, <2>2, <1>5, <3>1
    <3>3. f[x] \notin c[x]  BY <2>2, <2>3, <2>5, <3>1
    <3>4. Cardinality(c[x]) \in T  BY <3>1, <3>3, <1>5
    <3>5. k \in Nat /\ Cardinality(c[x]) \in Nat  BY <3>1, <2>2, <1>5
    <3> HIDE DEF T
    <3> QED BY <2>1, <3>2, <3>4, <3>5
  <2> QED BY <2>4, <2>5
<1>7. Cardinality(c[home]) \in Nat  BY <1>5
<1> QED BY <1>2, <1>6, <1>7

(* Place writes a free slot: home itself, or e linked behind `at`. *)
AtHomeIs(x, slot, home, key, p) ==
  /\ x \in Seq(SlotType) /\ Len(x) = Len(slot)
  /\ x[home] = [key |-> key, pointer |-> p, next |-> 0]
  /\ \A i \in 1 .. Len(slot) : i # home => x[i] = slot[i]

LinkedIs(x, slot, at, e, key, p) ==
  /\ x \in Seq(SlotType) /\ Len(x) = Len(slot)
  /\ x[e] = [key |-> key, pointer |-> p, next |-> slot[at].next]
  /\ x[at] = [key |-> slot[at].key, pointer |-> slot[at].pointer, next |-> e]
  /\ \A i \in 1 .. Len(slot) : i \notin {at, e} => x[i] = slot[i]

(* A name whose home slot is free is put there. *)
LEMMA PlaceHome ==
  ASSUME NEW slot, SlotsOK(slot), NEW home \in 1 .. Len(slot), NEW at, NEW empty,
         NEW key \in Keys, NEW p \in Pointers \cup {NULL},
         slot[home].key = NULL, NEW x, x = Place(slot, home, at, empty, key, p)
  PROVE  AtHomeIs(x, slot, home, key, p)
<1> DEFINE n == Len(slot)
<1>1. n \in Nat /\ slot \in [1 .. n -> SlotType] /\ slot[home].next = 0
  BY SlotTypes, SeqIs DEF SlotsOK
<1>2. x = [slot EXCEPT ![home].key = key, ![home].pointer = p]
  BY DEF Place
<1>3. slot[home] = [key |-> NULL, pointer |-> slot[home].pointer, next |-> 0]
  BY <1>1 DEF SlotType
<1>4. x[home] = [key |-> key, pointer |-> p, next |-> 0]
  BY <1>1, <1>2, <1>3
<1>5. \A i \in 1 .. n : i # home => x[i] = slot[i]
  BY <1>1, <1>2
<1>6. x[home] \in SlotType
  BY <1>4 DEF SlotType, Names
<1>7. DOMAIN x = 1 .. n  BY <1>1, <1>2
<1>8. x = [i \in 1 .. n |-> x[i]]  BY <1>1, <1>2
<1>9. \A i \in 1 .. n : x[i] \in SlotType  BY <1>1, <1>5, <1>6
<1>10. x \in [1 .. n -> SlotType]  BY <1>8, <1>9
<1>11. x \in Seq(SlotType) /\ Len(x) = n  BY <1>1, <1>10, FunIsSeq
<1> QED BY <1>4, <1>5, <1>11 DEF AtHomeIs

(* A name whose home slot is taken is put into e, behind `at`. *)
LEMMA PlaceLinked ==
  ASSUME NEW slot, SlotsOK(slot), NEW home \in 1 .. Len(slot), NEW at \in 1 .. Len(slot),
         NEW e \in 1 .. Len(slot), NEW key \in Keys, NEW p \in Pointers \cup {NULL},
         slot[home].key # NULL, e # at, NEW x, x = Place(slot, home, at, e, key, p)
  PROVE  LinkedIs(x, slot, at, e, key, p)
<1> DEFINE n == Len(slot)
<1>1. n \in Nat /\ slot \in [1 .. n -> SlotType]
  BY SlotTypes, SeqIs DEF SlotsOK
<1> DEFINE new == [key |-> key, pointer |-> p, next |-> slot[at].next]
<1>2. x = [[slot EXCEPT ![e] = new] EXCEPT ![at].next = e]
  BY DEF Place
<1>3. new \in SlotType
  <2>1. slot[at].next \in Nat  BY <1>1 DEF SlotType
  <2> QED BY <2>1 DEF SlotType, Names
<1> HIDE DEF new
<1>4. PICK y : y = [slot EXCEPT ![e] = new]
  OBVIOUS
<1>5. y \in [1 .. n -> SlotType] /\ y[at] = slot[at] /\ y[e] = new
      /\ \A i \in 1 .. n : i # e => y[i] = slot[i]
  BY <1>1, <1>3, <1>4
<1>6. x = [y EXCEPT ![at].next = e]
  BY <1>2, <1>4
<1>7. x[at] = [key |-> slot[at].key, pointer |-> slot[at].pointer, next |-> e]
  BY <1>1, <1>5, <1>6 DEF SlotType
<1>8. \A i \in 1 .. n : i # at => x[i] = y[i]
  BY <1>5, <1>6
<1>9. x[at] \in SlotType
  <2>1. slot[at] \in SlotType /\ e \in Nat BY <1>1
  <2> QED BY <2>1, <1>7 DEF SlotType
<1>10. x = [i \in 1 .. n |-> x[i]]  BY <1>5, <1>6
<1>11. \A i \in 1 .. n : x[i] \in SlotType  BY <1>5, <1>8, <1>9
<1>12. x \in [1 .. n -> SlotType]  BY <1>10, <1>11
<1>13. x \in Seq(SlotType) /\ Len(x) = n  BY <1>1, <1>12, FunIsSeq
<1>14. x[e] = new  BY <1>5, <1>8
<1> QED BY <1>5, <1>7, <1>8, <1>13, <1>14 DEF new, LinkedIs

(* The entries of x are those of m and one in e, which was free. *)
PutIn(x, m, e, key, p) ==
  /\ Len(x.slot) = Len(m.slot) /\ x.size = m.size + 1
  /\ e \in 1 .. Len(m.slot) /\ m.slot[e].key = NULL
  /\ x.slot[e].key = key /\ x.slot[e].pointer = p
  /\ \A i \in 1 .. Len(m.slot) : i # e =>
       /\ x.slot[i].key = m.slot[i].key
       /\ x.slot[i].pointer = m.slot[i].pointer

Has(m, key) == \E i \in 1 .. Len(m.slot) : m.slot[i].key = key

(* The slots keep their shape when one is taken. *)
LEMMA UsedPut ==
  ASSUME SizesOK, NEW m, TableOK(m), NEW x, NEW e, NEW key \in Keys, NEW p,
         PutIn(x, m, e, key, p)
  PROVE  /\ Used(x.slot) = Used(m.slot) \cup {e} /\ e \notin Used(m.slot)
         /\ x.size = Cardinality(Used(x.slot))
<1>1. key # NULL  BY DEF SizesOK
<1>2. Used(x.slot) = Used(m.slot) \cup {e} /\ e \notin Used(m.slot)
  <2>1. Len(m.slot) \in Nat  BY SlotTypes DEF TableOK
  <2>2. Len(x.slot) = Len(m.slot) /\ e \in 1 .. Len(m.slot) /\ e \notin Used(m.slot)
    BY DEF PutIn, Used
  <2>3. ASSUME NEW i \in 1 .. Len(m.slot)
        PROVE  x.slot[i].key # NULL <=> i = e \/ m.slot[i].key # NULL
    BY <1>1 DEF PutIn
  <2> QED BY <2>2, <2>3 DEF Used
<1>3. IsFiniteSet(Used(m.slot))
  <2>1. Len(m.slot) \in Nat  BY SlotTypes DEF TableOK
  <2>2. IsFiniteSet(1 .. Len(m.slot))  BY <2>1, UpTo
  <2>3. Used(m.slot) \subseteq 1 .. Len(m.slot)  BY DEF Used
  <2> QED BY <2>2, <2>3, FS_Subset
<1>4. Cardinality(Used(x.slot)) = Cardinality(Used(m.slot)) + 1
  BY <1>2, <1>3, FS_AddElement
<1> QED BY <1>2, <1>4 DEF PutIn, TableOK

(* A name has its home among the slots, whatever its hash. *)
LEMMA HomeIn ==
  ASSUME SizesOK, NEW m, SlotsOK(m.slot), NEW key \in Keys
  PROVE  sp_home(m, key) \in 1 .. Len(m.slot)
<1>1. Len(m.slot) \in Nat \ {0}  BY SlotTypes
<1>2. calc_hash(key) \in Nat  BY DEF SizesOK
<1>3. (calc_hash(key) % Len(m.slot)) + 1 \in 1 .. Len(m.slot)  BY <1>1, <1>2
<1> QED BY <1>3 DEF sp_home, sp_cap

(* A table that is not full has a free slot. *)
LEMMA FreeIs ==
  ASSUME NEW m, TableOK(m), m.size < sp_cap(m), NEW home \in 1 .. Len(m.slot)
  PROVE  sp_free(m, home) \in 1 .. Len(m.slot) /\ m.slot[sp_free(m, home)].key = NULL
<1> DEFINE n == Len(m.slot)
<1>1. n \in Nat \ {0} /\ SlotsOK(m.slot)  BY SlotTypes DEF TableOK
<1>2. PICK j \in 1 .. n : m.slot[j].key = NULL
  <2> SUFFICES ASSUME \A j \in 1 .. n : m.slot[j].key # NULL PROVE FALSE
    OBVIOUS
  <2>1. Used(m.slot) = 1 .. n  BY DEF Used
  <2>2. Cardinality(1 .. n) = n  BY <1>1, UpTo
  <2> QED BY <1>1, <2>1, <2>2 DEF TableOK, sp_cap
<1> DEFINE Nth(k) == ((home - 1 + k) % n) + 1
           F == {k \in 1 .. n : m.slot[Nth(k)].key = NULL}
<1>3. /\ \A k \in 1 .. n : Nth(k) \in 1 .. n
      /\ \E k \in 1 .. n : Nth(k) = j
  <2>1. home \in 1 .. n /\ j \in 1 .. n  OBVIOUS
  <2> HIDE DEF n
  <2> QED BY <1>1, <2>1, Ring
<1>4. F \in SUBSET Nat /\ F # {}
  <2> HIDE DEF n, Nth
  <2> QED BY <1>1, <1>2, <1>3
<1>5. Min(F) \in F  BY <1>4, MinIs
<1>6. sp_free(m, home) = Nth(Min(F))  BY DEF sp_free, sp_cap
<1> HIDE DEF Nth
<1> QED BY <1>3, <1>5, <1>6

(* A chain begins where it begins and stays in the table. *)
LEMMA OnChain ==
  ASSUME NEW slot, NEW c, Chains(slot, c), NEW i \in 1 .. Len(slot)
  PROVE  i \in c[i] /\ c[i] \subseteq 1 .. Len(slot)
BY DEF Chains

(* Chains when the free home slot is taken: as they were. *)
LEMMA ChainsHome ==
  ASSUME NEW slot, SlotsOK(slot), NEW c, Chains(slot, c), NEW home \in 1 .. Len(slot),
         slot[home].key = NULL, NEW x, Len(x) = Len(slot), x[home].next = 0,
         x[home].key # NULL,
         \A i \in 1 .. Len(slot) : i # home => x[i] = slot[i]
  PROVE  Chains(x, c)
<1>1. \A i \in 1 .. Len(slot) : x[i].next = slot[i].next
                              /\ (x[i].key = NULL => slot[i].key = NULL)
  BY DEF SlotsOK
<1>2. \A i \in 1 .. Len(slot) : c[i] \subseteq 1 .. Len(slot)
  BY DEF Chains
<1> QED BY <1>1, <1>2 DEF Chains

Spliced(c, h, e, n) ==
  [i \in 1 .. n |-> IF i = e THEN {e} \cup (c[h] \ {h})
                    ELSE IF h \in c[i] THEN c[i] \cup {e} ELSE c[i]]

(* Chains when e is linked behind home: e is put into those that pass home. *)
LEMMA ChainsLinked ==
  ASSUME NEW slot, SlotsOK(slot), NEW c, Chains(slot, c),
         NEW h \in 1 .. Len(slot), NEW e \in 1 .. Len(slot),
         slot[h].key # NULL, slot[e].key = NULL, NEW x, Len(x) = Len(slot),
         x[e].next = slot[h].next, x[h].next = e,
         x[e].key # NULL, x[h].key = slot[h].key,
         \A i \in 1 .. Len(slot) : i \notin {h, e} => x[i] = slot[i],
         NEW d, d = Spliced(c, h, e, Len(slot))
  PROVE  Chains(x, d)
<1> DEFINE n == Len(slot)
<1>0. d = [i \in 1 .. n |-> IF i = e THEN {e} \cup (c[h] \ {h})
                          ELSE IF h \in c[i] THEN c[i] \cup {e} ELSE c[i]]
  BY DEF Spliced
<1>1. n \in Nat /\ e # h /\ e # 0 /\ h # 0  BY SlotTypes
<1>2. \A i \in 1 .. n : c[i] \subseteq 1 .. n /\ i \in c[i]
  BY DEF Chains
<1>3. \A i \in 1 .. n : e \in c[i] => i = e
  BY DEF Chains
<1>4. c[e] = {e}
  BY DEF Chains, SlotsOK
<1>5. \A i \in 1 .. n : slot[i].next # e
  <2> SUFFICES ASSUME NEW i \in 1 .. n, slot[i].next = e PROVE FALSE
    OBVIOUS
  <2>1. e \in c[i]  BY <1>1, <1>4 DEF Chains
  <2>2. i = e  BY <2>1, <1>3
  <2> QED BY <2>2, <1>1 DEF SlotsOK
<1>6. d \in [1 .. n -> SUBSET (1 .. n)]
  BY <1>0, <1>2
<1>7. ASSUME NEW i \in 1 .. n
      PROVE  /\ x[i].next = 0 => d[i] = {i}
             /\ x[i].next # 0 => /\ x[i].next \in 1 .. n
                                 /\ d[i] = {i} \cup d[x[i].next]
                                 /\ i \notin d[x[i].next]
  <2>1. CASE i = e
    <3> DEFINE y == slot[h].next
    <3>1. x[i].next = y /\ d[i] = {e} \cup (c[h] \ {h})  BY <1>0, <2>1
    <3>2. CASE y = 0
      <4>1. c[h] = {h}  BY <3>2 DEF Chains
      <4> QED BY <4>1, <3>1, <3>2, <2>1
    <3>3. CASE y # 0
      <4>1. y \in 1 .. n /\ c[h] = {h} \cup c[y] /\ h \notin c[y]
        BY <3>3 DEF Chains
      <4>2. y # e /\ e \notin c[y]  BY <4>1, <1>3, <1>5
      <4>3. d[y] = c[y]  BY <1>0, <4>1, <4>2
      <4> QED BY <4>1, <4>2, <4>3, <3>1, <3>3, <2>1
    <3> QED BY <3>2, <3>3
  <2>2. CASE i = h
    <3>1. x[i].next = e /\ d[i] = c[h] \cup {e} /\ d[e] = {e} \cup (c[h] \ {h})
      BY <1>0, <2>2, <1>1, <1>2
    <3> QED BY <3>1, <2>2, <1>1, <1>2
  <2>3. CASE i # e /\ i # h
    <3> DEFINE y == slot[i].next
    <3>1. x[i].next = y  BY <2>3
    <3>2. CASE y = 0
      <4>1. c[i] = {i}  BY <3>2 DEF Chains
      <4>2. d[i] = {i}  BY <1>0, <4>1, <2>3
      <4> QED BY <4>2, <3>1, <3>2
    <3>3. CASE y # 0
      <4>1. y \in 1 .. n /\ c[i] = {i} \cup c[y] /\ i \notin c[y]
        BY <3>3 DEF Chains
      <4>2. y # e  BY <1>5
      <4>3. h \in c[i] <=> h \in c[y]  BY <4>1, <2>3
      <4>4. d[y] = IF h \in c[y] THEN c[y] \cup {e} ELSE c[y]  BY <1>0, <4>1, <4>2
      <4>5. d[i] = IF h \in c[i] THEN c[i] \cup {e} ELSE c[i]  BY <1>0, <2>3
      <4>6. d[i] = {i} \cup d[y]  BY <4>1, <4>3, <4>4, <4>5
      <4>7. i \notin d[y]  BY <4>1, <4>4, <2>3
      <4> QED BY <4>1, <4>6, <4>7, <3>1, <3>3
    <3> QED BY <3>2, <3>3
  <2> QED BY <2>1, <2>2, <2>3
<1>8. ASSUME NEW i \in 1 .. n, NEW j \in d[i], x[j].key = NULL
      PROVE  i = j
  <2>1. j \in 1 .. n /\ j # e /\ j # h  BY <1>6, <1>8
  <2>2. slot[j].key = NULL  BY <2>1, <1>8
  <2>3. CASE i = e
    <3>1. j \in c[h]  BY <1>0, <2>3, <2>1, <1>8
    <3>2. h = j  BY <3>1, <2>2 DEF Chains
    <3> QED BY <3>2, <2>1
  <2>4. CASE i # e
    <3>1. j \in c[i]  BY <1>0, <2>4, <2>1, <1>8
    <3> QED BY <3>1, <2>2 DEF Chains
  <2> QED BY <2>3, <2>4
<1> HIDE DEF n
<1>9. Len(x) = n  BY DEF n
<1> QED BY <1>6, <1>7, <1>8, <1>9 DEF Chains

(* Where a new name is linked: behind its home slot, or at the end of the   *)
(* chain.                                                                   *)
LinksAt(m, key, at) == at \in {sp_home(m, key), LastOn(m.slot, sp_home(m, key))}

(* A new name is entered in a table that is not full. *)
LEMMA PlaceOK ==
  ASSUME SizesOK, NEW m, TableOK(m), m.size < sp_cap(m), NEW key \in Keys, ~Has(m, key),
         NEW p \in Pointers \cup {NULL}, NEW at, LinksAt(m, key, at)
  PROVE  /\ TableOK(sp_place(m, key, p, at))
         /\ \E e \in 1 .. sp_cap(m) : PutIn(sp_place(m, key, p, at), m, e, key, p)
<1>0. PICK n, h : n = Len(m.slot) /\ h = sp_home(m, key)
  OBVIOUS
<1>1. /\ n \in Nat \ {0} /\ SlotsOK(m.slot) /\ n = Len(m.slot)
      /\ sp_cap(m) = n /\ h \in 1 .. n
      /\ h = sp_home(m, key) /\ key # NULL
  BY <1>0, SlotTypes, HomeIn DEF TableOK, sp_cap, SizesOK
<1>2. PICK c : Chains(m.slot, c) /\ AtHome(m, c)
  BY <1>1 DEF TableOK
<1>3. PICK x : x = sp_place(m, key, p, at)
  OBVIOUS
<1>11. at \in c[h] /\ at \in 1 .. n
  <2>1. h \in c[h] /\ LastOn(m.slot, h) \in c[h] /\ c[h] \subseteq 1 .. n
    BY <1>1, <1>2, OnChain, LastOnChain
  <2> QED BY <2>1, <1>1 DEF LinksAt
<1>4. SUFFICES ASSUME NEW e \in 1 .. n, NEW d, PutIn(x, m, e, key, p),
                      x.slot \in Seq(SlotType), Chains(x.slot, d),
                      e \in d[h], \A i \in 1 .. n : c[i] \subseteq d[i],
                      \A i \in 1 .. n : i # e /\ x.slot[i].key = NULL
                                          => x.slot[i] = m.slot[i]
               PROVE  TableOK(x) /\ \E f \in 1 .. n : PutIn(x, m, f, key, p)
  PROOF
  <2>1. CASE m.slot[h].key = NULL
    <3>1. x = [size |-> m.size + 1, slot |-> Place(m.slot, h, at, 0, key, p)]
      BY <1>1, <1>3, <2>1 DEF sp_place
    <3>2. /\ x.slot \in Seq(SlotType) /\ Len(x.slot) = n /\ x.size = m.size + 1
          /\ x.slot[h] = [key |-> key, pointer |-> p, next |-> 0]
          /\ \A i \in 1 .. n : i # h => x.slot[i] = m.slot[i]
      <4>1. x.slot = Place(m.slot, h, at, 0, key, p) /\ x.size = m.size + 1  BY <3>1
      <4>2. SlotsOK(m.slot) /\ h \in 1 .. Len(m.slot)  BY <1>1
      <4>3. AtHomeIs(x.slot, m.slot, h, key, p)  BY <2>1, <4>1, <4>2, PlaceHome
      <4> QED BY <1>1, <4>1, <4>3 DEF AtHomeIs
    <3>3. PutIn(x, m, h, key, p)  BY <1>1, <2>1, <3>2, SMTT(20) DEF PutIn
    <3>4. Chains(x.slot, c)
      <4>1. x.slot[h].next = 0 /\ x.slot[h].key # NULL  BY <1>1, <3>2
      <4>2. SlotsOK(m.slot) /\ Chains(m.slot, c) /\ h \in 1 .. Len(m.slot)
            /\ Len(x.slot) = Len(m.slot)
            /\ \A i \in 1 .. Len(m.slot) : i # h => x.slot[i] = m.slot[i]
        BY <1>1, <1>2, <3>2
      <4> QED BY <2>1, <4>1, <4>2, ChainsHome
    <3>5. h \in c[h]  BY <1>1, <1>2, OnChain
    <3> QED BY <1>1, <1>3, <1>4, <3>2, <3>3, <3>4, <3>5
  <2>2. CASE m.slot[h].key # NULL
    <3>1. PICK e : e = sp_free(m, h)  OBVIOUS
    <3>2. e \in 1 .. n /\ m.slot[e].key = NULL /\ m.slot[at].key # NULL /\ e # at
      <4>1. e \in 1 .. n /\ m.slot[e].key = NULL  BY <1>1, <3>1, FreeIs
      <4>2. m.slot[at].key = NULL => h = at  BY <1>1, <1>2, <1>11 DEF Chains
      <4> QED BY <4>1, <4>2, <2>2
    <3>3. x = [size |-> m.size + 1, slot |-> Place(m.slot, h, at, e, key, p)]
      BY <1>1, <1>3, <2>2, <3>1 DEF sp_place
    <3>4. /\ x.slot \in Seq(SlotType) /\ Len(x.slot) = n /\ x.size = m.size + 1
          /\ x.slot[e] = [key |-> key, pointer |-> p, next |-> m.slot[at].next]
          /\ x.slot[at] = [key |-> m.slot[at].key, pointer |-> m.slot[at].pointer,
                           next |-> e]
          /\ \A i \in 1 .. n : i \notin {at, e} => x.slot[i] = m.slot[i]
      <4>1. x.slot = Place(m.slot, h, at, e, key, p) /\ x.size = m.size + 1  BY <3>3
      <4>2. /\ SlotsOK(m.slot) /\ h \in 1 .. Len(m.slot) /\ e \in 1 .. Len(m.slot)
            /\ at \in 1 .. Len(m.slot)
        BY <1>1, <1>11, <3>2
      <4>3. LinkedIs(x.slot, m.slot, at, e, key, p)
        BY <2>2, <3>2, <4>1, <4>2, PlaceLinked
      <4> QED BY <1>1, <4>1, <4>3 DEF LinkedIs
    <3>5. PutIn(x, m, e, key, p)
      <4>1. /\ x.slot[e].key = key /\ x.slot[e].pointer = p
            /\ x.slot[at].key = m.slot[at].key /\ x.slot[at].pointer = m.slot[at].pointer
        BY <3>4
      <4>2. \A i \in 1 .. n : i # e => /\ x.slot[i].key = m.slot[i].key
                                      /\ x.slot[i].pointer = m.slot[i].pointer
        <5> TAKE i \in 1 .. n
        <5>1. CASE i = at  BY <5>1, <4>1
        <5>2. CASE i # at /\ i # e
          <6>1. x.slot[i] = m.slot[i]  BY <5>2, <3>4
          <6> QED BY <6>1
        <5> QED BY <5>1, <5>2
      <4> QED BY <1>1, <3>2, <3>4, <4>1, <4>2 DEF PutIn
    <3>6. PICK d : d = Spliced(c, at, e, n)
      OBVIOUS
    <3>7. Chains(x.slot, d)
      <4>1. /\ x.slot[e].next = m.slot[at].next /\ x.slot[at].next = e
            /\ x.slot[e].key # NULL /\ x.slot[at].key = m.slot[at].key
        BY <1>1, <3>4
      <4>2. /\ SlotsOK(m.slot) /\ Chains(m.slot, c) /\ at \in 1 .. Len(m.slot)
            /\ e \in 1 .. Len(m.slot) /\ Len(x.slot) = Len(m.slot)
            /\ \A i \in 1 .. Len(m.slot) : i \notin {at, e} => x.slot[i] = m.slot[i]
        BY <1>1, <1>2, <1>11, <3>2, <3>4
      <4>3. d = Spliced(c, at, e, Len(m.slot))
        BY <1>1, <3>6
      <4>4. m.slot[e].key = NULL  BY <3>2
      <4>5. m.slot[at].key # NULL  BY <3>2
      <4> QED BY ONLY <4>1, <4>2, <4>3, <4>4, <4>5, ChainsLinked, SMTT(30)
    <3>8. e \in d[h]
      <4>1. h # e  BY <2>2, <3>2
      <4> QED BY <4>1, <3>2, <3>6, <1>1, <1>11 DEF Spliced
    <3>9. \A i \in 1 .. n : c[i] \subseteq d[i]
      <4>1. c[e] = {e}  BY <1>1, <1>2, <3>2 DEF Chains, SlotsOK
      <4> QED BY <4>1, <3>6 DEF Spliced
    <3>10. \A i \in 1 .. n : i # e /\ x.slot[i].key = NULL => x.slot[i] = m.slot[i]
      BY <3>4, <3>2
    <3> QED BY <1>1, <1>3, <1>4, <3>2, <3>4, <3>5, <3>7, <3>8, <3>9, <3>10
  <2> QED BY <2>1, <2>2
<1>5. Len(x.slot) = n /\ Used(x.slot) = Used(m.slot) \cup {e} /\ x.size = Cardinality(Used(x.slot))
  <2>1. Used(x.slot) = Used(m.slot) \cup {e} /\ x.size = Cardinality(Used(x.slot))
    BY <1>4, UsedPut
  <2> QED BY <1>1, <1>4, <2>1 DEF PutIn
<1>6. SlotsOK(x.slot)
  <2>1. \A i \in 1 .. n : x.slot[i].key = NULL => x.slot[i].pointer = NULL /\ x.slot[i].next = 0
    <3> TAKE i \in 1 .. n
    <3>1. CASE i = e  BY <3>1, <1>1, <1>4 DEF PutIn
    <3>2. CASE i # e  BY <3>2, <1>1, <1>4 DEF SlotsOK
    <3> QED BY <3>1, <3>2
  <2>2. \A i, j \in Used(x.slot) : x.slot[i].key = x.slot[j].key => i = j
    <3>1. \A i \in Used(m.slot) : m.slot[i].key # key  BY DEF Has, Used
    <3>2. \A i \in Used(m.slot) : i # e /\ x.slot[i].key = m.slot[i].key
      BY <1>4 DEF PutIn, Used
    <3>3. x.slot[e].key = key  BY <1>4 DEF PutIn
    <3> QED BY <1>1, <1>5, <3>1, <3>2, <3>3 DEF SlotsOK
  <2> QED BY <1>1, <1>4, <1>5, <2>1, <2>2 DEF SlotsOK
<1>7. AtHome(x, d)
  <2> SUFFICES ASSUME NEW j \in Used(x.slot)
               PROVE  j \in d[sp_home(x, x.slot[j].key)]
    BY DEF AtHome
  <2>1. \A k : sp_home(x, k) = sp_home(m, k)  BY <1>1, <1>5 DEF sp_home, sp_cap
  <2>2. CASE j = e
    <3>1. x.slot[j].key = key  BY <2>2, <1>4 DEF PutIn
    <3>2. sp_home(x, x.slot[j].key) = h  BY <3>1, <2>1, <1>1
    <3> QED BY <3>2, <2>2, <1>4
  <2>3. CASE j # e
    <3>1. j \in Used(m.slot) /\ x.slot[j].key = m.slot[j].key /\ m.slot[j].key \in Keys
      <4>1. j \in Used(m.slot)  BY <2>3, <1>5
      <4>2. m.slot[j].key \in Names /\ m.slot[j].key # NULL
        BY <4>1, <1>1, SlotTypes DEF Used
      <4> QED BY <4>1, <4>2, <2>3, <1>4 DEF PutIn, Used, Names
    <3>2. j \in c[sp_home(m, m.slot[j].key)]  BY <3>1, <1>2 DEF AtHome
    <3>3. sp_home(m, m.slot[j].key) \in 1 .. n  BY <3>1, <1>1, HomeIn
    <3>4. sp_home(x, x.slot[j].key) = sp_home(m, m.slot[j].key)
      BY <3>1, <2>1
    <3>5. PICK i \in 1 .. n : i = sp_home(m, m.slot[j].key)
      BY <3>3
    <3>6. j \in d[i]
      <4>1. c[i] \subseteq d[i]  BY <1>4
      <4>2. j \in c[i]  BY <3>2, <3>5
      <4> QED BY <4>1, <4>2
    <3> QED BY <3>4, <3>5, <3>6
  <2> QED BY <2>2, <2>3
<1> QED BY <1>4, <1>5, <1>6, <1>7 DEF TableOK

(* A new table: no entries. *)
LEMMA EmptyOK ==
  ASSUME NEW n \in Nat \ {0}
  PROVE  /\ TableOK(sp_empty(n)) /\ sp_cap(sp_empty(n)) = n /\ sp_empty(n).size = 0
         /\ Used(sp_empty(n).slot) = {}
<1>1. PICK s : s = EmptySlots(n)
  OBVIOUS
<1>2. EmptySlot \in SlotType  BY DEF EmptySlot, SlotType, Names
<1>3. s \in [1 .. n -> SlotType] /\ \A i \in 1 .. n : s[i] = EmptySlot
  BY <1>1, <1>2 DEF EmptySlots
<1>4. s \in Seq(SlotType) /\ Len(s) = n
  BY <1>3, FunIsSeq
<1>5. \A i \in 1 .. n : s[i].key = NULL /\ s[i].pointer = NULL /\ s[i].next = 0
  BY <1>3 DEF EmptySlot
<1>6. Used(s) = {}  BY <1>4, <1>5 DEF Used
<1>7. SlotsOK(s)  BY <1>4, <1>5, <1>6 DEF SlotsOK
<1>8. PICK c : c = [i \in 1 .. n |-> {i}]
  OBVIOUS
<1>9. Chains(s, c)  BY <1>4, <1>5, <1>8 DEF Chains
<1>10. PICK m : m = sp_empty(n)
  OBVIOUS
<1>11. m.slot = s /\ m.size = 0  BY <1>1, <1>10 DEF sp_empty
<1>12. AtHome(m, c)  BY <1>6, <1>11 DEF AtHome
<1>13. TableOK(m)  BY <1>6, <1>7, <1>9, <1>11, <1>12, FS_EmptySet DEF TableOK
<1> QED BY <1>4, <1>6, <1>10, <1>11, <1>13 DEF sp_cap

-----------------------------------------------------------------------------
(* The rehash. *)
AtItsHome(y, key, p) == sp_place(y, key, p, sp_home(y, key))

Rehashes(f, m, N) ==
  f = [i \in 0 .. N |->
         IF i = 0 THEN sp_empty(2 * sp_cap(m))
         ELSE AtItsHome(f[i-1], m.slot[i].key, m.slot[i].pointer)]

(* The recursive function in sp_rehash exists. *)
LEMMA RehashExists ==
  ASSUME NEW m, NEW N \in Nat
  PROVE  \E f : Rehashes(f, m, N)
<1> DEFINE T == {n \in Nat : ~ \E f : Rehashes(f, m, n)}
<1> SUFFICES ASSUME T # {} PROVE FALSE
  OBVIOUS
<1>1. PICK n \in T : \A k \in T : n <= k
  BY Least
<1>2. CASE n = 0
  <2>1. PICK f : f = [i \in 0 .. 0 |-> sp_empty(2 * sp_cap(m))]
    OBVIOUS
  <2>2. Rehashes(f, m, 0)
    BY <2>1 DEF Rehashes
  <2> QED BY <1>1, <1>2, <2>2
<1>3. CASE n # 0
  <2>1. n - 1 \in Nat /\ n - 1 \notin T
    BY <1>1, <1>3
  <2>2. PICK g : Rehashes(g, m, n - 1)
    BY <2>1
  <2>3. PICK f : f = [i \in 0 .. n |->
                        IF i = n THEN AtItsHome(g[n-1], m.slot[n].key, m.slot[n].pointer)
                        ELSE g[i]]
    OBVIOUS
  <2> DEFINE h == [i \in 0 .. n |->
                     IF i = 0 THEN sp_empty(2 * sp_cap(m))
                     ELSE AtItsHome(f[i-1], m.slot[i].key, m.slot[i].pointer)]
  <2>4. ASSUME NEW i \in 0 .. n PROVE f[i] = h[i]
    <3>1. n \in Nat  BY <1>1
    <3>2. i # 0 => f[i-1] = g[i-1]
      <4>1. i # 0 => i - 1 \in 0 .. n /\ i - 1 # n  BY <3>1
      <4> QED BY <4>1, <2>3
    <3>3. h[i] = IF i = 0 THEN sp_empty(2 * sp_cap(m))
                 ELSE AtItsHome(g[i-1], m.slot[i].key, m.slot[i].pointer)
      BY <3>2
    <3>4. CASE i = n  BY <3>3, <3>4, <2>3, <1>3
    <3>5. CASE i # n
      <4>1. i \in 0 .. n - 1  BY <3>1, <3>5
      <4>2. f[i] = g[i]  BY <3>5, <2>3
      <4> QED BY <4>1, <4>2, <3>3, <2>2 DEF Rehashes
    <3> QED BY <3>4, <3>5
  <2>5. f = h
    <3>1. h = [i \in 0 .. n |-> h[i]] /\ f = [i \in 0 .. n |-> f[i]]  BY <2>3
    <3> HIDE DEF h
    <3> QED BY <3>1, <2>4
  <2>6. Rehashes(f, m, n)  BY <2>5 DEF Rehashes
  <2> QED BY <1>1, <2>6
<1> QED BY <1>2, <1>3

(* x has entries of the first k slots of m. *)
Entered0(x, m, k) ==
  /\ TableOK(x) /\ sp_cap(x) = 2 * sp_cap(m) /\ x.size = k
  /\ \A j \in 1 .. sp_cap(x) : x.slot[j].key # NULL =>
       \E i \in 1 .. k : /\ x.slot[j].key = m.slot[i].key
                         /\ x.slot[j].pointer = m.slot[i].pointer
  /\ \A i \in 1 .. k : \E j \in 1 .. sp_cap(x) :
       x.slot[j].key = m.slot[i].key /\ x.slot[j].pointer = m.slot[i].pointer

(* sp_rehash enters all the old slots into a table of twice the slots. *)
LEMMA RehashOK ==
  ASSUME SizesOK, NEW m, TableOK(m), sp_full(m)
  PROVE  Entered0(sp_rehash(m), m, sp_cap(m))
<1>0. PICK n : n = sp_cap(m)
  OBVIOUS
<1> DEFINE f == CHOOSE f : Rehashes(f, m, n)
<1>1. n \in Nat \ {0} /\ n = Len(m.slot) /\ SlotsOK(m.slot)
  BY <1>0, SlotTypes DEF sp_cap, TableOK
<1>2. Rehashes(f, m, n)
  BY <1>1, RehashExists
<1>3. sp_rehash(m) = f[n]
  BY <1>0 DEF sp_rehash, Rehashes, AtItsHome
<1> HIDE DEF f
<1>4. \A i \in 1 .. n : m.slot[i].key # NULL
  <2>1. Used(m.slot) \subseteq 1 .. n  BY <1>1 DEF Used
  <2>2. IsFiniteSet(1 .. n) /\ Cardinality(1 .. n) = n  BY <1>1, UpTo
  <2>3. Cardinality(Used(m.slot)) >= n
    BY <1>0 DEF TableOK, sp_full
  <2>4. IsFiniteSet(Used(m.slot)) /\ Cardinality(Used(m.slot)) \in Nat
        /\ Cardinality(Used(m.slot)) <= n
        /\ (Cardinality(Used(m.slot)) = n => Used(m.slot) = 1 .. n)
    BY <2>1, <2>2, FS_Subset, FS_CardinalityType
  <2>5. Used(m.slot) = 1 .. n  BY <1>1, <2>3, <2>4
  <2> QED BY <2>5 DEF Used
<1> DEFINE T == {k \in Nat : k <= n /\ ~Entered0(f[k], m, k)}
<1>5. T = {}
  <2> SUFFICES ASSUME T # {} PROVE FALSE
    OBVIOUS
  <2>1. PICK k \in T : \A l \in T : k <= l
    BY Least
  <2>2. CASE k = 0
    <3>1. f[0] = sp_empty(2 * n)
      <4>1. 0 \in 0 .. n  BY <1>1
      <4>2. f[0] = sp_empty(2 * sp_cap(m))  BY <4>1, <1>2 DEF Rehashes
      <4> QED BY <4>2, <1>0
    <3>2. PICK x : x = f[0]  OBVIOUS
    <3>3. 2 * n \in Nat \ {0}  BY <1>1
    <3>4. TableOK(x) /\ sp_cap(x) = 2 * n /\ x.size = 0 /\ Used(x.slot) = {}
      BY <3>1, <3>2, <3>3, EmptyOK
    <3>5. \A j \in 1 .. sp_cap(x) : x.slot[j].key = NULL
      BY <3>4 DEF Used, sp_cap
    <3>6. Entered0(x, m, 0)  BY <1>0, <3>4, <3>5 DEF Entered0
    <3> QED BY <3>2, <3>6, <2>1, <2>2
  <2>3. CASE k # 0
    <3>1. k \in 1 .. n /\ k - 1 \in Nat /\ k - 1 <= n /\ k - 1 \notin T /\ k \in Nat
      BY <1>1, <2>1, <2>3
    <3>2. PICK y, key, p : y = f[k-1] /\ key = m.slot[k].key /\ p = m.slot[k].pointer
      OBVIOUS
    <3>3. Entered0(y, m, k - 1)  BY <3>1, <3>2
    <3>4. f[k] = sp_place(y, key, p, sp_home(y, key))
      BY <1>2, <3>1, <3>2 DEF Rehashes, AtItsHome
    <3>5. key \in Keys /\ p \in Pointers \cup {NULL}
      BY <1>1, <1>4, <3>1, <3>2, SlotTypes DEF Names
    <3>6. ~Has(y, key)
      <4> SUFFICES ASSUME NEW j \in 1 .. Len(y.slot), y.slot[j].key = key PROVE FALSE
        BY DEF Has
      <4>1. y.slot[j].key # NULL  BY <1>4, <3>1, <3>2
      <4>2. PICK i \in 1 .. (k - 1) : y.slot[j].key = m.slot[i].key
        BY <3>3, <4>1 DEF Entered0, sp_cap
      <4>3. i \in Used(m.slot) /\ k \in Used(m.slot)
        BY <1>1, <1>4, <3>1, SMTT(20) DEF Used
      <4>4. i = k  BY <1>1, <3>2, <4>2, <4>3 DEF SlotsOK
      <4> QED BY <4>4, <3>1
    <3>7. TableOK(y) /\ y.size < sp_cap(y) /\ sp_cap(y) = 2 * n /\ y.size = k - 1
      <4>1. TableOK(y) /\ sp_cap(y) = 2 * sp_cap(m) /\ y.size = k - 1
        BY <3>3 DEF Entered0
      <4>2. sp_cap(y) = 2 * n  BY <4>1, <1>0
      <4> QED BY <1>1, <3>1, <4>1, <4>2
    <3>8. PICK x : x = f[k]  OBVIOUS
    <3>9. TableOK(x) /\ \E e \in 1 .. sp_cap(y) : PutIn(x, y, e, key, p)
      BY <3>4, <3>5, <3>6, <3>7, <3>8, PlaceOK DEF LinksAt
    <3>10. PICK e \in 1 .. sp_cap(y) : PutIn(x, y, e, key, p)
      BY <3>9
    <3>11. sp_cap(x) = 2 * n /\ x.size = k
      BY <3>1, <3>7, <3>10 DEF PutIn, sp_cap
    <3>12. ASSUME NEW j \in 1 .. sp_cap(x), x.slot[j].key # NULL
           PROVE  \E i \in 1 .. k : /\ x.slot[j].key = m.slot[i].key
                                    /\ x.slot[j].pointer = m.slot[i].pointer
      <4>1. CASE j = e
        <5>1. k \in 1 .. k  BY <3>1
        <5> QED BY <4>1, <5>1, <3>2, <3>10 DEF PutIn
      <4>2. CASE j # e
        <5>1. j \in 1 .. sp_cap(y) /\ x.slot[j].key = y.slot[j].key
              /\ x.slot[j].pointer = y.slot[j].pointer
          BY <4>2, <3>7, <3>10, <3>11 DEF PutIn, sp_cap
        <5>2. PICK i \in 1 .. (k - 1) : /\ y.slot[j].key = m.slot[i].key
                                        /\ y.slot[j].pointer = m.slot[i].pointer
          BY <5>1, <3>3, <3>12 DEF Entered0
        <5>3. i \in 1 .. k  BY <3>1
        <5> QED BY <5>1, <5>2, <5>3
      <4> QED BY <4>1, <4>2
    <3>13. ASSUME NEW i \in 1 .. k
           PROVE  \E j \in 1 .. sp_cap(x) : /\ x.slot[j].key = m.slot[i].key
                                            /\ x.slot[j].pointer = m.slot[i].pointer
      <4>1. CASE i = k
        <5>1. e \in 1 .. sp_cap(x)  BY <3>7, <3>11
        <5> QED BY <4>1, <5>1, <3>2, <3>10 DEF PutIn
      <4>2. CASE i # k
        <5>1. i \in 1 .. (k - 1)  BY <4>2, <3>1
        <5>2. PICK j \in 1 .. sp_cap(y) : /\ y.slot[j].key = m.slot[i].key
                                          /\ y.slot[j].pointer = m.slot[i].pointer
          BY <5>1, <3>3 DEF Entered0
        <5>3. m.slot[i].key # NULL
          <6>1. i \in 1 .. n  BY <3>1, <1>1
          <6> QED BY <6>1, <1>4
        <5>4. j # e  BY <5>2, <5>3, <3>10 DEF PutIn
        <5>5. j \in 1 .. sp_cap(x) /\ x.slot[j].key = y.slot[j].key
              /\ x.slot[j].pointer = y.slot[j].pointer
          BY <5>4, <3>7, <3>10, <3>11 DEF PutIn, sp_cap
        <5> QED BY <5>2, <5>5
      <4> QED BY <4>1, <4>2
    <3>14. Entered0(x, m, k)
      BY <1>0, <3>9, <3>11, <3>12, <3>13 DEF Entered0
    <3> QED BY <3>8, <3>14, <2>1
  <2> QED BY <2>2, <2>3
<1>6. n \in Nat /\ n \notin T  BY <1>1, <1>5
<1> QED BY <1>0, <1>1, <1>3, <1>6

(* m has an entry for k with pointer q. *)
Entry(m, k, q) ==
  \E i \in 1 .. sp_cap(m) : m.slot[i].key = k /\ m.slot[i].pointer = q

(* x has the entries of m and one more; it may have grown for it. *)
Adds(x, m, key, p) ==
  /\ TableOK(x) /\ x.size = m.size + 1
  /\ sp_cap(x) = IF sp_full(m) THEN 2 * sp_cap(m) ELSE sp_cap(m)
  /\ \A k \in Keys : \A q : Entry(x, k, q) <=> Entry(m, k, q) \/ (k = key /\ q = p)

(* What sp_find and sp_query answer. *)
LEMMA LookOK ==
  ASSUME SizesOK, NEW m, TableOK(m), NEW key \in Keys
  PROVE  /\ sp_find(m, key) \in 0 .. sp_cap(m)
         /\ sp_find(m, key) # 0 => m.slot[sp_find(m, key)].key = key
         /\ Has(m, key) => sp_find(m, key) # 0
         /\ ~Has(m, key) => sp_find(m, key) = 0 /\ sp_query(m, key) = NULL
         /\ \A q : Entry(m, key, q) => Has(m, key) /\ sp_query(m, key) = q
<1>1. PICK h : h = sp_home(m, key)
  OBVIOUS
<1>2. PICK c : Chains(m.slot, c) /\ AtHome(m, c)
  BY DEF TableOK
<1>3. SlotsOK(m.slot) /\ key # NULL /\ h \in 1 .. Len(m.slot) /\ Len(m.slot) \in Nat
  BY <1>1, HomeIn, SlotTypes DEF TableOK, SizesOK
<1>4. PICK j : j = sp_find(m, key)
  OBVIOUS
<1>5. Finds(m.slot, c, h, key, j)
  BY <1>1, <1>2, <1>3, <1>4, FindIs DEF sp_find
<1>6. j \in 0 .. Len(m.slot) /\ (j # 0 => m.slot[j].key = key)
  BY <1>5 DEF Finds
<1>7. ASSUME NEW i \in 1 .. Len(m.slot), m.slot[i].key = key PROVE j = i
  <2>1. i \in Used(m.slot)  BY <1>3, <1>7 DEF Used
  <2>2. i \in c[h]  BY <2>1, <1>1, <1>2, <1>7 DEF AtHome
  <2> QED BY <2>2, <1>5, <1>7 DEF Finds
<1>8. Has(m, key) => j # 0  BY <1>3, <1>7 DEF Has
<1>9. ~Has(m, key) => j = 0  BY <1>3, <1>6 DEF Has
<1>10. j = 0 => sp_query(m, key) = NULL  BY <1>4 DEF sp_query
<1>11. ASSUME NEW q, Entry(m, key, q) PROVE Has(m, key) /\ sp_query(m, key) = q
  <2>1. PICK i \in 1 .. Len(m.slot) : m.slot[i].key = key /\ m.slot[i].pointer = q
    BY <1>11 DEF Entry, sp_cap
  <2>2. j = i /\ j # 0  BY <2>1, <1>7, <1>3
  <2>3. sp_query(m, key) = m.slot[j].pointer  BY <2>2, <1>4 DEF sp_query
  <2> QED BY <2>1, <2>2, <2>3 DEF Has
<1> QED BY <1>4, <1>6, <1>8, <1>9, <1>10, <1>11 DEF sp_cap

(* A name is in the table when it has a pointer there. *)
LEMMA EntryHas ==
  ASSUME NEW m, NEW k
  PROVE  Has(m, k) <=> \E q : Entry(m, k, q)
BY DEF Has, Entry, sp_cap

(* Taking a free slot adds the one entry. *)
LEMMA PutAdds ==
  ASSUME SizesOK, NEW m, TableOK(m), NEW x, NEW e, NEW key \in Keys, NEW p,
         PutIn(x, m, e, key, p), NEW k \in Keys, NEW q
  PROVE  Entry(x, k, q) <=> Entry(m, k, q) \/ (k = key /\ q = p)
<1>1. k # NULL  BY DEF SizesOK
<1>2. Len(x.slot) = Len(m.slot) /\ e \in 1 .. Len(m.slot) /\ m.slot[e].key = NULL
      /\ x.slot[e].key = key /\ x.slot[e].pointer = p
  BY DEF PutIn
<1>3. \A i \in 1 .. Len(m.slot) : i # e => /\ x.slot[i].key = m.slot[i].key
                                           /\ x.slot[i].pointer = m.slot[i].pointer
  BY DEF PutIn
<1> QED BY <1>1, <1>2, <1>3 DEF Entry, sp_cap

(* A rehash keeps the entries. *)
LEMMA RehashAdds ==
  ASSUME SizesOK, NEW m, TableOK(m), sp_full(m), NEW y, y = sp_rehash(m)
  PROVE  /\ TableOK(y) /\ sp_cap(y) = 2 * sp_cap(m) /\ y.size = m.size /\ ~sp_full(y)
         /\ \A k \in Keys : \A q : Entry(y, k, q) <=> Entry(m, k, q)
<1>1. PICK n : n = sp_cap(m) /\ n \in Nat \ {0} /\ Len(m.slot) = n
  BY SlotTypes DEF sp_cap, TableOK
<1>2. Entered0(y, m, n)
  BY <1>1, RehashOK
<1>3. TableOK(y) /\ sp_cap(y) = 2 * sp_cap(m) /\ y.size = n
  BY <1>2 DEF Entered0
<1>4. m.size = n
  <2>1. Used(m.slot) \subseteq 1 .. n  BY <1>1 DEF Used
  <2>2. IsFiniteSet(1 .. n) /\ Cardinality(1 .. n) = n  BY <1>1, UpTo
  <2>3. Cardinality(Used(m.slot)) <= n /\ Cardinality(Used(m.slot)) \in Nat
    BY <2>1, <2>2, FS_Subset, FS_CardinalityType
  <2>4. m.size = Cardinality(Used(m.slot)) /\ n <= m.size
    BY <1>1 DEF TableOK, sp_full
  <2> QED BY <1>1, <2>3, <2>4
<1>5. ~sp_full(y)
  <2>1. sp_cap(y) = 2 * n  BY <1>1, <1>3
  <2> QED BY <1>1, <1>3, <2>1 DEF sp_full
<1>6. ASSUME NEW k \in Keys, NEW q
      PROVE  Entry(y, k, q) <=> Entry(m, k, q)
  <2>1. k # NULL  BY DEF SizesOK
  <2>2. ASSUME Entry(y, k, q) PROVE Entry(m, k, q)
    <3>1. PICK j \in 1 .. sp_cap(y) : y.slot[j].key = k /\ y.slot[j].pointer = q
      BY <2>2 DEF Entry
    <3>2. PICK i \in 1 .. n : /\ y.slot[j].key = m.slot[i].key
                              /\ y.slot[j].pointer = m.slot[i].pointer
      BY <1>2, <2>1, <3>1 DEF Entered0
    <3> QED BY <1>1, <3>1, <3>2 DEF Entry
  <2>3. ASSUME Entry(m, k, q) PROVE Entry(y, k, q)
    <3>1. PICK i \in 1 .. n : m.slot[i].key = k /\ m.slot[i].pointer = q
      BY <1>1, <2>3 DEF Entry
    <3>2. PICK j \in 1 .. sp_cap(y) : /\ y.slot[j].key = m.slot[i].key
                                      /\ y.slot[j].pointer = m.slot[i].pointer
      BY <1>2, <3>1 DEF Entered0
    <3> QED BY <3>1, <3>2 DEF Entry
  <2> QED BY <2>2, <2>3
<1> QED BY <1>1, <1>3, <1>4, <1>5, <1>6

(* A new name is entered, after a rehash if the table is full. *)
LEMMA EntersOK ==
  ASSUME SizesOK, NEW m, TableOK(m), NEW key \in Keys, ~Has(m, key),
         NEW p \in Pointers \cup {NULL}, NEW y, y = sp_room(m), NEW at, LinksAt(y, key, at)
  PROVE  Adds(sp_place(y, key, p, at), m, key, p)
<1>1. y = IF sp_full(m) THEN sp_rehash(m) ELSE m
  BY DEF sp_room
<1>2. /\ TableOK(y) /\ ~sp_full(y) /\ y.size = m.size
      /\ sp_cap(y) = IF sp_full(m) THEN 2 * sp_cap(m) ELSE sp_cap(m)
      /\ \A k \in Keys : \A q : Entry(y, k, q) <=> Entry(m, k, q)
  BY <1>1, RehashAdds
<1>3. PICK x : x = sp_place(y, key, p, at)
  OBVIOUS
<1>5. ~Has(y, key)
  BY <1>2, EntryHas
<1>6. y.size < sp_cap(y)
  <2>1. sp_cap(y) \in Nat  BY <1>2, SlotTypes DEF sp_cap, TableOK
  <2>2. y.size \in Nat
    <3>1. IsFiniteSet(1 .. sp_cap(y))  BY <2>1, UpTo
    <3>2. Used(y.slot) \subseteq 1 .. sp_cap(y)  BY DEF Used, sp_cap
    <3> QED BY <1>2, <3>1, <3>2, FS_Subset, FS_CardinalityType DEF TableOK
  <2> QED BY <1>2, <2>1, <2>2 DEF sp_full
<1>7. TableOK(x) /\ \E e \in 1 .. sp_cap(y) : PutIn(x, y, e, key, p)
  BY <1>2, <1>3, <1>5, <1>6, PlaceOK
<1>8. PICK e \in 1 .. sp_cap(y) : PutIn(x, y, e, key, p)
  BY <1>7
<1>9. \A k \in Keys : \A q : Entry(x, k, q) <=> Entry(y, k, q) \/ (k = key /\ q = p)
  BY <1>2, <1>8, PutAdds
<1>10. sp_cap(x) = sp_cap(y) /\ x.size = y.size + 1
  BY <1>8 DEF PutIn, sp_cap
<1> QED BY <1>2, <1>3, <1>7, <1>9, <1>10 DEF Adds

(* sp_insert of a new name adds its entry, in a full table too. *)
LEMMA InsertOK ==
  ASSUME SizesOK, NEW m, TableOK(m), NEW key \in Keys, ~Has(m, key),
         NEW p \in Pointers \cup {NULL}
  PROVE  Adds(sp_insert(m, key, p), m, key, p)
<1>1. PICK y, at : y = sp_room(m) /\ at = sp_home(y, key)
  OBVIOUS
<1>2. LinksAt(y, key, at)  BY <1>1 DEF LinksAt
<1>3. sp_insert(m, key, p) = sp_place(y, key, p, at)  BY <1>1 DEF sp_insert
<1>4. Adds(sp_place(y, key, p, at), m, key, p)  BY <1>1, <1>2, EntersOK
<1> QED BY <1>3, <1>4

(* What sp_insert and sp_query_insert answer is a table. *)
LEMMA PlaceRecord ==
  ASSUME NEW m, NEW key, NEW p, NEW at, NEW x, x = sp_place(m, key, p, at)
  PROVE  x = [size |-> x.size, slot |-> x.slot]
BY DEF sp_place

LEMMA InsertRecord ==
  ASSUME NEW m, NEW key, NEW p, NEW x, x = sp_insert(m, key, p)
  PROVE  x = [size |-> x.size, slot |-> x.slot]
BY PlaceRecord DEF sp_insert

(* The pointer of one entry is overwritten. *)
LEMMA WriteOK ==
  ASSUME SizesOK, NEW y, TableOK(y), y = [size |-> y.size, slot |-> y.slot],
         NEW key \in Keys, Has(y, key), NEW p \in Pointers,
         NEW x, x = sp_write(y, key, p)
  PROVE  /\ TableOK(x) /\ sp_cap(x) = sp_cap(y) /\ x.size = y.size
         /\ x = [size |-> x.size, slot |-> x.slot]
         /\ \A k \in Keys : \A q : Entry(x, k, q) <=>
                                   IF k = key THEN q = p ELSE Entry(y, k, q)
<1>1. PICK i : i = sp_find(y, key)
  OBVIOUS
<1>2. PICK n : n = Len(y.slot)
  OBVIOUS
<1>3. n \in Nat /\ SlotsOK(y.slot) /\ y.slot \in [1 .. n -> SlotType]
      /\ \A j \in 1 .. n : y.slot[j] \in SlotType
  BY <1>2, SlotTypes, SeqIs DEF TableOK, SlotsOK
<1>4. i \in 1 .. n /\ y.slot[i].key = key
  <2>1. /\ i \in 0 .. n /\ i # 0 /\ y.slot[i].key = key
    BY <1>1, <1>2, LookOK DEF sp_cap
  <2> QED BY <2>1, <1>3
<1>5. PICK s : s = [y.slot EXCEPT ![i].pointer = p]
  OBVIOUS
<1>6. x = [size |-> y.size, slot |-> s]
  <2>1. x = [y EXCEPT !.slot[i].pointer = p]  BY <1>1 DEF sp_write
  <2> QED BY <2>1, <1>5
<1>7. s[i] = [key |-> y.slot[i].key, pointer |-> p, next |-> y.slot[i].next]
  BY <1>3, <1>4, <1>5 DEF SlotType
<1>8. \A j \in 1 .. n : j # i => s[j] = y.slot[j]
  BY <1>3, <1>5
<1>9. s \in Seq(SlotType) /\ Len(s) = n
  <2>1. s[i] \in SlotType
    <3>1. y.slot[i] \in SlotType  BY <1>3, <1>4
    <3> QED BY <3>1, <1>7 DEF SlotType
  <2>2. s = [j \in 1 .. n |-> s[j]]  BY <1>3, <1>5
  <2>3. \A j \in 1 .. n : s[j] \in SlotType  BY <2>1, <1>3, <1>8
  <2>4. s \in [1 .. n -> SlotType]  BY <2>2, <2>3
  <2> QED BY <2>4, <1>3, FunIsSeq
<1>10. \A j \in 1 .. n : s[j].key = y.slot[j].key /\ s[j].next = y.slot[j].next
                         /\ (j # i => s[j].pointer = y.slot[j].pointer)
  BY <1>7, <1>8
<1>11. Used(s) = Used(y.slot)
  BY <1>2, <1>9, <1>10 DEF Used
<1>12. key # NULL  BY DEF SizesOK
<1>13. SlotsOK(s)
  <2>1. \A j \in 1 .. n : s[j].key = NULL => s[j].pointer = NULL /\ s[j].next = 0
    <3> TAKE j \in 1 .. n
    <3>1. CASE j = i  BY <3>1, <1>4, <1>10, <1>12
    <3>2. CASE j # i  BY <3>2, <1>2, <1>3, <1>8 DEF SlotsOK
    <3> QED BY <3>1, <3>2
  <2>2. \A j, k \in Used(s) : s[j].key = s[k].key => j = k
    <3>1. \A j \in Used(s) : j \in 1 .. n /\ j \in Used(y.slot)
      BY <1>9, <1>11 DEF Used
    <3> QED BY <3>1, <1>3, <1>10 DEF SlotsOK
  <2>3. Len(s) # 0  BY <1>2, <1>3, <1>9 DEF SlotsOK
  <2> QED BY <1>9, <2>1, <2>2, <2>3 DEF SlotsOK
<1>14. TableOK(x)
  <2>1. PICK c : Chains(y.slot, c) /\ AtHome(y, c)
    BY DEF TableOK
  <2>2. \A j \in 1 .. n : c[j] \subseteq 1 .. n  BY <2>1, <1>2, OnChain
  <2>3. Chains(s, c)
    BY <2>1, <2>2, <1>2, <1>9, <1>10 DEF Chains
  <2>4. AtHome(x, c)
    <3>1. \A k : sp_home(x, k) = sp_home(y, k)
      BY <1>2, <1>6, <1>9 DEF sp_home, sp_cap
    <3>2. \A j \in Used(s) : s[j].key = y.slot[j].key /\ j \in Used(y.slot)
      BY <1>9, <1>10, <1>11 DEF Used
    <3>3. x.slot = s  BY <1>6
    <3> QED BY <2>1, <3>1, <3>2, <3>3 DEF AtHome
  <2>5. x.size = Cardinality(Used(s)) /\ x.slot = s  BY <1>6, <1>11 DEF TableOK
  <2> QED BY <1>13, <2>3, <2>4, <2>5 DEF TableOK
<1>15. ASSUME NEW k \in Keys, NEW q
       PROVE  Entry(x, k, q) <=> IF k = key THEN q = p ELSE Entry(y, k, q)
  <2>1. x.slot = s /\ sp_cap(x) = n /\ sp_cap(y) = n
    BY <1>2, <1>6, <1>9 DEF sp_cap
  <2>2. CASE k = key
    <3>1. \A j \in 1 .. n : s[j].key = key => j = i
      <4> SUFFICES ASSUME NEW j \in 1 .. n, s[j].key = key PROVE j = i
        OBVIOUS
      <4>1. j \in Used(s) /\ i \in Used(s) /\ s[i].key = key
        BY <1>4, <1>9, <1>10, <1>12 DEF Used
      <4> QED BY <4>1, <1>13 DEF SlotsOK
    <3>2. s[i].key = key /\ s[i].pointer = p  BY <1>4, <1>7
    <3> QED BY <2>1, <2>2, <3>1, <3>2, <1>4 DEF Entry
  <2>3. CASE k # key
    <3>1. \A j \in 1 .. n : s[j].key = k => j # i /\ s[j].pointer = y.slot[j].pointer
      BY <2>3, <1>4, <1>10
    <3>2. \A j \in 1 .. n : y.slot[j].key = k => j # i /\ s[j].pointer = y.slot[j].pointer
      BY <2>3, <1>4, <1>10
    <3> QED BY <2>1, <2>3, <3>1, <3>2, <1>10 DEF Entry
  <2> QED BY <2>2, <2>3
<1>16. sp_cap(x) = sp_cap(y)  BY <1>2, <1>6, <1>9 DEF sp_cap
<1> QED BY <1>6, <1>14, <1>15, <1>16

(* _pbcM_sp_query_insert of a new name, and the write through its result.  *)
LEMMA QueryInsertOK ==
  ASSUME SizesOK, NEW m, TableOK(m), NEW key \in Keys, ~Has(m, key),
         NEW p \in Pointers, NEW y, y = sp_query_insert(m, key),
         NEW x, x = sp_write(y, key, p)
  PROVE  /\ Adds(x, m, key, p) /\ sp_cap(x) = sp_cap(y)
         /\ x = [size |-> x.size, slot |-> x.slot]
<1>1. PICK z, at : z = sp_room(m) /\ at = LastOn(z.slot, sp_home(z, key))
  OBVIOUS
<1>2. Adds(y, m, key, NULL) /\ y = [size |-> y.size, slot |-> y.slot]
  <2>1. y = sp_place(z, key, NULL, at)
    BY <1>1, LookOK DEF sp_query_insert
  <2>2. LinksAt(z, key, at)  BY <1>1 DEF LinksAt
  <2>3. Adds(sp_place(z, key, NULL, at), m, key, NULL)  BY <1>1, <2>2, EntersOK
  <2> QED BY <2>1, <2>3, PlaceRecord
<1>3. TableOK(y) /\ Has(y, key)
  <2>1. Entry(y, key, NULL)  BY <1>2 DEF Adds
  <2> QED BY <1>2, <2>1, EntryHas DEF Adds
<1>4. /\ TableOK(x) /\ sp_cap(x) = sp_cap(y) /\ x.size = y.size
      /\ x = [size |-> x.size, slot |-> x.slot]
      /\ \A k \in Keys : \A q : Entry(x, k, q) <=>
                                IF k = key THEN q = p ELSE Entry(y, k, q)
  BY <1>2, <1>3, WriteOK
<1>5. \A k \in Keys : \A q : Entry(x, k, q) <=> Entry(m, k, q) \/ (k = key /\ q = p)
  <2>1. ~ \E q : Entry(m, key, q)  BY EntryHas
  <2> QED BY <1>2, <1>4, <2>1 DEF Adds
<1> QED BY <1>2, <1>4, <1>5 DEF Adds

(* The used slots up to i, and how many they are. *)
UsedTo(m, i) == {j \in Used(m.slot) : j <= i}
Count(m, i) == Cardinality(UsedTo(m, i))

(* Every entry has a pointer. *)
Pointed(m) == \A i \in 1 .. sp_cap(m) : m.slot[i].key # NULL => m.slot[i].pointer # NULL

(* Along the slots the count of used ones grows by one at each, up to *)
(* size.                                                              *)
LEMMA CountOK ==
  ASSUME NEW m, TableOK(m)
  PROVE  /\ sp_cap(m) \in Nat \ {0}
         /\ \A i \in 0 .. sp_cap(m) : Count(m, i) \in Nat
         /\ Count(m, 0) = 0 /\ Count(m, sp_cap(m)) = m.size
         /\ \A i \in 1 .. sp_cap(m) :
              Count(m, i) = IF i \in Used(m.slot) THEN Count(m, i - 1) + 1
                            ELSE Count(m, i - 1)
         /\ \A i, j \in 0 .. sp_cap(m) : i <= j => Count(m, i) <= Count(m, j)
<1>1. PICK n : n = sp_cap(m) /\ n \in Nat \ {0} /\ Len(m.slot) = n
  BY SlotTypes DEF sp_cap, TableOK
<1>2. PICK U : U = Used(m.slot)
  OBVIOUS
<1>3. U \subseteq 1 .. n /\ IsFiniteSet(U) /\ Cardinality(U) = m.size
  <2>1. U \subseteq 1 .. n /\ Cardinality(U) = m.size  BY <1>1, <1>2 DEF Used, TableOK
  <2> QED BY <2>1, <1>1, UpTo, FS_Subset
<1>5. \A i : IsFiniteSet(UsedTo(m, i)) /\ Cardinality(UsedTo(m, i)) \in Nat
  <2> TAKE i
  <2>1. UsedTo(m, i) \subseteq U  BY <1>2 DEF UsedTo
  <2>2. IsFiniteSet(UsedTo(m, i))  BY <2>1, <1>3, FS_Subset
  <2> QED BY <2>2, FS_CardinalityType
<1>6. Count(m, 0) = 0
  <2>1. UsedTo(m, 0) = {}  BY <1>1, <1>2, <1>3 DEF UsedTo
  <2> QED BY <2>1, FS_EmptySet DEF Count
<1>7. Count(m, n) = m.size
  <2>1. UsedTo(m, n) = U  BY <1>1, <1>2, <1>3 DEF UsedTo
  <2> QED BY <2>1, <1>3 DEF Count
<1>8. ASSUME NEW i \in 1 .. n
      PROVE  Count(m, i) = IF i \in U THEN Count(m, i - 1) + 1 ELSE Count(m, i - 1)
  <2>1. CASE i \in U
    <3>1. UsedTo(m, i) = UsedTo(m, i - 1) \cup {i} /\ i \notin UsedTo(m, i - 1)
      BY <2>1, <1>1, <1>2, <1>3 DEF UsedTo
    <3> QED BY <3>1, <2>1, <1>5, FS_AddElement DEF Count
  <2>2. CASE i \notin U
    <3>1. UsedTo(m, i) = UsedTo(m, i - 1)  BY <2>2, <1>1, <1>2, <1>3 DEF UsedTo
    <3> QED BY <3>1, <2>2 DEF Count
  <2> QED BY <2>1, <2>2
<1>9. ASSUME NEW i \in 0 .. n, NEW j \in 0 .. n, i <= j
      PROVE  Count(m, i) <= Count(m, j)
  <2>1. UsedTo(m, i) \subseteq UsedTo(m, j)  BY <1>1, <1>2, <1>3, <1>9 DEF UsedTo
  <2> QED BY <2>1, <1>5, FS_Subset DEF Count
<1>10. \A i \in 0 .. n : Count(m, i) \in Nat  BY <1>5 DEF Count
<1> QED BY <1>1, <1>2, <1>6, <1>7, <1>8, <1>9, <1>10

(* j is the k-th used slot. *)
Nth(m, k, j) == j \in Used(m.slot) /\ Count(m, j) = k

(* Each of the first size numbers has its used slot. *)
LEMMA NthIs ==
  ASSUME NEW m, TableOK(m)
  PROVE  /\ \A k \in 1 .. m.size : \E j \in 1 .. sp_cap(m) : Nth(m, k, j)
         /\ \A k : \A i, j \in 1 .. sp_cap(m) : Nth(m, k, i) /\ Nth(m, k, j) => i = j
         /\ \A j \in Used(m.slot) : j \in 1 .. sp_cap(m) /\ Count(m, j) \in 1 .. m.size
<1>1. PICK n : n = sp_cap(m) /\ n = Len(m.slot)
  BY DEF sp_cap
<1>2. /\ n \in Nat \ {0}
      /\ \A i \in 0 .. n : Count(m, i) \in Nat
      /\ Count(m, 0) = 0 /\ Count(m, n) = m.size
      /\ \A i \in 1 .. n :
           Count(m, i) = IF i \in Used(m.slot) THEN Count(m, i - 1) + 1
                         ELSE Count(m, i - 1)
      /\ \A i, j \in 0 .. n : i <= j => Count(m, i) <= Count(m, j)
  BY <1>1, CountOK
<1>3. ASSUME NEW k \in 1 .. m.size
      PROVE  \E j \in 1 .. n : Nth(m, k, j)
  <2>1. PICK T : T = {i \in 0 .. n : Count(m, i) >= k}
    OBVIOUS
  <2>2. T \in SUBSET Nat /\ n \in T  BY <1>2, <2>1
  <2>3. PICK j \in T : \A i \in T : j <= i
    BY <2>2, Least
  <2>4. j \in 1 .. n
    <3>1. j \in 0 .. n /\ Count(m, j) >= k /\ k >= 1  BY <2>1, <2>3
    <3>2. j # 0  BY <3>1, <1>2
    <3> QED BY <3>1, <3>2, <1>2
  <2>5. j - 1 \in 0 .. n /\ j - 1 \notin T
    <3>1. j - 1 \in 0 .. n  BY <2>4, <1>2
    <3> QED BY <3>1, <2>3, <2>4
  <2>6. Count(m, j - 1) < k /\ Count(m, j) >= k
    <3>1. Count(m, j) >= k  BY <2>1, <2>3
    <3>2. Count(m, j - 1) \in Nat /\ ~(Count(m, j - 1) >= k)  BY <1>2, <2>1, <2>5
    <3> QED BY <3>1, <3>2, <1>2
  <2>7. j \in Used(m.slot) /\ Count(m, j) = k
    BY <1>2, <2>4, <2>5, <2>6
  <2> QED BY <2>4, <2>7 DEF Nth
<1>4. ASSUME NEW i \in 1 .. n, NEW j \in Used(m.slot), i < j, j \in 1 .. n
      PROVE  Count(m, i) < Count(m, j)
  <2>0. n \in Nat  BY <1>2
  <2>1. i \in 0 .. n /\ j - 1 \in 0 .. n /\ i <= j - 1  BY <2>0, <1>4
  <2>2. Count(m, i) <= Count(m, j - 1)  BY <2>1, <1>2
  <2>3. Count(m, j) = Count(m, j - 1) + 1  BY <1>2, <1>4
  <2> QED BY <1>2, <2>1, <2>2, <2>3
<1>5. ASSUME NEW k, NEW i \in 1 .. n, NEW j \in 1 .. n, Nth(m, k, i), Nth(m, k, j)
      PROVE  i = j
  <2>1. i \in Used(m.slot) /\ j \in Used(m.slot) /\ Count(m, i) = Count(m, j)
    BY <1>5 DEF Nth
  <2>2. ~(i < j)  BY <2>1, <1>2, <1>4
  <2>3. ~(j < i)  BY <2>1, <1>2, <1>4
  <2> QED BY <2>2, <2>3
<1>6. ASSUME NEW j \in Used(m.slot)
      PROVE  j \in 1 .. n /\ Count(m, j) \in 1 .. m.size
  <2>1. j \in 1 .. n  BY <1>1 DEF Used
  <2>2. j - 1 \in 0 .. n /\ j \in 0 .. n /\ n \in 0 .. n  BY <2>1, <1>2
  <2>3. Count(m, j) = Count(m, j - 1) + 1  BY <2>1, <1>2
  <2>4. Count(m, j) <= Count(m, n)  BY <2>1, <2>2, <1>2
  <2>5. Count(m, j) \in Nat /\ Count(m, j - 1) \in Nat /\ Count(m, n) \in Nat
    BY <2>2, <1>2
  <2> QED BY <2>1, <2>3, <2>4, <2>5, <1>2
<1> QED BY <1>1, <1>3, <1>5, <1>6

(* sp_next goes from a used slot to the next one. *)
LEMMA NextOK ==
  ASSUME SizesOK, NEW m, TableOK(m), Pointed(m), NEW i \in 0 .. sp_cap(m),
         i # 0 => i \in Used(m.slot)
  PROVE  LET key == IF i = 0 THEN NULL ELSE m.slot[i].key IN
         IF Count(m, i) < m.size
         THEN \E j \in 1 .. sp_cap(m) :
                Nth(m, Count(m, i) + 1, j) /\ sp_next(m, key) = m.slot[j].key
         ELSE sp_next(m, key) = NULL
<1>1. PICK n, key : n = sp_cap(m) /\ key = IF i = 0 THEN NULL ELSE m.slot[i].key
  OBVIOUS
<1>2. /\ n \in Nat \ {0} /\ n = Len(m.slot) /\ SlotsOK(m.slot)
      /\ \A j \in 0 .. n : Count(m, j) \in Nat
      /\ Count(m, n) = m.size
      /\ \A j \in 1 .. n :
           Count(m, j) = IF j \in Used(m.slot) THEN Count(m, j - 1) + 1
                         ELSE Count(m, j - 1)
  <2>1. n = Len(m.slot) /\ SlotsOK(m.slot)  BY <1>1 DEF sp_cap, TableOK
  <2> QED BY <2>1, <1>1, CountOK
<1>3. i # 0 => key \in Keys /\ key # NULL /\ sp_find(m, key) = i
  <2> SUFFICES ASSUME i # 0 PROVE key \in Keys /\ key # NULL /\ sp_find(m, key) = i
    OBVIOUS
  <2>1. i \in 1 .. n /\ i \in Used(m.slot) /\ key = m.slot[i].key
    BY <1>1, <1>2
  <2>2. key \in Keys /\ key # NULL
    <3>1. m.slot[i].key \in Names /\ m.slot[i].key # NULL
      BY <1>2, <2>1, SlotTypes DEF Used
    <3> QED BY <3>1, <2>1 DEF Names
  <2>3. Has(m, key)  BY <1>2, <2>1 DEF Has
  <2>4. PICK k : k = sp_find(m, key)  OBVIOUS
  <2>5. k \in 0 .. n /\ k # 0 /\ m.slot[k].key = key
    BY <1>1, <2>2, <2>3, <2>4, LookOK
  <2>6. k \in Used(m.slot)  BY <1>2, <2>2, <2>5, SMTT(20) DEF Used
  <2> QED BY <1>2, <2>1, <2>2, <2>4, <2>5, <2>6 DEF SlotsOK
<1>4. PICK later : later = {j \in (i + 1) .. n : m.slot[j].pointer # NULL}
  OBVIOUS
<1>5. sp_next(m, key) = IF later = {} THEN NULL ELSE m.slot[Min(later)].key
  <2>1. CASE i = 0
    <3>1. key = NULL  BY <1>1, <2>1
    <3>2. later = {j \in (0 + 1) .. sp_cap(m) : m.slot[j].pointer # NULL}
      BY <1>1, <1>4, <2>1
    <3> QED BY <3>1, <3>2 DEF sp_next
  <2>2. CASE i # 0
    <3>1. later = {j \in (sp_find(m, key) + 1) .. sp_cap(m) : m.slot[j].pointer # NULL}
      BY <1>1, <1>3, <1>4, <2>2
    <3> QED BY <3>1, <2>2, <1>3 DEF sp_next
  <2> QED BY <2>1, <2>2
<1>6. later = {j \in Used(m.slot) : j > i}
  <2>1. \A j \in 1 .. n : m.slot[j].pointer # NULL <=> j \in Used(m.slot)
    BY <1>1, <1>2 DEF Pointed, Used, SlotsOK
  <2>2. \A j \in Used(m.slot) : j \in 1 .. n  BY <1>2 DEF Used
  <2>3. i \in 0 .. n  BY <1>1
  <2>4. n \in Nat  BY <1>2
  <2> QED BY <1>4, <2>1, <2>2, <2>3, <2>4
<1>7. Used(m.slot) \subseteq 1 .. n /\ i \in 0 .. n /\ n \in 0 .. n
  BY <1>1, <1>2 DEF Used
<1>8. CASE later = {}
  <2>1. UsedTo(m, i) = UsedTo(m, n)  BY <1>2, <1>6, <1>7, <1>8 DEF UsedTo
  <2>2. Count(m, i) = m.size  BY <2>1, <1>2 DEF Count
  <2>3. ~(Count(m, i) < m.size)  BY <2>2, <1>2, <1>7
  <2> QED BY <1>1, <1>5, <1>8, <2>3
<1>9. CASE later # {}
  <2>1. PICK j : j = Min(later)  OBVIOUS
  <2>2. later \in SUBSET Nat  BY <1>2, <1>6, <1>7
  <2>3. j \in later /\ \A k \in later : j <= k
    BY <1>9, <2>1, <2>2, MinIs
  <2>4. j \in Used(m.slot) /\ j > i /\ j \in 1 .. n  BY <1>6, <1>7, <2>3
  <2>5. UsedTo(m, j - 1) = UsedTo(m, i)
    <3>1. \A k \in Used(m.slot) : k <= j - 1 <=> k <= i
      <4> TAKE k \in Used(m.slot)
      <4>1. k \in 1 .. n  BY <1>7
      <4>2. k > i => j <= k  BY <1>6, <2>3
      <4>3. n \in Nat  BY <1>2
      <4> QED BY <4>1, <4>2, <4>3, <2>4, <1>7
    <3> QED BY <3>1 DEF UsedTo
  <2>6. Count(m, j) = Count(m, i) + 1
    <3>1. Count(m, j - 1) = Count(m, i)  BY <2>5 DEF Count
    <3> QED BY <3>1, <2>4, <1>2
  <2>7. Nth(m, Count(m, i) + 1, j) /\ sp_next(m, key) = m.slot[j].key
    BY <1>5, <1>9, <2>1, <2>4, <2>6 DEF Nth
  <2>8. Count(m, i) < m.size
    <3>1. Count(m, j) \in 1 .. m.size  BY <2>4, NthIs
    <3> QED BY <3>1, <2>6, <1>2, <1>7, SMTT(20)
  <2> QED BY <1>1, <2>4, <2>7, <2>8
<1> QED BY <1>8, <1>9

(* sp_foreach: the pointers it has met after i slots. *)
Meets(f, m, N) ==
  f = [i \in 0 .. N |->
         IF i = 0 THEN <<>>
         ELSE IF m.slot[i].pointer = NULL THEN f[i-1]
         ELSE Append(f[i-1], m.slot[i].pointer)]

(* The recursive function in sp_foreach exists. *)
LEMMA MeetsExists ==
  ASSUME NEW m, NEW N \in Nat
  PROVE  \E f : Meets(f, m, N)
<1> DEFINE T == {n \in Nat : ~ \E f : Meets(f, m, n)}
<1> SUFFICES ASSUME T # {} PROVE FALSE
  OBVIOUS
<1>1. PICK n \in T : \A k \in T : n <= k
  BY Least
<1>2. CASE n = 0
  <2>1. PICK f : f = [i \in 0 .. 0 |-> <<>>]
    OBVIOUS
  <2>2. Meets(f, m, 0)
    BY <2>1 DEF Meets
  <2> QED BY <1>1, <1>2, <2>2
<1>3. CASE n # 0
  <2>1. n - 1 \in Nat /\ n - 1 \notin T
    BY <1>1, <1>3
  <2>2. PICK g : Meets(g, m, n - 1)
    BY <2>1
  <2>3. PICK new : new = IF m.slot[n].pointer = NULL THEN g[n-1]
                         ELSE Append(g[n-1], m.slot[n].pointer)
    OBVIOUS
  <2>4. PICK f : f = [i \in 0 .. n |-> IF i = n THEN new ELSE g[i]]
    OBVIOUS
  <2> DEFINE h == [i \in 0 .. n |->
                     IF i = 0 THEN <<>>
                     ELSE IF m.slot[i].pointer = NULL THEN f[i-1]
                     ELSE Append(f[i-1], m.slot[i].pointer)]
  <2>5. ASSUME NEW i \in 0 .. n PROVE f[i] = h[i]
    <3>1. n \in Nat  BY <1>1
    <3>2. i # 0 => f[i-1] = g[i-1]
      <4>1. i # 0 => i - 1 \in 0 .. n /\ i - 1 # n  BY <3>1
      <4> QED BY <4>1, <2>4
    <3>3. h[i] = IF i = 0 THEN <<>>
                 ELSE IF m.slot[i].pointer = NULL THEN g[i-1]
                 ELSE Append(g[i-1], m.slot[i].pointer)
      BY <3>2
    <3>4. CASE i = n  BY <3>3, <3>4, <2>3, <2>4, <1>3
    <3>5. CASE i # n
      <4>1. i \in 0 .. n - 1  BY <3>1, <3>5
      <4>2. f[i] = g[i]  BY <3>5, <2>4
      <4> HIDE DEF h
      <4> QED BY <4>1, <4>2, <3>3, <2>2 DEF Meets
    <3> QED BY <3>4, <3>5
  <2>6. f = h
    <3>1. h = [i \in 0 .. n |-> h[i]] /\ f = [i \in 0 .. n |-> f[i]]  BY <2>4
    <3> HIDE DEF h
    <3> QED BY <3>1, <2>5
  <2>7. Meets(f, m, n)  BY <2>6 DEF Meets
  <2> QED BY <1>1, <2>7
<1> QED BY <1>2, <1>3

(* s has the pointers of the used slots up to i, in their order. *)
Met0(s, m, i) ==
  /\ s \in Seq(Pointers) /\ Len(s) = Count(m, i)
  /\ \A j \in Used(m.slot) : j <= i => s[Count(m, j)] = m.slot[j].pointer

(* sp_foreach meets the pointers of all used slots in their order. *)
LEMMA ForeachOK ==
  ASSUME NEW m, TableOK(m), Pointed(m)
  PROVE  Met0(sp_foreach(m), m, sp_cap(m))
<1>0. PICK n : n = sp_cap(m)
  OBVIOUS
<1> DEFINE f == CHOOSE f : Meets(f, m, n)
<1>1. /\ n \in Nat \ {0} /\ n = Len(m.slot) /\ SlotsOK(m.slot)
  BY <1>0, CountOK DEF sp_cap, TableOK
<1>2. Meets(f, m, n)
  BY <1>1, MeetsExists
<1>3. sp_foreach(m) = f[n]
  BY <1>0 DEF sp_foreach, Meets
<1> HIDE DEF f
<1>4. /\ \A j \in 0 .. n : Count(m, j) \in Nat
      /\ Count(m, 0) = 0
      /\ \A j \in 1 .. n :
           Count(m, j) = IF j \in Used(m.slot) THEN Count(m, j - 1) + 1
                         ELSE Count(m, j - 1)
      /\ \A i, j \in 0 .. n : i <= j => Count(m, i) <= Count(m, j)
  BY <1>0, CountOK
<1>5. \A j \in Used(m.slot) : j \in 1 .. n  BY <1>1 DEF Used
<1> DEFINE T == {k \in Nat : k <= n /\ ~Met0(f[k], m, k)}
<1>6. T = {}
  <2> SUFFICES ASSUME T # {} PROVE FALSE
    OBVIOUS
  <2>1. PICK k \in T : \A l \in T : k <= l
    BY Least
  <2>2. CASE k = 0
    <3>1. f[0] = <<>>
      <4>1. 0 \in 0 .. n  BY <1>1
      <4> QED BY <4>1, <1>2 DEF Meets
    <3>2. \A j \in Used(m.slot) : ~(j <= 0)  BY <1>1, <1>5
    <3>3. Met0(<<>>, m, 0)  BY <1>4, <3>2 DEF Met0
    <3> QED BY <3>1, <3>3, <2>1, <2>2
  <2>3. CASE k # 0
    <3>1. k \in 1 .. n /\ k \in 0 .. n /\ k - 1 \in 0 .. n /\ k - 1 <= n /\ k - 1 \notin T
      BY <1>1, <2>1, <2>3
    <3>2. PICK s, t : s = f[k-1] /\ t = f[k]
      OBVIOUS
    <3>3. Met0(s, m, k - 1)  BY <3>1, <3>2
    <3>4. t = IF m.slot[k].pointer = NULL THEN s ELSE Append(s, m.slot[k].pointer)
      <4>1. f[k] = IF m.slot[k].pointer = NULL THEN f[k-1]
                   ELSE Append(f[k-1], m.slot[k].pointer)
        BY <1>2, <2>3, <3>1 DEF Meets
      <4> QED BY <4>1, <3>2
    <3>5. s \in Seq(Pointers) /\ Len(s) = Count(m, k - 1)
          /\ \A j \in Used(m.slot) : j <= k - 1 => s[Count(m, j)] = m.slot[j].pointer
      BY <3>3 DEF Met0
    <3>6. CASE k \in Used(m.slot)
      <4>1. m.slot[k].pointer # NULL /\ m.slot[k].pointer \in Pointers
        BY <1>0, <1>1, <3>1, <3>6, SlotTypes DEF Pointed, Used
      <4>2. t = Append(s, m.slot[k].pointer)  BY <3>4, <4>1
      <4>3. PICK p \in Pointers : p = m.slot[k].pointer  BY <4>1
      <4>4. /\ t \in Seq(Pointers) /\ Len(t) = Len(s) + 1 /\ t[Len(s) + 1] = p
            /\ \A x \in 1 .. Len(s) : t[x] = s[x]
        BY <4>2, <4>3, <3>5
      <4>5. Count(m, k) = Count(m, k - 1) + 1 /\ Count(m, k - 1) \in Nat
        BY <3>1, <3>6, <1>4
      <4>6. ASSUME NEW j \in Used(m.slot), j <= k
            PROVE  t[Count(m, j)] = m.slot[j].pointer
        <5>1. CASE j = k  BY <5>1, <4>3, <4>4, <4>5, <3>5
        <5>2. CASE j # k
          <6>1. j \in 1 .. n /\ j <= k - 1 /\ j - 1 \in 0 .. n /\ j \in 0 .. n
            BY <5>2, <4>6, <1>1, <1>5, <3>1
          <6>2. s[Count(m, j)] = m.slot[j].pointer  BY <6>1, <3>5
          <6>3. Count(m, j) \in 1 .. Len(s)
            <7>1. Count(m, j) <= Count(m, k - 1)  BY <6>1, <3>1, <1>4
            <7>2. Count(m, j) = Count(m, j - 1) + 1 /\ Count(m, j - 1) \in Nat
              BY <6>1, <1>4
            <7> QED BY <7>1, <7>2, <3>5, <4>5
          <6> QED BY <6>2, <6>3, <4>4
        <5> QED BY <5>1, <5>2
      <4>7. Met0(t, m, k)  BY <4>4, <4>5, <4>6, <3>5 DEF Met0
      <4> QED BY <4>7, <3>2, <2>1
    <3>7. CASE k \notin Used(m.slot)
      <4>1. m.slot[k].key = NULL  BY <1>1, <3>1, <3>7 DEF Used
      <4>2. m.slot[k].pointer = NULL  BY <4>1, <1>1, <3>1 DEF SlotsOK
      <4>3. t = s /\ Count(m, k) = Count(m, k - 1)
        BY <4>2, <3>1, <3>4, <3>7, <1>4
      <4>4. \A j \in Used(m.slot) : j <= k => j <= k - 1
        BY <3>1, <3>7, <1>1, <1>5
      <4>5. Met0(t, m, k)  BY <4>3, <4>4, <3>5 DEF Met0
      <4> QED BY <4>5, <3>2, <2>1
    <3> QED BY <3>6, <3>7
  <2> QED BY <2>2, <2>3
<1>7. n \in Nat /\ n \notin T  BY <1>1, <1>6
<1> QED BY <1>0, <1>1, <1>3, <1>7

-----------------------------------------------------------------------------
(* IterationComplete for any table. *)
Walks(f, m, N) ==
  f = [n \in 1 .. N |->
         IF n = 1 THEN sp_next(m, NULL)
         ELSE IF f[n-1] = NULL THEN NULL ELSE sp_next(m, f[n-1])]

Iterates(m, walk) ==
  LET names == {k \in Keys : sp_find(m, k) # 0}
  IN /\ Cardinality(names) = m.size
     /\ \A n \in DOMAIN walk : walk[n] = NULL <=> n > m.size
     /\ {walk[n] : n \in 1..m.size} = names
     /\ sp_foreach(m) = [n \in 1..m.size |-> sp_query(m, walk[n])]

(* The walk exists: it goes through the used slots. *)
NameAt(m, n) == m.slot[CHOOSE j \in 1 .. sp_cap(m) : Nth(m, n, j)].key

(* The name in the n-th used slot, which sp_find finds again. *)
LEMMA NameAtIs ==
  ASSUME SizesOK, NEW m, TableOK(m), NEW j \in Used(m.slot)
  PROVE  /\ NameAt(m, Count(m, j)) = m.slot[j].key /\ m.slot[j].key \in Keys
         /\ sp_find(m, m.slot[j].key) = j
<1>1. j \in 1 .. sp_cap(m) /\ Nth(m, Count(m, j), j)
  BY NthIs DEF Nth
<1>2. \A i \in 1 .. sp_cap(m) : Nth(m, Count(m, j), i) => i = j
  BY <1>1, NthIs
<1>3. NameAt(m, Count(m, j)) = m.slot[j].key
  BY <1>1, <1>2 DEF NameAt
<1>4. SlotsOK(m.slot) /\ Len(m.slot) = sp_cap(m)
  BY DEF TableOK, sp_cap
<1>5. m.slot[j].key \in Keys
  <2>1. m.slot[j].key \in Names /\ m.slot[j].key # NULL
    BY <1>1, <1>4, SlotTypes DEF Used
  <2> QED BY <2>1 DEF Names
<1>6. PICK key, i : key = m.slot[j].key /\ i = sp_find(m, key)
  OBVIOUS
<1>7. Has(m, key)  BY <1>1, <1>4, <1>6 DEF Has
<1>8. i \in 0 .. sp_cap(m) /\ i # 0 /\ m.slot[i].key = key /\ key # NULL
  BY <1>5, <1>6, <1>7, LookOK DEF SizesOK
<1>9. i \in Used(m.slot)
  <2>1. sp_cap(m) \in Nat  BY CountOK
  <2> QED BY <2>1, <1>4, <1>8 DEF Used
<1>10. i = j  BY <1>4, <1>6, <1>8, <1>9 DEF SlotsOK
<1> QED BY <1>3, <1>5, <1>6, <1>10

(* sp_next goes from the n-th name to the next, and ends after the last. *)
LEMMA WalkNext ==
  ASSUME SizesOK, NEW m, TableOK(m), Pointed(m), NEW n \in 1 .. m.size
  PROVE  /\ \E j \in Used(m.slot) : Count(m, j) = n /\ NameAt(m, n) = m.slot[j].key
         /\ NameAt(m, n) \in Keys
         /\ sp_next(m, NameAt(m, n)) = IF n < m.size THEN NameAt(m, n + 1) ELSE NULL
<1>1. PICK j \in 1 .. sp_cap(m) : Nth(m, n, j)
  BY NthIs
<1>2. j \in Used(m.slot) /\ Count(m, j) = n
  BY <1>1 DEF Nth
<1>3. NameAt(m, n) = m.slot[j].key /\ NameAt(m, n) \in Keys
  BY <1>2, NameAtIs
<1>4. j \in 0 .. sp_cap(m) /\ j # 0 /\ sp_cap(m) \in Nat
  BY <1>1, CountOK
<1>5. IF n < m.size
      THEN \E i \in 1 .. sp_cap(m) :
             Nth(m, n + 1, i) /\ sp_next(m, NameAt(m, n)) = m.slot[i].key
      ELSE sp_next(m, NameAt(m, n)) = NULL
  BY <1>2, <1>3, <1>4, NextOK
<1>6. CASE n < m.size
  <2>1. PICK i \in 1 .. sp_cap(m) :
          Nth(m, n + 1, i) /\ sp_next(m, NameAt(m, n)) = m.slot[i].key
    BY <1>5, <1>6
  <2>2. i \in Used(m.slot) /\ Count(m, i) = n + 1  BY <2>1 DEF Nth
  <2>3. NameAt(m, n + 1) = m.slot[i].key  BY <2>2, NameAtIs
  <2> QED BY <1>2, <1>3, <1>6, <2>1, <2>3
<1>7. CASE ~(n < m.size)
  BY <1>2, <1>3, <1>5, <1>7
<1> QED BY <1>6, <1>7

(* sp_next begins at the first name. *)
LEMMA WalkFirst ==
  ASSUME SizesOK, NEW m, TableOK(m), Pointed(m)
  PROVE  sp_next(m, NULL) = IF 0 < m.size THEN NameAt(m, 1) ELSE NULL
<1>1. 0 \in 0 .. sp_cap(m) /\ Count(m, 0) = 0
  BY CountOK
<1>2. IF 0 < m.size
      THEN \E j \in 1 .. sp_cap(m) :
             Nth(m, 0 + 1, j) /\ sp_next(m, NULL) = m.slot[j].key
      ELSE sp_next(m, NULL) = NULL
  BY <1>1, NextOK
<1>3. CASE 0 < m.size
  <2>1. PICK j \in 1 .. sp_cap(m) : Nth(m, 1, j) /\ sp_next(m, NULL) = m.slot[j].key
    BY <1>2, <1>3
  <2>2. j \in Used(m.slot) /\ Count(m, j) = 1  BY <2>1 DEF Nth
  <2>3. NameAt(m, 1) = m.slot[j].key  BY <2>2, NameAtIs
  <2> QED BY <1>3, <2>1, <2>3
<1>4. CASE ~(0 < m.size)
  BY <1>2, <1>4
<1> QED BY <1>3, <1>4

WalkIs(f, m, N) == \A n \in 1 .. N : f[n] = IF n <= m.size THEN NameAt(m, n) ELSE NULL

(* The recursive function in IterationComplete exists. *)
LEMMA WalksExists ==
  ASSUME SizesOK, NEW m, TableOK(m), Pointed(m), NEW N \in Nat
  PROVE  \E f : Walks(f, m, N)
<1>0. m.size \in Nat
  BY CountOK
<1>1. PICK f : f = [n \in 1 .. N |-> IF n <= m.size THEN NameAt(m, n) ELSE NULL]
  OBVIOUS
<1> DEFINE h == [n \in 1 .. N |->
                   IF n = 1 THEN sp_next(m, NULL)
                   ELSE IF f[n-1] = NULL THEN NULL ELSE sp_next(m, f[n-1])]
<1>2. ASSUME NEW n \in 1 .. N PROVE f[n] = h[n]
  <2>1. CASE n = 1
    <3>1. 0 < m.size <=> 1 <= m.size  BY <1>0
    <3>2. f[1] = IF 0 < m.size THEN NameAt(m, 1) ELSE NULL  BY <1>1, <2>1, <3>1
    <3>3. h[n] = sp_next(m, NULL)  BY <2>1
    <3> QED BY <2>1, <3>2, <3>3, WalkFirst
  <2>2. CASE n # 1
    <3>1. n - 1 \in 1 .. N /\ n - 1 \in Nat  BY <2>2
    <3>2. CASE n - 1 <= m.size
      <4>1. n - 1 \in 1 .. m.size  BY <3>1, <3>2, <1>0
      <4>2. f[n-1] = NameAt(m, n - 1)  BY <1>1, <3>1, <3>2
      <4>3. NameAt(m, n - 1) \in Keys /\ NULL \notin Keys
        BY <4>1, WalkNext DEF SizesOK
      <4>4. h[n] = sp_next(m, NameAt(m, n - 1))
        BY <2>2, <4>2, <4>3
      <4>5. sp_next(m, NameAt(m, n - 1))
              = IF n - 1 < m.size THEN NameAt(m, (n - 1) + 1) ELSE NULL
        BY <4>1, WalkNext
      <4>6. (n - 1) + 1 = n /\ (n - 1 < m.size <=> n <= m.size)  BY <1>0
      <4>7. f[n] = IF n <= m.size THEN NameAt(m, n) ELSE NULL  BY <1>1
      <4> QED BY <4>4, <4>5, <4>6, <4>7
    <3>3. CASE ~(n - 1 <= m.size)
      <4>1. f[n-1] = NULL  BY <1>1, <3>1, <3>3
      <4>2. ~(n <= m.size)  BY <3>3, <1>0
      <4>3. f[n] = NULL  BY <1>1, <4>2
      <4>4. h[n] = NULL  BY <2>2, <4>1
      <4> QED BY <4>3, <4>4
    <3> QED BY <3>2, <3>3
  <2> QED BY <2>1, <2>2
<1>3. f = h
  <2>1. h = [n \in 1 .. N |-> h[n]] /\ f = [n \in 1 .. N |-> f[n]]  BY <1>1
  <2> HIDE DEF h
  <2> QED BY <2>1, <1>2
<1> QED BY <1>3 DEF Walks

(* And the walk is through the names in the order of their slots. *)
LEMMA WalkOK ==
  ASSUME SizesOK, NEW m, TableOK(m), Pointed(m), NEW N \in Nat,
         NEW f, Walks(f, m, N)
  PROVE  WalkIs(f, m, N)
<1>0. m.size \in Nat
  BY CountOK
<1> DEFINE Right(n) == f[n] = IF n <= m.size THEN NameAt(m, n) ELSE NULL
           T == {n \in Nat : n \in 1 .. N /\ ~Right(n)}
<1>1. T = {}
  <2> SUFFICES ASSUME T # {} PROVE FALSE
    OBVIOUS
  <2>1. PICK n \in T : \A l \in T : n <= l
    BY Least
  <2>2. n \in 1 .. N /\ n \in Nat  OBVIOUS
  <2>3. f[n] = IF n = 1 THEN sp_next(m, NULL)
               ELSE IF f[n-1] = NULL THEN NULL ELSE sp_next(m, f[n-1])
    BY <2>2 DEF Walks
  <2>4. CASE n = 1
    <3>1. 0 < m.size <=> 1 <= m.size  BY <1>0
    <3> QED BY <2>1, <2>3, <2>4, <3>1, WalkFirst
  <2>5. CASE n # 1
    <3>1. n - 1 \in 1 .. N /\ n - 1 \in Nat /\ n - 1 \notin T
      BY <2>1, <2>2, <2>5
    <3>2. Right(n - 1)  BY <3>1
    <3>3. CASE n - 1 <= m.size
      <4>1. n - 1 \in 1 .. m.size  BY <3>1, <3>3, <1>0
      <4>2. f[n-1] = NameAt(m, n - 1)  BY <3>2, <3>3
      <4>3. NameAt(m, n - 1) \in Keys /\ NULL \notin Keys
        BY <4>1, WalkNext DEF SizesOK
      <4>4. f[n] = sp_next(m, NameAt(m, n - 1))
        BY <2>3, <2>5, <4>2, <4>3
      <4>5. sp_next(m, NameAt(m, n - 1))
              = IF n - 1 < m.size THEN NameAt(m, (n - 1) + 1) ELSE NULL
        BY <4>1, WalkNext
      <4>6. (n - 1) + 1 = n /\ (n - 1 < m.size <=> n <= m.size)  BY <1>0, <2>2
      <4>7. Right(n)  BY <4>4, <4>5, <4>6
      <4> QED BY <4>7, <2>1
    <3>4. CASE ~(n - 1 <= m.size)
      <4>1. f[n-1] = NULL  BY <3>2, <3>4
      <4>2. ~(n <= m.size)  BY <3>4, <1>0, <2>2
      <4>3. f[n] = NULL  BY <2>3, <2>5, <4>1
      <4>4. Right(n)  BY <4>2, <4>3
      <4> QED BY <4>4, <2>1
    <3> QED BY <3>3, <3>4
  <2> QED BY <2>4, <2>5
<1>2. \A n \in 1 .. N : n \in Nat  OBVIOUS
<1> QED BY <1>1, <1>2 DEF WalkIs

(* What sp_next and sp_foreach visit, in a table of at most N - 1 entries.  *)
LEMMA IteratesOK ==
  ASSUME SizesOK, NEW m, TableOK(m), Pointed(m), NEW N \in Nat, m.size < N,
         NEW f, Walks(f, m, N)
  PROVE  Iterates(m, f)
<1>0. m.size \in Nat
  BY CountOK
<1>1. WalkIs(f, m, N)
  BY WalkOK
<1>2. \A n \in 1 .. m.size : n \in 1 .. N /\ f[n] = NameAt(m, n)
  BY <1>0, <1>1 DEF WalkIs
<1>3. PICK names : names = {k \in Keys : sp_find(m, k) # 0}
  OBVIOUS
<1>4. \A n \in 1 .. m.size : \E j \in Used(m.slot) :
         Count(m, j) = n /\ f[n] = m.slot[j].key
  BY <1>2, WalkNext
<1>5. \A j \in Used(m.slot) : /\ m.slot[j].key \in names
                              /\ Count(m, j) \in 1 .. m.size
                              /\ f[Count(m, j)] = m.slot[j].key
  <2> TAKE j \in Used(m.slot)
  <2>1. NameAt(m, Count(m, j)) = m.slot[j].key /\ m.slot[j].key \in Keys
        /\ sp_find(m, m.slot[j].key) = j /\ Count(m, j) \in 1 .. m.size
        /\ j \in 1 .. sp_cap(m) /\ sp_cap(m) \in Nat
    BY NameAtIs, NthIs, CountOK
  <2>2. j # 0  BY <2>1
  <2> QED BY <2>1, <2>2, <1>2, <1>3
<1>6. \A k \in names : \E j \in Used(m.slot) : m.slot[j].key = k
  <2> TAKE k \in names
  <2>1. PICK j : j = sp_find(m, k)  OBVIOUS
  <2>2. k \in Keys /\ j # 0  BY <1>3, <2>1
  <2>3. j \in 0 .. sp_cap(m) /\ m.slot[j].key = k /\ k # NULL /\ sp_cap(m) \in Nat
        /\ sp_cap(m) = Len(m.slot)
    BY <2>1, <2>2, LookOK, CountOK DEF SizesOK, sp_cap
  <2>4. j \in Used(m.slot)  BY <2>2, <2>3 DEF Used
  <2> QED BY <2>3, <2>4
<1>7. {f[n] : n \in 1 .. m.size} = names
  <2>1. \A n \in 1 .. m.size : f[n] \in names  BY <1>4, <1>5
  <2>2. \A k \in names : \E n \in 1 .. m.size : f[n] = k  BY <1>5, <1>6
  <2> QED BY <2>1, <2>2
<1>8. Cardinality(names) = m.size
  <2>1. PICK g : g = [j \in Used(m.slot) |-> m.slot[j].key]
    OBVIOUS
  <2>2. IsFiniteSet(Used(m.slot)) /\ Cardinality(Used(m.slot)) = m.size
    <3>1. sp_cap(m) \in Nat  BY CountOK
    <3>2. Used(m.slot) \subseteq 1 .. sp_cap(m)  BY DEF Used, sp_cap
    <3> QED BY <3>1, <3>2, UpTo, FS_Subset DEF TableOK
  <2>3. g \in Bijection(Used(m.slot), names)
    <3>1. \A i, j \in Used(m.slot) : m.slot[i].key = m.slot[j].key => i = j
      BY DEF TableOK, SlotsOK
    <3>2. g \in [Used(m.slot) -> names]  BY <2>1, <1>5
    <3>3. \A i, j \in Used(m.slot) : g[i] = g[j] => i = j  BY <2>1, <3>1
    <3>4. \A k \in names : \E j \in Used(m.slot) : g[j] = k  BY <2>1, <1>6
    <3> QED BY <3>2, <3>3, <3>4, Fun_IsBij
  <2> QED BY <2>2, <2>3, FS_Bijection DEF ExistsBijection
<1>9. \A n \in DOMAIN f : f[n] = NULL <=> n > m.size
  <2>1. DOMAIN f = 1 .. N  BY DEF Walks
  <2> SUFFICES ASSUME NEW n \in 1 .. N PROVE f[n] = NULL <=> n > m.size
    BY <2>1
  <2>2. CASE n <= m.size
    <3>1. n \in 1 .. m.size  BY <1>0, <2>2
    <3>2. f[n] \in Keys /\ NULL \notin Keys  BY <3>1, <1>2, WalkNext DEF SizesOK
    <3> QED BY <2>2, <3>2, <1>0
  <2>3. CASE ~(n <= m.size)
    <3>1. f[n] = NULL  BY <1>1, <2>3 DEF WalkIs
    <3> QED BY <2>3, <3>1, <1>0
  <2> QED BY <2>2, <2>3
<1>10. sp_foreach(m) = [n \in 1 .. m.size |-> sp_query(m, f[n])]
  <2>1. PICK s : s = sp_foreach(m)  OBVIOUS
  <2>2. Met0(s, m, sp_cap(m)) /\ Count(m, sp_cap(m)) = m.size
    BY <2>1, ForeachOK, CountOK
  <2>3. s \in Seq(Pointers) /\ Len(s) = m.size
        /\ \A j \in Used(m.slot) : j <= sp_cap(m) => s[Count(m, j)] = m.slot[j].pointer
    BY <2>2 DEF Met0
  <2>4. ASSUME NEW n \in 1 .. m.size PROVE s[n] = sp_query(m, f[n])
    <3>1. PICK j \in Used(m.slot) : Count(m, j) = n /\ f[n] = m.slot[j].key
      BY <1>4
    <3>2. j \in 1 .. sp_cap(m) /\ sp_cap(m) \in Nat /\ sp_find(m, f[n]) = j
      BY <3>1, NameAtIs, NthIs, CountOK
    <3>3. j # 0 /\ j <= sp_cap(m)  BY <3>2
    <3>4. sp_query(m, f[n]) = m.slot[j].pointer  BY <3>2, <3>3 DEF sp_query
    <3> QED BY <2>3, <3>1, <3>3, <3>4
  <2>5. s = [n \in 1 .. m.size |-> s[n]]  BY <2>3
  <2> QED BY <2>1, <2>4, <2>5
<1> QED BY <1>3, <1>7, <1>8, <1>9, <1>10 DEF Iterates

-----------------------------------------------------------------------------
(* Memory. *)
AnyBlock == {"inner", "page", "slots", "value", "array", "string"} \X Nat
Regions == [block : AnyBlock, off : Nat, len : Nat]

(* A heap has the pages 1 to n, the last one first, and at least the size   *)
(* of an ordinary page in that one.                                         *)
PagesTo(n) == [i \in 1 .. n |-> Page(n + 1 - i)]

HeapIs(m, n) ==
  /\ m.heap.pages = PagesTo(n)
  /\ DOMAIN m.blocks = {Page(i) : i \in 1 .. n}
  /\ m.heap.size \in Nat /\ m.heap.size <= m.blocks[Page(n)]
  /\ m.heap.used \in Nat /\ m.heap.used <= m.blocks[Page(n)]

MemOK(m) ==
  /\ m = [blocks |-> m.blocks, heap |-> m.heap]
  /\ m.heap = [pages |-> m.heap.pages, size |-> m.heap.size, used |-> m.heap.used]
  /\ m.blocks = [b \in DOMAIN m.blocks |-> m.blocks[b]]
  /\ \A b \in DOMAIN m.blocks : m.blocks[b] \in Nat
  /\ HasHeap(m) => \E n \in Nat \ {0} : HeapIs(m, n)

(* How far a block may be used so far. *)
Mark(m, b) ==
  IF HasHeap(m) /\ b = Head(m.heap.pages) THEN m.heap.used ELSE m.blocks[b]

Fits(m, r) ==
  /\ r \in Regions /\ r.len # 0 /\ r.block \in DOMAIN m.blocks
  /\ r.off + r.len <= Mark(m, r.block)

(* A family R of regions, one for each member of I, all apart. *)
Family(m, I, R) ==
  /\ \A u \in I : Fits(m, R[u])
  /\ \A u, v \in I : u # v => Apart(R[u], R[v])

(* Rounding a size up to Align does not make it smaller. *)
LEMMA RoundUpIs ==
  ASSUME SizesOK, NEW size \in Nat
  PROVE  RoundUp(size) \in Nat /\ size <= RoundUp(size)
<1>1. Align \in Nat \ {0}  BY DEF SizesOK
<1>2. PICK a \in Nat \ {0} : a = Align  BY <1>1
<1>3. ((size + a - 1) \div a) * a \in Nat /\ size <= ((size + a - 1) \div a) * a
  OBVIOUS
<1> QED BY <1>2, <1>3 DEF RoundUp

(* The list of pages of a heap, and the page in front of it. *)
LEMMA PagesAre ==
  ASSUME NEW n \in Nat \ {0}
  PROVE  /\ PagesTo(n) # <<>> /\ Len(PagesTo(n)) = n /\ Head(PagesTo(n)) = Page(n)
         /\ <<Page(n + 1)>> \o PagesTo(n) = PagesTo(n + 1)
         /\ ToSet(PagesTo(n)) = {Page(i) : i \in 1 .. n}
         /\ \A i \in Nat : Page(i) \in AnyBlock
         /\ Page(n + 1) \notin {Page(i) : i \in 1 .. n}
<1>1. \A i \in Nat : Page(i) \in AnyBlock  BY DEF Page, AnyBlock
<1>2. PICK s : s = PagesTo(n)  OBVIOUS
<1>3. s \in [1 .. n -> AnyBlock] /\ \A i \in 1 .. n : s[i] = Page(n + 1 - i)
  BY <1>1, <1>2 DEF PagesTo
<1>4. s \in Seq(AnyBlock) /\ Len(s) = n /\ s # <<>> /\ DOMAIN s = 1 .. n
  BY <1>3, FunIsSeq
<1>5. Head(s) = Page(n)  BY <1>3, <1>4
<1>6. PICK t, new : t = PagesTo(n + 1) /\ new = Page(n + 1)  OBVIOUS
<1>7. t \in [1 .. n + 1 -> AnyBlock] /\ \A i \in 1 .. n + 1 : t[i] = Page(n + 2 - i)
  BY <1>1, <1>6 DEF PagesTo
<1>8. t \in Seq(AnyBlock) /\ Len(t) = n + 1
  BY <1>7, FunIsSeq
<1>9. <<new>> \o s = t
  <2>1. new \in AnyBlock  BY <1>1, <1>6
  <2>2. PICK c : c = <<new>> \o s  OBVIOUS
  <2>3. c \in Seq(AnyBlock) /\ Len(c) = n + 1 /\ c[1] = new
        /\ \A i \in 2 .. n + 1 : c[i] = s[i - 1]
    BY <1>4, <2>1, <2>2
  <2>4. \A i \in 1 .. n + 1 : c[i] = t[i]
    <3> TAKE i \in 1 .. n + 1
    <3>1. CASE i = 1  BY <3>1, <2>3, <1>6, <1>7
    <3>2. CASE i # 1
      <4>1. i \in 2 .. n + 1 /\ i - 1 \in 1 .. n /\ n + 1 - (i - 1) = n + 2 - i  BY <3>2
      <4> QED BY <4>1, <2>3, <1>3, <1>7
    <3> QED BY <3>1, <3>2
  <2> QED BY <2>2, <2>3, <2>4, <1>8, SeqEqual
<1>10. ToSet(s) = {Page(i) : i \in 1 .. n}
  <2>1. ToSet(s) = {s[i] : i \in 1 .. n}  BY <1>4 DEF ToSet
  <2>2. \A i \in 1 .. n : n + 1 - i \in 1 .. n /\ s[n + 1 - i] = Page(i)
    <3> TAKE i \in 1 .. n
    <3>1. n + 1 - i \in 1 .. n /\ n + 1 - (n + 1 - i) = i  OBVIOUS
    <3> QED BY <3>1, <1>3
  <2> QED BY <2>1, <2>2, <1>3
<1>11. Page(n + 1) \notin {Page(i) : i \in 1 .. n}  BY DEF Page
<1> QED BY <1>1, <1>2, <1>4, <1>5, <1>6, <1>9, <1>10, <1>11

(* What an allocation of size bytes in m gives. *)
Allocated(got, m, b, size) ==
  /\ MemOK(got.mem) /\ (HasHeap(got.mem) <=> HasHeap(m))
  /\ Fits(got.mem, got.at) /\ got.at.len = size
  /\ got = [mem |-> got.mem, at |-> got.at]
  /\ \A r : Fits(m, r) => Fits(got.mem, r) /\ Apart(r, got.at) /\ Apart(got.at, r)
  /\ ~HasHeap(m) => /\ got.at.block = b
                    /\ DOMAIN got.mem.blocks = DOMAIN m.blocks \cup {b}
                    /\ got.mem.blocks[b] = size
                    /\ \A x \in DOMAIN m.blocks : got.mem.blocks[x] = m.blocks[x]

(* malloc of a block that was not there. *)
LEMMA MallocOK ==
  ASSUME NEW m, MemOK(m), ~HasHeap(m), NEW b \in AnyBlock, b \notin DOMAIN m.blocks,
         NEW size \in Nat \ {0}, NEW got, got = _pbcM_malloc(m, b, size)
  PROVE  Allocated(got, m, b, size)
<1>1. PICK k : k = [x \in DOMAIN m.blocks \cup {b} |-> IF x = b THEN size ELSE m.blocks[x]]
  OBVIOUS
<1>2. got.mem = [blocks |-> k, heap |-> m.heap] /\ got.at = Region(b, 0, size)
      /\ got = [mem |-> got.mem, at |-> got.at]
  <2>1. m = [blocks |-> m.blocks, heap |-> m.heap]  BY DEF MemOK
  <2>2. WithBlock(m, b, size) = [blocks |-> k, heap |-> m.heap]
    BY <2>1, <1>1 DEF WithBlock
  <2> QED BY <2>2 DEF _pbcM_malloc
<1>3. DOMAIN k = DOMAIN m.blocks \cup {b} /\ k[b] = size
      /\ \A x \in DOMAIN m.blocks : k[x] = m.blocks[x]
  BY <1>1
<1>4. PICK x : x = got.mem
  OBVIOUS
<1>5. x.blocks = k /\ x.heap = m.heap /\ x = [blocks |-> x.blocks, heap |-> x.heap]
  BY <1>2, <1>4
<1>6. ~HasHeap(x)  BY <1>5 DEF HasHeap
<1>7. MemOK(x)
  <2>1. k = [y \in DOMAIN k |-> k[y]]  BY <1>1
  <2>2. \A y \in DOMAIN k : k[y] \in Nat  BY <1>3 DEF MemOK
  <2>3. m.heap = [pages |-> m.heap.pages, size |-> m.heap.size, used |-> m.heap.used]
    BY DEF MemOK
  <2> QED BY <1>5, <1>6, <2>1, <2>2, <2>3 DEF MemOK
<1>8. PICK a : a = got.at  OBVIOUS
<1>9. a = [block |-> b, off |-> 0, len |-> size]  BY <1>2, <1>8 DEF Region
<1>10. a \in Regions /\ a.len = size /\ a.block = b /\ a.off = 0
  BY <1>9 DEF Regions
<1>11. Fits(x, a)
  BY <1>3, <1>5, <1>6, <1>10 DEF Fits, Mark
<1>12. ASSUME NEW r, Fits(m, r)
       PROVE  Fits(x, r) /\ Apart(r, a) /\ Apart(a, r)
  <2>1. r.block \in DOMAIN m.blocks /\ r.block # b  BY <1>12 DEF Fits
  <2>2. Apart(r, a) /\ Apart(a, r)  BY <2>1, <1>10 DEF Apart
  <2>3. Fits(x, r)
    BY <1>12, <2>1, <1>3, <1>5, <1>6 DEF Fits, Mark
  <2> QED BY <2>2, <2>3
<1> QED BY <1>2, <1>3, <1>4, <1>5, <1>6, <1>7, <1>8, <1>10, <1>11, <1>12 DEF Allocated

(* _pbcH_alloc: the rest of the current page, or a page of its own. *)
LEMMA HeapAllocOK ==
  ASSUME SizesOK, NEW m, MemOK(m), HasHeap(m), NEW b,
         NEW size \in Nat \ {0}, NEW got, got = _pbcH_alloc(m, size)
  PROVE  Allocated(got, m, b, size)
<1>1. PICK n \in Nat \ {0} : HeapIs(m, n)  BY DEF MemOK
<1>2. PICK sz : sz = RoundUp(size)  OBVIOUS
<1>3. sz \in Nat /\ size <= sz  BY <1>2, RoundUpIs
<1>4. PICK h : h = m.heap  OBVIOUS
<1>5. /\ h.pages = PagesTo(n) /\ h.size \in Nat /\ h.used \in Nat
      /\ DOMAIN m.blocks = {Page(i) : i \in 1 .. n}
      /\ h.size <= m.blocks[Page(n)] /\ h.used <= m.blocks[Page(n)]
  BY <1>1, <1>4 DEF HeapIs
<1>6. /\ h = [pages |-> h.pages, size |-> h.size, used |-> h.used]
      /\ m = [blocks |-> m.blocks, heap |-> h]
      /\ \A x \in DOMAIN m.blocks : m.blocks[x] \in Nat
  BY <1>4 DEF MemOK
<1>7. Len(h.pages) = n /\ Head(h.pages) = Page(n) /\ Page(n) \in DOMAIN m.blocks
      /\ <<Page(n + 1)>> \o h.pages = PagesTo(n + 1) /\ PagesTo(n + 1) # <<>>
      /\ PagesTo(n) # <<>> /\ Head(PagesTo(n + 1)) = Page(n + 1)
      /\ Page(n + 1) \in AnyBlock /\ Page(n) \in AnyBlock
      /\ Page(n + 1) \notin DOMAIN m.blocks
  <2>1. n + 1 \in Nat \ {0} /\ n \in 1 .. n  OBVIOUS
  <2> QED BY <2>1, <1>5, PagesAre
<1>8. \A p, u : WithHeap(m, p, u) = [blocks |-> m.blocks,
                                    heap |-> [pages |-> p, size |-> h.size, used |-> u]]
  BY <1>4, <1>6 DEF WithHeap
<1>9. CASE h.size - h.used < sz
  <2>1. PICK c : c = IF sz < h.size THEN h.size ELSE sz  OBVIOUS
  <2>2. c \in Nat /\ sz <= c /\ h.size <= c  BY <2>1, <1>3, <1>5
  <2>3. PICK new : new = Page(n + 1)  OBVIOUS
  <2>4. PICK k : k = [x \in DOMAIN m.blocks \cup {new} |-> IF x = new THEN c ELSE m.blocks[x]]
    OBVIOUS
  <2>5. DOMAIN k = DOMAIN m.blocks \cup {new} /\ k[new] = c
        /\ \A x \in DOMAIN m.blocks : k[x] = m.blocks[x]
    BY <2>3, <2>4, <1>7
  <2>6. PICK w : w = WithBlock(m, new, c)  OBVIOUS
  <2>61. w = [blocks |-> k, heap |-> h]
    BY <1>6, <2>4, <2>6 DEF WithBlock
  <2>62. w.heap = h /\ w.blocks = k  BY <2>61
  <2>63. \A p, u : WithHeap(w, p, u)
                     = [blocks |-> k, heap |-> [pages |-> p, size |-> h.size, used |-> u]]
    BY <2>61, <2>62 DEF WithHeap
  <2>7. WithHeap(WithBlock(m, new, c), <<new>> \o h.pages, sz)
          = [blocks |-> k, heap |-> [pages |-> PagesTo(n + 1), size |-> h.size, used |-> sz]]
    BY <2>6, <2>63, <2>3, <1>7
  <2>8. got = [mem |-> [blocks |-> k,
                         heap |-> [pages |-> PagesTo(n + 1), size |-> h.size, used |-> sz]],
               at |-> Region(new, 0, size)]
    BY <2>7, <1>2, <1>4, <1>9, <2>1, <2>3, <1>7 DEF _pbcH_alloc
  <2>9. PICK x, a : x = got.mem /\ a = got.at  OBVIOUS
  <2>10. /\ x.blocks = k /\ x.heap.pages = PagesTo(n + 1) /\ x.heap.size = h.size
         /\ x.heap.used = sz /\ x = [blocks |-> x.blocks, heap |-> x.heap]
         /\ x.heap = [pages |-> x.heap.pages, size |-> x.heap.size, used |-> x.heap.used]
         /\ got = [mem |-> x, at |-> a]
    BY <2>8, <2>9
  <2>11. a \in Regions /\ a.block = new /\ a.off = 0 /\ a.len = size
    BY <2>8, <2>9, <2>3, <1>7 DEF Region, Regions
  <2>12. HasHeap(x)  BY <2>10, <1>7 DEF HasHeap, NoHeap
  <2>13. HeapIs(x, n + 1)
    <3>1. DOMAIN k = {Page(i) : i \in 1 .. n + 1}
      <4>1. 1 .. n + 1 = (1 .. n) \cup {n + 1}  BY OneMore
      <4> QED BY <4>1, <2>5, <2>3, <1>5
    <3>2. h.size <= k[new] /\ sz <= k[new]  BY <2>2, <2>5
    <3> QED BY <3>1, <3>2, <2>10, <2>3, <1>3, <1>5 DEF HeapIs
  <2>14. MemOK(x)
    <3>1. n + 1 \in Nat \ {0}  OBVIOUS
    <3>2. \A y \in DOMAIN k : k[y] \in Nat  BY <2>5, <2>2, <1>6
    <3>3. k = [y \in DOMAIN k |-> k[y]]  BY <2>4
    <3>4. k = x.blocks  BY <2>10
    <3> QED BY <3>1, <3>2, <3>3, <3>4, <2>10, <2>13 DEF MemOK
  <2>15. Fits(x, a)
    <3>1. Mark(x, new) = sz  BY <2>12, <2>10, <2>3, <1>7 DEF Mark
    <3> QED BY <3>1, <2>11, <2>10, <2>5, <1>3 DEF Fits
  <2>16. ASSUME NEW r, Fits(m, r)
         PROVE  Fits(x, r) /\ Apart(r, a) /\ Apart(a, r)
    <3>1. r \in Regions /\ r.len # 0 /\ r.block \in DOMAIN m.blocks /\ r.block # new
          /\ r.off \in Nat /\ r.len \in Nat
      BY <2>16, <2>3, <1>7 DEF Fits, Regions
    <3>2. Apart(r, a) /\ Apart(a, r)  BY <3>1, <2>11 DEF Apart
    <3>3. r.off + r.len <= m.blocks[r.block]
      <4>1. r.off + r.len <= Mark(m, r.block)  BY <2>16 DEF Fits
      <4>2. CASE r.block = Page(n)
        <5>1. Mark(m, r.block) = h.used  BY <4>2, <1>4, <1>7 DEF Mark
        <5>2. m.blocks[r.block] \in Nat /\ h.used <= m.blocks[r.block]
          BY <4>2, <1>5, <1>6, <1>7
        <5>3. r.off + r.len <= h.used  BY <4>1, <5>1
        <5> QED BY <5>2, <5>3, <1>5, <3>1
      <4>3. CASE r.block # Page(n)
        <5>1. Mark(m, r.block) = m.blocks[r.block]  BY <4>3, <1>4, <1>7 DEF Mark
        <5> QED BY <4>1, <5>1
      <4> QED BY <4>2, <4>3
    <3>4. Mark(x, r.block) = m.blocks[r.block]
      BY <3>1, <2>5, <2>10, <1>7, <2>3 DEF Mark
    <3> QED BY <3>1, <3>2, <3>3, <3>4, <2>5, <2>10 DEF Fits
  <2> QED BY <2>9, <2>10, <2>11, <2>12, <2>14, <2>15, <2>16 DEF Allocated
<1>10. CASE ~(h.size - h.used < sz)
  <2>1. h.used + sz <= h.size  BY <1>10, <1>3, <1>5
  <2>2. got = [mem |-> [blocks |-> m.blocks,
                         heap |-> [pages |-> PagesTo(n), size |-> h.size,
                                   used |-> h.used + sz]],
               at |-> Region(Page(n), h.used, size)]
    BY <1>2, <1>4, <1>10, <1>7, <1>5, <1>8, SMTT(20) DEF _pbcH_alloc
  <2>3. PICK x, a : x = got.mem /\ a = got.at  OBVIOUS
  <2>4. /\ x.blocks = m.blocks /\ x.heap.pages = PagesTo(n) /\ x.heap.size = h.size
        /\ x.heap.used = h.used + sz /\ x = [blocks |-> x.blocks, heap |-> x.heap]
        /\ x.heap = [pages |-> x.heap.pages, size |-> x.heap.size, used |-> x.heap.used]
        /\ got = [mem |-> x, at |-> a]
    BY <2>2, <2>3
  <2>5. a \in Regions /\ a.block = Page(n) /\ a.off = h.used /\ a.len = size
    BY <2>2, <2>3, <1>5, <1>7 DEF Region, Regions
  <2>6. HasHeap(x)  BY <2>4, <1>7 DEF HasHeap, NoHeap
  <2>7. m.blocks[Page(n)] \in Nat  BY <1>6, <1>7
  <2>8. HeapIs(x, n)
    BY <2>1, <2>4, <1>3, <1>5, <2>7 DEF HeapIs
  <2>9. MemOK(x)  BY <2>4, <2>8, <1>6 DEF MemOK
  <2>10. Fits(x, a)
    <3>1. Mark(x, Page(n)) = h.used + sz  BY <2>4, <2>6, <1>5, <1>7 DEF Mark
    <3> QED BY <3>1, <2>5, <2>4, <1>3, <1>5, <1>7, SMTT(20) DEF Fits
  <2>11. ASSUME NEW r, Fits(m, r)
         PROVE  Fits(x, r) /\ Apart(r, a) /\ Apart(a, r)
    <3>1. r \in Regions /\ r.len # 0 /\ r.block \in DOMAIN m.blocks
          /\ r.off \in Nat /\ r.len \in Nat /\ r.off + r.len <= Mark(m, r.block)
      BY <2>11 DEF Fits, Regions
    <3>2. CASE r.block = Page(n)
      <4>1. Mark(m, r.block) = h.used /\ Mark(x, r.block) = h.used + sz
        BY <3>2, <2>4, <2>6, <1>4, <1>5, <1>7 DEF Mark
      <4>2. r.off + r.len <= h.used  BY <3>1, <4>1
      <4>3. Apart(r, a) /\ Apart(a, r)  BY <4>2, <2>5 DEF Apart
      <4>4. r.off + r.len <= h.used + sz  BY <4>2, <3>1, <1>3, <1>5
      <4> QED BY <4>1, <4>3, <4>4, <3>1, <2>4 DEF Fits
    <3>3. CASE r.block # Page(n)
      <4>1. Mark(m, r.block) = Mark(x, r.block)
        BY <3>3, <2>4, <2>6, <1>4, <1>5, <1>7 DEF Mark
      <4>2. Apart(r, a) /\ Apart(a, r)  BY <3>3, <2>5 DEF Apart
      <4> QED BY <4>1, <4>2, <3>1, <2>4 DEF Fits
    <3> QED BY <3>2, <3>3
  <2> QED BY <2>3, <2>4, <2>5, <2>6, <2>9, <2>10, <2>11 DEF Allocated
<1> QED BY <1>9, <1>10

(* HMALLOC, which is one or the other. *)
LEMMA AllocOK ==
  ASSUME SizesOK, NEW m, MemOK(m), NEW b \in AnyBlock,
         HasHeap(m) \/ b \notin DOMAIN m.blocks,
         NEW size \in Nat \ {0}, NEW got, got = HMALLOC(m, b, size)
  PROVE  Allocated(got, m, b, size)
<1>1. CASE HasHeap(m)
  <2>1. got = _pbcH_alloc(m, size)  BY <1>1 DEF HMALLOC
  <2> QED BY ONLY SizesOK, MemOK(m), <1>1, <2>1, HeapAllocOK, size \in Nat \ {0}
<1>2. CASE ~HasHeap(m)
  <2>1. got = _pbcM_malloc(m, b, size) /\ b \notin DOMAIN m.blocks  BY <1>2 DEF HMALLOC
  <2> QED
    BY ONLY MemOK(m), b \in AnyBlock, <1>2, <2>1, MallocOK, size \in Nat \ {0}
<1> QED BY <1>1, <1>2

(* Without a heap, freeing blocks leaves what lies in the others. *)
Freed(x, m, bs) ==
  /\ MemOK(x) /\ ~HasHeap(x)
  /\ DOMAIN x.blocks = DOMAIN m.blocks \ bs
  /\ \A b \in DOMAIN m.blocks \ bs : x.blocks[b] = m.blocks[b]
  /\ \A r : Fits(m, r) /\ r.block \notin bs => Fits(x, r)

(* free, which a container does without a heap. *)
LEMMA FreeOK ==
  ASSUME NEW m, MemOK(m), ~HasHeap(m), NEW bs, NEW x, x = _pbcM_free(m, bs)
  PROVE  Freed(x, m, bs)
<1>1. PICK k : k = [b \in DOMAIN m.blocks \ bs |-> m.blocks[b]]  OBVIOUS
<1>2. m = [blocks |-> m.blocks, heap |-> m.heap]
      /\ m.heap = [pages |-> m.heap.pages, size |-> m.heap.size, used |-> m.heap.used]
      /\ \A b \in DOMAIN m.blocks : m.blocks[b] \in Nat
  BY DEF MemOK
<1>3. x = [blocks |-> k, heap |-> m.heap]  BY <1>1, <1>2 DEF _pbcM_free
<1>4. x.blocks = k /\ x.heap = m.heap /\ x = [blocks |-> x.blocks, heap |-> x.heap]
  BY <1>3
<1>5. DOMAIN k = DOMAIN m.blocks \ bs /\ k = [b \in DOMAIN k |-> k[b]]
      /\ \A b \in DOMAIN m.blocks \ bs : k[b] = m.blocks[b]
  BY <1>1
<1>6. ~HasHeap(x)  BY <1>4 DEF HasHeap
<1>7. MemOK(x)
  <2>1. \A b \in DOMAIN k : k[b] \in Nat  BY <1>5, <1>2
  <2> QED BY <2>1, <1>2, <1>4, <1>5, <1>6 DEF MemOK
<1>8. ASSUME NEW r, Fits(m, r), r.block \notin bs
      PROVE  Fits(x, r)
  <2>1. r.block \in DOMAIN m.blocks \ bs /\ r.off + r.len <= m.blocks[r.block]
    BY <1>8 DEF Fits, Mark
  <2> QED BY <1>8, <2>1, <1>4, <1>5, <1>6 DEF Fits, Mark
<1> QED BY <1>4, <1>5, <1>6, <1>7, <1>8 DEF Freed

(* The region r still fits and is apart from the new one, a. *)
Clear(x, a, r) == Fits(x, r) /\ Apart(r, a) /\ Apart(a, r)

(* A region apart from those of a family joins it, in place of another or *)
(* not.                                                                   *)
LEMMA JoinFamily ==
  ASSUME NEW m, NEW I, NEW R, Family(m, I, R),
         NEW x, NEW a, Fits(x, a), \A v \in I : Clear(x, a, R[v]),
         NEW u, NEW J, NEW S, J \subseteq I \cup {u}, S[u] = a,
         \A v \in J \ {u} : S[v] = R[v]
  PROVE  Family(x, J, S)
<1>1. \A v \in J \ {u} : v \in I /\ Clear(x, a, S[v])  OBVIOUS
<1>2. \A v \in J : Fits(x, S[v])  BY <1>1 DEF Clear
<1>3. ASSUME NEW v \in J, NEW w \in J, v # w
      PROVE  Apart(S[v], S[w])
  <2>1. CASE v # u /\ w # u  BY <2>1, <1>3, <1>1 DEF Family
  <2>2. CASE v = u  BY <2>2, <1>1, <1>3 DEF Clear
  <2>3. CASE w = u  BY <2>3, <1>1, <1>3 DEF Clear
  <2> QED BY <2>1, <2>2, <2>3
<1> QED BY <1>2, <1>3 DEF Family

(* An allocated region joins a family. *)
LEMMA GrowFamily ==
  ASSUME NEW m, NEW I, NEW R, Family(m, I, R),
         NEW got, NEW b, NEW size, Allocated(got, m, b, size),
         NEW u, NEW J, NEW S, J \subseteq I \cup {u}, S[u] = got.at,
         \A v \in J \ {u} : S[v] = R[v]
  PROVE  Family(got.mem, J, S)
<1>1. PICK x, a : x = got.mem /\ a = got.at  OBVIOUS
<1>2. Fits(x, a)  BY <1>1 DEF Allocated
<1>3. \A v \in I : Clear(x, a, R[v])  BY <1>1 DEF Allocated, Family, Clear
<1>4. S[u] = a  BY <1>1
<1>5. Family(x, J, S)
  BY ONLY Family(m, I, R), <1>2, <1>3, <1>4, J \subseteq I \cup {u},
          \A v \in J \ {u} : S[v] = R[v], JoinFamily
<1> QED BY <1>1, <1>5

(* A family none of whose blocks is freed stays one. *)
LEMMA KeepFamily ==
  ASSUME NEW m, NEW I, NEW R, Family(m, I, R), NEW bs, NEW x, Freed(x, m, bs),
         \A u \in I : R[u].block \notin bs
  PROVE  Family(x, I, R)
BY DEF Family, Freed

-----------------------------------------------------------------------------
(* What uses memory, and the region of each: the values, the strings, the   *)
(* slots of the table, and the array unless it is in its inner storage.     *)
Items(nv, ns, own) ==
  ({"value"} \X (1 .. nv)) \cup ({"string"} \X (1 .. ns)) \cup {<<"slots", 0>>}
    \cup (IF own = Inner THEN {} ELSE {<<"array", 0>>})

RegionOf(vals, strs, slots, own) ==
  [u \in Items(Len(vals), Len(strs), own) |->
     IF u[1] = "value" THEN vals[u[2]]
     ELSE IF u[1] = "string" THEN strs[u[2]]
     ELSE IF u[1] = "slots" THEN slots
     ELSE own]

Layout(m, vals, strs, slots, own) ==
  /\ vals \in Seq(Regions) /\ strs \in Seq(Regions)
  /\ Family(m, Items(Len(vals), Len(strs), own), RegionOf(vals, strs, slots, own))

(* The items of a layout are these. *)
LEMMA ItemsAre ==
  ASSUME NEW nv, NEW ns, NEW own
  PROVE  /\ \A p \in 1 .. nv : <<"value", p>> \in Items(nv, ns, own)
         /\ \A p \in 1 .. ns : <<"string", p>> \in Items(nv, ns, own)
         /\ <<"slots", 0>> \in Items(nv, ns, own)
         /\ own # Inner => <<"array", 0>> \in Items(nv, ns, own)
         /\ \A u \in Items(nv, ns, own) :
              \/ \E p \in 1 .. nv : u = <<"value", p>>
              \/ \E p \in 1 .. ns : u = <<"string", p>>
              \/ u = <<"slots", 0>>
              \/ own # Inner /\ u = <<"array", 0>>
<1>1. ASSUME NEW u \in Items(nv, ns, own)
      PROVE  \/ \E p \in 1 .. nv : u = <<"value", p>>
             \/ \E p \in 1 .. ns : u = <<"string", p>>
             \/ u = <<"slots", 0>>
             \/ own # Inner /\ u = <<"array", 0>>
  BY DEF Items
<1>2. own # Inner => <<"array", 0>> \in Items(nv, ns, own)  BY DEF Items
<1> QED BY <1>1, <1>2 DEF Items

(* And these are their regions. *)
LEMMA RegionsAre ==
  ASSUME NEW vals \in Seq(Regions), NEW strs \in Seq(Regions), NEW slots, NEW own,
         NEW R, R = RegionOf(vals, strs, slots, own)
  PROVE  /\ \A p \in 1 .. Len(vals) : R[<<"value", p>>] = vals[p]
         /\ \A p \in 1 .. Len(strs) : R[<<"string", p>>] = strs[p]
         /\ R[<<"slots", 0>>] = slots
         /\ own # Inner => R[<<"array", 0>>] = own
<1>1. PICK nv, ns : nv = Len(vals) /\ ns = Len(strs)  OBVIOUS
<1>2. R = [u \in Items(nv, ns, own) |->
             IF u[1] = "value" THEN vals[u[2]]
             ELSE IF u[1] = "string" THEN strs[u[2]]
             ELSE IF u[1] = "slots" THEN slots
             ELSE own]
  BY <1>1 DEF RegionOf
<1>3. \A p \in 1 .. nv : R[<<"value", p>>] = vals[p]  BY <1>2, ItemsAre
<1>4. \A p \in 1 .. ns : R[<<"string", p>>] = strs[p]  BY <1>2, ItemsAre
<1>5. R[<<"slots", 0>>] = slots  BY <1>2, ItemsAre
<1>6. own # Inner => R[<<"array", 0>>] = own  BY <1>2, ItemsAre
<1> QED BY <1>1, <1>3, <1>4, <1>5, <1>6

(* An allocated region is a region, and not the inner storage of the *)
(* array.                                                            *)
LEMMA RegionOfAllocated ==
  ASSUME NEW got, NEW m, NEW b, NEW size, Allocated(got, m, b, size)
  PROVE  got.at \in Regions /\ got.at # Inner
<1>1. got.at \in Regions /\ got.at.len # 0  BY DEF Allocated, Fits
<1>2. Inner.len = 0  BY DEF Inner, Region
<1> QED BY <1>1, <1>2

(* A layout with a value more. *)
LEMMA LayoutValue ==
  ASSUME NEW m, NEW vals, NEW strs, NEW slots, NEW own,
         Layout(m, vals, strs, slots, own),
         NEW got, NEW b, NEW size, Allocated(got, m, b, size)
  PROVE  Layout(got.mem, Append(vals, got.at), strs, slots, own)
<1>1. PICK a : a = got.at  OBVIOUS
<1>2. a \in Regions  BY <1>1, RegionOfAllocated
<1>3. vals \in Seq(Regions) /\ strs \in Seq(Regions)  BY DEF Layout
<1>4. PICK more, n : more = Append(vals, a) /\ n = Len(vals)  OBVIOUS
<1>5. n \in Nat /\ more \in Seq(Regions) /\ Len(more) = n + 1 /\ more[n + 1] = a
      /\ \A p \in 1 .. n : more[p] = vals[p]
  BY <1>2, <1>3, <1>4
<1>6. PICK I, J, R, S :
        /\ I = Items(Len(vals), Len(strs), own) /\ J = Items(Len(more), Len(strs), own)
        /\ R = RegionOf(vals, strs, slots, own) /\ S = RegionOf(more, strs, slots, own)
  OBVIOUS
<1>7. PICK u : u = <<"value", n + 1>>  OBVIOUS
<1>8. /\ \A p \in 1 .. n : R[<<"value", p>>] = vals[p]
      /\ \A p \in 1 .. Len(strs) : R[<<"string", p>>] = strs[p]
      /\ R[<<"slots", 0>>] = slots
      /\ own # Inner => R[<<"array", 0>>] = own
  BY <1>3, <1>4, <1>6, RegionsAre
<1>9. /\ \A p \in 1 .. n + 1 : S[<<"value", p>>] = more[p]
      /\ \A p \in 1 .. Len(strs) : S[<<"string", p>>] = strs[p]
      /\ S[<<"slots", 0>>] = slots
      /\ own # Inner => S[<<"array", 0>>] = own
  BY <1>3, <1>5, <1>6, RegionsAre
<1>10. S[u] = a
  <2>1. n + 1 \in 1 .. n + 1  BY <1>5
  <2> QED BY <2>1, <1>5, <1>7, <1>9
<1>11. ASSUME NEW v \in J \ {u}
       PROVE  v \in I /\ S[v] = R[v]
  <2>1. CASE \E p \in 1 .. n + 1 : v = <<"value", p>>
    <3>1. PICK p \in 1 .. n : v = <<"value", p>>  BY <2>1, <1>5, <1>7
    <3>2. p \in 1 .. n + 1  BY <1>5
    <3> QED BY <3>1, <3>2, <1>4, <1>5, <1>6, <1>8, <1>9, ItemsAre
  <2>2. CASE \E p \in 1 .. Len(strs) : v = <<"string", p>>
    BY <2>2, <1>6, <1>8, <1>9, ItemsAre
  <2>3. CASE v = <<"slots", 0>>  BY <2>3, <1>6, <1>8, <1>9, ItemsAre
  <2>4. CASE own # Inner /\ v = <<"array", 0>>  BY <2>4, <1>6, <1>8, <1>9, ItemsAre
  <2> QED BY <2>1, <2>2, <2>3, <2>4, <1>5, <1>6, ItemsAre
<1>12. Family(m, I, R)  BY <1>6 DEF Layout
<1>13. J \subseteq I \cup {u} /\ \A v \in J \ {u} : S[v] = R[v]  BY <1>11
<1>14. S[u] = got.at  BY <1>1, <1>10
<1>15. Family(got.mem, J, S)
  BY ONLY <1>12, <1>13, <1>14, Allocated(got, m, b, size), GrowFamily, ZenonT(30)
<1> QED BY <1>1, <1>3, <1>4, <1>5, <1>6, <1>15 DEF Layout

(* A layout with a string more, in a place that was free. *)
LEMMA LayoutString ==
  ASSUME NEW m, NEW vals, NEW strs, NEW slots, NEW own,
         Layout(m, vals, strs, slots, own),
         NEW x, NEW a, Fits(x, a),
         \A p \in 1 .. Len(vals) : Clear(x, a, vals[p]),
         \A p \in 1 .. Len(strs) : Clear(x, a, strs[p]),
         Clear(x, a, slots), own # Inner => Clear(x, a, own)
  PROVE  Layout(x, vals, Append(strs, a), slots, own)
<1>2. a \in Regions  BY DEF Fits
<1>3. vals \in Seq(Regions) /\ strs \in Seq(Regions)  BY DEF Layout
<1>4. PICK more, n : more = Append(strs, a) /\ n = Len(strs)  OBVIOUS
<1>5. n \in Nat /\ more \in Seq(Regions) /\ Len(more) = n + 1 /\ more[n + 1] = a
      /\ \A p \in 1 .. n : more[p] = strs[p]
  BY <1>2, <1>3, <1>4
<1>6. PICK I, J, R, S :
        /\ I = Items(Len(vals), Len(strs), own) /\ J = Items(Len(vals), Len(more), own)
        /\ R = RegionOf(vals, strs, slots, own) /\ S = RegionOf(vals, more, slots, own)
  OBVIOUS
<1>7. PICK u : u = <<"string", n + 1>>  OBVIOUS
<1>8. /\ \A p \in 1 .. Len(vals) : R[<<"value", p>>] = vals[p]
      /\ \A p \in 1 .. n : R[<<"string", p>>] = strs[p]
      /\ R[<<"slots", 0>>] = slots
      /\ own # Inner => R[<<"array", 0>>] = own
  BY <1>3, <1>4, <1>6, RegionsAre
<1>91. /\ \A p \in 1 .. Len(vals) : S[<<"value", p>>] = vals[p]
       /\ \A p \in 1 .. Len(more) : S[<<"string", p>>] = more[p]
       /\ S[<<"slots", 0>>] = slots
       /\ own # Inner => S[<<"array", 0>>] = own
  <2>1. vals \in Seq(Regions) /\ more \in Seq(Regions) /\ S = RegionOf(vals, more, slots, own)
    BY <1>3, <1>5, <1>6
  <2> QED BY ONLY <2>1, RegionsAre
<1>9. /\ \A p \in 1 .. Len(vals) : S[<<"value", p>>] = vals[p]
      /\ \A p \in 1 .. n + 1 : S[<<"string", p>>] = more[p]
      /\ S[<<"slots", 0>>] = slots
      /\ own # Inner => S[<<"array", 0>>] = own
  BY <1>5, <1>91
<1>10. S[u] = a
  <2>1. n + 1 \in 1 .. n + 1  BY <1>5
  <2> QED BY <2>1, <1>5, <1>7, <1>9
<1>11. ASSUME NEW v \in J \ {u}
       PROVE  v \in I /\ S[v] = R[v]
  <2>1. CASE \E p \in 1 .. n + 1 : v = <<"string", p>>
    <3>1. PICK p \in 1 .. n : v = <<"string", p>>  BY <2>1, <1>5, <1>7
    <3>2. p \in 1 .. n + 1  BY <1>5
    <3> QED BY <3>1, <3>2, <1>4, <1>5, <1>6, <1>8, <1>9, ItemsAre
  <2>2. CASE \E p \in 1 .. Len(vals) : v = <<"value", p>>
    BY <2>2, <1>6, <1>8, <1>9, ItemsAre
  <2>3. CASE v = <<"slots", 0>>  BY <2>3, <1>6, <1>8, <1>9, ItemsAre
  <2>4. CASE own # Inner /\ v = <<"array", 0>>  BY <2>4, <1>6, <1>8, <1>9, ItemsAre
  <2> QED BY <2>1, <2>2, <2>3, <2>4, <1>5, <1>6, ItemsAre
<1>12. Family(m, I, R)  BY <1>6 DEF Layout
<1>13. J \subseteq I \cup {u} /\ \A v \in J \ {u} : S[v] = R[v]  BY <1>11
<1>14. \A v \in I : Clear(x, a, R[v])  BY <1>4, <1>6, <1>8, ItemsAre
<1>15. Family(x, J, S)
  BY ONLY <1>10, <1>12, <1>13, <1>14, Fits(x, a), JoinFamily
<1> QED BY <1>3, <1>4, <1>5, <1>6, <1>15 DEF Layout

(* A layout in which the table has moved. *)
LEMMA LayoutSlots ==
  ASSUME NEW m, NEW vals, NEW strs, NEW slots, NEW own,
         Layout(m, vals, strs, slots, own),
         NEW got, NEW b, NEW size, Allocated(got, m, b, size)
  PROVE  Layout(got.mem, vals, strs, got.at, own)
<1>1. PICK a : a = got.at  OBVIOUS
<1>2. vals \in Seq(Regions) /\ strs \in Seq(Regions)  BY DEF Layout
<1>3. PICK I, R, S :
        /\ I = Items(Len(vals), Len(strs), own)
        /\ R = RegionOf(vals, strs, slots, own) /\ S = RegionOf(vals, strs, a, own)
  OBVIOUS
<1>4. PICK u : u = <<"slots", 0>>  OBVIOUS
<1>5. /\ \A p \in 1 .. Len(vals) : R[<<"value", p>>] = vals[p]
      /\ \A p \in 1 .. Len(strs) : R[<<"string", p>>] = strs[p]
      /\ own # Inner => R[<<"array", 0>>] = own
  BY <1>2, <1>3, RegionsAre
<1>6. /\ \A p \in 1 .. Len(vals) : S[<<"value", p>>] = vals[p]
      /\ \A p \in 1 .. Len(strs) : S[<<"string", p>>] = strs[p]
      /\ S[u] = a
      /\ own # Inner => S[<<"array", 0>>] = own
  <2>1. S[<<"slots", 0>>] = a  BY <1>2, <1>3, RegionsAre
  <2>2. /\ \A p \in 1 .. Len(vals) : S[<<"value", p>>] = vals[p]
        /\ \A p \in 1 .. Len(strs) : S[<<"string", p>>] = strs[p]
        /\ own # Inner => S[<<"array", 0>>] = own
    BY <1>2, <1>3, RegionsAre
  <2> QED BY <1>4, <2>1, <2>2
<1>7. \A v \in I \ {u} : S[v] = R[v]
  BY <1>3, <1>4, <1>5, <1>6, ItemsAre
<1>8. Family(m, I, R)  BY <1>3 DEF Layout
<1>9. I \subseteq I \cup {u} /\ S[u] = got.at  BY <1>1, <1>6
<1>10. Family(got.mem, I, S)
  BY ONLY <1>7, <1>8, <1>9, Allocated(got, m, b, size), GrowFamily
<1> QED BY <1>1, <1>2, <1>3, <1>10 DEF Layout

(* A layout in which the array has moved. *)
LEMMA LayoutArray ==
  ASSUME NEW m, NEW vals, NEW strs, NEW slots, NEW own,
         Layout(m, vals, strs, slots, own),
         NEW got, NEW b, NEW size, Allocated(got, m, b, size)
  PROVE  Layout(got.mem, vals, strs, slots, got.at)
<1>1. PICK a : a = got.at  OBVIOUS
<1>2. a # Inner  BY <1>1, RegionOfAllocated
<1>3. vals \in Seq(Regions) /\ strs \in Seq(Regions)  BY DEF Layout
<1>4. PICK I, J, R, S :
        /\ I = Items(Len(vals), Len(strs), own) /\ J = Items(Len(vals), Len(strs), a)
        /\ R = RegionOf(vals, strs, slots, own) /\ S = RegionOf(vals, strs, slots, a)
  OBVIOUS
<1>5. PICK u : u = <<"array", 0>>  OBVIOUS
<1>6. /\ \A p \in 1 .. Len(vals) : R[<<"value", p>>] = vals[p]
      /\ \A p \in 1 .. Len(strs) : R[<<"string", p>>] = strs[p]
      /\ R[<<"slots", 0>>] = slots
  BY <1>3, <1>4, RegionsAre
<1>7. /\ \A p \in 1 .. Len(vals) : S[<<"value", p>>] = vals[p]
      /\ \A p \in 1 .. Len(strs) : S[<<"string", p>>] = strs[p]
      /\ S[<<"slots", 0>>] = slots
      /\ S[u] = a
  BY <1>2, <1>3, <1>4, <1>5, RegionsAre
<1>8. ASSUME NEW v \in J \ {u}
      PROVE  v \in I /\ S[v] = R[v]
  <2>1. CASE \E p \in 1 .. Len(vals) : v = <<"value", p>>
    BY <2>1, <1>4, <1>6, <1>7, ItemsAre
  <2>2. CASE \E p \in 1 .. Len(strs) : v = <<"string", p>>
    BY <2>2, <1>4, <1>6, <1>7, ItemsAre
  <2>3. CASE v = <<"slots", 0>>  BY <2>3, <1>4, <1>6, <1>7, ItemsAre
  <2> QED BY <2>1, <2>2, <2>3, <1>4, <1>5, ItemsAre
<1>9. Family(m, I, R)  BY <1>4 DEF Layout
<1>10. J \subseteq I \cup {u} /\ \A v \in J \ {u} : S[v] = R[v]  BY <1>8
<1>11. S[u] = got.at  BY <1>1, <1>7
<1>12. Family(got.mem, J, S)
  BY ONLY <1>9, <1>10, <1>11, Allocated(got, m, b, size), GrowFamily, ZenonT(30)
<1> QED BY <1>1, <1>3, <1>4, <1>12 DEF Layout

(* A layout after blocks were freed that it does not use. *)
LEMMA LayoutFreed ==
  ASSUME NEW m, NEW vals, NEW strs, NEW slots, NEW own,
         Layout(m, vals, strs, slots, own), NEW bs, NEW x, Freed(x, m, bs),
         \A p \in 1 .. Len(vals) : vals[p].block \notin bs,
         \A p \in 1 .. Len(strs) : strs[p].block \notin bs,
         slots.block \notin bs, own # Inner => own.block \notin bs
  PROVE  Layout(x, vals, strs, slots, own)
<1>1. vals \in Seq(Regions) /\ strs \in Seq(Regions)  BY DEF Layout
<1>2. PICK I, R : /\ I = Items(Len(vals), Len(strs), own)
                  /\ R = RegionOf(vals, strs, slots, own)
  OBVIOUS
<1>3. /\ \A p \in 1 .. Len(vals) : R[<<"value", p>>] = vals[p]
      /\ \A p \in 1 .. Len(strs) : R[<<"string", p>>] = strs[p]
      /\ R[<<"slots", 0>>] = slots
      /\ own # Inner => R[<<"array", 0>>] = own
  BY <1>1, <1>2, RegionsAre
<1>4. \A u \in I : R[u].block \notin bs  BY <1>2, <1>3, ItemsAre
<1>5. Family(m, I, R)  BY <1>2 DEF Layout
<1>6. Family(x, I, R)  BY ONLY <1>4, <1>5, Freed(x, m, bs), KeepFamily
<1> QED BY <1>1, <1>2, <1>6 DEF Layout

(* All regions of a layout are in their blocks. *)
LEMMA LayoutFits ==
  ASSUME NEW m, NEW vals, NEW strs, NEW slots, NEW own,
         Layout(m, vals, strs, slots, own)
  PROVE  /\ \A p \in 1 .. Len(vals) : Fits(m, vals[p])
         /\ \A p \in 1 .. Len(strs) : Fits(m, strs[p])
         /\ Fits(m, slots)
         /\ own # Inner => Fits(m, own)
<1>1. vals \in Seq(Regions) /\ strs \in Seq(Regions)  BY DEF Layout
<1>2. PICK I, R : /\ I = Items(Len(vals), Len(strs), own)
                  /\ R = RegionOf(vals, strs, slots, own)
  OBVIOUS
<1>3. /\ \A p \in 1 .. Len(vals) : R[<<"value", p>>] = vals[p]
      /\ \A p \in 1 .. Len(strs) : R[<<"string", p>>] = strs[p]
      /\ R[<<"slots", 0>>] = slots
      /\ own # Inner => R[<<"array", 0>>] = own
  <2>1. R = RegionOf(vals, strs, slots, own)  BY <1>2
  <2> QED BY ONLY <1>1, <2>1, RegionsAre
<1>4. \A u \in I : Fits(m, R[u])  BY <1>2 DEF Layout, Family
<1> QED BY <1>2, <1>3, <1>4, ItemsAre

(* Without a heap every container owns blocks of its own, ... *)
OwnBlocks(nv, cap, own, n) ==
  ({"value"} \X (1 .. nv)) \cup {<<"slots", cap>>}
    \cup (IF own = Inner THEN {} ELSE {<<"array", n>>})

Owned(m, vals, slots, cap, own, n, chain) ==
  /\ \A p \in 1 .. Len(vals) : vals[p].block = <<"value", p>>
  /\ slots.block = <<"slots", cap>>
  /\ own # Inner => own.block = <<"array", n>>
  /\ DOMAIN m.blocks = OwnBlocks(Len(vals), cap, own, n) \cup ToSet(chain)

(* ... and the strings are in the blocks of the pool, those of its current  *)
(* page in the part of it that was given away.                              *)
Pooled(m, pl, strs) ==
  /\ pl = [page |-> pl.page, len |-> pl.len, chain |-> pl.chain]
  /\ pl.chain \in Seq({"string"} \X (0 .. Len(strs)))
  /\ pl.page \in ToSet(pl.chain) /\ m.blocks[pl.page] = PAGE_SIZE
  /\ pl.len \in 0 .. PAGE_SIZE
  /\ \A j \in 1 .. Len(strs) :
       /\ strs[j].block \in ToSet(pl.chain)
       /\ strs[j].block = pl.page => strs[j].off + strs[j].len <= pl.len

(* The memory m holds the values, the strings, slots for a table of cap     *)
(* slots and an array of n cells.                                           *)
Sound(m, vals, strs, slots, cap, own, n, pl) ==
  /\ MemOK(m) /\ Layout(m, vals, strs, slots, own)
  /\ ~HasHeap(m) => /\ Owned(m, vals, slots, cap, own, n, pl.chain)
                    /\ Pooled(m, pl, strs)

(* The blocks of the pool are numbered. *)
LEMMA ChainIs ==
  ASSUME NEW k \in Nat, NEW chain \in Seq({"string"} \X (0 .. k))
  PROVE  \A b \in ToSet(chain) : \E j \in 0 .. k : b = <<"string", j>>
<1>1. ToSet(chain) = {chain[i] : i \in 1 .. Len(chain)}  BY DEF ToSet
<1>2. \A i \in 1 .. Len(chain) : chain[i] \in {"string"} \X (0 .. k)  OBVIOUS
<1> QED BY <1>1, <1>2

(* The pool stays as it was when a block is added that is not one of its.   *)
LEMMA PoolKept ==
  ASSUME NEW m, NEW pl, NEW strs, Pooled(m, pl, strs), NEW x,
         \A b \in ToSet(pl.chain) : x.blocks[b] = m.blocks[b]
  PROVE  Pooled(x, pl, strs)
BY DEF Pooled

(* Memory gets a value. *)
LEMMA SoundValue ==
  ASSUME SizesOK, NEW m, NEW vals, NEW strs, NEW slots, NEW cap, NEW own, NEW n,
         NEW pl, Sound(m, vals, strs, slots, cap, own, n, pl),
         NEW got, got = HMALLOC(m, <<"value", Len(vals) + 1>>, ValueSize)
  PROVE  /\ Sound(got.mem, Append(vals, got.at), strs, slots, cap, own, n, pl)
         /\ HasHeap(got.mem) <=> HasHeap(m)
<1>1. MemOK(m) /\ Layout(m, vals, strs, slots, own)  BY DEF Sound
<1>2. vals \in Seq(Regions) /\ strs \in Seq(Regions)  BY <1>1 DEF Layout
<1>3. PICK nv : nv = Len(vals)  OBVIOUS
<1>4. nv \in Nat /\ Len(strs) \in Nat  BY <1>2, <1>3
<1>5. PICK b : b = <<"value", nv + 1>>  OBVIOUS
<1>6. b \in AnyBlock  BY <1>4, <1>5 DEF AnyBlock
<1>7. ASSUME ~HasHeap(m)
      PROVE  /\ DOMAIN m.blocks = OwnBlocks(nv, cap, own, n) \cup ToSet(pl.chain)
             /\ b \notin OwnBlocks(nv, cap, own, n) /\ b \notin ToSet(pl.chain)
  <2>1. DOMAIN m.blocks = OwnBlocks(nv, cap, own, n) \cup ToSet(pl.chain)
    BY <1>7, <1>3 DEF Sound, Owned
  <2>2. b \notin OwnBlocks(nv, cap, own, n)
    <3>1. \A z \in OwnBlocks(nv, cap, own, n) :
            \/ \E p \in 1 .. nv : z = <<"value", p>>
            \/ z = <<"slots", cap>>
            \/ own # Inner /\ z = <<"array", n>>
      BY DEF OwnBlocks
    <3> QED BY <3>1, <1>4, <1>5
  <2>3. pl.chain \in Seq({"string"} \X (0 .. Len(strs)))  BY <1>7 DEF Sound, Pooled
  <2>4. b \notin ToSet(pl.chain)  BY <2>3, <1>4, <1>5, ChainIs
  <2> QED BY <2>1, <2>2, <2>4
<1>8. PICK size : size = ValueSize  OBVIOUS
<1>9. Allocated(got, m, b, size)
  <2>1. size \in Nat \ {0}  BY <1>8 DEF SizesOK
  <2>2. HasHeap(m) \/ b \notin DOMAIN m.blocks  BY <1>7
  <2>3. got = HMALLOC(m, b, size)  BY <1>3, <1>5, <1>8
  <2> QED BY ONLY SizesOK, <1>1, <1>6, <2>1, <2>2, <2>3, AllocOK
<1>10. PICK x, a : x = got.mem /\ a = got.at  OBVIOUS
<1>11. MemOK(x) /\ (HasHeap(x) <=> HasHeap(m)) /\ a \in Regions
  BY <1>9, <1>10 DEF Allocated, Fits
<1>12. Layout(x, Append(vals, a), strs, slots, own)
  <2>1. Layout(got.mem, Append(vals, got.at), strs, slots, own)
    BY ONLY <1>1, <1>9, LayoutValue
  <2> QED BY <2>1, <1>10
<1>13. ASSUME ~HasHeap(x)
       PROVE  Owned(x, Append(vals, a), slots, cap, own, n, pl.chain) /\ Pooled(x, pl, strs)
  <2>1. ~HasHeap(m)  BY <1>11, <1>13
  <2>2. /\ a.block = b /\ DOMAIN x.blocks = DOMAIN m.blocks \cup {b}
        /\ \A y \in DOMAIN m.blocks : x.blocks[y] = m.blocks[y]
    BY <2>1, <1>9, <1>10 DEF Allocated
  <2>3. Pooled(x, pl, strs)
    <3>1. Pooled(m, pl, strs)  BY <2>1 DEF Sound
    <3>2. \A y \in ToSet(pl.chain) : x.blocks[y] = m.blocks[y]  BY <2>1, <2>2, <1>7
    <3> QED BY ONLY <3>1, <3>2, PoolKept
  <2>4. PICK more : more = Append(vals, a)  OBVIOUS
  <2>5. Len(more) = nv + 1 /\ more[nv + 1] = a /\ \A p \in 1 .. nv : more[p] = vals[p]
    BY <2>4, <1>2, <1>3, <1>11
  <2>6. \A p \in 1 .. nv : vals[p].block = <<"value", p>>
        /\ slots.block = <<"slots", cap>> /\ (own # Inner => own.block = <<"array", n>>)
    BY <2>1, <1>3 DEF Sound, Owned
  <2>7. \A p \in 1 .. nv + 1 : more[p].block = <<"value", p>>
    <3> TAKE p \in 1 .. nv + 1
    <3>1. p \in 1 .. nv \/ p = nv + 1  BY <1>4
    <3> QED BY <3>1, <2>2, <2>5, <2>6, <1>5
  <2>8. DOMAIN x.blocks = OwnBlocks(nv + 1, cap, own, n) \cup ToSet(pl.chain)
    <3>1. 1 .. nv + 1 = (1 .. nv) \cup {nv + 1}  BY <1>4, OneMore
    <3>2. OwnBlocks(nv + 1, cap, own, n) = OwnBlocks(nv, cap, own, n) \cup {b}
      BY <3>1, <1>5 DEF OwnBlocks
    <3> QED BY <3>2, <2>2, <2>1, <1>7
  <2>9. slots.block = <<"slots", cap>> /\ (own # Inner => own.block = <<"array", n>>)
    BY <2>1 DEF Sound, Owned
  <2> QED BY <2>3, <2>4, <2>5, <2>7, <2>8, <2>9 DEF Owned
<1> QED BY <1>10, <1>11, <1>12, <1>13 DEF Sound

(* The slots that a table of c slots gets, and the memory without the old   *)
(* ones.                                                                    *)
SlotsGot(m, c) == HMALLOC(m, <<"slots", c>>, c * SlotSize)

Rehoused(m, got, slots) ==
  IF HasHeap(m) THEN got.mem ELSE _pbcM_free(got.mem, {slots.block})

(* The table moves to c slots; without a heap the old ones are freed. *)
LEMMA SoundSlots ==
  ASSUME SizesOK, NEW m, NEW vals, NEW strs, NEW slots, NEW cap, NEW own, NEW n,
         NEW pl, Sound(m, vals, strs, slots, cap, own, n, pl),
         NEW c \in Nat \ {0}, c # cap,
         NEW got, got = SlotsGot(m, c), NEW x, x = Rehoused(m, got, slots)
  PROVE  /\ Sound(x, vals, strs, got.at, c, own, n, pl)
         /\ HasHeap(x) <=> HasHeap(m)
<1>1. MemOK(m) /\ Layout(m, vals, strs, slots, own)  BY DEF Sound
<1>2. vals \in Seq(Regions) /\ strs \in Seq(Regions)  BY <1>1 DEF Layout
<1>3. PICK nv : nv = Len(vals)  OBVIOUS
<1>4. nv \in Nat /\ Len(strs) \in Nat  BY <1>2, <1>3
<1>5. PICK b, old : b = <<"slots", c>> /\ old = <<"slots", cap>>  OBVIOUS
<1>6. b \in AnyBlock /\ b # old  BY <1>5 DEF AnyBlock
<1>7. ASSUME ~HasHeap(m)
      PROVE  /\ DOMAIN m.blocks = OwnBlocks(nv, cap, own, n) \cup ToSet(pl.chain)
             /\ b \notin OwnBlocks(nv, cap, own, n) /\ b \notin ToSet(pl.chain)
             /\ old \notin ToSet(pl.chain)
  <2>1. DOMAIN m.blocks = OwnBlocks(nv, cap, own, n) \cup ToSet(pl.chain)
    BY <1>7, <1>3 DEF Sound, Owned
  <2>2. b \notin OwnBlocks(nv, cap, own, n)
    <3>1. \A z \in OwnBlocks(nv, cap, own, n) :
            \/ \E p \in 1 .. nv : z = <<"value", p>>
            \/ z = <<"slots", cap>>
            \/ own # Inner /\ z = <<"array", n>>
      BY DEF OwnBlocks
    <3> QED BY <3>1, <1>5, <1>6
  <2>3. pl.chain \in Seq({"string"} \X (0 .. Len(strs)))  BY <1>7 DEF Sound, Pooled
  <2>4. b \notin ToSet(pl.chain) /\ old \notin ToSet(pl.chain)
    BY <2>3, <1>4, <1>5, ChainIs
  <2> QED BY <2>1, <2>2, <2>4
<1>8. PICK size : size = c * SlotSize  OBVIOUS
<1>9. Allocated(got, m, b, size)
  <2>1. size \in Nat \ {0}
    <3>1. PICK w \in Nat \ {0} : w = SlotSize  BY DEF SizesOK
    <3>2. c * w \in Nat \ {0}  OBVIOUS
    <3> QED BY <3>1, <3>2, <1>8
  <2>2. HasHeap(m) \/ b \notin DOMAIN m.blocks  BY <1>7
  <2>3. got = HMALLOC(m, b, size)  BY <1>5, <1>8 DEF SlotsGot
  <2> QED BY ONLY SizesOK, <1>1, <1>6, <2>1, <2>2, <2>3, AllocOK
<1>10. PICK y, a : y = got.mem /\ a = got.at  OBVIOUS
<1>11. MemOK(y) /\ (HasHeap(y) <=> HasHeap(m)) /\ a \in Regions
  BY <1>9, <1>10 DEF Allocated, Fits
<1>12. Layout(y, vals, strs, a, own)
  <2>1. Layout(got.mem, vals, strs, got.at, own)
    BY ONLY <1>1, <1>9, LayoutSlots
  <2> QED BY <2>1, <1>10
<1>13. CASE HasHeap(m)
  <2>1. x = y  BY <1>10, <1>13 DEF Rehoused
  <2> QED BY <2>1, <1>10, <1>11, <1>12, <1>13 DEF Sound
<1>14. CASE ~HasHeap(m)
  <2>1. /\ a.block = b /\ DOMAIN y.blocks = DOMAIN m.blocks \cup {b}
        /\ \A z \in DOMAIN m.blocks : y.blocks[z] = m.blocks[z]
    BY <1>14, <1>9, <1>10 DEF Allocated
  <2>2. /\ \A p \in 1 .. nv : vals[p].block = <<"value", p>>
        /\ slots.block = old /\ (own # Inner => own.block = <<"array", n>>)
    BY <1>14, <1>3, <1>5 DEF Sound, Owned
  <2>3. Pooled(m, pl, strs)  BY <1>14 DEF Sound
  <2>4. Freed(x, y, {old})
    <3>1. x = _pbcM_free(y, {old}) /\ ~HasHeap(y)  BY <1>14, <1>10, <1>11, <2>2 DEF Rehoused
    <3> QED BY ONLY <3>1, <1>11, FreeOK
  <2>5. Layout(x, vals, strs, a, own)
    <3>1. \A p \in 1 .. Len(vals) : vals[p].block \notin {old}
      <4>1. \A p : <<"value", p>> # old  BY <1>5
      <4> QED BY <2>2, <4>1, <1>3
    <3>2. \A j \in 1 .. Len(strs) : strs[j].block \notin {old}
      BY <2>3, <1>14, <1>7 DEF Pooled
    <3>3. a.block \notin {old}  BY <2>1, <1>6
    <3>4. own # Inner => own.block \notin {old}  BY <2>2, <1>5
    <3> QED BY ONLY <1>12, <2>4, <3>1, <3>2, <3>3, <3>4, LayoutFreed
  <2>6. DOMAIN x.blocks = OwnBlocks(nv, c, own, n) \cup ToSet(pl.chain)
    <3>1. DOMAIN x.blocks = (OwnBlocks(nv, cap, own, n) \cup ToSet(pl.chain) \cup {b}) \ {old}
      BY <2>1, <2>4, <1>14, <1>7 DEF Freed
    <3>2. OwnBlocks(nv, c, own, n) = (OwnBlocks(nv, cap, own, n) \cup {b}) \ {old}
      BY <1>5, <1>6 DEF OwnBlocks
    <3>3. old \notin ToSet(pl.chain)  BY <1>14, <1>7
    <3> QED BY <3>1, <3>2, <3>3
  <2>7. Pooled(x, pl, strs)
    <3>1. \A z \in ToSet(pl.chain) : x.blocks[z] = m.blocks[z]
      <4> TAKE z \in ToSet(pl.chain)
      <4>1. z \in DOMAIN m.blocks /\ z # old  BY <1>14, <1>7
      <4> QED BY <4>1, <2>1, <2>4 DEF Freed
    <3> QED BY ONLY <2>3, <3>1, PoolKept
  <2>8. MemOK(x) /\ ~HasHeap(x)  BY <2>4 DEF Freed
  <2> QED BY <1>3, <1>5, <1>10, <1>14, <2>1, <2>2, <2>5, <2>6, <2>7, <2>8 DEF Sound, Owned
<1> QED BY <1>13, <1>14

(* The same for an array of c cells. *)
CellsGot(m, c) == HMALLOC(m, <<"array", c>>, c * VarSize)

Moving(m, got, own) ==
  IF HasHeap(m) \/ own = Inner THEN got.mem ELSE _pbcM_free(got.mem, {own.block})

(* The array moves to c cells; without a heap the old ones are freed. *)
LEMMA SoundArray ==
  ASSUME SizesOK, NEW m, NEW vals, NEW strs, NEW slots, NEW cap, NEW own, NEW n,
         NEW pl, Sound(m, vals, strs, slots, cap, own, n, pl),
         NEW c \in Nat \ {0}, own # Inner => c # n,
         NEW got, got = CellsGot(m, c), NEW x, x = Moving(m, got, own)
  PROVE  /\ Sound(x, vals, strs, slots, cap, got.at, c, pl)
         /\ HasHeap(x) <=> HasHeap(m)
         /\ got.at # Inner
<1>1. MemOK(m) /\ Layout(m, vals, strs, slots, own)  BY DEF Sound
<1>2. vals \in Seq(Regions) /\ strs \in Seq(Regions)  BY <1>1 DEF Layout
<1>3. PICK nv : nv = Len(vals)  OBVIOUS
<1>4. nv \in Nat /\ Len(strs) \in Nat  BY <1>2, <1>3
<1>5. PICK b, old : b = <<"array", c>> /\ old = <<"array", n>>  OBVIOUS
<1>6. b \in AnyBlock /\ (own # Inner => b # old)  BY <1>5 DEF AnyBlock
<1>7. ASSUME ~HasHeap(m)
      PROVE  /\ DOMAIN m.blocks = OwnBlocks(nv, cap, own, n) \cup ToSet(pl.chain)
             /\ b \notin OwnBlocks(nv, cap, own, n) /\ b \notin ToSet(pl.chain)
             /\ old \notin ToSet(pl.chain)
  <2>1. DOMAIN m.blocks = OwnBlocks(nv, cap, own, n) \cup ToSet(pl.chain)
    BY <1>7, <1>3 DEF Sound, Owned
  <2>2. b \notin OwnBlocks(nv, cap, own, n)
    <3>1. \A z \in OwnBlocks(nv, cap, own, n) :
            \/ \E p \in 1 .. nv : z = <<"value", p>>
            \/ z = <<"slots", cap>>
            \/ own # Inner /\ z = <<"array", n>>
      BY DEF OwnBlocks
    <3> QED BY <3>1, <1>5, <1>6
  <2>3. pl.chain \in Seq({"string"} \X (0 .. Len(strs)))  BY <1>7 DEF Sound, Pooled
  <2>4. b \notin ToSet(pl.chain) /\ old \notin ToSet(pl.chain)
    BY <2>3, <1>4, <1>5, ChainIs
  <2> QED BY <2>1, <2>2, <2>4
<1>8. PICK size : size = c * VarSize  OBVIOUS
<1>9. Allocated(got, m, b, size)
  <2>1. size \in Nat \ {0}
    <3>1. PICK w \in Nat \ {0} : w = VarSize  BY DEF SizesOK
    <3>2. c * w \in Nat \ {0}  OBVIOUS
    <3> QED BY <3>1, <3>2, <1>8
  <2>2. HasHeap(m) \/ b \notin DOMAIN m.blocks  BY <1>7
  <2>3. got = HMALLOC(m, b, size)  BY <1>5, <1>8 DEF CellsGot
  <2> QED BY ONLY SizesOK, <1>1, <1>6, <2>1, <2>2, <2>3, AllocOK
<1>10. PICK y, a : y = got.mem /\ a = got.at  OBVIOUS
<1>11. MemOK(y) /\ (HasHeap(y) <=> HasHeap(m)) /\ a \in Regions /\ a # Inner
  BY <1>9, <1>10, RegionOfAllocated DEF Allocated
<1>12. Layout(y, vals, strs, slots, a)
  <2>1. Layout(got.mem, vals, strs, slots, got.at)
    BY ONLY <1>1, <1>9, LayoutArray
  <2> QED BY <2>1, <1>10
<1>13. CASE HasHeap(m)
  <2>1. x = y  BY <1>10, <1>13 DEF Moving
  <2> QED BY <2>1, <1>10, <1>11, <1>12, <1>13 DEF Sound
<1>14. CASE ~HasHeap(m)
  <2>1. /\ a.block = b /\ DOMAIN y.blocks = DOMAIN m.blocks \cup {b}
        /\ \A z \in DOMAIN m.blocks : y.blocks[z] = m.blocks[z]
    BY <1>14, <1>9, <1>10 DEF Allocated
  <2>2. /\ \A p \in 1 .. nv : vals[p].block = <<"value", p>>
        /\ slots.block = <<"slots", cap>> /\ (own # Inner => own.block = old)
    BY <1>14, <1>3, <1>5 DEF Sound, Owned
  <2>3. Pooled(m, pl, strs)  BY <1>14 DEF Sound
  <2>4. PICK bs : bs = IF own = Inner THEN {} ELSE {old}  OBVIOUS
  <2>5. Layout(x, vals, strs, slots, a) /\ MemOK(x) /\ ~HasHeap(x)
        /\ DOMAIN x.blocks = DOMAIN y.blocks \ bs
        /\ \A z \in DOMAIN y.blocks \ bs : x.blocks[z] = y.blocks[z]
    <3>1. CASE own = Inner
      <4>1. x = y /\ bs = {}  BY <3>1, <1>10, <2>4 DEF Moving
      <4> QED BY <4>1, <1>11, <1>12, <1>14
    <3>2. CASE own # Inner
      <4>1. Freed(x, y, {old})
        <5>1. x = _pbcM_free(y, {old}) /\ ~HasHeap(y)  BY <1>14, <3>2, <1>10, <1>11, <2>2 DEF Moving
        <5> QED BY ONLY <5>1, <1>11, FreeOK
      <4>2. \A p \in 1 .. Len(vals) : vals[p].block \notin {old}
        <5>1. \A p : <<"value", p>> # old  BY <1>5
        <5> QED BY <2>2, <5>1, <1>3
      <4>3. \A j \in 1 .. Len(strs) : strs[j].block \notin {old}
        BY <2>3, <1>14, <1>7 DEF Pooled
      <4>4. slots.block \notin {old}  BY <2>2, <1>5
      <4>5. a # Inner => a.block \notin {old}  BY <2>1, <1>6, <3>2
      <4>6. Layout(x, vals, strs, slots, a)
        BY ONLY <1>12, <4>1, <4>2, <4>3, <4>4, <4>5, LayoutFreed
      <4>7. bs = {old}  BY <3>2, <2>4
      <4> QED BY <4>1, <4>6, <4>7 DEF Freed
    <3> QED BY <3>1, <3>2
  <2>6. DOMAIN x.blocks = OwnBlocks(nv, cap, a, c) \cup ToSet(pl.chain)
    <3>1. DOMAIN x.blocks = (OwnBlocks(nv, cap, own, n) \cup ToSet(pl.chain) \cup {b}) \ bs
      BY <2>1, <2>5, <1>14, <1>7
    <3>2. OwnBlocks(nv, cap, a, c) = (OwnBlocks(nv, cap, own, n) \cup {b}) \ bs
      BY <1>5, <1>6, <1>11, <2>4 DEF OwnBlocks
    <3>3. \A z \in ToSet(pl.chain) : z \notin bs  BY <1>14, <1>7, <2>4
    <3> QED BY <3>1, <3>2, <3>3
  <2>7. Pooled(x, pl, strs)
    <3>1. \A z \in ToSet(pl.chain) : x.blocks[z] = m.blocks[z]
      <4> TAKE z \in ToSet(pl.chain)
      <4>1. z \in DOMAIN m.blocks /\ z \notin bs  BY <1>14, <1>7, <2>4
      <4> QED BY <4>1, <2>1, <2>5
    <3> QED BY ONLY <2>3, <3>1, PoolKept
  <2>8. Owned(x, vals, slots, cap, a, c, pl.chain)
    BY <1>3, <1>5, <2>1, <2>2, <2>6 DEF Owned
  <2>9. Sound(x, vals, strs, slots, cap, a, c, pl)
    BY <2>5, <2>7, <2>8 DEF Sound
  <2> QED BY <1>10, <1>11, <1>14, <2>5, <2>9
<1> QED BY <1>10, <1>11, <1>13, <1>14

(* A string that fits into the current page. *)
LEMMA SoundSpare ==
  ASSUME SizesOK, NEW m, NEW vals, NEW strs, NEW slots, NEW cap, NEW own, NEW n,
         NEW pl, Sound(m, vals, strs, slots, cap, own, n, pl), ~HasHeap(m),
         NEW s \in Nat \ {0}, s < PAGE_SIZE - pl.len,
         NEW q, q = [page |-> pl.page, len |-> pl.len + s, chain |-> pl.chain],
         NEW a, a = Region(pl.page, pl.len, s)
  PROVE  Sound(m, vals, Append(strs, a), slots, cap, own, n, q)
<1>1. MemOK(m) /\ Layout(m, vals, strs, slots, own)
      /\ Owned(m, vals, slots, cap, own, n, pl.chain) /\ Pooled(m, pl, strs)
  BY DEF Sound
<1>2. vals \in Seq(Regions) /\ strs \in Seq(Regions)  BY <1>1 DEF Layout
<1>3. PICK ns : ns = Len(strs)  OBVIOUS
<1>4. ns \in Nat  BY <1>2, <1>3
<1>5. PICK page, len, chain : page = pl.page /\ len = pl.len /\ chain = pl.chain  OBVIOUS
<1>6. /\ chain \in Seq({"string"} \X (0 .. ns)) /\ page \in ToSet(chain)
      /\ m.blocks[page] = PAGE_SIZE /\ len \in 0 .. PAGE_SIZE
      /\ \A j \in 1 .. ns : /\ strs[j].block \in ToSet(chain)
                            /\ strs[j].block = page => strs[j].off + strs[j].len <= len
  BY <1>1, <1>3, <1>5 DEF Pooled
<1>7. PAGE_SIZE \in Nat  BY DEF SizesOK
<1>8. page \in DOMAIN m.blocks  BY <1>1, <1>5, <1>6 DEF Owned
<1>9. PICK k \in 0 .. ns : page = <<"string", k>>  BY <1>4, <1>6, ChainIs, ZenonT(30)
<1>10. a = [block |-> page, off |-> len, len |-> s]  BY <1>5 DEF Region
<1>11. page \in AnyBlock  BY <1>9 DEF AnyBlock
<1>12. a \in Regions /\ a.block = page /\ a.off = len /\ a.len = s
  BY <1>6, <1>7, <1>10, <1>11 DEF Regions
<1>13. Fits(m, a)
  <2>1. Mark(m, page) = PAGE_SIZE  BY <1>6 DEF Mark
  <2>2. len + s <= PAGE_SIZE  BY <1>5, <1>6, <1>7
  <2> QED BY <2>1, <2>2, <1>8, <1>12 DEF Fits
<1>14. /\ \A p \in 1 .. Len(vals) : Fits(m, vals[p])
       /\ \A p \in 1 .. Len(strs) : Fits(m, strs[p])
       /\ Fits(m, slots)
       /\ own # Inner => Fits(m, own)
  BY ONLY <1>1, LayoutFits
<1>15. /\ \A p \in 1 .. Len(vals) : vals[p].block = <<"value", p>>
       /\ slots.block = <<"slots", cap>> /\ (own # Inner => own.block = <<"array", n>>)
  BY <1>1 DEF Owned
<1>16. Layout(m, vals, Append(strs, a), slots, own)
  <2>1. \A p \in 1 .. Len(vals) : Clear(m, a, vals[p])
    BY <1>9, <1>12, <1>14, <1>15 DEF Clear, Apart
  <2>2. \A p \in 1 .. Len(strs) : Clear(m, a, strs[p])
    <3> TAKE p \in 1 .. Len(strs)
    <3>1. strs[p].block = page => strs[p].off + strs[p].len <= a.off
      BY <1>3, <1>6, <1>12
    <3>2. Apart(strs[p], a) /\ Apart(a, strs[p])  BY <3>1, <1>12 DEF Apart
    <3> QED BY <3>2, <1>14 DEF Clear
  <2>3. Clear(m, a, slots)  BY <1>9, <1>12, <1>14, <1>15 DEF Clear, Apart
  <2>4. own # Inner => Clear(m, a, own)  BY <1>9, <1>12, <1>14, <1>15 DEF Clear, Apart
  <2> QED BY ONLY <1>1, <1>13, <2>1, <2>2, <2>3, <2>4, LayoutString
<1>17. PICK more : more = Append(strs, a)  OBVIOUS
<1>18. Len(more) = ns + 1 /\ more[ns + 1] = a /\ \A j \in 1 .. ns : more[j] = strs[j]
  BY <1>2, <1>3, <1>12, <1>17
<1>19. Pooled(m, q, more)
  <2>1. q.page = page /\ q.len = len + s /\ q.chain = chain
        /\ q = [page |-> q.page, len |-> q.len, chain |-> q.chain]
    BY <1>5
  <2>2. chain \in Seq({"string"} \X (0 .. ns + 1))
    <3>1. chain \in [1 .. Len(chain) -> {"string"} \X (0 .. ns)]
          /\ Len(chain) \in Nat  BY <1>6
    <3>2. \A z \in {"string"} \X (0 .. ns) : z \in {"string"} \X (0 .. ns + 1)
      BY <1>4
    <3>3. chain \in [1 .. Len(chain) -> {"string"} \X (0 .. ns + 1)]  BY <3>1, <3>2
    <3> QED BY <3>1, <3>3, FunIsSeq
  <2>3. len + s \in 0 .. PAGE_SIZE  BY <1>5, <1>6, <1>7
  <2>4. ASSUME NEW j \in 1 .. ns + 1
        PROVE  /\ more[j].block \in ToSet(chain)
               /\ more[j].block = page => more[j].off + more[j].len <= len + s
    <3>1. CASE j = ns + 1
      <4>1. more[j] = a  BY <3>1, <1>18
      <4>2. a.block = page /\ a.off + a.len = len + s  BY <1>12
      <4>3. len + s <= len + s  BY <1>6, <1>7
      <4> QED BY <4>1, <4>2, <4>3, <1>6
    <3>2. CASE j # ns + 1
      <4>1. j \in 1 .. ns /\ more[j] = strs[j]  BY <3>2, <1>4, <1>18
      <4>2. strs[j].off \in Nat /\ strs[j].len \in Nat
        <5>1. strs[j] \in Regions  BY <4>1, <1>2, <1>3
        <5> QED BY <5>1 DEF Regions
      <4>3. strs[j].block = page => strs[j].off + strs[j].len <= len + s
        <5>1. PICK o, l : o = strs[j].off /\ l = strs[j].len  OBVIOUS
        <5>2. strs[j].block = page => o + l <= len  BY <4>1, <5>1, <1>6
        <5>3. o + l <= len => o + l <= len + s
          <6>1. len \in Nat  BY <1>6, <1>7
          <6>2. o \in Nat /\ l \in Nat  BY <4>2, <5>1
          <6> QED BY ONLY <6>1, <6>2, s \in Nat \ {0}
        <5> QED BY <5>1, <5>2, <5>3
      <4> QED BY <4>1, <4>3, <1>6
    <3> QED BY <3>1, <3>2
  <2> QED BY <1>6, <1>18, <2>1, <2>2, <2>3, <2>4 DEF Pooled
<1>20. Owned(m, vals, slots, cap, own, n, q.chain)  BY <1>1
<1> QED BY <1>1, <1>16, <1>17, <1>19, <1>20 DEF Sound

(* A string for which the pool gets a block: a new page, or one of its own. *)
BlockFor(m, b, s) == _pbcM_malloc(m, b, IF s > PAGE_SIZE THEN s ELSE PAGE_SIZE)

PoolFor(pl, b, s) ==
  [page  |-> IF s > PAGE_SIZE THEN pl.page ELSE b,
   len   |-> IF s > PAGE_SIZE THEN pl.len ELSE s,
   chain |-> Append(pl.chain, b)]

(* The pool gets its block and puts the string at its beginning. *)
LEMMA SoundPage ==
  ASSUME SizesOK, NEW m, NEW vals, NEW strs, NEW slots, NEW cap, NEW own, NEW n,
         NEW pl, Sound(m, vals, strs, slots, cap, own, n, pl), ~HasHeap(m),
         NEW s \in Nat \ {0}, NEW b, b = <<"string", Len(strs) + 1>>,
         NEW got, got = BlockFor(m, b, s), NEW q, q = PoolFor(pl, b, s),
         NEW a, a = Region(b, 0, s)
  PROVE  /\ Sound(got.mem, vals, Append(strs, a), slots, cap, own, n, q)
         /\ ~HasHeap(got.mem) /\ got.at.block = b
<1>1. MemOK(m) /\ Layout(m, vals, strs, slots, own)
      /\ Owned(m, vals, slots, cap, own, n, pl.chain) /\ Pooled(m, pl, strs)
  BY DEF Sound
<1>2. vals \in Seq(Regions) /\ strs \in Seq(Regions)  BY <1>1 DEF Layout
<1>3. PICK ns : ns = Len(strs)  OBVIOUS
<1>4. ns \in Nat  BY <1>2, <1>3
<1>5. PICK chain : chain = pl.chain  OBVIOUS
<1>6. /\ chain \in Seq({"string"} \X (0 .. ns)) /\ pl.page \in ToSet(chain)
      /\ m.blocks[pl.page] = PAGE_SIZE /\ pl.len \in 0 .. PAGE_SIZE
      /\ \A j \in 1 .. ns :
           /\ strs[j].block \in ToSet(chain)
           /\ strs[j].block = pl.page => strs[j].off + strs[j].len <= pl.len
  BY <1>1, <1>3, <1>5 DEF Pooled
<1>7. PAGE_SIZE \in Nat \ {0}  BY DEF SizesOK
<1>8. b = <<"string", ns + 1>> /\ b \in AnyBlock  BY <1>3, <1>4 DEF AnyBlock
<1>9. \A z \in ToSet(chain) : z # b
  <2>1. \A z \in ToSet(chain) : \E j \in 0 .. ns : z = <<"string", j>>
    BY <1>4, <1>6, ChainIs
  <2> QED BY <2>1, <1>4, <1>8
<1>10. \A z \in OwnBlocks(Len(vals), cap, own, n) : z # b
  BY <1>8 DEF OwnBlocks
<1>11. DOMAIN m.blocks = OwnBlocks(Len(vals), cap, own, n) \cup ToSet(chain)
       /\ b \notin DOMAIN m.blocks
  BY <1>1, <1>5, <1>9, <1>10 DEF Owned
<1>12. PICK size : size = IF s > PAGE_SIZE THEN s ELSE PAGE_SIZE  OBVIOUS
<1>13. size \in Nat \ {0} /\ s <= size  BY <1>7, <1>12
<1>14. Allocated(got, m, b, size)
  <2>1. got = _pbcM_malloc(m, b, size)  BY <1>12 DEF BlockFor
  <2> QED BY ONLY <1>1, ~HasHeap(m), <1>8, <1>11, <1>13, <2>1, MallocOK
<1>15. PICK x : x = got.mem  OBVIOUS
<1>16. /\ MemOK(x) /\ ~HasHeap(x) /\ got.at.block = b
       /\ DOMAIN x.blocks = DOMAIN m.blocks \cup {b} /\ x.blocks[b] = size
       /\ \A y \in DOMAIN m.blocks : x.blocks[y] = m.blocks[y]
       /\ \A r : Fits(m, r) => Fits(x, r)
  BY <1>14, <1>15 DEF Allocated
<1>17. a.block = b /\ a.off = 0 /\ a.len = s /\ a \in Regions
  BY <1>8 DEF Region, Regions
<1>18. Fits(x, a)
  <2>1. Mark(x, b) = size  BY <1>16 DEF Mark
  <2>2. a.off + a.len <= size  BY <1>13, <1>17
  <2>3. Mark(x, a.block) = size /\ a.block \in DOMAIN x.blocks  BY <2>1, <1>16, <1>17
  <2> QED BY <2>2, <2>3, <1>17 DEF Fits
<1>19. \A r : Fits(m, r) => Clear(x, a, r)
  <2>1. \A r : Fits(m, r) => r.block # b  BY <1>11 DEF Fits
  <2> QED BY <2>1, <1>16, <1>17 DEF Clear, Apart
<1>20. /\ \A p \in 1 .. Len(vals) : Fits(m, vals[p])
       /\ \A p \in 1 .. Len(strs) : Fits(m, strs[p])
       /\ Fits(m, slots)
       /\ own # Inner => Fits(m, own)
  BY ONLY <1>1, LayoutFits
<1>21. Layout(x, vals, Append(strs, a), slots, own)
  <2>1. \A p \in 1 .. Len(vals) : Clear(x, a, vals[p])  BY <1>19, <1>20
  <2>2. \A p \in 1 .. Len(strs) : Clear(x, a, strs[p])  BY <1>19, <1>20
  <2>3. Clear(x, a, slots) /\ (own # Inner => Clear(x, a, own))  BY <1>19, <1>20
  <2> QED BY ONLY <1>1, <1>18, <2>1, <2>2, <2>3, LayoutString
<1>22. PICK more : more = Append(strs, a)  OBVIOUS
<1>23. Len(more) = ns + 1 /\ more[ns + 1] = a /\ \A j \in 1 .. ns : more[j] = strs[j]
  BY <1>2, <1>3, <1>17, <1>22
<1>24. PICK longer : longer = Append(chain, b)  OBVIOUS
<1>25. longer \in Seq({"string"} \X (0 .. ns + 1)) /\ ToSet(longer) = ToSet(chain) \cup {b}
  <2>1. PICK k : k = Len(chain)  OBVIOUS
  <2>2. k \in Nat /\ chain \in [1 .. k -> {"string"} \X (0 .. ns)]
    BY <1>6, <2>1
  <2>3. \A z \in {"string"} \X (0 .. ns) : z \in {"string"} \X (0 .. ns + 1)
    BY <1>4
  <2>4. chain \in Seq({"string"} \X (0 .. ns + 1))
    <3>1. chain \in [1 .. k -> {"string"} \X (0 .. ns + 1)]  BY <2>2, <2>3
    <3> QED BY <2>2, <3>1, FunIsSeq
  <2>5. b \in {"string"} \X (0 .. ns + 1)  BY <1>4, <1>8
  <2>6. longer \in Seq({"string"} \X (0 .. ns + 1)) /\ Len(longer) = k + 1
        /\ longer[k + 1] = b /\ \A i \in 1 .. k : longer[i] = chain[i]
    BY <2>1, <2>4, <2>5, <1>24
  <2>7. DOMAIN longer = (1 .. k) \cup {k + 1} /\ DOMAIN chain = 1 .. k
    <3>1. DOMAIN longer = 1 .. k + 1 /\ DOMAIN chain = 1 .. k  BY <2>1, <2>4, <2>6
    <3>2. 1 .. k + 1 = (1 .. k) \cup {k + 1}  BY <2>2, OneMore
    <3> QED BY <3>1, <3>2
  <2>8. ToSet(longer) = {longer[i] : i \in DOMAIN longer}
        /\ ToSet(chain) = {chain[i] : i \in DOMAIN chain}
    BY DEF ToSet
  <2>9. ToSet(longer) = ToSet(chain) \cup {b}
    <3>1. ToSet(longer) = {longer[i] : i \in (1 .. k) \cup {k + 1}}  BY <2>7, <2>8
    <3>2. ToSet(chain) = {chain[i] : i \in 1 .. k}  BY <2>7, <2>8
    <3> QED BY <3>1, <3>2, <2>6
  <2> QED BY <2>6, <2>9
<1>26. q.chain = longer /\ q = [page |-> q.page, len |-> q.len, chain |-> q.chain]
       /\ q.page = (IF s > PAGE_SIZE THEN pl.page ELSE b)
       /\ q.len = (IF s > PAGE_SIZE THEN pl.len ELSE s)
  BY <1>5, <1>24 DEF PoolFor
<1>27. Pooled(x, q, more)
  <2>1. q.page \in ToSet(longer) /\ x.blocks[q.page] = PAGE_SIZE /\ q.len \in 0 .. PAGE_SIZE
    BY <1>6, <1>7, <1>11, <1>12, <1>16, <1>25, <1>26
  <2>2. ASSUME NEW j \in 1 .. ns + 1
        PROVE  /\ more[j].block \in ToSet(longer)
               /\ more[j].block = q.page => more[j].off + more[j].len <= q.len
    <3>1. CASE j = ns + 1
      <4>1. more[j] = a /\ a.block = b /\ b \in ToSet(longer)  BY <3>1, <1>17, <1>23, <1>25
      <4>2. s > PAGE_SIZE => q.page # b  BY <1>6, <1>9, <1>26
      <4>3. a.off + a.len <= s  BY <1>17
      <4>4. b = q.page => q.len = s  BY <4>2, <1>26
      <4> QED BY <4>1, <4>3, <4>4
    <3>2. CASE j # ns + 1
      <4>1. j \in 1 .. ns /\ more[j] = strs[j]  BY <3>2, <1>4, <1>23
      <4>2. strs[j].block # b /\ strs[j].block \in ToSet(longer)
        BY <4>1, <1>6, <1>9, <1>25
      <4> QED BY <4>1, <4>2, <1>6, <1>26
    <3> QED BY <3>1, <3>2
  <2> QED BY <1>23, <1>25, <1>26, <2>1, <2>2 DEF Pooled
<1>28. Owned(x, vals, slots, cap, own, n, q.chain)
  <2>1. DOMAIN x.blocks = OwnBlocks(Len(vals), cap, own, n) \cup ToSet(longer)
    BY <1>11, <1>16, <1>25
  <2> QED BY <2>1, <1>1, <1>26 DEF Owned
<1> QED BY <1>15, <1>16, <1>21, <1>22, <1>27, <1>28 DEF Sound

(* A table of nv entries: their pointers are 1 to nv. *)
TableInv(m, nv) ==
  /\ TableOK(m) /\ m.size = nv /\ nv \in 0 .. MaxEntries
  /\ \A q : q \in 1 .. nv <=> \E k \in Keys : Entry(m, k, q)

(* A new table has no entries. *)
LEMMA TableNew ==
  ASSUME SizesOK, NEW n \in Nat \ {0}
  PROVE  TableInv(sp_empty(n), 0)
<1>1. PICK m : m = sp_empty(n)  OBVIOUS
<1>2. TableOK(m) /\ sp_cap(m) = n /\ m.size = 0 /\ Used(m.slot) = {}
  BY <1>1, EmptyOK
<1>3. MaxEntries \in Nat /\ NULL \notin Keys  BY DEF SizesOK
<1>4. \A k \in Keys : \A q : ~Entry(m, k, q)
  BY <1>2, <1>3 DEF Entry, Used, sp_cap
<1>5. 1 .. 0 = {} /\ 0 \in 0 .. MaxEntries  BY <1>3
<1>6. TableInv(m, 0)  BY <1>2, <1>4, <1>5 DEF TableInv
<1> QED BY <1>1, <1>6

(* The next value is entered under a new name. *)
LEMMA TableGrows ==
  ASSUME SizesOK, NEW m, NEW nv, TableInv(m, nv), nv < MaxEntries, NEW key \in Keys,
         NEW x, Adds(x, m, key, nv + 1)
  PROVE  TableInv(x, nv + 1)
<1>1. MaxEntries \in Nat  BY DEF SizesOK
<1>2. nv \in Nat /\ nv + 1 \in 0 .. MaxEntries  BY <1>1 DEF TableInv
<1>3. TableOK(x) /\ x.size = nv + 1
  BY DEF Adds, TableInv
<1>4. \A k \in Keys : \A q : Entry(x, k, q) <=> Entry(m, k, q) \/ (k = key /\ q = nv + 1)
  BY DEF Adds
<1>5. \A q : q \in 1 .. nv <=> \E k \in Keys : Entry(m, k, q)  BY DEF TableInv
<1>6. \A q : q \in 1 .. nv + 1 <=> q \in 1 .. nv \/ q = nv + 1  BY <1>2
<1>7. \A q : q \in 1 .. nv + 1 <=> \E k \in Keys : Entry(x, k, q)
  <2> TAKE q
  <2>1. (\E k \in Keys : Entry(x, k, q)) <=> (\E k \in Keys : Entry(m, k, q)) \/ q = nv + 1
    BY <1>4
  <2> QED BY <2>1, <1>5, <1>6
<1> QED BY <1>2, <1>3, <1>7 DEF TableInv

(* Every entry has its value. *)
LEMMA TablePointed ==
  ASSUME SizesOK, NEW m, NEW nv, TableInv(m, nv)
  PROVE  Pointed(m)
<1>1. NULL \notin 1 .. MaxEntries /\ MaxEntries \in Nat  BY DEF SizesOK
<1>2. nv \in 0 .. MaxEntries /\ SlotsOK(m.slot)  BY DEF TableInv, TableOK
<1>3. ASSUME NEW i \in 1 .. sp_cap(m), m.slot[i].key # NULL
      PROVE  m.slot[i].pointer # NULL
  <2>1. m.slot[i].key \in Keys  BY <1>2, <1>3, SlotTypes DEF Names, sp_cap
  <2>2. PICK k, q : k = m.slot[i].key /\ q = m.slot[i].pointer  OBVIOUS
  <2>3. Entry(m, k, q)  BY <2>2 DEF Entry
  <2>4. q \in 1 .. nv  BY <2>1, <2>2, <2>3 DEF TableInv
  <2>5. q \in 1 .. MaxEntries  BY <2>4, <1>1, <1>2
  <2> QED BY <2>2, <2>5, <1>1
<1> QED BY <1>3 DEF Pointed

(* foreach meets every value. *)
LEMMA TableMet ==
  ASSUME SizesOK, NEW m, NEW nv, TableInv(m, nv)
  PROVE  1 .. nv \subseteq Met(m)
<1>1. TableOK(m) /\ Pointed(m)  BY TablePointed DEF TableInv
<1>2. PICK s : s = sp_foreach(m)  OBVIOUS
<1>3. Met0(s, m, sp_cap(m))
  BY ONLY <1>1, <1>2, ForeachOK
<1>4. s \in Seq(Pointers) /\ Len(s) = m.size
  BY <1>1, <1>3, CountOK DEF Met0
<1>5. ASSUME NEW q \in 1 .. nv
      PROVE  q \in Met(m)
  <2>1. PICK k \in Keys : Entry(m, k, q)  BY DEF TableInv
  <2>2. PICK j \in 1 .. sp_cap(m) : m.slot[j].key = k /\ m.slot[j].pointer = q
    BY <2>1 DEF Entry
  <2>3. j \in Used(m.slot)  BY <2>2 DEF Used, sp_cap, SizesOK
  <2>4. Count(m, j) \in 1 .. m.size  BY <1>1, <2>3, NthIs
  <2>5. sp_cap(m) \in Nat  BY <1>1, CountOK
  <2>6. s[Count(m, j)] = q  BY <1>3, <2>2, <2>3, <2>5 DEF Met0
  <2>7. PICK c : c = Count(m, j)  OBVIOUS
  <2>8. c \in DOMAIN s /\ s[c] = q  BY <1>4, <2>4, <2>6, <2>7
  <2>9. q \in ToSet(s)  BY <2>8 DEF ToSet
  <2> QED BY <2>9, <1>2 DEF Met
<1> QED BY <1>5

-----------------------------------------------------------------------------
(* An array that has outgrown itself has cells for a power of two: more     *)
(* than its entries, and at most twice as many.                             *)
ArrayInv(a) ==
  /\ a = [number |-> a.number, cells |-> a.cells, at |-> a.at]
  /\ a.number \in 0 .. MaxPushed
  /\ a.cells \in Seq(Values \cup {NULL})
  /\ a.at = Inner <=> a.number <= INNER_FIELD
  /\ a.number <= INNER_FIELD => Len(a.cells) = INNER_FIELD
  /\ a.number > INNER_FIELD =>
       /\ a.number < Len(a.cells)
       /\ Len(a.cells) <= 2 * a.number
       /\ Doubled(1, Len(a.cells)) = Len(a.cells)

(* A new array has its inner storage. *)
LEMMA ArrayNew == SizesOK => ArrayInv(_pbcA_open)
<1> SUFFICES ASSUME SizesOK PROVE ArrayInv(_pbcA_open)
  OBVIOUS
<1>1. PICK n : n = INNER_FIELD  OBVIOUS
<1>2. n \in Nat /\ MaxPushed \in Nat  BY <1>1 DEF SizesOK
<1>3. PICK g : g = Garbage(n)  OBVIOUS
<1>4. g \in [1 .. n -> Values \cup {NULL}]  BY <1>3 DEF Garbage
<1>5. g \in Seq(Values \cup {NULL}) /\ Len(g) = n  BY <1>2, <1>4, FunIsSeq
<1>6. PICK a : a = _pbcA_open  OBVIOUS
<1>7. a = [number |-> 0, cells |-> g, at |-> Inner]  BY <1>1, <1>3, <1>6 DEF _pbcA_open
<1>8. a.number = 0 /\ a.cells = g /\ a.at = Inner  BY <1>7
<1>9. ArrayInv(a)
  BY <1>1, <1>2, <1>5, <1>7, <1>8 DEF ArrayInv
<1> QED BY <1>6, <1>9

(* The capacity that an array of n entries in c cells gets for one more; c  *)
(* when it has room.                                                        *)
Wanted(n) == IF n = INNER_FIELD THEN Doubled(1, n + 2) ELSE (n + 1) * 2

Full(n) == n = INNER_FIELD \/ (n > INNER_FIELD /\ Grows(n))

(* The capacity wanted has room for the next entry, and is a power of two. *)
LEMMA WantedIs ==
  ASSUME SizesOK, NEW a, ArrayInv(a), Full(a.number)
  PROVE  /\ Wanted(a.number) \in Nat \ {0}
         /\ a.number + 1 < Wanted(a.number) /\ Wanted(a.number) <= 2 * (a.number + 1)
         /\ Doubled(1, Wanted(a.number)) = Wanted(a.number)
         /\ a.at # Inner => Wanted(a.number) # Len(a.cells)
         /\ a.number <= Len(a.cells)
<1>1. PICK n, c : n = a.number /\ c = Len(a.cells)  OBVIOUS
<1>2. INNER_FIELD \in Nat \ {0} /\ MaxPushed \in Nat  BY DEF SizesOK
<1>3. n \in Nat /\ c \in Nat  BY <1>1, <1>2 DEF ArrayInv
<1>4. CASE n = INNER_FIELD
  <2>0. PICK w : w = n + 2  OBVIOUS
  <2>1. PICK d : d = Doubled(1, w)  OBVIOUS
  <2>2. w \in Nat /\ 1 \in Nat \ {0}  BY <1>3, <2>0
  <2>3. DoubledIs(1, w)  BY <2>2, DoubledFacts
  <2>31. d \in Nat /\ d >= 1 /\ d >= w /\ Doubled(1, d) = d
         /\ (1 <= 2 * (w - 1) => d <= 2 * (w - 1))
    BY <2>1, <2>3 DEF DoubledIs
  <2>4. d \in Nat /\ d >= n + 2 /\ Doubled(1, d) = d /\ d <= 2 * (n + 1)
    BY <2>31, <2>0, <1>3
  <2>5. a.at = Inner /\ c = n  BY <1>1, <1>2, <1>3, <1>4 DEF ArrayInv
  <2>6. Wanted(n) = d  BY <1>4, <2>0, <2>1 DEF Wanted
  <2>7. d \in Nat \ {0} /\ n + 1 < d /\ d <= 2 * (n + 1) /\ n <= c
    BY <2>4, <2>5, <1>3
  <2> QED BY <2>4, <2>5, <2>6, <2>7, <1>1
<1>5. CASE n # INNER_FIELD
  <2>1. n > INNER_FIELD /\ Doubled(1, n + 1) = n + 1
    BY <1>1, <1>5 DEF Full, Grows
  <2>2. n < c /\ c <= 2 * n /\ Doubled(1, c) = c
    BY <1>1, <2>1 DEF ArrayInv
  <2>3. n + 1 \in Nat /\ 1 \in Nat \ {0}  BY <1>3
  <2>4. c = n + 1
    <3>1. DoubledIs(1, c)  BY <1>3, <2>3, DoubledFacts
    <3>2. \A v \in Nat : v < c /\ Doubled(1, v) = v => 2 * v <= c
      BY <2>2, <3>1 DEF DoubledIs
    <3>3. ~(n + 1 < c)  BY <3>2, <2>1, <2>2, <2>3, <1>3
    <3> QED BY <3>3, <2>2, <1>3
  <2>5. DoubledIs(1, n + 1)  BY <2>3, DoubledFacts
  <2>6. Doubled(1, 2 * (n + 1)) = 2 * (n + 1)  BY <2>1, <2>5 DEF DoubledIs
  <2>7. Wanted(n) = 2 * (n + 1)  BY <1>3, <1>5 DEF Wanted
  <2>8. 2 * (n + 1) \in Nat \ {0} /\ n + 1 < 2 * (n + 1) /\ 2 * (n + 1) # c /\ n <= c
    BY <1>3, <2>4
  <2> QED BY <1>1, <2>6, <2>7, <2>8
<1> QED BY <1>4, <1>5

(* The array moves to the region got for it, of c cells. *)
Moved(r, a, m, c, got) ==
  /\ r.mem = Moving(m, got, a.at)
  /\ r.array = [number |-> a.number, cells |-> Copied(a.cells, a.number, c),
                at |-> got.at]

(* Room in an array that is full. *)
LEMMA RoomMoves ==
  ASSUME NEW a, NEW m, Full(a.number)
  PROVE  Moved(Room(a, m), a, m, Wanted(a.number), CellsGot(m, Wanted(a.number)))
<1>1. PICK c : c = Wanted(a.number)  OBVIOUS
<1>2. PICK got : got = CellsGot(m, c)  OBVIOUS
<1>3. got = HMALLOC(m, <<"array", c>>, c * VarSize)  BY <1>2 DEF CellsGot
<1>4. PICK x : x = [mem |-> IF HasHeap(m) \/ a.at = Inner THEN got.mem
                           ELSE _pbcM_free(got.mem, {a.at.block}),
                   array |-> [number |-> a.number, cells |-> Copied(a.cells, a.number, c),
                              at |-> got.at]]
  OBVIOUS
<1>5. Room(a, m) = x
  <2>1. CASE a.number = INNER_FIELD
    <3>1. c = Doubled(1, a.number + 2)  BY <1>1, <2>1 DEF Wanted
    <3> QED BY <1>3, <1>4, <2>1, <3>1 DEF Room
  <2>2. CASE a.number # INNER_FIELD
    <3>1. c = (a.number + 1) * 2  BY <1>1, <2>2 DEF Wanted
    <3>2. a.number > INNER_FIELD /\ Grows(a.number)  BY <2>2 DEF Full
    <3> QED BY <1>3, <1>4, <2>2, <3>1, <3>2 DEF Room
  <2> QED BY <2>1, <2>2
<1>6. Moved(x, a, m, c, got)  BY <1>4 DEF Moved, Moving
<1> QED BY <1>1, <1>2, <1>5, <1>6

(* Room in one that is not. *)
LEMMA RoomKeeps ==
  ASSUME NEW a, NEW m, ~Full(a.number), NEW r, r = Room(a, m)
  PROVE  r.mem = m /\ r.array = a
<1>1. r = [mem |-> m, array |-> a]  BY DEF Room, Full
<1> QED BY <1>1

(* What an array of n entries is written into: cells for n + 1 at least.    *)
CellsFor(a, n, b, k) ==
  /\ k \in Seq(Values \cup {NULL}) /\ n \in Nat /\ n + 1 <= Len(k)
  /\ \A i \in 1 .. n : k[i] = a.cells[i]
  /\ n <= Len(a.cells)
  /\ Full(n) => Len(k) = Wanted(n)
  /\ ~Full(n) => b = a

(* After Room there is a cell for the next entry, and the others are kept. *)
LEMMA RoomCells ==
  ASSUME SizesOK, NEW a, ArrayInv(a), NEW m, NEW r, r = Room(a, m)
  PROVE  CellsFor(a, a.number, r.array, r.array.cells)
<1>0. PICK n, k : n = a.number /\ k = r.array.cells  OBVIOUS
<1>1. INNER_FIELD \in Nat \ {0} /\ MaxPushed \in Nat  BY DEF SizesOK
<1>2. n \in Nat /\ a.cells \in Seq(Values \cup {NULL})  BY <1>0, <1>1 DEF ArrayInv
<1>3. CASE Full(n)
  <2>1. PICK c : c = Wanted(n)  OBVIOUS
  <2>2. c \in Nat \ {0} /\ n + 1 < c /\ n <= Len(a.cells)
    BY <1>0, <1>3, <2>1, WantedIs
  <2>3. PICK got : got = CellsGot(m, c)  OBVIOUS
  <2>4. r.array = [number |-> n, cells |-> Copied(a.cells, n, c), at |-> got.at]
    <3>1. Full(a.number) /\ c = Wanted(a.number)  BY <1>0, <1>3, <2>1
    <3>2. r.array = [number |-> a.number, cells |-> Copied(a.cells, a.number, c), at |-> got.at]
      BY <3>1, <2>3, RoomMoves DEF Moved
    <3> QED BY <3>2, <1>0
  <2>5. k = Copied(a.cells, n, c)  BY <2>4, <1>0
  <2>6. k = [i \in 1 .. c |-> IF i <= n THEN a.cells[i] ELSE NULL]
    BY <2>5 DEF Copied
  <2>7. \A i \in 1 .. n : i \in 1 .. c /\ a.cells[i] \in Values \cup {NULL}
    BY <1>2, <2>2
  <2>8. \A i \in 1 .. c : i <= n => i \in 1 .. n  BY <1>2, <2>2
  <2>9. k \in [1 .. c -> Values \cup {NULL}]  BY <2>6, <2>7, <2>8
  <2>10. k \in Seq(Values \cup {NULL}) /\ Len(k) = c  BY <2>2, <2>9, FunIsSeq
  <2>11. \A i \in 1 .. n : k[i] = a.cells[i]  BY <2>6, <2>7
  <2> QED BY <1>0, <1>2, <1>3, <2>1, <2>2, <2>10, <2>11 DEF CellsFor
<1>4. CASE ~Full(n)
  <2>1. r.array = a  BY <1>0, <1>4, RoomKeeps
  <2>2. k = a.cells  BY <1>0, <2>1
  <2>3. n + 1 <= Len(k)
    <3>1. PICK c : c = Len(k)  OBVIOUS
    <3>2. c \in Nat  BY <1>2, <2>2, <3>1
    <3>3. n # INNER_FIELD  BY <1>4 DEF Full
    <3>4. CASE n < INNER_FIELD  BY <1>0, <3>1, <3>4, <2>2, <1>1, <1>2 DEF ArrayInv
    <3>5. CASE n > INNER_FIELD  BY <1>0, <3>1, <3>2, <3>5, <2>2, <1>1, <1>2 DEF ArrayInv
    <3> QED BY <3>3, <3>4, <3>5, <1>1, <1>2
  <2>4. n <= Len(k)  BY <2>2, <2>3, <1>2
  <2> QED BY <1>0, <1>2, <1>4, <2>1, <2>2, <2>3, <2>4 DEF CellsFor
<1> QED BY <1>3, <1>4

Pushed(r, a, v) ==
  [number |-> a.number + 1, cells |-> [r.array.cells EXCEPT ![a.number + 1] = v],
   at |-> r.array.at]

Extends(x, a, b, v) ==
  /\ ArrayInv(x) /\ x.at = b.at /\ Len(x.cells) = Len(b.cells)
  /\ SubSeq(x.cells, 1, x.number) = Append(SubSeq(a.cells, 1, a.number), v)

(* The entry is written behind the others. *)
LEMMA PushedOK ==
  ASSUME SizesOK, NEW a, ArrayInv(a), a.number < MaxPushed, NEW v \in Values,
         NEW m, NEW r, r = Room(a, m), Full(a.number) => r.array.at # Inner
  PROVE  Extends(Pushed(r, a, v), a, r.array, v)
<1>0. PICK x : x = Pushed(r, a, v)  OBVIOUS
<1>1. INNER_FIELD \in Nat \ {0} /\ MaxPushed \in Nat  BY DEF SizesOK
<1>2. PICK n, k : n = a.number /\ k = r.array.cells  OBVIOUS
<1>3. /\ k \in Seq(Values \cup {NULL}) /\ n \in Nat /\ n + 1 <= Len(k)
      /\ \A i \in 1 .. n : k[i] = a.cells[i]
      /\ n <= Len(a.cells)
      /\ Full(n) => Len(k) = Wanted(n)
      /\ ~Full(n) => r.array = a
  <2>1. CellsFor(a, a.number, r.array, r.array.cells)
    BY ONLY SizesOK, ArrayInv(a), r = Room(a, m), RoomCells
  <2> QED BY <2>1, <1>2 DEF CellsFor
<1>4. PICK c : c = Len(k)  OBVIOUS
<1>5. c \in Nat /\ k \in [1 .. c -> Values \cup {NULL}]  BY <1>3, <1>4
<1>6. PICK j : j = [k EXCEPT ![n + 1] = v]  OBVIOUS
<1>7. j \in [1 .. c -> Values \cup {NULL}] /\ j[n + 1] = v
      /\ \A i \in 1 .. n : j[i] = k[i]
  <2>1. n + 1 \in 1 .. c  BY <1>3, <1>4, <1>5
  <2>2. \A i \in 1 .. n : i \in 1 .. c /\ i # n + 1  BY <2>1, <1>3, <1>5
  <2> QED BY <1>5, <1>6, <2>1, <2>2
<1>8. j \in Seq(Values \cup {NULL}) /\ Len(j) = c  BY <1>5, <1>7, FunIsSeq
<1>9. x = [number |-> n + 1, cells |-> j, at |-> r.array.at]
  BY <1>0, <1>2, <1>6 DEF Pushed
<1>10. x.number = n + 1 /\ x.cells = j /\ x.at = r.array.at
       /\ x = [number |-> x.number, cells |-> x.cells, at |-> x.at]
  BY <1>9
<1>11. n + 1 \in 0 .. MaxPushed  BY <1>1, <1>2, <1>3
<1>14. ArrayInv(x)
  <2>12. CASE Full(n)
    <3>1. n >= INNER_FIELD  BY <1>1, <1>3, <2>12 DEF Full
    <3>2. PICK w : w = Wanted(n)  OBVIOUS
    <3>3. w \in Nat /\ n + 1 < w /\ w <= 2 * (n + 1) /\ Doubled(1, w) = w
      BY <1>2, <2>12, <3>2, WantedIs
    <3>4. c = w  BY <1>3, <1>4, <2>12, <3>2
    <3>5. x.at # Inner  BY <1>2, <1>10, <2>12
    <3>6. n + 1 > INNER_FIELD  BY <1>1, <1>3, <3>1
    <3>7. ~(n + 1 <= INNER_FIELD)  BY <1>1, <1>3, <3>6
    <3> QED BY <1>8, <1>10, <1>11, <3>3, <3>4, <3>5, <3>6, <3>7 DEF ArrayInv
  <2>13. CASE ~Full(n)
    <3>1. k = a.cells /\ x.at = a.at  BY <1>2, <1>3, <1>10, <2>13
    <3>2. n # INNER_FIELD  BY <2>13 DEF Full
    <3>3. CASE n < INNER_FIELD
      <4>1. n + 1 <= INNER_FIELD /\ ~(n + 1 > INNER_FIELD) /\ n <= INNER_FIELD
        BY <3>3, <1>1, <1>3
      <4>2. a.at = Inner /\ c = INNER_FIELD  BY <4>1, <3>1, <1>2, <1>4 DEF ArrayInv
      <4> QED BY <4>1, <4>2, <3>1, <1>8, <1>10, <1>11 DEF ArrayInv
    <3>4. CASE n > INNER_FIELD
      <4>1. n + 1 > INNER_FIELD /\ ~(n + 1 <= INNER_FIELD) /\ ~(n <= INNER_FIELD)
        BY <3>4, <1>1, <1>3
      <4>2. a.at # Inner /\ n < c /\ c <= 2 * n /\ Doubled(1, c) = c
        BY <4>1, <3>1, <3>4, <1>2, <1>4 DEF ArrayInv
      <4>3. c # n + 1
        <5>1. Doubled(1, n + 1) # n + 1  BY <3>4, <2>13 DEF Full, Grows
        <5> QED BY <5>1, <4>2
      <4>4. n + 1 < c /\ c <= 2 * (n + 1)  BY <4>2, <4>3, <1>3, <1>5
      <4> QED BY <4>1, <4>2, <4>4, <3>1, <1>8, <1>10, <1>11 DEF ArrayInv
    <3> QED BY <3>2, <3>3, <3>4, <1>1, <1>3
  <2> QED BY <2>12, <2>13
<1>15. SubSeq(j, 1, n + 1) = Append(SubSeq(a.cells, 1, n), v)
  <2>1. a.cells \in Seq(Values \cup {NULL})  BY DEF ArrayInv
  <2>2. PICK s, t : s = SubSeq(j, 1, n + 1) /\ t = SubSeq(a.cells, 1, n)  OBVIOUS
  <2>3. s \in Seq(Values \cup {NULL}) /\ Len(s) = n + 1 /\ \A i \in 1 .. n + 1 : s[i] = j[i]
    BY <1>3, <1>4, <1>8, <2>2, SMTT(20)
  <2>4. t \in Seq(Values \cup {NULL}) /\ Len(t) = n /\ \A i \in 1 .. n : t[i] = a.cells[i]
    BY <1>3, <2>1, <2>2
  <2>5. PICK u : u = Append(t, v)  OBVIOUS
  <2>6. u \in Seq(Values \cup {NULL}) /\ Len(u) = n + 1 /\ u[n + 1] = v
        /\ \A i \in 1 .. n : u[i] = t[i]
    BY <2>4, <2>5
  <2>7. \A i \in 1 .. n + 1 : s[i] = u[i]
    <3> TAKE i \in 1 .. n + 1
    <3>1. CASE i = n + 1  BY <3>1, <2>3, <2>6, <1>7
    <3>2. CASE i # n + 1
      <4>1. i \in 1 .. n  BY <3>2, <1>3
      <4>2. s[i] = j[i] /\ u[i] = a.cells[i]  BY <4>1, <2>3, <2>4, <2>6, <1>3
      <4>3. j[i] = a.cells[i]  BY <4>1, <1>3, <1>7
      <4> QED BY <4>2, <4>3
    <3> QED BY <3>1, <3>2
  <2>8. s = u  BY <2>3, <2>6, <2>7, SeqEqual
  <2> QED BY <2>2, <2>5, <2>8
<1> QED BY <1>0, <1>2, <1>4, <1>8, <1>10, <1>14, <1>15 DEF Extends

(* The memory holds what the variables say. *)
MemInv ==
  Sound(mem, values, strings, map.at, sp_cap(Entries), array.at, Len(array.cells), pool)

(* The inductive invariant. *)
StoreInv ==
  /\ map = [size |-> map.size, slot |-> map.slot, at |-> map.at]
  /\ TableInv(Entries, Len(values)) /\ ArrayInv(array)
  /\ values \in Seq(Regions) /\ strings \in Seq(Regions)
  /\ life \in {"open", "closed"}
  /\ life = "open" => MemInv
  /\ life = "closed" => DOMAIN mem.blocks = {}

(* The table and its slots in the next state. *)
LEMMA EntriesAre ==
  ASSUME NEW x, x = [size |-> x.size, slot |-> x.slot], NEW at,
         map' = [size |-> x.size, slot |-> x.slot, at |-> at]
  PROVE  /\ Entries' = x /\ map'.at = at
         /\ map' = [size |-> map'.size, slot |-> map'.slot, at |-> map'.at]
BY DEF Entries

(* WithSlots, for a table t with its slots in the region `slots`. *)
SlotsFor(m, slots, t, y) ==
  IF sp_cap(y) = sp_cap(t) THEN [mem |-> m, at |-> slots]
  ELSE LET got == HMALLOC(m, SlotsOf(y), SlotBytes(y))
       IN [got EXCEPT !.mem = IF HasHeap(m) THEN @
                              ELSE _pbcM_free(@, {slots.block})]

(* The slots of a table that gets an entry: the same, or new ones. *)
LEMMA SlotsStep ==
  ASSUME SizesOK, NEW m, NEW vals, NEW strs, NEW slots, NEW t, NEW own, NEW n, NEW pl,
         Sound(m, vals, strs, slots, sp_cap(t), own, n, pl),
         NEW k, NEW p, NEW x, TableOK(t), Adds(x, t, k, p), NEW y, sp_cap(y) = sp_cap(x),
         NEW s, s = SlotsFor(m, slots, t, y)
  PROVE  Sound(s.mem, vals, strs, s.at, sp_cap(x), own, n, pl)
         /\ (HasHeap(s.mem) <=> HasHeap(m))
<1>1. sp_cap(t) \in Nat \ {0}  BY CountOK
<1>2. CASE sp_cap(y) = sp_cap(t)
  BY <1>2 DEF SlotsFor
<1>3. CASE sp_cap(y) # sp_cap(t)
  <2>1. PICK c : c = sp_cap(x)  OBVIOUS
  <2>2. c \in Nat \ {0} /\ c # sp_cap(t)
    BY <1>1, <1>3, <2>1 DEF Adds
  <2>3. PICK got : got = SlotsGot(m, c)  OBVIOUS
  <2>4. got = HMALLOC(m, SlotsOf(y), SlotBytes(y))
    BY <2>1, <2>3 DEF SlotsOf, SlotBytes, SlotsGot
  <2>5. PICK z : z = Rehoused(m, got, slots)  OBVIOUS
  <2>6. Sound(z, vals, strs, got.at, c, own, n, pl) /\ (HasHeap(z) <=> HasHeap(m))
    BY ONLY SizesOK, Sound(m, vals, strs, slots, sp_cap(t), own, n, pl),
            <2>2, <2>3, <2>5, SoundSlots
  <2>7. got = [mem |-> got.mem, at |-> got.at]
    BY <2>4 DEF HMALLOC, _pbcH_alloc, _pbcM_malloc
  <2>8. s = [got EXCEPT !.mem = IF HasHeap(m) THEN @ ELSE _pbcM_free(@, {slots.block})]
    BY <1>3, <2>4 DEF SlotsFor
  <2>9. s.mem = z /\ s.at = got.at
    <3>1. s = [mem |-> z, at |-> got.at]  BY <2>5, <2>7, <2>8 DEF Rehoused
    <3> QED BY <3>1
  <2> QED BY <2>1, <2>6, <2>9
<1> QED BY <1>2, <1>3

(* The table gets one entry for k that it had not. *)
Enters(x, t, k) ==
  /\ TableOK(t) /\ ~Has(t, k)
  /\ \E p \in Pointers : Adds(x, t, k, p)

(* _pbcM_sp_insert keeps the invariant and enters the name. *)
LEMMA InsertStep ==
  ASSUME SizesOK, StoreInv, NEW k \in Keys, Insert(k)
  PROVE  StoreInv' /\ Enters(Entries', Entries, k)
<1>1. PICK t, nv : t = Entries /\ nv = Len(values)  OBVIOUS
<1>2. PICK x : x = sp_insert(t, k, nv + 1)  OBVIOUS
<1>3. PICK value : value = HMALLOC(mem, <<"value", Len(values) + 1>>, ValueSize)
  OBVIOUS
<1>4. PICK m : m = value.mem  OBVIOUS
<1>5. PICK s : s = WithSlots(m, x)  OBVIOUS
<1>6. /\ life = "open" /\ Closed(k) /\ map.size < MaxEntries
      /\ Entered(x, s.mem, s.at, value.at)
      /\ UNCHANGED <<array, pool, strings, life>>
  BY <1>1, <1>2, <1>3, <1>4, <1>5 DEF Insert, NextValue
<1>7. TableInv(t, nv) /\ nv < MaxEntries /\ values \in Seq(Regions) /\ TableOK(t)
  BY <1>1, <1>6 DEF StoreInv, TableInv, Entries
<1>8. nv \in Nat /\ nv + 1 \in Pointers
  <2>1. MaxEntries \in Nat  BY DEF SizesOK
  <2>2. nv \in 0 .. MaxEntries  BY <1>7 DEF TableInv
  <2> QED BY <1>7, <2>1, <2>2 DEF Pointers
<1>9. ~Has(t, k)  BY <1>1, <1>6, <1>7, LookOK DEF Closed
<1>10. Adds(x, t, k, nv + 1) /\ x = [size |-> x.size, slot |-> x.slot]
  BY <1>2, <1>7, <1>8, <1>9, InsertOK, InsertRecord
<1>11. TableInv(x, nv + 1)
  BY ONLY SizesOK, <1>7, <1>10, k \in Keys, TableGrows
<1>12. PICK vals : vals = Append(values, value.at)  OBVIOUS
<1>13. Sound(mem, values, strings, map.at, sp_cap(t), array.at, Len(array.cells), pool)
  BY <1>1, <1>6 DEF StoreInv, MemInv
<1>14. Sound(m, vals, strings, map.at, sp_cap(t), array.at, Len(array.cells), pool)
  <2>1. Sound(value.mem, Append(values, value.at), strings, map.at, sp_cap(t),
              array.at, Len(array.cells), pool)
    BY ONLY SizesOK, <1>3, <1>13, SoundValue
  <2> QED BY <2>1, <1>4, <1>12
<1>15. Sound(s.mem, vals, strings, s.at, sp_cap(x), array.at, Len(array.cells), pool)
  <2>1. s = SlotsFor(m, map.at, t, x)  BY <1>1, <1>5 DEF WithSlots, SlotsFor
  <2> QED BY ONLY SizesOK, <1>7, <1>10, <1>14, <2>1, SlotsStep
<1>16. /\ map' = [size |-> x.size, slot |-> x.slot, at |-> s.at]
       /\ values' = vals /\ mem' = s.mem
  BY <1>6, <1>12 DEF Entered
<1>17. /\ Entries' = x /\ map'.at = s.at
       /\ map' = [size |-> map'.size, slot |-> map'.slot, at |-> map'.at]
  BY ONLY <1>10, <1>16, EntriesAre
<1>18. vals \in Seq(Regions) /\ strings \in Seq(Regions)
  BY <1>15 DEF Sound, Layout
<1>19. Len(vals) = nv + 1
  <2>1. value.at \in Regions
    <3>1. \A i \in 1 .. Len(vals) : vals[i] \in Regions  BY <1>18
    <3>2. vals[nv + 1] = value.at /\ Len(vals) = nv + 1  BY <1>1, <1>7, <1>12
    <3> QED BY <3>1, <3>2, <1>8
  <2> QED BY <2>1, <1>1, <1>7, <1>12
<1>20. sp_cap(Entries)' = sp_cap(x)  BY <1>17 DEF sp_cap
<1>21. StoreInv'
  BY <1>6, <1>11, <1>15, <1>16, <1>17, <1>18, <1>19, <1>20 DEF StoreInv, MemInv
<1>22. Enters(x, t, k)  BY <1>7, <1>8, <1>9, <1>10 DEF Enters
<1> QED BY <1>1, <1>17, <1>21, <1>22

(* So does _pbcM_sp_query_insert. *)
LEMMA QueryInsertStep ==
  ASSUME SizesOK, StoreInv, NEW k \in Keys, QueryInsert(k)
  PROVE  StoreInv' /\ Enters(Entries', Entries, k)
<1>1. PICK t, nv : t = Entries /\ nv = Len(values)  OBVIOUS
<1>2. PICK y : y = sp_query_insert(t, k)  OBVIOUS
<1>3. PICK x : x = sp_write(y, k, nv + 1)  OBVIOUS
<1>4. PICK s : s = WithSlots(mem, y)  OBVIOUS
<1>5. PICK value : value = HMALLOC(s.mem, <<"value", Len(values) + 1>>, ValueSize)
  OBVIOUS
<1>6. /\ life = "open" /\ Closed(k) /\ map.size < MaxEntries
      /\ Entered(x, value.mem, s.at, value.at)
      /\ UNCHANGED <<array, pool, strings, life>>
  BY <1>1, <1>2, <1>3, <1>4, <1>5 DEF QueryInsert, NextValue
<1>7. TableInv(t, nv) /\ nv < MaxEntries /\ values \in Seq(Regions) /\ TableOK(t)
  BY <1>1, <1>6 DEF StoreInv, TableInv, Entries
<1>8. nv \in Nat /\ nv + 1 \in Pointers
  <2>1. MaxEntries \in Nat  BY DEF SizesOK
  <2>2. nv \in 0 .. MaxEntries  BY <1>7 DEF TableInv
  <2> QED BY <1>7, <2>1, <2>2 DEF Pointers
<1>9. ~Has(t, k)  BY <1>1, <1>6, <1>7, LookOK DEF Closed
<1>10. Adds(x, t, k, nv + 1) /\ sp_cap(y) = sp_cap(x)
       /\ x = [size |-> x.size, slot |-> x.slot]
  BY ONLY SizesOK, <1>2, <1>3, <1>7, <1>8, <1>9, k \in Keys, QueryInsertOK
<1>11. TableInv(x, nv + 1)
  BY ONLY SizesOK, <1>7, <1>10, k \in Keys, TableGrows
<1>12. PICK vals : vals = Append(values, value.at)  OBVIOUS
<1>13. Sound(mem, values, strings, map.at, sp_cap(t), array.at, Len(array.cells), pool)
  BY <1>1, <1>6 DEF StoreInv, MemInv
<1>14. Sound(s.mem, values, strings, s.at, sp_cap(x), array.at, Len(array.cells), pool)
  <2>1. s = SlotsFor(mem, map.at, t, y)  BY <1>1, <1>4 DEF WithSlots, SlotsFor
  <2> QED BY ONLY SizesOK, <1>7, <1>10, <1>13, <2>1, SlotsStep
<1>15. Sound(value.mem, vals, strings, s.at, sp_cap(x), array.at, Len(array.cells), pool)
  <2>1. Sound(value.mem, Append(values, value.at), strings, s.at, sp_cap(x),
              array.at, Len(array.cells), pool)
    BY ONLY SizesOK, <1>5, <1>14, SoundValue
  <2> QED BY <2>1, <1>12
<1>16. /\ map' = [size |-> x.size, slot |-> x.slot, at |-> s.at]
       /\ values' = vals /\ mem' = value.mem
  BY <1>6, <1>12 DEF Entered
<1>17. /\ Entries' = x /\ map'.at = s.at
       /\ map' = [size |-> map'.size, slot |-> map'.slot, at |-> map'.at]
  BY ONLY <1>10, <1>16, EntriesAre
<1>18. vals \in Seq(Regions) /\ strings \in Seq(Regions)
  BY <1>15 DEF Sound, Layout
<1>19. Len(vals) = nv + 1
  BY <1>1, <1>7, <1>12
<1>20. sp_cap(Entries)' = sp_cap(x)  BY <1>17 DEF sp_cap
<1>21. StoreInv'
  BY <1>6, <1>11, <1>15, <1>16, <1>17, <1>18, <1>19, <1>20 DEF StoreInv, MemInv
<1>22. Enters(x, t, k)  BY <1>7, <1>8, <1>9, <1>10 DEF Enters
<1> QED BY <1>1, <1>17, <1>21, <1>22

(* _pbcA_push keeps the invariant and adds its entry at the end. *)
LEMMA PushStep ==
  ASSUME SizesOK, StoreInv, NEW v \in Values, Push(v)
  PROVE  StoreInv' /\ SubSeq(array'.cells, 1, array'.number)
                        = Append(SubSeq(array.cells, 1, array.number), v)
<1>1. PICK r : r = Room(array, mem)  OBVIOUS
<1>2. PICK a : a = array  OBVIOUS
<1>3. PICK x : x = Pushed(r, a, v)  OBVIOUS
<1>4. /\ life = "open" /\ a.number < MaxPushed /\ mem' = r.mem /\ array' = x
      /\ UNCHANGED <<map, values, pool, strings, life>>
  BY <1>1, <1>2, <1>3 DEF Push, Pushed
<1>5. ArrayInv(a)  BY <1>2 DEF StoreInv
<1>6. Sound(mem, values, strings, map.at, sp_cap(Entries), a.at, Len(a.cells), pool)
  BY <1>2, <1>4 DEF StoreInv, MemInv
<1>7. CellsFor(a, a.number, r.array, r.array.cells)
  BY ONLY SizesOK, <1>1, <1>2, <1>5, RoomCells
<1>8. /\ Full(a.number) => r.array.at # Inner
      /\ Sound(r.mem, values, strings, map.at, sp_cap(Entries), r.array.at,
               Len(r.array.cells), pool)
  <2>1. CASE Full(a.number)
    <3>1. PICK c : c = Wanted(a.number)  OBVIOUS
    <3>2. PICK got : got = CellsGot(mem, c)  OBVIOUS
    <3>3. PICK y : y = Moving(mem, got, a.at)  OBVIOUS
    <3>4. r.mem = y /\ r.array.at = got.at
      <4>1. Moved(r, a, mem, c, got)
        BY <1>1, <1>2, <2>1, <3>1, <3>2, RoomMoves
      <4> QED BY <4>1, <3>3 DEF Moved
    <3>5. c \in Nat \ {0} /\ (a.at # Inner => c # Len(a.cells))
      BY <1>5, <2>1, <3>1, WantedIs
    <3>6. Len(r.array.cells) = c  BY <1>7, <2>1, <3>1 DEF CellsFor
    <3>7. Sound(y, values, strings, map.at, sp_cap(Entries), got.at, c, pool)
          /\ got.at # Inner
      BY ONLY SizesOK, <1>6, <3>2, <3>3, <3>5, SoundArray
    <3> QED BY <2>1, <3>4, <3>6, <3>7
  <2>2. CASE ~Full(a.number)
    <3>1. r.mem = mem /\ r.array = a  BY <1>1, <1>2, <2>2, RoomKeeps
    <3> QED BY <2>2, <3>1, <1>6
  <2> QED BY <2>1, <2>2
<1>9. /\ ArrayInv(x) /\ x.at = r.array.at /\ Len(x.cells) = Len(r.array.cells)
      /\ SubSeq(x.cells, 1, x.number) = Append(SubSeq(a.cells, 1, a.number), v)
  <2>1. r = Room(a, mem) /\ a.number < MaxPushed /\ (Full(a.number) => r.array.at # Inner)
    BY <1>1, <1>2, <1>4, <1>8
  <2>2. Extends(Pushed(r, a, v), a, r.array, v)
    BY ONLY SizesOK, <1>5, <2>1, v \in Values, PushedOK
  <2> QED BY <1>3, <2>2 DEF Extends
<1>10. Sound(r.mem, values, strings, map.at, sp_cap(Entries), x.at, Len(x.cells), pool)
  BY <1>8, <1>9
<1>11. Entries' = Entries /\ sp_cap(Entries)' = sp_cap(Entries)
  BY <1>4 DEF Entries, sp_cap
<1>12. StoreInv'
  BY <1>4, <1>9, <1>10, <1>11 DEF StoreInv, MemInv
<1> QED BY <1>2, <1>4, <1>9, <1>12

(* _pbcS_build keeps the invariant: the string is where no other is. *)
LEMMA BuildStep ==
  ASSUME SizesOK, StoreInv, NEW sz \in StringSizes, _pbcS_build(sz)
  PROVE  StoreInv'
<1>1. PICK s : s = sz + 1  OBVIOUS
<1>2. s \in Nat \ {0}
  <2>1. sz \in Nat  BY DEF SizesOK
  <2> QED BY <2>1, <1>1
<1>3. PICK cap, n : cap = sp_cap(Entries) /\ n = Len(array.cells)  OBVIOUS
<1>4. life = "open" /\ ~HasHeap(mem) /\ UNCHANGED <<map, values, array, life>>
  BY DEF _pbcS_build
<1>5. Sound(mem, values, strings, map.at, cap, array.at, n, pool)
  BY <1>3, <1>4 DEF StoreInv, MemInv
<1>6. Pooled(mem, pool, strings)  BY <1>4, <1>5 DEF Sound
<1>7. pool = [page |-> pool.page, len |-> pool.len, chain |-> pool.chain]
  BY <1>6 DEF Pooled
<1>8. Sound(mem', values, strings', map.at, cap, array.at, n, pool')
  <2>1. CASE s < PAGE_SIZE - pool.len
    <3>1. PICK q : q = [page |-> pool.page, len |-> pool.len + s, chain |-> pool.chain]
      OBVIOUS
    <3>2. PICK a : a = Region(pool.page, pool.len, s)  OBVIOUS
    <3>3. pool' = q /\ strings' = Append(strings, a) /\ mem' = mem
      BY <1>1, <1>7, <2>1, <3>1, <3>2 DEF _pbcS_build
    <3>4. Sound(mem, values, Append(strings, a), map.at, cap, array.at, n, q)
      BY ONLY SizesOK, <1>2, <1>4, <1>5, <2>1, <3>1, <3>2, SoundSpare
    <3> QED BY <3>3, <3>4
  <2>2. CASE ~(s < PAGE_SIZE - pool.len)
    <3>1. NewPage(s)  BY <1>1, <2>2 DEF _pbcS_build
    <3>2. PICK b : b = <<"string", Len(strings) + 1>>  OBVIOUS
    <3>3. PICK got : got = BlockFor(mem, b, s)  OBVIOUS
    <3>4. PICK q : q = PoolFor(pool, b, s)  OBVIOUS
    <3>5. PICK a : a = Region(b, 0, s)  OBVIOUS
    <3>6. Sound(got.mem, values, Append(strings, a), map.at, cap, array.at, n, q)
          /\ got.at.block = b
      BY ONLY SizesOK, <1>2, <1>4, <1>5, <3>2, <3>3, <3>4, <3>5, SoundPage
    <3>7. mem' = got.mem /\ pool' = q /\ strings' = Append(strings, a)
      BY <3>1, <3>2, <3>3, <3>4, <3>5, <3>6
         DEF NewPage, NextString, BlockFor, PoolFor
    <3> QED BY <3>6, <3>7
  <2> QED BY <2>1, <2>2
<1>9. Entries' = Entries /\ sp_cap(Entries)' = cap /\ Len(array.cells)' = n
  BY <1>3, <1>4 DEF Entries, sp_cap
<1>10. strings' \in Seq(Regions)  BY <1>8 DEF Sound, Layout
<1> QED BY <1>4, <1>8, <1>9, <1>10 DEF StoreInv, MemInv

(* Deleting frees all blocks: with a heap its pages, else those of the *)
(* containers.                                                         *)
LEMMA DeleteStep ==
  ASSUME SizesOK, StoreInv, Delete
  PROVE  StoreInv'
<1>1. life = "open" /\ life' = "closed" /\ UNCHANGED <<map, values, array, pool, strings>>
  BY DEF Delete
<1>2. MemInv  BY <1>1 DEF StoreInv
<1>3. MemOK(mem)  BY <1>2 DEF MemInv, Sound
<1>4. mem = [blocks |-> mem.blocks, heap |-> mem.heap]  BY <1>3 DEF MemOK
<1>5. \A bs : DOMAIN mem.blocks \subseteq bs => DOMAIN _pbcM_free(mem, bs).blocks = {}
  <2> SUFFICES ASSUME NEW bs, DOMAIN mem.blocks \subseteq bs
               PROVE  DOMAIN _pbcM_free(mem, bs).blocks = {}
    OBVIOUS
  <2>1. PICK k : k = [b \in DOMAIN mem.blocks \ bs |-> mem.blocks[b]]  OBVIOUS
  <2>2. _pbcM_free(mem, bs) = [blocks |-> k, heap |-> mem.heap]
    BY <1>4, <2>1 DEF _pbcM_free
  <2>3. DOMAIN k = {}  BY <2>1
  <2> QED BY <2>2, <2>3
<1>6. DOMAIN mem'.blocks = {}
  <2>1. CASE HasHeap(mem)
    <3>1. PICK n \in Nat \ {0} : HeapIs(mem, n)  BY <1>3, <2>1 DEF MemOK
    <3>2. PICK bs : bs = ToSet(mem.heap.pages)  OBVIOUS
    <3>3. DOMAIN mem.blocks \subseteq bs  BY <3>1, <3>2, PagesAre DEF HeapIs
    <3>4. PICK x : x = _pbcM_free(mem, bs)  OBVIOUS
    <3>5. DOMAIN x.blocks = {}  BY <1>5, <3>3, <3>4
    <3>6. mem' = [x EXCEPT !.heap = NoHeap]
      BY <2>1, <3>2, <3>4 DEF Delete, _pbcH_delete
    <3>7. x = [blocks |-> x.blocks, heap |-> x.heap]
      BY <1>4, <3>4 DEF _pbcM_free
    <3>8. mem' = [blocks |-> x.blocks, heap |-> NoHeap]  BY <3>6, <3>7
    <3> QED BY <3>5, <3>8
  <2>2. CASE ~HasHeap(mem)
    <3>1. PICK nv, cap, n : nv = Len(values) /\ cap = sp_cap(Entries) /\ n = Len(array.cells)
      OBVIOUS
    <3>2. Owned(mem, values, map.at, cap, array.at, n, pool.chain)
      BY <1>2, <2>2, <3>1 DEF MemInv, Sound
    <3>3. PICK bs : bs = {values[p].block : p \in Met(Entries)} \cup {map.at.block}
                           \cup (IF array.at = Inner THEN {} ELSE {array.at.block})
                           \cup ToSet(pool.chain)
      OBVIOUS
    <3>4. mem' = _pbcM_free(mem, bs)  BY <2>2, <3>3 DEF Delete
    <3>5. DOMAIN mem.blocks \subseteq bs
      <4>1. TableInv(Entries, nv)  BY <3>1 DEF StoreInv
      <4>2. PICK t : t = Entries  OBVIOUS
      <4>3. 1 .. nv \subseteq Met(t)
        BY ONLY SizesOK, <4>1, <4>2, TableMet
      <4>4. \A b \in OwnBlocks(nv, cap, array.at, n) :
              \/ \E p \in 1 .. nv : b = <<"value", p>>
              \/ b = <<"slots", cap>>
              \/ array.at # Inner /\ b = <<"array", n>>
        BY DEF OwnBlocks
      <4>5. \A p \in 1 .. nv : values[p].block = <<"value", p>>  BY <3>1, <3>2 DEF Owned
      <4>6. \A p \in 1 .. nv : <<"value", p>> \in bs  BY <3>3, <4>2, <4>3, <4>5
      <4>7. map.at.block = <<"slots", cap>>
            /\ (array.at # Inner => array.at.block = <<"array", n>>)
            /\ DOMAIN mem.blocks = OwnBlocks(nv, cap, array.at, n) \cup ToSet(pool.chain)
        BY <3>1, <3>2 DEF Owned
      <4> QED BY <3>3, <4>4, <4>6, <4>7, SMTT(20)
    <3> QED BY <1>5, <3>4, <3>5
  <2> QED BY <2>1, <2>2
<1>7. Entries' = Entries  BY <1>1 DEF Entries
<1> QED BY <1>1, <1>6, <1>7 DEF StoreInv

-----------------------------------------------------------------------------
(* A new table in memory that has one block. *)
LEMMA StartOK ==
  ASSUME SizesOK, NEW base, MemOK(base), NEW c \in Nat \ {0},
         HasHeap(base) \/ DOMAIN base.blocks = {FirstPage},
         HasHeap(base) \/ base.blocks[FirstPage] = PAGE_SIZE,
         NEW got, got = SlotsGot(base, c), NEW pl, HasHeap(base) \/ pl = _pbcS_new(FirstPage)
  PROVE  Sound(got.mem, <<>>, <<>>, got.at, c, Inner, INNER_FIELD, pl)
<1>1. PICK b, size : b = <<"slots", c>> /\ size = c * SlotSize  OBVIOUS
<1>2. b \in AnyBlock /\ b # FirstPage  BY <1>1 DEF AnyBlock, FirstPage
<1>3. size \in Nat \ {0}
  <2>1. PICK w \in Nat \ {0} : w = SlotSize  BY DEF SizesOK
  <2>2. c * w \in Nat \ {0}  OBVIOUS
  <2> QED BY <2>1, <2>2, <1>1
<1>4. Allocated(got, base, b, size)
  <2>1. got = HMALLOC(base, b, size)  BY <1>1 DEF SlotsGot
  <2>2. HasHeap(base) \/ b \notin DOMAIN base.blocks  BY <1>2
  <2> QED BY ONLY SizesOK, MemOK(base), <1>2, <1>3, <2>1, <2>2, AllocOK
<1>5. PICK x, a : x = got.mem /\ a = got.at  OBVIOUS
<1>6. MemOK(x) /\ (HasHeap(x) <=> HasHeap(base)) /\ Fits(x, a)
  BY <1>4, <1>5 DEF Allocated
<1>7. Layout(x, <<>>, <<>>, a, Inner)
  <2>1. PICK vals : vals = <<>>  OBVIOUS
  <2>2. vals \in Seq(Regions) /\ Len(vals) = 0 /\ 1 .. Len(vals) = {}  BY <2>1
  <2>3. PICK I, R : I = Items(Len(vals), Len(vals), Inner) /\ R = RegionOf(vals, vals, a, Inner)
    OBVIOUS
  <2>4. \A u \in I : u = <<"slots", 0>>  BY <2>2, <2>3 DEF Items
  <2>5. R[<<"slots", 0>>] = a
    <3>1. <<"slots", 0>> \in I  BY <2>3 DEF Items
    <3>2. R = [u \in I |-> IF u[1] = "value" THEN vals[u[2]]
                           ELSE IF u[1] = "string" THEN vals[u[2]]
                           ELSE IF u[1] = "slots" THEN a
                           ELSE Inner]
      BY <2>3 DEF RegionOf
    <3> QED BY <3>1, <3>2
  <2>6. Family(x, I, R)  BY <1>6, <2>4, <2>5 DEF Family
  <2> QED BY <2>1, <2>2, <2>3, <2>6 DEF Layout
<1>8. ASSUME ~HasHeap(x)
      PROVE  Owned(x, <<>>, a, c, Inner, INNER_FIELD, pl.chain) /\ Pooled(x, pl, <<>>)
  <2>1. ~HasHeap(base)  BY <1>6, <1>8
  <2>2. a.block = b /\ DOMAIN x.blocks = {FirstPage, b} /\ x.blocks[FirstPage] = PAGE_SIZE
    BY <2>1, <1>4, <1>5 DEF Allocated
  <2>3. pl.page = FirstPage /\ pl.len = 0 /\ pl.chain = <<FirstPage>>
        /\ pl = [page |-> pl.page, len |-> pl.len, chain |-> pl.chain]
    BY <2>1 DEF _pbcS_new
  <2>4. PICK chain : chain = pl.chain  OBVIOUS
  <2>5. FirstPage \in {"string"} \X (0 .. 0)  BY DEF FirstPage
  <2>6. chain \in Seq({"string"} \X (0 .. 0)) /\ Len(chain) = 1 /\ chain[1] = FirstPage
    BY <2>3, <2>4, <2>5
  <2>7. ToSet(chain) = {FirstPage}
    <3>1. DOMAIN chain = {1}
      <4>1. DOMAIN chain = 1 .. 1  BY <2>6
      <4>2. 1 .. 1 = {1}  OBVIOUS
      <4> QED BY <4>1, <4>2
    <3>2. ToSet(chain) = {chain[i] : i \in DOMAIN chain}  BY DEF ToSet
    <3> QED BY <3>1, <3>2, <2>6
  <2>8. PICK strs : strs = <<>>  OBVIOUS
  <2>9. Len(strs) = 0 /\ 1 .. Len(strs) = {}  BY <2>8
  <2>10. PAGE_SIZE \in Nat  BY DEF SizesOK
  <2>11. Pooled(x, pl, strs)
    BY <2>2, <2>3, <2>4, <2>6, <2>7, <2>9, <2>10 DEF Pooled
  <2>12. DOMAIN x.blocks = OwnBlocks(Len(strs), c, Inner, INNER_FIELD) \cup ToSet(chain)
    <3>1. OwnBlocks(Len(strs), c, Inner, INNER_FIELD) = {b}  BY <2>9, <1>1 DEF OwnBlocks
    <3> QED BY <3>1, <2>2, <2>7
  <2>13. Owned(x, strs, a, c, Inner, INNER_FIELD, chain)
    BY <2>2, <2>9, <2>12, <1>1 DEF Owned
  <2> QED BY <2>4, <2>8, <2>11, <2>13
<1> QED BY <1>5, <1>6, <1>7, <1>8 DEF Sound

(* A new heap has one page, of which nothing is used. *)
LEMMA HeapStarts ==
  ASSUME SizesOK, NEW size \in Nat
  PROVE  MemOK(_pbcH_new(NoMemory, size)) /\ HasHeap(_pbcH_new(NoMemory, size))
<1>1. PICK cap, p : cap = Doubled(HeapSize, size) /\ p = Page(1)  OBVIOUS
<1>2. cap \in Nat
  <2>1. HeapSize \in Nat \ {0}  BY DEF SizesOK
  <2>2. DoubledIs(HeapSize, size)  BY <2>1, DoubledFacts
  <2> QED BY <1>1, <2>2 DEF DoubledIs
<1>3. PICK k : k = [b \in {p} |-> cap]  OBVIOUS
<1>4. WithBlock(NoMemory, p, cap) = [blocks |-> k, heap |-> NoHeap]
  <2>1. PICK e : e = <<>>  OBVIOUS
  <2>2. DOMAIN e \cup {p} = {p}  BY <2>1
  <2>3. NoMemory = [blocks |-> e, heap |-> NoHeap]  BY <2>1 DEF NoMemory
  <2>4. WithBlock(NoMemory, p, cap)
          = [blocks |-> [x \in DOMAIN e \cup {p} |-> IF x = p THEN cap ELSE e[x]],
             heap |-> NoHeap]
    BY <2>3 DEF WithBlock
  <2>5. [x \in DOMAIN e \cup {p} |-> IF x = p THEN cap ELSE e[x]] = k
    BY <2>2, <1>3
  <2> QED BY <2>4, <2>5
<1>5. PICK x : x = _pbcH_new(NoMemory, size)  OBVIOUS
<1>6. PICK w : w = WithBlock(NoMemory, p, cap)  OBVIOUS
<1>7. x = [w EXCEPT !.heap = [pages |-> <<p>>, size |-> cap, used |-> 0]]
  BY <1>1, <1>5, <1>6 DEF _pbcH_new
<1>8. x = [blocks |-> k, heap |-> [pages |-> <<p>>, size |-> cap, used |-> 0]]
  BY <1>4, <1>6, <1>7
<1>9. /\ x.blocks = k /\ x.heap.pages = <<p>> /\ x.heap.size = cap /\ x.heap.used = 0
      /\ x = [blocks |-> x.blocks, heap |-> x.heap]
      /\ x.heap = [pages |-> x.heap.pages, size |-> x.heap.size, used |-> x.heap.used]
  BY <1>8
<1>10. HasHeap(x)
  <2>1. <<p>> # <<>> /\ NoHeap.pages = <<>>  BY DEF NoHeap
  <2>2. x.heap.pages # NoHeap.pages  BY <1>9, <2>1
  <2> QED BY <2>2 DEF HasHeap
<1>11. HeapIs(x, 1)
  <2>1. PagesTo(1) = <<p>>
    <3>1. PICK s, t : s = PagesTo(1) /\ t = <<p>>  OBVIOUS
    <3>2. s = [i \in 1 .. 1 |-> Page(1 + 1 - i)]  BY <3>1 DEF PagesTo
    <3>3. p \in AnyBlock  BY <1>1, PagesAre
    <3>4. \A i \in 1 .. 1 : i = 1 /\ Page(1 + 1 - i) = p  BY <1>1
    <3>5. s \in [1 .. 1 -> AnyBlock] /\ s[1] = p  BY <3>2, <3>3, <3>4
    <3>6. s \in Seq(AnyBlock) /\ Len(s) = 1  BY <3>5, FunIsSeq
    <3>7. t \in Seq(AnyBlock) /\ Len(t) = 1 /\ t[1] = p  BY <3>1, <3>3
    <3>8. s = t  BY <3>5, <3>6, <3>7, <3>4, SeqEqual
    <3> QED BY <3>1, <3>8
  <2>2. {Page(i) : i \in 1 .. 1} = {p}
    <3>1. 1 .. 1 = {1}  OBVIOUS
    <3> QED BY <3>1, <1>1
  <2>3. k[p] = cap /\ DOMAIN k = {p}  BY <1>3
  <2> QED BY <1>1, <1>2, <1>9, <2>1, <2>2, <2>3 DEF HeapIs
<1>12. MemOK(x)
  <2>1. \A b \in DOMAIN k : k[b] \in Nat  BY <1>2, <1>3
  <2>2. k = [b \in DOMAIN k |-> k[b]]  BY <1>3
  <2>3. 1 \in Nat \ {0}  OBVIOUS
  <2> QED BY <1>9, <1>11, <2>1, <2>2, <2>3 DEF MemOK
<1> QED BY <1>5, <1>10, <1>12

(* The blocks of a new pool. *)
LEMMA PoolStarts ==
  ASSUME SizesOK, NEW m, m = WithBlock(NoMemory, FirstPage, PAGE_SIZE)
  PROVE  /\ MemOK(m) /\ ~HasHeap(m) /\ DOMAIN m.blocks = {FirstPage}
         /\ m.blocks[FirstPage] = PAGE_SIZE
<1>1. PICK p, cap : p = FirstPage /\ cap = PAGE_SIZE  OBVIOUS
<1>2. cap \in Nat  BY <1>1 DEF SizesOK
<1>3. PICK k : k = [b \in {p} |-> cap]  OBVIOUS
<1>4. m = [blocks |-> k, heap |-> NoHeap]
  <2>1. PICK e : e = <<>>  OBVIOUS
  <2>2. DOMAIN e \cup {p} = {p}  BY <2>1
  <2>3. NoMemory = [blocks |-> e, heap |-> NoHeap]  BY <2>1 DEF NoMemory
  <2>4. m = [blocks |-> [x \in DOMAIN e \cup {p} |-> IF x = p THEN cap ELSE e[x]],
             heap |-> NoHeap]
    BY <1>1, <2>3 DEF WithBlock
  <2>5. [x \in DOMAIN e \cup {p} |-> IF x = p THEN cap ELSE e[x]] = k
    BY <2>2, <1>3
  <2> QED BY <2>4, <2>5
<1>5. m.blocks = k /\ m.heap = NoHeap /\ m = [blocks |-> m.blocks, heap |-> m.heap]
  BY <1>4
<1>6. ~HasHeap(m)  BY <1>5 DEF HasHeap
<1>7. DOMAIN k = {p} /\ k[p] = cap /\ k = [b \in DOMAIN k |-> k[b]]  BY <1>3
<1>8. m.heap = [pages |-> m.heap.pages, size |-> m.heap.size, used |-> m.heap.used]
  BY <1>5 DEF NoHeap
<1>9. MemOK(m)
  <2>1. \A b \in DOMAIN k : k[b] \in Nat  BY <1>2, <1>7
  <2> QED BY <1>5, <1>6, <1>7, <1>8, <2>1 DEF MemOK
<1> QED BY <1>1, <1>5, <1>6, <1>7, <1>9

(* The invariant holds in the beginning. *)
LEMMA InitOK ==
  ASSUME SizesOK, Init
  PROVE  StoreInv
<1>1. PICK onHeap \in BOOLEAN, max \in {1, 3} :
        LET base  == IF onHeap THEN _pbcH_new(NoMemory, max * HeapSize)
                               ELSE WithBlock(NoMemory, FirstPage, PAGE_SIZE)
            table == sp_new(IF onHeap THEN max ELSE 0)
            slots == HMALLOC(base, SlotsOf(table), SlotBytes(table))
        IN /\ mem = slots.mem
           /\ map = [size |-> 0, slot |-> table.slot, at |-> slots.at]
           /\ values = <<>>
           /\ array = _pbcA_open
           /\ pool = IF onHeap THEN NULL ELSE _pbcS_new(FirstPage)
           /\ strings = <<>>
           /\ life = "open"
  BY DEF Init
<1>2. PICK base : base = IF onHeap THEN _pbcH_new(NoMemory, max * HeapSize)
                                  ELSE WithBlock(NoMemory, FirstPage, PAGE_SIZE)
  OBVIOUS
<1>3. PICK w : w = IF onHeap THEN max ELSE 0  OBVIOUS
<1>4. PICK c : c = Doubled(1, w)  OBVIOUS
<1>5. c \in Nat \ {0}
  <2>1. w \in Nat /\ 1 \in Nat \ {0}  BY <1>3
  <2>2. DoubledIs(1, w)  BY <2>1, DoubledFacts
  <2> QED BY <1>4, <2>2 DEF DoubledIs
<1>6. PICK t : t = sp_empty(c)  OBVIOUS
<1>7. t = sp_new(w)  BY <1>4, <1>6 DEF sp_new
<1>8. TableInv(t, 0) /\ sp_cap(t) = c /\ t.size = 0 /\ t = [size |-> t.size, slot |-> t.slot]
  BY <1>5, <1>6, TableNew, EmptyOK DEF sp_empty
<1>9. PICK got : got = SlotsGot(base, c)  OBVIOUS
<1>10. /\ mem = got.mem /\ map = [size |-> 0, slot |-> t.slot, at |-> got.at]
       /\ values = <<>> /\ array = _pbcA_open /\ strings = <<>> /\ life = "open"
       /\ pool = IF onHeap THEN NULL ELSE _pbcS_new(FirstPage)
  BY <1>1, <1>2, <1>3, <1>7, <1>8, <1>9 DEF SlotsOf, SlotBytes, SlotsGot
<1>11. /\ MemOK(base)
       /\ HasHeap(base) \/ DOMAIN base.blocks = {FirstPage}
       /\ HasHeap(base) \/ base.blocks[FirstPage] = PAGE_SIZE
       /\ HasHeap(base) \/ pool = _pbcS_new(FirstPage)
  <2>1. CASE onHeap
    <3>1. PICK size : size = max * HeapSize  OBVIOUS
    <3>2. size \in Nat
      <4>1. PICK h \in Nat : h = HeapSize  BY DEF SizesOK
      <4>2. max * h \in Nat  OBVIOUS
      <4> QED BY <3>1, <4>1, <4>2
    <3>3. base = _pbcH_new(NoMemory, size)  BY <1>2, <2>1, <3>1
    <3> QED BY <3>2, <3>3, HeapStarts
  <2>2. CASE ~onHeap
    BY <1>2, <1>10, <2>2, PoolStarts
  <2> QED BY <2>1, <2>2
<1>12. Sound(got.mem, <<>>, <<>>, got.at, c, Inner, INNER_FIELD, pool)
  BY ONLY SizesOK, <1>5, <1>9, <1>11, StartOK
<1>13. map.at = got.at /\ Entries = t /\ map = [size |-> map.size, slot |-> map.slot, at |-> map.at]
  BY <1>8, <1>10 DEF Entries
<1>14. ArrayInv(array) /\ array.at = Inner /\ Len(array.cells) = INNER_FIELD
  <2>1. ArrayInv(array)  BY <1>10, ArrayNew
  <2>2. array.at = Inner /\ array.number = 0  BY <1>10 DEF _pbcA_open
  <2>3. 0 <= INNER_FIELD
    <3>1. INNER_FIELD \in Nat  BY DEF SizesOK
    <3> QED BY <3>1
  <2> QED BY <2>1, <2>2, <2>3 DEF ArrayInv
<1>15. <<>> \in Seq(Regions) /\ Len(<<>>) = 0  OBVIOUS
<1> QED BY <1>8, <1>10, <1>12, <1>13, <1>14, <1>15 DEF StoreInv, MemInv

(* Every operation keeps the invariant. *)
LEMMA NextStep ==
  ASSUME SizesOK, StoreInv, [Next]_vars
  PROVE  StoreInv'
<1>1. ASSUME NEW k \in Keys, Insert(k) PROVE StoreInv'  BY <1>1, InsertStep
<1>2. ASSUME NEW k \in Keys, QueryInsert(k) PROVE StoreInv'  BY <1>2, QueryInsertStep
<1>3. ASSUME NEW v \in Values, Push(v) PROVE StoreInv'  BY <1>3, PushStep
<1>4. ASSUME NEW sz \in StringSizes, _pbcS_build(sz) PROVE StoreInv'  BY <1>4, BuildStep
<1>5. ASSUME Delete PROVE StoreInv'  BY <1>5, DeleteStep
<1>6. ASSUME UNCHANGED vars PROVE StoreInv'
  <2>1. UNCHANGED <<mem, map, values, array, pool, strings, life>>  BY <1>6 DEF vars
  <2>2. Entries' = Entries /\ sp_cap(Entries)' = sp_cap(Entries)
    BY <2>1 DEF Entries, sp_cap
  <2> QED BY <2>1, <2>2 DEF StoreInv, MemInv
<1> QED BY <1>1, <1>2, <1>3, <1>4, <1>5, <1>6 DEF Next

(* In every reachable state each name is found from its home slot with its own   *)
(* pointer, an outgrown array has room for its next entry, and memory holds what *)
(* is in use as the code laid it out: alloc.c, array.c, map.c and stringpool.c   *)
(* keep StoreInv.                                                                *)
THEOREM StoreInvariant == Spec => []StoreInv
<1>1. Init => StoreInv  BY SizesOK, InitOK
<1>2. StoreInv /\ [Next]_vars => StoreInv'  BY SizesOK, NextStep
<1> QED BY <1>1, <1>2, PTL DEF Spec

-----------------------------------------------------------------------------
(* Regions that are apart are as many as the places they are in. *)
LEMMA RegionsCount ==
  ASSUME NEW s \in Seq(Regions),
         \A i, j \in 1 .. Len(s) : s[i] = s[j] => i = j
  PROVE  IsFiniteSet(ToSet(s)) /\ Cardinality(ToSet(s)) = Len(s)
<1>1. PICK n, T : n = Len(s) /\ T = ToSet(s)  OBVIOUS
<1>2. n \in Nat /\ DOMAIN s = 1 .. n  BY <1>1
<1>3. T = {s[i] : i \in DOMAIN s}  BY <1>1 DEF ToSet
<1>4. \A i \in 1 .. n : s[i] \in T  BY <1>2, <1>3
<1>5. \A t \in T : \E i \in 1 .. n : s[i] = t  BY <1>2, <1>3
<1>6. PICK g : g = [i \in 1 .. n |-> s[i]]  OBVIOUS
<1>7. g \in Bijection(1 .. n, T)
  <2>1. g \in [1 .. n -> T]  BY <1>4, <1>6
  <2>2. \A i, j \in 1 .. n : g[i] = g[j] => i = j  BY <1>1, <1>6
  <2>3. \A t \in T : \E i \in 1 .. n : g[i] = t  BY <1>5, <1>6
  <2> QED BY <2>1, <2>2, <2>3, Fun_IsBij
<1>8. IsFiniteSet(T) /\ Cardinality(T) = n
  BY <1>2, <1>7, UpTo, FS_Bijection DEF ExistsBijection
<1> QED BY <1>1, <1>8

(* The regions of a layout differ. *)
Distinct(vals, strs, slots, own) ==
  /\ \A i, j \in 1 .. Len(vals) : vals[i] = vals[j] => i = j
  /\ \A i, j \in 1 .. Len(strs) : strs[i] = strs[j] => i = j
  /\ \A i \in 1 .. Len(vals), j \in 1 .. Len(strs) : vals[i] # strs[j]
  /\ \A i \in 1 .. Len(vals) : vals[i] # slots
  /\ \A i \in 1 .. Len(strs) : strs[i] # slots
  /\ own # Inner => /\ own # slots
                    /\ \A i \in 1 .. Len(vals) : vals[i] # own
                    /\ \A i \in 1 .. Len(strs) : strs[i] # own

(* The set that InUse is of an open store. *)
Using(vals, strs, slots, own) ==
  ToSet(vals) \cup ToSet(strs) \cup {slots} \cup (IF own = Inner THEN {} ELSE {own})

(* Those of a layout are. *)
LEMMA LayoutDistinct ==
  ASSUME NEW m, NEW vals, NEW strs, NEW slots, NEW own, Layout(m, vals, strs, slots, own)
  PROVE  /\ Distinct(vals, strs, slots, own)
         /\ \A r \in Using(vals, strs, slots, own) :
              /\ Fits(m, r)
              /\ \A s \in Using(vals, strs, slots, own) \ {r} : Apart(r, s)
<1>1. vals \in Seq(Regions) /\ strs \in Seq(Regions)  BY DEF Layout
<1>2. PICK I, R : /\ I = Items(Len(vals), Len(strs), own)
                  /\ R = RegionOf(vals, strs, slots, own)
  OBVIOUS
<1>3. /\ \A p \in 1 .. Len(vals) : R[<<"value", p>>] = vals[p]
      /\ \A p \in 1 .. Len(strs) : R[<<"string", p>>] = strs[p]
      /\ R[<<"slots", 0>>] = slots
      /\ own # Inner => R[<<"array", 0>>] = own
  <2>1. R = RegionOf(vals, strs, slots, own)  BY <1>2
  <2> QED BY ONLY <1>1, <2>1, RegionsAre
<1>4. /\ \A p \in 1 .. Len(vals) : <<"value", p>> \in I
      /\ \A p \in 1 .. Len(strs) : <<"string", p>> \in I
      /\ <<"slots", 0>> \in I
      /\ own # Inner => <<"array", 0>> \in I
  BY <1>2, ItemsAre
<1>5. Family(m, I, R)  BY <1>2 DEF Layout
<1>6. \A u, v \in I : R[u] = R[v] => u = v
  <2> SUFFICES ASSUME NEW u \in I, NEW v \in I, R[u] = R[v], u # v PROVE FALSE
    OBVIOUS
  <2>1. Apart(R[u], R[u])  BY <1>5 DEF Family
  <2>2. PICK r : r = R[u]  OBVIOUS
  <2>3. r.off \in Nat /\ r.len \in Nat /\ r.len # 0  BY <1>5, <2>2 DEF Family, Fits, Regions
  <2> QED BY <2>1, <2>2, <2>3 DEF Apart
<1>7. Distinct(vals, strs, slots, own)
  <2>1. ASSUME NEW i \in 1 .. Len(vals), NEW j \in 1 .. Len(vals), vals[i] = vals[j]
        PROVE  i = j
    <3>1. <<"value", i>> = <<"value", j>>  BY <2>1, <1>3, <1>4, <1>6, ZenonT(30)
    <3> QED BY <3>1
  <2>2. ASSUME NEW i \in 1 .. Len(strs), NEW j \in 1 .. Len(strs), strs[i] = strs[j]
        PROVE  i = j
    <3>1. <<"string", i>> = <<"string", j>>  BY <2>2, <1>3, <1>4, <1>6, ZenonT(30)
    <3> QED BY <3>1
  <2>3. ASSUME NEW i \in 1 .. Len(vals), NEW j \in 1 .. Len(strs)
        PROVE  vals[i] # strs[j]
    <3>1. PICK u, v : u = <<"value", i>> /\ v = <<"string", j>>  OBVIOUS
    <3>2. u \in I /\ v \in I /\ R[u] = vals[i] /\ R[v] = strs[j]
      BY <3>1, <1>3, <1>4
    <3>3. u # v  BY <3>1
    <3> QED BY <3>2, <3>3, <1>6
  <2>4. ASSUME NEW i \in 1 .. Len(vals)
        PROVE  vals[i] # slots /\ (own # Inner => vals[i] # own)
    <3>1. <<"value", i>> # <<"slots", 0>> /\ <<"value", i>> # <<"array", 0>>  OBVIOUS
    <3> QED BY <3>1, <1>3, <1>4, <1>6, ZenonT(30)
  <2>5. ASSUME NEW i \in 1 .. Len(strs)
        PROVE  strs[i] # slots /\ (own # Inner => strs[i] # own)
    <3>1. <<"string", i>> # <<"slots", 0>> /\ <<"string", i>> # <<"array", 0>>  OBVIOUS
    <3> QED BY <3>1, <1>3, <1>4, <1>6, ZenonT(30)
  <2>6. own # Inner => own # slots
    <3>1. <<"array", 0>> # <<"slots", 0>>  OBVIOUS
    <3> QED BY <3>1, <1>3, <1>4, <1>6
  <2> QED BY <2>1, <2>2, <2>3, <2>4, <2>5, <2>6 DEF Distinct
<1>8. \A r \in Using(vals, strs, slots, own) : \E u \in I : R[u] = r
  <2>1. \A r \in ToSet(vals) : \E p \in 1 .. Len(vals) : vals[p] = r  BY <1>1 DEF ToSet
  <2>2. \A r \in ToSet(strs) : \E p \in 1 .. Len(strs) : strs[p] = r  BY <1>1 DEF ToSet
  <2>3. \A r \in ToSet(vals) : \E u \in I : R[u] = r  BY <2>1, <1>3, <1>4
  <2>4. \A r \in ToSet(strs) : \E u \in I : R[u] = r  BY <2>2, <1>3, <1>4
  <2>5. \E u \in I : R[u] = slots  BY <1>3, <1>4
  <2>6. own # Inner => \E u \in I : R[u] = own  BY <1>3, <1>4
  <2> QED BY <2>3, <2>4, <2>5, <2>6 DEF Using
<1>9. ASSUME NEW r \in Using(vals, strs, slots, own)
      PROVE  /\ Fits(m, r)
             /\ \A s \in Using(vals, strs, slots, own) \ {r} : Apart(r, s)
  <2>1. PICK u \in I : R[u] = r  BY <1>8
  <2>2. ASSUME NEW s \in Using(vals, strs, slots, own) \ {r} PROVE Apart(r, s)
    <3>1. PICK v \in I : R[v] = s  BY <1>8
    <3> QED BY <2>1, <2>2, <3>1, <1>5 DEF Family
  <2> QED BY <2>1, <2>2, <1>5 DEF Family
<1> QED BY <1>7, <1>9

(* So that they are as many as the items. *)
LEMMA UsingCount ==
  ASSUME NEW vals \in Seq(Regions), NEW strs \in Seq(Regions), NEW slots, NEW own,
         Distinct(vals, strs, slots, own)
  PROVE  Cardinality(Using(vals, strs, slots, own))
           = Len(vals) + Len(strs) + (IF own = Inner THEN 1 ELSE 2)
<1>1. PICK nv, ns, A, B : /\ nv = Len(vals) /\ ns = Len(strs)
                          /\ A = ToSet(vals) /\ B = ToSet(strs)
  OBVIOUS
<1>2. nv \in Nat /\ ns \in Nat  BY <1>1
<1>3. IsFiniteSet(A) /\ Cardinality(A) = nv  BY <1>1, RegionsCount DEF Distinct
<1>4. IsFiniteSet(B) /\ Cardinality(B) = ns  BY <1>1, RegionsCount DEF Distinct
<1>5. \A r \in A : \E p \in 1 .. Len(vals) : vals[p] = r  BY <1>1 DEF ToSet
<1>6. \A r \in B : \E p \in 1 .. Len(strs) : strs[p] = r  BY <1>1 DEF ToSet
<1>7. A \cap B = {}  BY <1>5, <1>6 DEF Distinct
<1>8. slots \notin A /\ slots \notin B  BY <1>5, <1>6 DEF Distinct
<1>9. own # Inner => own \notin A /\ own \notin B /\ own # slots
  BY <1>5, <1>6 DEF Distinct
<1>10. IsFiniteSet(A \cup B) /\ Cardinality(A \cup B) = nv + ns
  <2>1. /\ IsFiniteSet(A \cup B)
        /\ Cardinality(A \cup B) = Cardinality(A) + Cardinality(B) - Cardinality(A \cap B)
    BY <1>3, <1>4, FS_Union
  <2>2. Cardinality(A \cap B) = 0  BY <1>7, FS_EmptySet
  <2> QED BY <2>1, <2>2, <1>2, <1>3, <1>4
<1>11. PICK C : C = (A \cup B) \cup {slots}  OBVIOUS
<1>12. IsFiniteSet(C) /\ Cardinality(C) = nv + ns + 1
  BY <1>8, <1>10, <1>11, FS_AddElement
<1>13. CASE own = Inner
  <2>1. Using(vals, strs, slots, own) = C  BY <1>1, <1>11, <1>13 DEF Using
  <2> QED BY <2>1, <1>1, <1>12, <1>13
<1>14. CASE own # Inner
  <2>1. Using(vals, strs, slots, own) = C \cup {own}  BY <1>1, <1>11, <1>14 DEF Using
  <2>2. own \notin C  BY <1>9, <1>11, <1>14
  <2>3. Cardinality(C \cup {own}) = nv + ns + 1 + 1  BY <1>12, <2>2, FS_AddElement
  <2> QED BY <2>1, <2>3, <1>1, <1>2, <1>14
<1> QED BY <1>13, <1>14

(* The invariant makes memory safe. *)
LEMMA StoreSafe ==
  ASSUME SizesOK, StoreInv
  PROVE  MemorySafe
<1>1. life = "closed" => DOMAIN mem.blocks = {}  BY DEF StoreInv
<1>2. ASSUME life = "open"
      PROVE  /\ Cardinality(InUse)
                  = Len(values) + Len(strings) + (IF array.at = Inner THEN 1 ELSE 2)
             /\ \A r \in InUse :
                  /\ r.block \in DOMAIN mem.blocks
                  /\ r.off + r.len <= mem.blocks[r.block]
                  /\ r.len > 0
                  /\ \A s \in InUse \ {r} : Apart(r, s)
             /\ array.number <= Len(array.cells)
  <2>1. MemOK(mem) /\ Layout(mem, values, strings, map.at, array.at)
    BY <1>2 DEF StoreInv, MemInv, Sound
  <2>2. values \in Seq(Regions) /\ strings \in Seq(Regions)  BY <2>1 DEF Layout
  <2>3. InUse = Using(values, strings, map.at, array.at)  BY DEF InUse, Using
  <2>4. /\ Distinct(values, strings, map.at, array.at)
        /\ \A r \in InUse : Fits(mem, r) /\ \A s \in InUse \ {r} : Apart(r, s)
    <3>1. /\ Distinct(values, strings, map.at, array.at)
          /\ \A r \in Using(values, strings, map.at, array.at) :
               /\ Fits(mem, r)
               /\ \A s \in Using(values, strings, map.at, array.at) \ {r} : Apart(r, s)
      BY ONLY <2>1, LayoutDistinct
    <3> QED BY <3>1, <2>3
  <2>5. Cardinality(InUse)
          = Len(values) + Len(strings) + (IF array.at = Inner THEN 1 ELSE 2)
    <3>1. Cardinality(Using(values, strings, map.at, array.at))
            = Len(values) + Len(strings) + (IF array.at = Inner THEN 1 ELSE 2)
      BY ONLY <2>2, <2>4, UsingCount
    <3> QED BY <3>1, <2>3
  <2>6. ASSUME NEW r \in InUse
        PROVE  /\ r.block \in DOMAIN mem.blocks
               /\ r.off + r.len <= mem.blocks[r.block]
               /\ r.len > 0
    <3>1. r \in Regions /\ r.len # 0 /\ r.block \in DOMAIN mem.blocks
          /\ r.off + r.len <= Mark(mem, r.block)
      BY <2>4 DEF Fits
    <3>2. r.off \in Nat /\ r.len \in Nat  BY <3>1 DEF Regions
    <3>3. Mark(mem, r.block) \in Nat /\ mem.blocks[r.block] \in Nat
          /\ Mark(mem, r.block) <= mem.blocks[r.block]
      <4>1. mem.blocks[r.block] \in Nat  BY <2>1, <3>1 DEF MemOK
      <4>2. CASE HasHeap(mem) /\ r.block = Head(mem.heap.pages)
        <5>1. PICK n \in Nat \ {0} : HeapIs(mem, n)  BY <2>1, <4>2 DEF MemOK
        <5>2. r.block = Page(n)  BY <4>2, <5>1, PagesAre DEF HeapIs
        <5>3. Mark(mem, r.block) = mem.heap.used  BY <4>2 DEF Mark
        <5> QED BY <4>1, <5>1, <5>2, <5>3 DEF HeapIs
      <4>3. CASE ~(HasHeap(mem) /\ r.block = Head(mem.heap.pages))
        <5>1. Mark(mem, r.block) = mem.blocks[r.block]  BY <4>3 DEF Mark
        <5> QED BY <4>1, <5>1
      <4> QED BY <4>2, <4>3
    <3>4. r.len > 0  BY <3>1, <3>2
    <3>5. r.off + r.len <= mem.blocks[r.block]
      <4>1. PICK o, l, k, b : /\ o = r.off /\ l = r.len
                              /\ k = Mark(mem, r.block) /\ b = mem.blocks[r.block]
        OBVIOUS
      <4>2. o \in Nat /\ l \in Nat /\ k \in Nat /\ b \in Nat /\ o + l <= k /\ k <= b
        BY <4>1, <3>1, <3>2, <3>3
      <4>3. o + l <= b  BY ONLY <4>2
      <4> QED BY <4>1, <4>3
    <3> QED BY <3>1, <3>4, <3>5
  <2>7. array.number <= Len(array.cells)
    <3>1. PICK n, c : n = array.number /\ c = Len(array.cells)  OBVIOUS
    <3>2. ArrayInv(array)  BY DEF StoreInv
    <3>3. INNER_FIELD \in Nat /\ MaxPushed \in Nat  BY DEF SizesOK
    <3>4. n \in Nat /\ c \in Nat /\ (n <= INNER_FIELD => c = INNER_FIELD)
          /\ (n > INNER_FIELD => n < c)
      BY <3>1, <3>2, <3>3 DEF ArrayInv
    <3>5. n <= c  BY <3>3, <3>4
    <3> QED BY <3>1, <3>5
  <2> QED BY <2>4, <2>5, <2>6, <2>7
<1> QED BY <1>1, <1>2 DEF MemorySafe

(* No two of the table's slots, the values, the strings and the entries of the  *)
(* array share memory or reach past their block, whether they were given out by *)
(* the heap, by malloc or by the pool; the array writes only into cells it has; *)
(* after the deletes nothing is left (_pbcH_alloc, _pbcA_push, _pbcS_build,     *)
(* _pbcM_sp_delete).                                                            *)
THEOREM MemoryIsSafe == Spec => []MemorySafe
<1>1. StoreInv => MemorySafe  BY SizesOK, StoreSafe
<1> QED BY <1>1, StoreInvariant, PTL

(* The invariant makes iteration complete. *)
LEMMA StoreIterates ==
  ASSUME SizesOK, StoreInv
  PROVE  IterationComplete
<1>1. PICK m, N : m = Entries /\ N = MaxEntries + 1  OBVIOUS
<1>2. PICK nv : nv = Len(values)  OBVIOUS
<1>3. TableInv(m, nv)  BY <1>1, <1>2 DEF StoreInv
<1>4. TableOK(m) /\ Pointed(m)  BY <1>3, TablePointed DEF TableInv
<1>5. MaxEntries \in Nat  BY DEF SizesOK
<1>6. N \in Nat /\ m.size < N
  BY <1>1, <1>3, <1>5 DEF TableInv
<1>7. \E f : Walks(f, Entries, MaxEntries + 1)
  BY <1>1, <1>4, <1>6, WalksExists
<1> DEFINE walk == CHOOSE walk : walk = [n \in 1 .. MaxEntries + 1 |->
                     IF n = 1 THEN sp_next(Entries, NULL)
                     ELSE IF walk[n-1] = NULL THEN NULL
                          ELSE sp_next(Entries, walk[n-1])]
<1>8. walk = [n \in 1 .. MaxEntries + 1 |->
                IF n = 1 THEN sp_next(Entries, NULL)
                ELSE IF walk[n-1] = NULL THEN NULL
                     ELSE sp_next(Entries, walk[n-1])]
  BY <1>7, Zenon DEF Walks
<1>9. IterationComplete <=>
        LET names == {k \in Keys : sp_find(Entries, k) # 0}
        IN /\ Cardinality(names) = map.size
           /\ \A n \in DOMAIN walk : walk[n] = NULL <=> n > map.size
           /\ {walk[n] : n \in 1 .. map.size} = names
           /\ sp_foreach(Entries) = [n \in 1 .. map.size |-> sp_query(Entries, walk[n])]
  BY DEF IterationComplete, Closed
<1> HIDE DEF walk
<1>10. PICK w : w = walk  OBVIOUS
<1>11. Walks(w, m, N)  BY <1>1, <1>8, <1>10 DEF Walks
<1>12. Iterates(m, w)
  BY ONLY SizesOK, <1>4, <1>6, <1>11, IteratesOK
<1>13. m.size = map.size  BY <1>1 DEF Entries
<1> QED BY <1>1, <1>9, <1>10, <1>12, <1>13 DEF Iterates

(* Callers delete what a table points to while they go through it: every name *)
(* comes once along _pbcM_sp_next, which ends after the last, and             *)
(* _pbcM_sp_foreach meets the same pointers in the same order.                *)
THEOREM IterationIsComplete == Spec => []IterationComplete
<1>1. StoreInv => IterationComplete  BY SizesOK, StoreIterates
<1> QED BY <1>1, StoreInvariant, PTL

(* The new name is answered with its pointer, the others as before. *)
LEMMA AnswersOK ==
  ASSUME SizesOK, NEW t, NEW x, NEW k \in Keys, Enters(x, t, k)
  PROVE  /\ sp_query(t, k) = NULL /\ sp_query(x, k) \in Pointers
         /\ \A q \in Keys : q # k => sp_query(x, q) = sp_query(t, q)
<1>1. TableOK(t) /\ ~Has(t, k)  BY DEF Enters
<1>2. PICK p \in Pointers : Adds(x, t, k, p)  BY DEF Enters
<1>3. TableOK(x)  BY <1>2 DEF Adds
<1>4. \A j \in Keys : \A q : Entry(x, j, q) <=> Entry(t, j, q) \/ (j = k /\ q = p)
  BY <1>2 DEF Adds
<1>5. sp_query(t, k) = NULL  BY <1>1, LookOK
<1>6. sp_query(x, k) = p
  <2>1. Entry(x, k, p)  BY <1>4
  <2> QED BY <2>1, <1>3, LookOK
<1>7. ASSUME NEW q \in Keys, q # k
      PROVE  sp_query(x, q) = sp_query(t, q)
  <2>1. \A r : Entry(x, q, r) <=> Entry(t, q, r)  BY <1>4, <1>7
  <2>2. CASE Has(t, q)
    <3>1. PICK r : Entry(t, q, r)  BY <2>2, EntryHas
    <3>2. sp_query(t, q) = r  BY <3>1, <1>1, LookOK
    <3>3. sp_query(x, q) = r  BY <3>1, <2>1, <1>3, LookOK
    <3> QED BY <3>2, <3>3
  <2>3. CASE ~Has(t, q)
    <3>1. ~Has(x, q)  BY <2>1, <2>3, EntryHas
    <3> QED BY <2>3, <3>1, <1>1, <1>3, LookOK
  <2> QED BY <2>2, <2>3
<1> QED BY <1>5, <1>6, <1>7

(* An empty table and array is where StorePromise begins. *)
LEMMA StartsEmpty ==
  ASSUME SizesOK, Init
  PROVE  Promise!Init
<1>1. StoreInv  BY InitOK
<1>2. values = <<>> /\ array.number = 0  BY DEF Init, _pbcA_open
<1>3. PICK t : t = Entries  OBVIOUS
<1>4. TableInv(t, 0)  BY <1>1, <1>2, <1>3 DEF StoreInv
<1>5. \A k \in Keys : sp_query(t, k) = NULL
  <2> TAKE k \in Keys
  <2>1. \A q : ~Entry(t, k, q)
    <3>1. \A q : q \in 1 .. 0 <=> \E j \in Keys : Entry(t, j, q)  BY <1>4 DEF TableInv
    <3>2. 1 .. 0 = {}  OBVIOUS
    <3> QED BY <3>1, <3>2
  <2>2. ~Has(t, k)  BY <2>1, EntryHas
  <2> QED BY <2>2, <1>4, LookOK DEF TableInv
<1>6. [k \in Keys |-> sp_query(Entries, k)] = [k \in Keys |-> NULL]  BY <1>3, <1>5
<1>7. SubSeq(array.cells, 1, array.number) = <<>>
  <2>1. array.cells \in Seq(Values \cup {NULL})  BY <1>1 DEF StoreInv, ArrayInv
  <2> QED BY <2>1, <1>2
<1> QED BY <1>6, <1>7 DEF Promise!Init

(* Every operation is one of StorePromise or leaves its variables alone. *)
LEMMA PromiseStep ==
  ASSUME SizesOK, StoreInv, [Next]_vars
  PROVE  [Promise!Next]_<<[k \in Keys |-> sp_query(Entries, k)],
                          SubSeq(array.cells, 1, array.number)>>
<1>1. PICK d, e : /\ d = [k \in Keys |-> sp_query(Entries, k)]
                  /\ e = [k \in Keys |-> sp_query(Entries, k)]'
  OBVIOUS
<1>2. ASSUME NEW k \in Keys, Enters(Entries', Entries, k), UNCHANGED array
      PROVE  Promise!Next
  <2>1. PICK t, x : t = Entries /\ x = Entries'  OBVIOUS
  <2>2. d = [q \in Keys |-> sp_query(t, q)] /\ e = [q \in Keys |-> sp_query(x, q)]
    BY <1>1, <2>1
  <2>3. Enters(x, t, k)  BY <1>2, <2>1
  <2>4. /\ sp_query(t, k) = NULL /\ sp_query(x, k) \in Pointers
        /\ \A q \in Keys : q # k => sp_query(x, q) = sp_query(t, q)
    BY ONLY SizesOK, k \in Keys, <2>3, AnswersOK
  <2>5. d[k] = NULL /\ e[k] \in Pointers  BY <2>2, <2>4
  <2>6. e = [d EXCEPT ![k] = e[k]]
    BY <2>2, <2>4
  <2>7. UNCHANGED SubSeq(array.cells, 1, array.number)  BY <1>2
  <2>8. Promise!Enter(k)
    BY <1>1, <2>5, <2>6, <2>7 DEF Promise!Enter, Pointers
  <2> QED BY <2>8 DEF Promise!Next
<1>3. ASSUME UNCHANGED <<map, array>>
      PROVE  UNCHANGED <<[k \in Keys |-> sp_query(Entries, k)],
                         SubSeq(array.cells, 1, array.number)>>
  BY <1>3 DEF Entries
<1>4. ASSUME NEW k \in Keys, Insert(k) PROVE Promise!Next
  <2>1. Enters(Entries', Entries, k)  BY <1>4, InsertStep
  <2>2. UNCHANGED array  BY <1>4 DEF Insert
  <2> QED BY <1>2, <2>1, <2>2
<1>5. ASSUME NEW k \in Keys, QueryInsert(k) PROVE Promise!Next
  <2>1. Enters(Entries', Entries, k)  BY <1>5, QueryInsertStep
  <2>2. UNCHANGED array  BY <1>5 DEF QueryInsert
  <2> QED BY <1>2, <2>1, <2>2
<1>6. ASSUME NEW v \in Values, Push(v) PROVE Promise!Next
  <2>1. SubSeq(array'.cells, 1, array'.number) = Append(SubSeq(array.cells, 1, array.number), v)
    BY <1>6, PushStep
  <2>2. Entries' = Entries  BY <1>6 DEF Push, Entries
  <2>3. UNCHANGED [k \in Keys |-> sp_query(Entries, k)]  BY <2>2
  <2>4. Promise!Add(v)  BY <2>1, <2>3 DEF Promise!Add
  <2> QED BY <2>4 DEF Promise!Next
<1>7. ASSUME NEW sz \in StringSizes, _pbcS_build(sz) PROVE UNCHANGED <<map, array>>
  BY <1>7 DEF _pbcS_build
<1>8. ASSUME Delete PROVE UNCHANGED <<map, array>>  BY <1>8 DEF Delete
<1>9. ASSUME UNCHANGED vars PROVE UNCHANGED <<map, array>>  BY <1>9 DEF vars
<1> QED BY <1>3, <1>4, <1>5, <1>6, <1>7, <1>8, <1>9 DEF Next

(* However often the table is rehashed and the array moves, a name keeps the     *)
(* pointer it was entered with, and the array has what was pushed in order:      *)
(* _pbcM_sp_insert, _pbcM_sp_query_insert and _pbcA_push implement StorePromise. *)
THEOREM StoreKeepsPromise == Spec => KeepsPromise
<1>1. Init => Promise!Init  BY SizesOK, StartsEmpty
<1>2. StoreInv /\ [Next]_vars =>
        [Promise!Next]_<<[k \in Keys |-> sp_query(Entries, k)],
                         SubSeq(array.cells, 1, array.number)>>
  BY SizesOK, PromiseStep
<1> QED BY <1>1, <1>2, StoreInvariant, PTL DEF Spec, KeepsPromise, Promise!PromiseSpec

=============================================================================
