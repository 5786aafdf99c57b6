----------------------------- MODULE ExpHeap_proof -----------------------------
(***************************************************************************)
(* The heap's lists stay in order and apart, and the heap is an allocator,  *)
(* for a heap of any size and any sequence of requests.                     *)
(***************************************************************************)
EXTENDS ExpHeap, SequenceTheorems, WellFoundedInduction, TLAPS

\* A set of numbers has its minimum.
LEMMA MinProperties ==
  ASSUME NEW T, T \subseteq Nat, T # {}
  PROVE  Min(T) \in T /\ \A y \in T : Min(T) <= y
<1> DEFINE Less == {p \in Nat \X Nat : p[1] < p[2]}
<1>0. IsWellFoundedOn(Less, Nat)
  BY NatLessThanWellFounded, Zenon DEF OpToRel
<1>1. \E x \in T : \A y \in T : ~(<<y, x>> \in Less)
  <2> HIDE DEF Less
  <2> QED
    BY <1>0, WFMin
<1>2. PICK x \in T : \A y \in T : ~(<<y, x>> \in Less)
  BY <1>1
<1>3. \A y \in T : <<y, x>> \in Less <=> y < x
  BY <1>2
<1> HIDE DEF Less
<1>4. ASSUME NEW y \in T
      PROVE  x <= y
  <2>1. x \in Nat /\ y \in Nat
    BY <1>2
  <2>2. ~(y < x)
    BY <1>2, <1>3
  <2> QED
    BY <2>1, <2>2
<1> QED
  BY <1>4 DEF Min

\* A set of integers below a bound has its maximum.
LEMMA MaxProperties ==
  ASSUME NEW T, T \subseteq Int, T # {}, NEW n \in Int, \A y \in T : y <= n
  PROVE  Max(T) \in T /\ \A y \in T : Max(T) >= y
<1> DEFINE D == {n - y : y \in T}
<1>1. D \subseteq Nat /\ D # {}
  <2>1. \A y \in T : n - y \in Nat
    <3> TAKE y \in T
    <3>1. y \in Int /\ y <= n
      OBVIOUS
    <3> QED
      BY <3>1
  <2>2. PICK y \in T : TRUE
    OBVIOUS
  <2> QED
    BY <2>1, <2>2
<1>2. Min(D) \in D /\ \A d \in D : Min(D) <= d
  <2> HIDE DEF D
  <2> QED
    BY <1>1, MinProperties
<1>3. PICK x \in T : Min(D) = n - x
  BY <1>2
<1>4. ASSUME NEW y \in T
      PROVE  x >= y
  <2>1. n - y \in D
    OBVIOUS
  <2>2. n - x <= n - y
    BY <1>2, <1>3, <2>1
  <2>3. x \in Int /\ y \in Int
    OBVIOUS
  <2> QED
    BY <2>2, <2>3
<1> QED
  BY <1>4 DEF Max

\* Rounding up does not go down.
LEMMA AlignUpProperties ==
  ASSUME NEW x \in Nat, NEW a \in Nat \ {0}
  PROVE  AlignUp(x, a) \in Nat /\ x <= AlignUp(x, a)
<1> DEFINE q == (x + a - 1) \div a
<1>1. q \in Nat /\ x + a - 1 = a * q + ((x + a - 1) % a) /\ (x + a - 1) % a \in 0 .. a - 1
  OBVIOUS
<1>2. q * a \in Nat /\ q * a = a * q
  BY <1>1
<1>3. x <= q * a
  BY <1>1, <1>2
<1> QED
  BY <1>2, <1>3 DEF AlignUp

\* What stands where after a replacement.
LEMMA Replaced ==
  ASSUME NEW S, NEW list \in Seq(S), NEW others \in Seq(S),
         NEW a \in 1 .. Len(list) + 1, NEW c \in a - 1 .. Len(list)
  PROVE  /\ Replace(list, a, c, others) \in Seq(S)
         /\ Len(Replace(list, a, c, others)) = Len(list) + Len(others) - (c - a + 1)
         /\ \A k \in 1 .. Len(Replace(list, a, c, others)) :
              Replace(list, a, c, others)[k] =
                IF k < a THEN list[k]
                ELSE IF k < a + Len(others) THEN others[k - a + 1]
                ELSE list[k - Len(others) + c - a + 1]
<1> DEFINE front == SubSeq(list, 1, a - 1)
           back == SubSeq(list, c + 1, Len(list))
<1>1. Len(list) \in Nat /\ Len(others) \in Nat /\ \A i \in 1 .. Len(list) : list[i] \in S
  BY LenProperties, ElementOfSeq
<1>2. front \in Seq(S) /\ Len(front) = a - 1 /\ \A i \in 1 .. a - 1 : front[i] = list[i]
  <2>1. \A i \in 1 .. a - 1 : list[i] \in S
    BY <1>1
  <2> QED
    BY <1>1, <2>1, SubSeqProperties
<1>3. /\ back \in Seq(S) /\ Len(back) = Len(list) - c
      /\ \A i \in 1 .. Len(list) - c : back[i] = list[c + i]
  <2>1. \A i \in c + 1 .. Len(list) : list[i] \in S
    BY <1>1
  <2> QED
    BY <1>1, <2>1, SubSeqProperties
<1> HIDE DEF front, back
<1> DEFINE both == front \o others
<1>4. /\ both \in Seq(S) /\ Len(both) = a - 1 + Len(others)
      /\ \A i \in 1 .. a - 1 + Len(others) :
           both[i] = IF i <= a - 1 THEN front[i] ELSE others[i - (a - 1)]
  <2>1. /\ both \in Seq(S) /\ Len(both) = Len(front) + Len(others)
        /\ \A i \in 1 .. Len(front) + Len(others) :
             both[i] = IF i <= Len(front) THEN front[i] ELSE others[i - Len(front)]
    BY <1>2, ConcatProperties
  <2> HIDE DEF both
  <2> QED
    BY <1>2, <2>1
<1> HIDE DEF both
<1> DEFINE new == both \o back
<1>5. /\ new \in Seq(S) /\ Len(new) = Len(both) + Len(back)
      /\ \A i \in 1 .. Len(both) + Len(back) :
           new[i] = IF i <= Len(both) THEN both[i] ELSE back[i - Len(both)]
  BY <1>3, <1>4, ConcatProperties
<1>6. new = Replace(list, a, c, others)
  BY DEF Replace, new, both, front, back
<1> HIDE DEF new
<1>7. Len(new) = Len(list) + Len(others) - (c - a + 1)
  BY <1>1, <1>3, <1>4, <1>5
<1>8. ASSUME NEW k \in 1 .. Len(new)
      PROVE  new[k] = IF k < a THEN list[k]
                      ELSE IF k < a + Len(others) THEN others[k - a + 1]
                      ELSE list[k - Len(others) + c - a + 1]
  <2>1. CASE k < a
    <3>1. k \in 1 .. a - 1 /\ k <= a - 1 /\ k <= Len(both)
      BY <2>1, <1>1, <1>4
    <3>2. new[k] = both[k]
      BY <3>1, <1>1, <1>3, <1>4, <1>5
    <3>3. both[k] = front[k]
      BY <3>1, <1>1, <1>4
    <3>4. front[k] = list[k]
      BY <3>1, <1>2
    <3> QED
      BY <2>1, <3>2, <3>3, <3>4
  <2>2. CASE k >= a /\ k < a + Len(others)
    <3>1. both[k] = others[k - (a - 1)] /\ new[k] = both[k]
      BY <2>2, <1>1, <1>3, <1>4, <1>5
    <3>2. k - (a - 1) = k - a + 1
      OBVIOUS
    <3> QED
      BY <2>2, <3>1, <3>2
  <2>3. CASE k >= a + Len(others)
    <3> DEFINE j == k - Len(both)
    <3>1. j \in 1 .. Len(list) - c /\ c + j = k - Len(others) + c - a + 1
      BY <2>3, <1>1, <1>4, <1>7
    <3>2. new[k] = back[j]
      BY <2>3, <1>1, <1>3, <1>4, <1>5, <1>7
    <3>3. back[j] = list[c + j]
      BY <3>1, <1>3
    <3>4. ~(k < a) /\ ~(k < a + Len(others))
      BY <2>3, <1>1
    <3> QED
      BY <3>1, <3>2, <3>3, <3>4
  <2> QED
    BY <2>1, <2>2, <2>3, <1>1
<1> QED
  BY <1>5, <1>6, <1>7, <1>8

\* What a replacement keeps and brings is in the new list.
LEMMA ReplacedKeeps ==
  ASSUME NEW S, NEW list \in Seq(S), NEW others \in Seq(S),
         NEW a \in 1 .. Len(list) + 1, NEW c \in a - 1 .. Len(list)
  PROVE  /\ \A i \in 1 .. Len(list) : i < a \/ i > c =>
              \E k \in DOMAIN Replace(list, a, c, others) : Replace(list, a, c, others)[k] = list[i]
         /\ \A m \in 1 .. Len(others) :
              \E k \in DOMAIN Replace(list, a, c, others) : Replace(list, a, c, others)[k] = others[m]
<1> DEFINE new == Replace(list, a, c, others)
<1>1. /\ new \in Seq(S)
      /\ Len(new) = Len(list) + Len(others) - (c - a + 1)
      /\ \A k \in 1 .. Len(new) :
           new[k] = IF k < a THEN list[k]
                    ELSE IF k < a + Len(others) THEN others[k - a + 1]
                    ELSE list[k - Len(others) + c - a + 1]
  BY Replaced
<1> HIDE DEF new
<1>2. /\ Len(list) \in Nat /\ Len(others) \in Nat /\ Len(new) \in Nat
      /\ DOMAIN new = 1 .. Len(new) /\ a \in Nat /\ a >= 1 /\ c \in Int /\ c <= Len(list) /\ a - 1 <= c
  BY <1>1, LenProperties
<1>3. ASSUME NEW i \in 1 .. Len(list), i < a
      PROVE  \E k \in DOMAIN new : new[k] = list[i]
  <2>1. i \in 1 .. Len(new)
    BY <1>1, <1>2, <1>3
  <2> QED
    BY <2>1, <1>1, <1>2, <1>3
<1>4. ASSUME NEW i \in 1 .. Len(list), i > c
      PROVE  \E k \in DOMAIN new : new[k] = list[i]
  <2> DEFINE k == i + Len(others) - c + a - 1
  <2>1. /\ k \in 1 .. Len(new) /\ ~(k < a) /\ ~(k < a + Len(others))
        /\ k - Len(others) + c - a + 1 = i
    BY <1>1, <1>2, <1>4
  <2> HIDE DEF k
  <2>2. new[k] = list[i]
    BY <2>1, <1>1
  <2> QED
    BY <2>1, <2>2, <1>2
<1>5. ASSUME NEW m \in 1 .. Len(others)
      PROVE  \E k \in DOMAIN new : new[k] = others[m]
  <2> DEFINE k == m + a - 1
  <2>1. /\ k \in 1 .. Len(new) /\ ~(k < a) /\ k < a + Len(others)
        /\ k - a + 1 = m
    BY <1>1, <1>2
  <2> HIDE DEF k
  <2>2. new[k] = others[m]
    BY <2>1, <1>1
  <2> QED
    BY <2>1, <2>2, <1>2
<1> QED
  BY <1>3, <1>4, <1>5 DEF new

\* The others lie between what is before a and what is behind c.
LieBetween(list, a, c, others) ==
  \A m \in 1 .. Len(others) :
    /\ \A i \in 1 .. a - 1 : list[i].end < others[m].start
    /\ \A i \in c + 1 .. Len(list) : others[m].end < list[i].start

\* What the list holds after a replacement.
HoldsRest(new, list, a, c, others) ==
  \A k \in DOMAIN new :
    \/ \E m \in 1 .. Len(others) : new[k] = others[m]
    \/ \E i \in 1 .. Len(list) : (i < a \/ i > c) /\ new[k] = list[i]

\* Each block of the new list is an old one before a or behind c, or new; the
\* list is in order when the others are and lie between their neighbours.
LEMMA ReplacedInOrder ==
  ASSUME NEW list \in Seq(Places), NEW others \in Seq(Places),
         NEW a \in 1 .. Len(list) + 1, NEW c \in a - 1 .. Len(list),
         InOrder(list), InOrder(others), LieBetween(list, a, c, others),
         \A i \in 1 .. Len(list) : list[i].start <= list[i].end
  PROVE  /\ Replace(list, a, c, others) \in Seq(Places)
         /\ InOrder(Replace(list, a, c, others))
         /\ HoldsRest(Replace(list, a, c, others), list, a, c, others)
<1> DEFINE new == Replace(list, a, c, others)
<1>1. /\ new \in Seq(Places)
      /\ Len(new) = Len(list) + Len(others) - (c - a + 1)
      /\ \A k \in 1 .. Len(new) :
           new[k] = IF k < a THEN list[k]
                    ELSE IF k < a + Len(others) THEN others[k - a + 1]
                    ELSE list[k - Len(others) + c - a + 1]
  <2> DEFINE P(S) == \A l, o \in Seq(S) : \A i \in 1 .. Len(l) + 1 : \A j \in i - 1 .. Len(l) :
              /\ Replace(l, i, j, o) \in Seq(S)
              /\ Len(Replace(l, i, j, o)) = Len(l) + Len(o) - (j - i + 1)
              /\ \A k \in 1 .. Len(Replace(l, i, j, o)) :
                   Replace(l, i, j, o)[k] =
                     IF k < i THEN l[k]
                     ELSE IF k < i + Len(o) THEN o[k - i + 1]
                     ELSE l[k - Len(o) + j - i + 1]
  <2>1. P(Places)
    BY Replaced
  <2> QED
    BY <2>1
<1> HIDE DEF new
<1>2. /\ Len(list) \in Nat /\ Len(others) \in Nat /\ Len(new) \in Nat
      /\ DOMAIN list = 1 .. Len(list) /\ DOMAIN others = 1 .. Len(others) /\ DOMAIN new = 1 .. Len(new)
  BY <1>1, LenProperties
<1>3. /\ \A i \in 1 .. Len(list) : list[i].start \in Nat /\ list[i].end \in Nat
      /\ \A m \in 1 .. Len(others) : others[m].start \in Nat /\ others[m].end \in Nat
  <2>1. /\ \A i \in 1 .. Len(list) : list[i] \in Places
        /\ \A m \in 1 .. Len(others) : others[m] \in Places
    BY <1>2, ElementOfSeq
  <2> QED
    BY <2>1 DEF Places
<1> DEFINE mid(k) == k - a + 1
           after(k) == k - Len(others) + c - a + 1
<1>4. ASSUME NEW k \in 1 .. Len(new)
      PROVE  \/ k < a /\ k \in 1 .. Len(list) /\ new[k] = list[k]
             \/ k >= a /\ k < a + Len(others) /\ mid(k) \in 1 .. Len(others) /\ new[k] = others[mid(k)]
             \/ k >= a + Len(others) /\ after(k) \in c + 1 .. Len(list) /\ after(k) \in 1 .. Len(list)
                /\ new[k] = list[after(k)]
  <2>1. CASE k < a
    BY <2>1, <1>1, <1>2
  <2>2. CASE k >= a /\ k < a + Len(others)
    BY <2>2, <1>1, <1>2
  <2>3. CASE k >= a + Len(others)
    <3>1. after(k) \in c + 1 .. Len(list) /\ after(k) \in 1 .. Len(list)
      BY <2>3, <1>1, <1>2
    <3> QED
      BY SMTT(30), <2>3, <3>1, <1>1, <1>2
  <2> QED
    BY <2>1, <2>2, <2>3, <1>2
<1>5. ASSUME NEW k \in DOMAIN new
      PROVE  \/ \E m \in 1 .. Len(others) : new[k] = others[m]
             \/ \E i \in 1 .. Len(list) : (i < a \/ i > c) /\ new[k] = list[i]
  <2> DEFINE Mid(n) == n \in 1 .. Len(others) /\ new[k] = others[n]
             Old(n) == n \in 1 .. Len(list) /\ (n < a \/ n > c) /\ new[k] = list[n]
  <2> k \in 1 .. Len(new)
    BY <1>2
  <2>0. after(k) \in c + 1 .. Len(list) => after(k) > c
    BY <1>2
  <2>1. Old(k) \/ Mid(mid(k)) \/ Old(after(k))
    <3> HIDE DEF mid, after
    <3> QED
      BY <1>4, <2>0
  <2> HIDE DEF mid, after
  <2> QED
    BY <2>1
<1>6. ASSUME NEW j \in DOMAIN new, NEW k \in DOMAIN new, j < k
      PROVE  new[j].end < new[k].start
  <2> j \in 1 .. Len(new) /\ k \in 1 .. Len(new)
    BY <1>2
  <2>1. CASE k < a
    <3>1. new[j] = list[j] /\ new[k] = list[k] /\ j \in 1 .. Len(list) /\ k \in 1 .. Len(list)
      BY <2>1, <1>2, <1>4, <1>6
    <3> QED
      BY <3>1, <1>2, <1>6 DEF InOrder
  <2>2. CASE k >= a /\ k < a + Len(others)
    <3>1. new[k] = others[mid(k)] /\ mid(k) \in 1 .. Len(others)
      <4>1. ~(k < a) /\ ~(k >= a + Len(others))
        BY <2>2, <1>2
      <4> HIDE DEF mid, after
      <4> QED
        BY <4>1, <1>4
    <3>2. CASE j < a
      <4>1. new[j] = list[j] /\ j \in 1 .. a - 1
        BY <3>2, <1>2, <1>4
      <4> QED
        BY <3>1, <4>1 DEF LieBetween
    <3>3. CASE j >= a
      <4>1. new[j] = others[mid(j)] /\ mid(j) \in 1 .. Len(others) /\ mid(j) < mid(k)
        <5>1. j \in 1 .. Len(new) /\ j >= a /\ j < a + Len(others) /\ mid(j) < mid(k)
          BY <3>3, <2>2, <1>2, <1>6
        <5>2. new[j] = others[mid(j)] /\ mid(j) \in 1 .. Len(others)
          <6> ~(j < a) /\ ~(j >= a + Len(others))
            BY <5>1, <1>2
          <6> HIDE DEF mid, after
          <6> QED
            BY <5>1, <1>4
        <5> QED
          BY <5>1, <5>2
      <4> QED
        BY <3>1, <4>1, <1>2 DEF InOrder
    <3> QED
      BY <3>2, <3>3, <1>2
  <2>3. CASE k >= a + Len(others)
    <3>1. new[k] = list[after(k)] /\ after(k) \in c + 1 .. Len(list) /\ after(k) \in 1 .. Len(list)
      <4>1. ~(k < a) /\ ~(k < a + Len(others))
        BY <2>3, <1>2
      <4> QED
        BY <4>1, <1>4
    <3>2. CASE j < a
      <4>1. new[j] = list[j] /\ j \in 1 .. Len(list) /\ j < after(k)
        <5>1. j \in 1 .. Len(new) /\ ~(j >= a) /\ ~(j >= a + Len(others))
          BY <3>2, <1>2
        <5>2. new[j] = list[j] /\ j \in 1 .. Len(list)
          <6> HIDE DEF mid, after
          <6> QED
            BY <5>1, <1>4
        <5>3. j < after(k)
          BY <3>1, <3>2, <1>2
        <5> QED
          BY <5>2, <5>3
      <4> QED
        BY <3>1, <4>1, <1>2 DEF InOrder
    <3>3. CASE j >= a /\ j < a + Len(others)
      <4>1. new[j] = others[mid(j)] /\ mid(j) \in 1 .. Len(others)
        <5>1. ~(j < a) /\ ~(j >= a + Len(others))
          BY <3>3, <1>2
        <5> HIDE DEF mid, after
        <5> QED
          BY <5>1, <1>4
      <4> QED
        BY <3>1, <4>1 DEF LieBetween
    <3>4. CASE j >= a + Len(others)
      <4>1. new[j] = list[after(j)] /\ after(j) \in 1 .. Len(list) /\ after(j) < after(k)
        <5>1. j \in 1 .. Len(new) /\ ~(j < a) /\ ~(j < a + Len(others)) /\ after(j) < after(k)
          BY SMTT(30), <3>4, <1>2, <1>6
        <5>2. new[j] = list[after(j)] /\ after(j) \in 1 .. Len(list)
          <6> HIDE DEF mid, after
          <6> QED
            BY <5>1, <1>4
        <5> QED
          BY <5>1, <5>2
      <4> QED
        BY <3>1, <4>1, <1>2 DEF InOrder
    <3> QED
      BY <3>2, <3>3, <3>4, <1>2
  <2> QED
    BY <2>1, <2>2, <2>3, <1>2
<1>7. InOrder(new) /\ HoldsRest(new, list, a, c, others)
  BY <1>5, <1>6 DEF InOrder, HoldsRest
<1> QED
  BY <1>1, <1>7 DEF new

\* All blocks before the position start before the region, the others do not.
LEMMA PositionProperties ==
  ASSUME NEW list \in Seq(Places), NEW region \in Places
  PROVE  /\ Position(list, region) \in 1 .. Len(list) + 1
         /\ \A i \in 1 .. Position(list, region) - 1 : list[i].start < region.start
         /\ Position(list, region) <= Len(list) => region.start <= list[Position(list, region)].start
<1> DEFINE later == {i \in DOMAIN list : list[i].start >= region.start}
           T == later \cup {Len(list) + 1}
           n == Min(T)
<1>1. Len(list) \in Nat /\ DOMAIN list = 1 .. Len(list)
  BY LenProperties
<1>2. \A i \in 1 .. Len(list) : list[i] \in Places
  BY ElementOfSeq
<1>3. T \subseteq 1 .. Len(list) + 1 /\ T # {}
  BY <1>1
<1>4. n \in T /\ \A i \in T : n <= i
  <2> HIDE DEF T
  <2> T \subseteq Nat
    BY <1>1, <1>3
  <2> QED
    BY <1>3, MinProperties
<1>5. n = Position(list, region)
  BY DEF Position
<1> HIDE DEF n
<1>6. ASSUME NEW i \in 1 .. n - 1
      PROVE  list[i].start < region.start
  <2>1. i \in 1 .. Len(list) /\ i < n
    BY <1>1, <1>3, <1>4
  <2>2. i \notin later
    BY <2>1, <1>1, <1>4
  <2> QED
    BY <2>1, <2>2, <1>1, <1>2 DEF Places
<1>7. ASSUME n <= Len(list)
      PROVE  region.start <= list[n].start
  BY <1>1, <1>2, <1>4, <1>7 DEF Places
<1> QED
  BY <1>3, <1>4, <1>5, <1>6, <1>7

\* The addresses of the blocks of a list.
CellsOf(list) == UNION {Cells(list[i]) : i \in DOMAIN list}

\* r is the region with the blocks of the list that touch it.
Joined(list, region, r) ==
  /\ \/ r.start = region.start
     \/ \E i \in DOMAIN list : list[i].end = region.start /\ r.start = list[i].start
  /\ \/ r.end = region.end
     \/ \E i \in DOMAIN list : list[i].start = region.end /\ r.end = list[i].end

\* A region apart from an ordered list is freed into an ordered list, of the
\* blocks there were and of the region joined with its neighbours.
LEMMA Coalesced ==
  ASSUME NEW list \in Seq(Places), NEW region \in Places,
         InOrder(list), region.start < region.end,
         \A i \in DOMAIN list : HoldsBlock(list[i]) /\ Apart(region, list[i])
  PROVE  /\ CoalesceFreedRegion(list, region) \in Seq(Places)
         /\ InOrder(CoalesceFreedRegion(list, region))
         /\ \A k \in DOMAIN CoalesceFreedRegion(list, region) :
              LET r == CoalesceFreedRegion(list, region)[k]
              IN  HoldsBlock(r) /\ (Joined(list, region, r) \/ \E i \in DOMAIN list : r = list[i])
         /\ HoldsBlock(region) =>
              \E k \in DOMAIN CoalesceFreedRegion(list, region) :
                LET r == CoalesceFreedRegion(list, region)[k]
                IN  r.start <= region.start /\ region.end <= r.end
         /\ CoalesceFreedRegion(list, region) # list =>
              CellsOf(list) \cup Cells(region) \subseteq CellsOf(CoalesceFreedRegion(list, region))
<1> DEFINE n == Position(list, region)
           prev == JoinsPrev(list, n, region)
           next == JoinsNext(list, n, region)
           freed == Region(IF prev THEN list[n - 1].start ELSE region.start,
                           IF next THEN list[n].end ELSE region.end)
           a == IF prev THEN n - 1 ELSE n
           c == IF next THEN n ELSE n - 1
           others == If(HoldsBlock(freed), freed)
           new == Replace(list, a, c, others)
<1>1. CoalesceFreedRegion(list, region) = new
  BY DEF CoalesceFreedRegion
<1>2. Len(list) \in Nat /\ DOMAIN list = 1 .. Len(list)
  BY LenProperties
<1>3. \A i \in 1 .. Len(list) : list[i].start \in Nat /\ list[i].end \in Nat /\ list[i] \in Places
  <2>1. \A i \in 1 .. Len(list) : list[i] \in Places
    BY ElementOfSeq
  <2> QED
    BY <2>1 DEF Places
<1>4. region.start \in Nat /\ region.end \in Nat
  BY DEF Places
<1>5. /\ n \in 1 .. Len(list) + 1
      /\ \A i \in 1 .. n - 1 : list[i].start < region.start
      /\ n <= Len(list) => region.start <= list[n].start
  BY PositionProperties
<1> HIDE DEF n
<1>6. \A i \in 1 .. Len(list) : list[i].start < list[i].end
  BY <1>2, <1>3, HeapAssumption DEF HoldsBlock, Length
<1>7. \A i \in 1 .. n - 1 : i \in 1 .. Len(list) /\ list[i].end <= region.start
  BY SMTT(30), <1>2, <1>3, <1>4, <1>5, <1>6 DEF Apart
<1>8. ASSUME NEW i \in n .. Len(list)
      PROVE  i \in 1 .. Len(list) /\ region.end <= list[i].start
  <2>1. n \in 1 .. Len(list) /\ i \in 1 .. Len(list)
    BY <1>2, <1>5
  <2>2. region.end <= list[n].start
    BY SMTT(30), <2>1, <1>2, <1>3, <1>4, <1>5, <1>6 DEF Apart
  <2>3. n = i \/ list[n].end < list[i].start
    BY <2>1, <1>2 DEF InOrder
  <2> QED
    BY <2>1, <2>2, <2>3, <1>3, <1>4, <1>6
<1>9. prev => n - 1 \in 1 .. Len(list) /\ list[n - 1].end = region.start
  BY <1>2, <1>5 DEF JoinsPrev
<1>10. next => n \in 1 .. Len(list) /\ list[n].start = region.end
  BY <1>2, <1>5 DEF JoinsNext
<1>11. a \in 1 .. Len(list) + 1 /\ c \in a - 1 .. Len(list)
  BY <1>2, <1>5, <1>9, <1>10
<1>12. /\ freed \in Places /\ freed.start \in Nat /\ freed.end \in Nat
       /\ freed.start = (IF prev THEN list[n - 1].start ELSE region.start)
       /\ freed.end = (IF next THEN list[n].end ELSE region.end)
  BY <1>3, <1>4, <1>9, <1>10 DEF Region, Places
<1>13. Joined(list, region, freed)
  BY <1>2, <1>9, <1>10, <1>12 DEF Joined
<1>14. freed.start <= region.start /\ region.end <= freed.end
  BY <1>3, <1>4, <1>6, <1>9, <1>10, <1>12
<1>15. ASSUME NEW i \in 1 .. a - 1
       PROVE  list[i].end < freed.start
  <2>1. i \in 1 .. n - 1 /\ i \in 1 .. Len(list)
    BY <1>5, <1>7
  <2>2. CASE prev
    <3>1. i < n - 1 /\ n - 1 \in 1 .. Len(list)
      BY <2>2, <1>5, <1>9
    <3> QED
      BY <2>1, <2>2, <3>1, <1>2, <1>12 DEF InOrder
  <2>3. CASE ~prev
    <3>1. CASE i = n - 1
      <4>1. list[i].end # region.start
        BY <2>1, <2>3, <3>1, <1>5 DEF JoinsPrev
      <4> QED
        BY <2>1, <2>3, <4>1, <1>3, <1>4, <1>7, <1>12
    <3>2. CASE i < n - 1
      <4>1. n - 1 \in 1 .. n - 1 /\ n - 1 \in 1 .. Len(list) /\ list[i].end < list[n - 1].start
        BY <2>1, <3>2, <1>2, <1>5 DEF InOrder
      <4> QED
        BY <2>1, <2>3, <4>1, <1>3, <1>4, <1>5, <1>12
    <3> QED
      BY <2>1, <3>1, <3>2, <1>5
  <2> QED
    BY <2>2, <2>3
<1>16. ASSUME NEW i \in c + 1 .. Len(list)
       PROVE  freed.end < list[i].start
  <2>1. i \in n .. Len(list) /\ i \in 1 .. Len(list) /\ n \in 1 .. Len(list)
    BY <1>2, <1>5
  <2>2. CASE next
    <3>1. n < i
      BY <2>2, <1>2, <1>5
    <3> QED
      BY <2>1, <2>2, <3>1, <1>2, <1>12 DEF InOrder
  <2>3. CASE ~next
    <3>1. list[n].start # region.end
      BY <2>1, <2>3, <1>2 DEF JoinsNext
    <3>2. n = i \/ list[n].end < list[i].start
      BY <2>1, <1>2 DEF InOrder
    <3>3. n \in n .. Len(list) /\ region.end <= list[n].start
      BY <2>1, <1>8
    <3> QED
      BY <2>1, <2>3, <3>1, <3>2, <3>3, <1>3, <1>4, <1>6, <1>12
  <2> QED
    BY <2>2, <2>3
<1>21. ASSUME NEW i \in 1 .. Len(list), NEW x \in Cells(list[i])
       PROVE  i < a \/ i > c \/ x \in Cells(freed)
  <2>1. CASE prev /\ i = n - 1
    BY SMTT(30), <2>1, <1>3, <1>4, <1>6, <1>9, <1>12, <1>14 DEF Cells
  <2>2. CASE next /\ i = n
    BY <2>2, <1>3, <1>4, <1>6, <1>10, <1>12, <1>14 DEF Cells
  <2> QED
    BY <2>1, <2>2, <1>2, <1>5
<1>22. ~HoldsBlock(freed) => a = n /\ c = n - 1
  <2>1. ASSUME prev
        PROVE  HoldsBlock(freed)
    <3>1. HoldsBlock(list[n - 1]) /\ n - 1 \in 1 .. Len(list)
      BY <2>1, <1>2, <1>9
    <3> QED
      BY <3>1, <2>1, <1>3, <1>4, <1>9, <1>12, <1>14, HeapAssumption DEF HoldsBlock, Length
  <2>2. ASSUME next
        PROVE  HoldsBlock(freed)
    <3>1. HoldsBlock(list[n]) /\ n \in 1 .. Len(list)
      BY <2>2, <1>2, <1>10
    <3> QED
      BY <3>1, <2>2, <1>3, <1>4, <1>10, <1>12, <1>14, HeapAssumption DEF HoldsBlock, Length
  <2> QED
    BY <2>1, <2>2
<1> HIDE DEF freed, a, c, prev, next
<1>17. /\ others \in Seq(Places) /\ Len(others) \in Nat /\ Len(others) <= 1 /\ InOrder(others)
       /\ \A m \in 1 .. Len(others) : m = 1 /\ others[m] = freed /\ HoldsBlock(freed)
       /\ HoldsBlock(freed) => Len(others) = 1 /\ others[1] = freed
       /\ ~HoldsBlock(freed) => others = <<>>
  BY <1>12 DEF If, InOrder
<1> HIDE DEF others
<1>18. new \in Seq(Places) /\ InOrder(new) /\ HoldsRest(new, list, a, c, others)
  <2>1. LieBetween(list, a, c, others)
    BY <1>15, <1>16, <1>17 DEF LieBetween
  <2>2. \A i \in 1 .. Len(list) : list[i].start <= list[i].end
    BY <1>3, <1>6
  <2> QED
    BY <2>1, <2>2, <1>11, <1>17, ReplacedInOrder
<1>19. ASSUME NEW k \in DOMAIN new
       PROVE  HoldsBlock(new[k]) /\ (Joined(list, region, new[k]) \/ \E i \in DOMAIN list : new[k] = list[i])
  <2>1. CASE \E m \in 1 .. Len(others) : new[k] = others[m]
    BY <2>1, <1>13, <1>17
  <2>2. CASE \E i \in 1 .. Len(list) : new[k] = list[i]
    BY <2>2, <1>2
  <2> QED
    BY <2>1, <2>2, <1>18 DEF HoldsRest
<1>20. ASSUME HoldsBlock(region)
       PROVE  \E k \in DOMAIN new : new[k].start <= region.start /\ region.end <= new[k].end
  <2>1. HoldsBlock(freed)
    BY SMTT(30), <1>20, <1>4, <1>12, <1>14, HeapAssumption DEF HoldsBlock, Length
  <2>2. /\ Len(new) = Len(list) + Len(others) - (c - a + 1)
        /\ \A k \in 1 .. Len(new) :
             new[k] = IF k < a THEN list[k]
                      ELSE IF k < a + Len(others) THEN others[k - a + 1]
                      ELSE list[k - Len(others) + c - a + 1]
    BY <1>11, <1>17, Replaced
  <2> HIDE DEF new
  <2>3. a \in 1 .. Len(new) /\ a < a + Len(others) /\ ~(a < a) /\ a - a + 1 = 1
    <3>1. a \in Nat /\ a >= 1 /\ c \in Int /\ c <= Len(list)
      BY <1>2, <1>11
    <3>2. Len(others) = 1
      BY <2>1, <1>17
    <3>3. Len(new) = Len(list) + 1 - (c - a + 1)
      BY <2>2, <3>2
    <3> QED
      BY <3>1, <3>2, <3>3, <1>2
  <2>4. new[a] = freed
    BY <2>1, <2>2, <2>3, <1>17
  <2>5. a \in DOMAIN new
    BY <2>3, <1>18, LenProperties
  <2> QED
    BY <2>4, <2>5, <1>14
<1>23. ASSUME new # list
       PROVE  HoldsBlock(freed)
  <2>1. SUFFICES ASSUME ~HoldsBlock(freed)
                 PROVE  new = list
    BY <1>23
  <2>2. others = <<>> /\ a = n /\ c = n - 1 /\ Len(others) = 0
    BY <2>1, <1>17, <1>22
  <2>3. /\ Len(new) = Len(list) + Len(others) - (c - a + 1)
        /\ \A k \in 1 .. Len(new) :
             new[k] = IF k < a THEN list[k]
                      ELSE IF k < a + Len(others) THEN others[k - a + 1]
                      ELSE list[k - Len(others) + c - a + 1]
    BY <1>11, <1>17, Replaced
  <2> HIDE DEF new
  <2>4. Len(new) = Len(list)
    BY <2>2, <2>3, <1>2, <1>5
  <2>5. ASSUME NEW k \in 1 .. Len(list)
        PROVE  new[k] = list[k]
    <3>1. CASE k < a
      BY <3>1, <2>3, <2>4
    <3>2. CASE ~(k < a)
      <4>1. ~(k < a + Len(others)) /\ k - Len(others) + c - a + 1 = k
        BY <3>2, <2>2, <1>5
      <4> QED
        BY <3>2, <4>1, <2>3, <2>4
    <3> QED
      BY <3>1, <3>2
  <2> QED
    BY <2>4, <2>5, <1>18, SeqEqual
<1>24. ASSUME new # list
       PROVE  CellsOf(list) \cup Cells(region) \subseteq CellsOf(new)
  <2>0. HoldsBlock(freed)
    BY <1>23, <1>24
  <2>1. Len(others) = 1 /\ 1 \in 1 .. Len(others) /\ others[1] = freed
    <3>1. Len(others) = 1 /\ others[1] = freed
      BY <2>0, <1>17
    <3> QED
      BY <3>1
  <2>2. /\ \A i \in 1 .. Len(list) : i < a \/ i > c => \E k \in DOMAIN new : new[k] = list[i]
        /\ \A m \in 1 .. Len(others) : \E k \in DOMAIN new : new[k] = others[m]
    BY <1>11, <1>17, ReplacedKeeps
  <2> HIDE DEF new
  <2>3. PICK k \in DOMAIN new : new[k] = freed
    BY <2>1, <2>2
  <2>4. Cells(region) \subseteq Cells(freed)
    BY <1>4, <1>12, <1>14 DEF Cells
  <2>5. ASSUME NEW i \in DOMAIN list, NEW x \in Cells(list[i])
        PROVE  x \in CellsOf(new)
    <3>1. i \in 1 .. Len(list)
      BY <1>2
    <3>2. CASE x \in Cells(freed)
      BY <3>2, <2>3 DEF CellsOf
    <3>3. CASE i < a \/ i > c
      BY <3>1, <3>3, <2>2 DEF CellsOf
    <3> QED
      BY <3>1, <3>2, <3>3, <1>21
  <2> QED
    BY <2>3, <2>4, <2>5 DEF CellsOf
<1> HIDE DEF new
<1> QED
  BY <1>1, <1>18, <1>19, <1>20, <1>24

\* The numbers behind the invariant.
LEMMA HeapNumbers ==
  ASSUME HeapInv
  PROVE  /\ Len(free_list) \in Nat /\ DOMAIN free_list = 1 .. Len(free_list)
         /\ \A i \in DOMAIN free_list :
              /\ free_list[i] \in Places
              /\ free_list[i].start \in Nat /\ free_list[i].end \in Nat
              /\ free_list[i].start + HeadSize + MinimumFreeBlockSize <= free_list[i].end
         /\ \A b \in used_list :
              /\ b.block \in Nat /\ b.size \in Nat /\ b.padding \in Nat
              /\ b.padding < MaximumPaddingAlignment
              /\ RegionOf(b).start \in Nat /\ RegionOf(b).end \in Nat /\ RegionOf(b) \in Places
              /\ RegionOf(b).start = b.block - HeadSize - b.padding
              /\ RegionOf(b).end = b.block + b.size
              /\ RegionOf(b).start + HeadSize <= RegionOf(b).end
         /\ heap_end \in Nat
<1>1. Len(free_list) \in Nat /\ DOMAIN free_list = 1 .. Len(free_list)
  BY LenProperties DEF HeapInv, TypeOK
<1>2. \A i \in DOMAIN free_list : free_list[i] \in Places
  BY <1>1, ElementOfSeq DEF HeapInv, TypeOK
<1>3. \A i \in DOMAIN free_list :
        /\ free_list[i].start \in Nat /\ free_list[i].end \in Nat
        /\ free_list[i].start + HeadSize + MinimumFreeBlockSize <= free_list[i].end
  BY <1>2, HeapAssumption DEF HeapInv, IsBlockOfHeap, InHeap, HoldsBlock, Length, Places
<1>4. ASSUME NEW b \in used_list
      PROVE  /\ b.block \in Nat /\ b.size \in Nat /\ b.padding \in Nat
             /\ b.padding < MaximumPaddingAlignment
             /\ RegionOf(b).start \in Nat /\ RegionOf(b).end \in Nat /\ RegionOf(b) \in Places
             /\ RegionOf(b).start = b.block - HeadSize - b.padding
             /\ RegionOf(b).end = b.block + b.size
             /\ RegionOf(b).start + HeadSize <= RegionOf(b).end
  <2>1. /\ b.block \in Nat /\ b.size \in Nat /\ b.padding \in Nat
        /\ b.padding < MaximumPaddingAlignment
    <3>1. b \in [block : Nat, size : Nat, padding : 0 .. MaximumPaddingAlignment - 1]
      BY DEF HeapInv, TypeOK
    <3> QED
      BY <3>1, HeapAssumption
  <2>2. RegionOf(b).start = b.block - HeadSize - b.padding /\ RegionOf(b).end = b.block + b.size
    BY DEF RegionOf, Region
  <2>3. HeapStart <= RegionOf(b).start
    BY DEF HeapInv, IsBlockOfHeap, InHeap
  <2>4. RegionOf(b).start \in Nat /\ RegionOf(b).end \in Nat
    BY <2>1, <2>2, <2>3, HeapAssumption
  <2>5. RegionOf(b) \in Places
    BY <2>2, <2>4 DEF RegionOf, Region, Places
  <2> QED
    BY <2>1, <2>2, <2>4, <2>5, HeapAssumption
<1>5. heap_end \in Nat
  BY HeapAssumption DEF HeapInv, TypeOK
<1> QED
  BY <1>1, <1>2, <1>3, <1>4, <1>5

\* Where some block fits, each search finds one that does.
LEMMA SearchFinds ==
  ASSUME HeapInv, NEW size, NEW alignment
  PROVE  /\ Fitting(size, alignment) # {} <=> Candidates(size, alignment) # {}
         /\ Candidates(size, alignment) \subseteq Fitting(size, alignment)
         /\ Candidates(size, alignment) # {} =>
              \A direction : FindFreeBlock(size, alignment, direction) \in Candidates(size, alignment)
<1> DEFINE fitting == Fitting(size, alignment)
           candidates == Candidates(size, alignment)
<1>1. fitting \subseteq DOMAIN free_list /\ fitting \subseteq 1 .. Len(free_list) /\ Len(free_list) \in Nat
  BY HeapNumbers DEF Fitting
<1>2. candidates \subseteq fitting
  BY DEF Candidates
<1>3. ASSUME fitting # {}
      PROVE  candidates # {}
  <2> DEFINE T == {BlockSize(free_list[i]) : i \in fitting}
  <2>1. \A i \in fitting : BlockSize(free_list[i]) \in Nat
    BY SMTT(30), <1>1, HeapNumbers, HeapAssumption DEF BlockSize, MemoryOf
  <2>2. T \subseteq Nat /\ T # {}
    BY <1>3, <2>1
  <2>3. Min(T) \in T /\ \A y \in T : Min(T) <= y
    <3> HIDE DEF T
    <3> QED
      BY <2>2, MinProperties
  <2>4. PICK i \in fitting : BlockSize(free_list[i]) = Min(T)
    BY <2>3
  <2>5. \A j \in fitting : BlockSize(free_list[i]) <= BlockSize(free_list[j])
    BY <2>3, <2>4
  <2> QED
    BY <1>3, <2>5 DEF Candidates
<1>4. ASSUME candidates # {}
      PROVE  \A direction : FindFreeBlock(size, alignment, direction) \in candidates
  <2>1. candidates \subseteq 1 .. Len(free_list)
    BY <1>1, <1>2
  <2> HIDE DEF candidates
  <2>2. candidates \subseteq Nat /\ candidates \subseteq Int
    BY <2>1
  <2>3. Min(candidates) \in candidates
    BY <1>4, <2>2, MinProperties
  <2>4. Max(candidates) \in candidates
    <3>1. Len(free_list) \in Int /\ \A y \in candidates : y <= Len(free_list)
      BY <1>1, <2>1
    <3> QED
      BY <1>4, <2>2, <3>1, MaxProperties
  <2> QED
    BY <2>3, <2>4 DEF FindFreeBlock, candidates
<1> QED
  BY <1>2, <1>3, <1>4

\* An allocation takes a block that is large enough.
LEMMA FoundBlock ==
  ASSUME HeapInv, NEW size \in Sizes, NEW alignment \in Alignments, NEW direction,
         Fitting(size, alignment) # {}
  PROVE  LET i == FindFreeBlock(size, alignment, direction)
         IN  /\ i \in DOMAIN free_list
             /\ BlockStart(free_list[i], alignment) \in Nat
             /\ free_list[i].start + HeadSize <= BlockStart(free_list[i], alignment)
             /\ BlockStart(free_list[i], alignment) + size <= free_list[i].end
<1> DEFINE i == FindFreeBlock(size, alignment, direction)
           r == free_list[i]
<1>1. i \in Fitting(size, alignment)
  BY SearchFinds
<1> HIDE DEF i
<1>2. i \in DOMAIN free_list /\ Fits(r, size, alignment)
  BY <1>1 DEF Fitting
<1>3. r.start \in Nat /\ r.end \in Nat
  BY <1>2, HeapNumbers
<1>4. MemoryOf(r) \in Nat /\ MemoryOf(r) = r.start + HeadSize
  BY <1>3, HeapAssumption DEF MemoryOf
<1>5. BlockStart(r, alignment) \in Nat /\ MemoryOf(r) <= BlockStart(r, alignment)
  BY <1>4, AlignUpProperties, HeapAssumption DEF BlockStart
<1>6. size \in Nat /\ HeadSize \in Nat
  BY HeapAssumption
<1>7. BlockStart(r, alignment) + size <= r.end
  BY <1>2, <1>3, <1>4, <1>5, <1>6 DEF Fits, BlockSize
<1> QED
  BY <1>2, <1>4, <1>5, <1>7 DEF i

\* The region of a used block put together from its parts.
LEMMA RegionOfUsed ==
  ASSUME NEW block, NEW size, NEW padding
  PROVE  /\ RegionOf(UsedBlock(block, size, padding)).start = block - HeadSize - padding
         /\ RegionOf(UsedBlock(block, size, padding)).end = block + size
BY DEF RegionOf, Region, UsedBlock

\* A block taken from a free block r, and what it leaves of it.
InFront(r, block) == Region(r.start, block - HeadSize)
Behind(r, block, size) == Region(block + size, r.end)
TakenFrom(r, block, size, direction) ==
  UsedBlock(block, size, IF KeepsFront(InFront(r, block), direction) THEN 0
                         ELSE Length(InFront(r, block)))
LeftOf(r, block, size, direction) ==
  If(KeepsFront(InFront(r, block), direction), InFront(r, block))
  \o If(KeepsBack(Behind(r, block, size), direction), Behind(r, block, size))

DroppedOf(r, block, size, direction) ==
  IF KeepsBack(Behind(r, block, size), direction) THEN {} ELSE Cells(Behind(r, block, size))

\* What a block leaves of the free block it is taken from: at most two blocks
\* in order within it, apart from the region of the used block; what is neither
\* left nor used is dropped.
LEMMA Leftovers ==
  ASSUME NEW r \in Places, NEW block \in Nat, NEW size \in Nat, NEW direction,
         r.start + HeadSize <= block, block + size <= r.end, 0 < size,
         NEW others, others = LeftOf(r, block, size, direction),
         NEW used, used = TakenFrom(r, block, size, direction)
  PROVE  /\ others \in Seq(Places) /\ InOrder(others)
         /\ \A m \in 1 .. Len(others) :
              /\ r.start <= others[m].start /\ others[m].end <= r.end
              /\ HoldsBlock(others[m]) /\ Apart(RegionOf(used), others[m])
         /\ r.start <= RegionOf(used).start /\ RegionOf(used).end = block + size
         /\ used \in [block : Nat, size : Nat, padding : 0 .. MaximumPaddingAlignment - 1]
         /\ used.block = block /\ used.size = size
         /\ CellsOf(others) \cup Cells(RegionOf(used)) \cup DroppedOf(r, block, size, direction) = Cells(r)
         /\ DroppedOf(r, block, size, direction) \cap (CellsOf(others) \cup Cells(RegionOf(used))) = {}
<1> DEFINE front == InFront(r, block)
           back == Behind(r, block, size)
           kf == KeepsFront(front, direction)
           kb == KeepsBack(back, direction)
<1>1. r.start \in Nat /\ r.end \in Nat /\ HeadSize \in Nat /\ HeadSize > 0
  BY HeapAssumption DEF Places
<1>2. /\ front \in Places /\ front.start = r.start /\ front.end = block - HeadSize
      /\ back \in Places /\ back.start = block + size /\ back.end = r.end
  BY <1>1 DEF Region, Places, InFront, Behind
<1> HIDE DEF front, back
<1>3. Length(front) \in Nat /\ Length(front) = block - HeadSize - r.start
  BY <1>1, <1>2 DEF Length
<1> DEFINE padding == IF kf THEN 0 ELSE Length(front)
<1>4. padding \in 0 .. MaximumPaddingAlignment - 1
  BY <1>3, HeapAssumption DEF KeepsFront, HoldsBlock
<1>5. /\ used = UsedBlock(block, size, padding) /\ used.block = block /\ used.size = size
      /\ used \in [block : Nat, size : Nat, padding : 0 .. MaximumPaddingAlignment - 1]
  BY <1>4 DEF UsedBlock, TakenFrom, front
<1>0. others = If(kf, front) \o If(kb, back)
  BY DEF LeftOf, front, back
<1>6. RegionOf(used).start = block - HeadSize - padding /\ RegionOf(used).end = block + size
  BY <1>5, RegionOfUsed
<1>7. r.start <= RegionOf(used).start
  BY <1>1, <1>3, <1>4, <1>6
<1>8. kf => /\ HoldsBlock(front) /\ Apart(RegionOf(used), front)
  BY <1>1, <1>2, <1>6 DEF KeepsFront, Apart
<1>9. kb => /\ HoldsBlock(back) /\ Apart(RegionOf(used), back)
  BY <1>1, <1>2, <1>6 DEF KeepsBack, Apart
<1>10. /\ others \in Seq(Places)
       /\ \A m \in 1 .. Len(others) : (kf /\ others[m] = front) \/ (kb /\ others[m] = back)
       /\ \A m, k \in 1 .. Len(others) : m < k => others[m] = front /\ others[k] = back
       /\ kf => \E m \in 1 .. Len(others) : others[m] = front
       /\ kb => \E m \in 1 .. Len(others) : others[m] = back
  <2>1. CASE kf /\ kb
    <3>1. others = <<front>> \o <<back>>
      BY <2>1, <1>0 DEF If
    <3>2. /\ <<front>> \in Seq(Places) /\ Len(<<front>>) = 1 /\ <<front>>[1] = front
          /\ <<back>> \in Seq(Places) /\ Len(<<back>>) = 1 /\ <<back>>[1] = back
      BY <1>2
    <3>3. /\ others \in Seq(Places) /\ Len(others) = 2
          /\ \A i \in 1 .. 2 : others[i] = IF i <= 1 THEN <<front>>[i] ELSE <<back>>[i - 1]
      BY <3>1, <3>2, ConcatProperties
    <3>4. others[1] = front /\ others[2] = back
      BY <3>2, <3>3
    <3> QED
      BY <2>1, <3>3, <3>4
  <2>2. CASE kf /\ ~kb
    <3>1. others = <<front>>
      BY <2>2, <1>0, <1>2 DEF If
    <3> QED
      BY <2>2, <3>1, <1>2
  <2>3. CASE ~kf /\ kb
    <3>1. others = <<back>>
      BY <2>3, <1>0, <1>2 DEF If
    <3> QED
      BY <2>3, <3>1, <1>2
  <2>4. CASE ~kf /\ ~kb
    <3>1. others = <<>>
      BY <2>4, <1>0, <1>2 DEF If
    <3>2. others \in Seq(Places) /\ Len(others) = 0
      BY <3>1, EmptySeq
    <3> QED
      BY <2>4, <3>2
  <2> QED
    BY <2>1, <2>2, <2>3, <2>4
<1>11. InOrder(others)
  <2>1. front.end < back.start
    BY <1>1, <1>2
  <2>2. DOMAIN others = 1 .. Len(others)
    BY <1>10, LenProperties
  <2> QED
    BY <2>1, <2>2, <1>10 DEF InOrder
<1>12. ASSUME NEW m \in 1 .. Len(others)
       PROVE  /\ r.start <= others[m].start /\ others[m].end <= r.end
              /\ HoldsBlock(others[m]) /\ Apart(RegionOf(used), others[m])
  <2>1. CASE kf /\ others[m] = front
    BY <2>1, <1>1, <1>2, <1>8
  <2>2. CASE kb /\ others[m] = back
    BY <2>2, <1>1, <1>2, <1>9
  <2> QED
    BY <2>1, <2>2, <1>10
<1> DEFINE dropped == IF kb THEN {} ELSE Cells(back)
<1>13. dropped = DroppedOf(r, block, size, direction)
  BY DEF DroppedOf, front, back
<1>14. CellsOf(others) = (IF kf THEN Cells(front) ELSE {}) \cup (IF kb THEN Cells(back) ELSE {})
  <2>1. DOMAIN others = 1 .. Len(others)
    BY <1>10, LenProperties
  <2>2. kf => Cells(front) \subseteq CellsOf(others)
    BY <2>1, <1>10 DEF CellsOf
  <2>3. kb => Cells(back) \subseteq CellsOf(others)
    BY <2>1, <1>10 DEF CellsOf
  <2>4. ASSUME NEW x \in CellsOf(others)
        PROVE  (kf /\ x \in Cells(front)) \/ (kb /\ x \in Cells(back))
    BY <2>1, <2>4, <1>10 DEF CellsOf
  <2> QED
    BY <2>2, <2>3, <2>4
<1>15. /\ Cells(front) = r.start .. block - HeadSize - 1 /\ Cells(back) = block + size .. r.end - 1
       /\ Cells(r) = r.start .. r.end - 1
       /\ Cells(RegionOf(used)) = (IF kf THEN block - HeadSize ELSE r.start) .. block + size - 1
  BY <1>1, <1>2, <1>3, <1>6 DEF Cells
<1>16. (IF kf THEN Cells(front) ELSE {}) \cup Cells(RegionOf(used)) = r.start .. block + size - 1
  BY <1>1, <1>15
<1>17. /\ Cells(r) = (r.start .. block + size - 1) \cup Cells(back)
       /\ (r.start .. block + size - 1) \cap Cells(back) = {}
  BY <1>1, <1>15
<1>18. /\ CellsOf(others) \cup Cells(RegionOf(used)) \cup dropped = Cells(r)
       /\ dropped \cap (CellsOf(others) \cup Cells(RegionOf(used))) = {}
  <2>1. CASE kb
    BY <2>1, <1>14, <1>16, <1>17
  <2>2. CASE ~kb
    BY <2>2, <1>14, <1>16, <1>17
  <2> QED
    BY <2>1, <2>2
<1> QED
  BY <1>5, <1>6, <1>7, <1>10, <1>11, <1>12, <1>13, <1>18

\* Free block i gives way to blocks within it: the list stays in order, of
\* blocks of the heap, and what is apart from all of them and block i is apart
\* from all of the new list; what only touches block i, is if it is apart from
\* its pieces.
LEMMA Pieces ==
  ASSUME HeapInv, NEW i \in DOMAIN free_list, NEW others \in Seq(Places), InOrder(others),
         \A m \in 1 .. Len(others) :
           /\ free_list[i].start <= others[m].start /\ others[m].end <= free_list[i].end
           /\ HoldsBlock(others[m])
  PROVE  /\ Replace(free_list, i, i, others) \in Seq(Places)
         /\ InOrder(Replace(free_list, i, i, others))
         /\ \A k \in DOMAIN Replace(free_list, i, i, others) :
              /\ IsBlockOfHeap(Replace(free_list, i, i, others)[k])
              /\ \A s \in Places :
                   /\ \A j \in DOMAIN free_list : j # i => Apart(s, free_list[j])
                   /\ Apart(s, free_list[i]) \/ \A m \in 1 .. Len(others) : Apart(s, others[m])
                   => Apart(s, Replace(free_list, i, i, others)[k])
         /\ CellsOf(Replace(free_list, i, i, others)) =
              (CellsOf(free_list) \ Cells(free_list[i])) \cup CellsOf(others)
<1> DEFINE r == free_list[i]
           new == Replace(free_list, i, i, others)
<1>0. r = free_list[i]
  OBVIOUS
<1>4. r \in Places /\ r.start \in Nat /\ r.end \in Nat
  BY HeapNumbers
<1> HIDE DEF r
<1>6. Len(free_list) \in Nat /\ DOMAIN free_list = 1 .. Len(free_list) /\ i \in 1 .. Len(free_list)
  BY HeapNumbers
<1>7. \A m \in 1 .. Len(others) :
        /\ others[m].start \in Nat /\ others[m].end \in Nat /\ HoldsBlock(others[m])
        /\ r.start <= others[m].start /\ others[m].end <= r.end
  <2>1. \A m \in 1 .. Len(others) : others[m] \in Places
    BY ElementOfSeq
  <2> QED
    BY <2>1, <1>0 DEF Places
<1>8. new \in Seq(Places) /\ InOrder(new) /\ HoldsRest(new, free_list, i, i, others)
  <2>1. LieBetween(free_list, i, i, others)
    <3>1. \A m \in 1 .. Len(others), j \in 1 .. i - 1 : free_list[j].end < others[m].start
      <4> TAKE m \in 1 .. Len(others), j \in 1 .. i - 1
      <4>1. j \in DOMAIN free_list /\ j < i
        BY <1>6
      <4>2. free_list[j].end < r.start /\ free_list[j].end \in Nat
        BY <4>1, <1>0, HeapNumbers DEF HeapInv, InOrder
      <4> QED
        BY <4>2, <1>4, <1>7
    <3>2. \A m \in 1 .. Len(others), j \in i + 1 .. Len(free_list) : others[m].end < free_list[j].start
      <4> TAKE m \in 1 .. Len(others), j \in i + 1 .. Len(free_list)
      <4>1. j \in DOMAIN free_list /\ i < j
        BY <1>6
      <4>2. r.end < free_list[j].start /\ free_list[j].start \in Nat
        BY <4>1, <1>0, HeapNumbers DEF HeapInv, InOrder
      <4> QED
        BY <4>2, <1>4, <1>7
    <3> QED
      BY <3>1, <3>2 DEF LieBetween
  <2>2. \A j \in 1 .. Len(free_list) : free_list[j].start <= free_list[j].end
    <3> TAKE j \in 1 .. Len(free_list)
    <3>1. /\ free_list[j].start \in Nat /\ free_list[j].end \in Nat
          /\ free_list[j].start + HeadSize + MinimumFreeBlockSize <= free_list[j].end
      BY <1>6, HeapNumbers
    <3> QED
      BY <3>1, HeapAssumption
  <2>3. free_list \in Seq(Places) /\ InOrder(free_list) /\ i \in 1 .. Len(free_list) + 1 /\ i \in i - 1 .. Len(free_list)
    BY <1>6 DEF HeapInv, TypeOK
  <2> HIDE DEF new
  <2> QED
    BY <2>1, <2>2, <2>3, ReplacedInOrder DEF new
<1> HIDE DEF new
<1>9. ASSUME NEW k \in DOMAIN new
      PROVE  /\ IsBlockOfHeap(new[k])
             /\ \A s \in Places :
                  /\ \A j \in DOMAIN free_list : j # i => Apart(s, free_list[j])
                  /\ Apart(s, r) \/ \A m \in 1 .. Len(others) : Apart(s, others[m])
                  => Apart(s, new[k])
  <2>1. CASE \E m \in 1 .. Len(others) : new[k] = others[m]
    <3>1. PICK m \in 1 .. Len(others) : new[k] = others[m]
      BY <2>1
    <3>2. IsBlockOfHeap(r) /\ heap_end \in Nat /\ HeapStart \in Nat
      BY <1>0, HeapNumbers, HeapAssumption DEF HeapInv
    <3>3. /\ others[m].start \in Nat /\ others[m].end \in Nat /\ HoldsBlock(others[m])
          /\ r.start <= others[m].start /\ others[m].end <= r.end
      BY <1>7
    <3>4. IsBlockOfHeap(new[k])
      BY <3>1, <3>2, <3>3, <1>4 DEF IsBlockOfHeap, InHeap
    <3>5. ASSUME NEW s \in Places, Apart(s, r) \/ Apart(s, others[m])
          PROVE  Apart(s, new[k])
      <4>1. s.start \in Nat /\ s.end \in Nat
        BY DEF Places
      <4> QED
        BY <4>1, <3>1, <3>3, <3>5, <1>4 DEF Apart
    <3> QED
      BY <3>4, <3>5
  <2>2. CASE \E j \in 1 .. Len(free_list) : (j < i \/ j > i) /\ new[k] = free_list[j]
    <3>1. PICK j \in 1 .. Len(free_list) : (j < i \/ j > i) /\ new[k] = free_list[j]
      BY <2>2
    <3>2. j \in DOMAIN free_list /\ j # i
      BY <3>1, <1>6
    <3> QED
      BY <3>1, <3>2 DEF HeapInv
  <2> QED
    BY <2>1, <2>2, <1>8 DEF HoldsRest
<1>10. /\ \A j \in 1 .. Len(free_list) : j < i \/ j > i => \E k \in DOMAIN new : new[k] = free_list[j]
       /\ \A m \in 1 .. Len(others) : \E k \in DOMAIN new : new[k] = others[m]
  <2>1. free_list \in Seq(Places) /\ i \in 1 .. Len(free_list) + 1 /\ i \in i - 1 .. Len(free_list)
    BY <1>6 DEF HeapInv, TypeOK
  <2> QED
    <3>1. ASSUME NEW c, c = i
          PROVE  /\ \A j \in 1 .. Len(free_list) : j < i \/ j > c =>
                      \E k \in DOMAIN Replace(free_list, i, c, others) :
                        Replace(free_list, i, c, others)[k] = free_list[j]
                 /\ \A m \in 1 .. Len(others) :
                      \E k \in DOMAIN Replace(free_list, i, c, others) :
                        Replace(free_list, i, c, others)[k] = others[m]
      BY <2>1, <3>1, ReplacedKeeps
    <3> QED
      BY <3>1 DEF new
<1>11. DOMAIN others = 1 .. Len(others)
  BY LenProperties
<1>12. ASSUME NEW j \in DOMAIN free_list, j # i
       PROVE  /\ Cells(free_list[j]) \cap Cells(r) = {}
              /\ Cells(free_list[j]) \subseteq CellsOf(new)
  <2>1. j \in 1 .. Len(free_list) /\ (j < i \/ j > i) /\ free_list[j].start \in Nat /\ free_list[j].end \in Nat
    BY <1>6, <1>12, HeapNumbers
  <2>2. free_list[j].end < r.start \/ r.end < free_list[j].start
    BY <2>1, <1>0, <1>6 DEF HeapInv, InOrder
  <2>3. Cells(free_list[j]) \cap Cells(r) = {}
    BY SMTT(30), <2>1, <2>2, <1>4 DEF Cells
  <2>4. \E k \in DOMAIN new : new[k] = free_list[j]
    BY <2>1, <1>10
  <2> QED
    BY <2>3, <2>4 DEF CellsOf
<1>13. CellsOf(others) \subseteq CellsOf(new)
  BY <1>10, <1>11 DEF CellsOf
<1>14. ASSUME NEW k \in DOMAIN new
       PROVE  Cells(new[k]) \subseteq (CellsOf(free_list) \ Cells(r)) \cup CellsOf(others)
  <2>1. CASE \E m \in 1 .. Len(others) : new[k] = others[m]
    BY <2>1, <1>11 DEF CellsOf
  <2>2. CASE \E j \in 1 .. Len(free_list) : (j < i \/ j > i) /\ new[k] = free_list[j]
    <3>1. PICK j \in DOMAIN free_list : j # i /\ new[k] = free_list[j]
      BY <2>2, <1>6
    <3> QED
      BY <3>1, <1>12 DEF CellsOf
  <2> QED
    BY <2>1, <2>2, <1>8 DEF HoldsRest
<1>15. CellsOf(new) \subseteq (CellsOf(free_list) \ Cells(r)) \cup CellsOf(others)
  BY <1>14 DEF CellsOf
<1>16. CellsOf(free_list) \ Cells(r) \subseteq CellsOf(new)
  <2>1. \A j \in DOMAIN free_list : Cells(free_list[j]) \ Cells(r) \subseteq CellsOf(new)
    BY <1>0, <1>12
  <2> QED
    BY <2>1 DEF CellsOf
<1>17. CellsOf(new) = (CellsOf(free_list) \ Cells(r)) \cup CellsOf(others)
  BY <1>13, <1>15, <1>16
<1> QED
  BY <1>0, <1>8, <1>9, <1>17 DEF new

\* An allocated block lies in what was a free block, apart from all others.
LEMMA AllocateStep ==
  ASSUME HeapInv, NEW size \in Sizes, NEW alignment \in Alignments, NEW direction,
         AllocateFromExpHeap(size, alignment, direction)
  PROVE  /\ HeapInv'
         /\ \E b, dropped :
              /\ used_list' = used_list \cup {b} /\ b.size = size /\ lost' = lost \cup dropped
              /\ \A c \in used_list : Apart(RegionOf(b), RegionOf(c))
              /\ CellsOf(free_list') \cup Cells(RegionOf(b)) \cup dropped = CellsOf(free_list)
              /\ dropped \cap (CellsOf(free_list') \cup Cells(RegionOf(b))) = {}
<1> DEFINE i == FindFreeBlock(size, alignment, direction)
           r == free_list[i]
           block == BlockStart(r, alignment)
           others == LeftOf(r, block, size, direction)
           used == TakenFrom(r, block, size, direction)
           dropped == DroppedOf(r, block, size, direction)
           new == Replace(free_list, i, i, others)
<1>1. i \in DOMAIN free_list /\ block \in Nat /\ r.start + HeadSize <= block /\ block + size <= r.end
  BY FoundBlock DEF AllocateFromExpHeap
<1>2. /\ free_list' = new /\ used_list' = used_list \cup {used} /\ UNCHANGED <<mode, heap_end>>
      /\ lost' = lost \cup dropped
  BY DEF AllocateFromExpHeap, ConvertFreeBlockToUsedBlock, LeftOf, TakenFrom, InFront, Behind, DroppedOf
<1> HIDE DEF i, block
<1>3. size \in Nat /\ 0 < size /\ HeadSize \in Nat /\ MinimumFreeBlockSize \in Nat
  BY HeapAssumption
<1>4. r \in Places /\ r.start \in Nat /\ r.end \in Nat /\ r.start < r.end
  <2>1. /\ r \in Places /\ r.start \in Nat /\ r.end \in Nat
        /\ r.start + HeadSize + MinimumFreeBlockSize <= r.end
    BY <1>1, HeapNumbers
  <2> QED
    BY <2>1, HeapAssumption
<1>5. /\ others \in Seq(Places) /\ InOrder(others)
      /\ \A m \in 1 .. Len(others) :
           /\ r.start <= others[m].start /\ others[m].end <= r.end
           /\ HoldsBlock(others[m]) /\ Apart(RegionOf(used), others[m])
      /\ r.start <= RegionOf(used).start /\ RegionOf(used).end = block + size
      /\ used \in [block : Nat, size : Nat, padding : 0 .. MaximumPaddingAlignment - 1]
      /\ used.block = block /\ used.size = size
      /\ CellsOf(others) \cup Cells(RegionOf(used)) \cup dropped = Cells(r)
      /\ dropped \cap (CellsOf(others) \cup Cells(RegionOf(used))) = {}
  BY <1>1, <1>3, <1>4, Leftovers
<1>0. r = free_list[i]
  OBVIOUS
<1>16. dropped \subseteq Nat
  BY <1>1, <1>3, <1>4 DEF DroppedOf, Behind, Region, Cells
<1> HIDE DEF others, used, r, dropped
<1>6. Len(free_list) \in Nat /\ DOMAIN free_list = 1 .. Len(free_list) /\ i \in 1 .. Len(free_list)
  BY <1>1, HeapNumbers
<1>8. /\ new \in Seq(Places) /\ InOrder(new)
      /\ \A k \in DOMAIN new :
           /\ IsBlockOfHeap(new[k])
           /\ \A s \in Places :
                /\ \A j \in DOMAIN free_list : j # i => Apart(s, free_list[j])
                /\ Apart(s, r) \/ \A m \in 1 .. Len(others) : Apart(s, others[m])
                => Apart(s, new[k])
      /\ CellsOf(new) = (CellsOf(free_list) \ Cells(r)) \cup CellsOf(others)
  BY <1>0, <1>1, <1>5, Pieces
<1> HIDE DEF new
<1>9. ASSUME NEW c \in used_list
      PROVE  Apart(RegionOf(used), RegionOf(c))
  <2>1. RegionOf(c).start \in Nat /\ RegionOf(c).end \in Nat
    BY HeapNumbers
  <2>2. RegionOf(used).start \in Int
    BY <1>5, <1>3, RegionOfUsed DEF RegionOf, Region
  <2>3. Apart(RegionOf(c), r)
    BY <1>0, <1>1 DEF HeapInv
  <2>4. /\ r.start <= RegionOf(used).start /\ RegionOf(used).end <= r.end
        /\ RegionOf(used).end \in Int
    BY <1>1, <1>3, <1>5
  <2> QED
    BY <2>1, <2>2, <2>3, <2>4, <1>4 DEF Apart
<1>10. InHeap(RegionOf(used))
  <2>1. IsBlockOfHeap(r) /\ heap_end \in Nat
    BY <1>0, <1>1, HeapNumbers DEF HeapInv
  <2>2. /\ RegionOf(used).start = block - HeadSize - used.padding /\ used.padding \in Nat
        /\ RegionOf(used).end = block + size
    BY <1>5, HeapAssumption DEF RegionOf, Region
  <2> QED
    <3>0. r.start <= RegionOf(used).start /\ RegionOf(used).start \in Int
      BY <1>5, <2>2, <1>1, <1>3
    <3>1. HeapStart <= RegionOf(used).start
      BY <3>0, <2>1, <1>4, HeapAssumption DEF IsBlockOfHeap, InHeap
    <3>2. RegionOf(used).end <= heap_end
      BY <2>1, <2>2, <1>1, <1>3, <1>4, <1>5 DEF IsBlockOfHeap, InHeap
    <3> QED
      BY <3>1, <3>2 DEF InHeap
<1>11. ASSUME NEW k \in DOMAIN new
       PROVE  /\ IsBlockOfHeap(new[k]) /\ Apart(RegionOf(used), new[k])
              /\ \A c \in used_list : Apart(RegionOf(c), new[k])
  <2>1. RegionOf(used) \in Places
    <3>1. /\ RegionOf(used).start = block - HeadSize - used.padding /\ used.padding \in Nat
          /\ RegionOf(used).end = block + size
      BY <1>5, HeapAssumption DEF RegionOf, Region
    <3>2. RegionOf(used).start \in Nat /\ RegionOf(used).end \in Nat
      BY <3>1, <1>1, <1>3, <1>4, <1>5
    <3> QED
      BY <3>2 DEF RegionOf, Region, Places
  <2>2. ASSUME NEW j \in DOMAIN free_list, j # i
        PROVE  Apart(RegionOf(used), free_list[j])
    <3>1. j \in 1 .. Len(free_list) /\ (j < i \/ j > i) /\ free_list[j].start \in Nat /\ free_list[j].end \in Nat
      BY <2>2, <1>6, HeapNumbers
    <3>2. free_list[j].end < r.start \/ r.end < free_list[j].start
      BY <3>1, <1>0, <1>1, <1>6 DEF HeapInv, InOrder
    <3>3. RegionOf(used).end = block + size /\ r.start <= RegionOf(used).start /\ RegionOf(used).start \in Nat
      BY <2>1, <1>5 DEF Places
    <3> QED
      BY SMTT(30), <3>1, <3>2, <3>3, <1>1, <1>3, <1>4 DEF Apart
  <2>3. Apart(RegionOf(used), new[k])
    BY <2>1, <2>2, <1>5, <1>8
  <2>4. \A c \in used_list : RegionOf(c) \in Places /\ \A j \in DOMAIN free_list : Apart(RegionOf(c), free_list[j])
    BY HeapNumbers DEF HeapInv
  <2>5. \A c \in used_list : Apart(RegionOf(c), new[k])
    BY <2>4, <1>0, <1>1, <1>8
  <2> QED
    BY <2>3, <2>5, <1>8
<1>12. lost' \subseteq Nat
  <2>1. lost \subseteq Nat
    BY DEF HeapInv, TypeOK
  <2> QED
    BY <2>1, <1>2, <1>16
<1>13. TypeOK'
  BY <1>2, <1>5, <1>8, <1>12 DEF HeapInv, TypeOK
<1>14. \A r1, r2 : Apart(r1, r2) => Apart(r2, r1)
  BY DEF Apart
<1>15. HeapInv'
  <2>1. \A k \in DOMAIN free_list' : IsBlockOfHeap(free_list[k])'
    BY <1>2, <1>11 DEF IsBlockOfHeap, InHeap
  <2>2. ASSUME NEW b \in used_list'
        PROVE  /\ InHeap(RegionOf(b))'
               /\ \A k \in DOMAIN free_list' : Apart(RegionOf(b), free_list'[k])
               /\ \A c \in used_list' : b = c \/ Apart(RegionOf(b), RegionOf(c))
    <3>1. InHeap(RegionOf(b))
      BY <2>2, <1>2, <1>10 DEF HeapInv
    <3>2. \A k \in DOMAIN free_list' : Apart(RegionOf(b), free_list'[k])
      BY <2>2, <1>2, <1>11
    <3>3. \A c \in used_list' : b = c \/ Apart(RegionOf(b), RegionOf(c))
      BY <2>2, <1>2, <1>9, <1>14 DEF HeapInv
    <3> QED
      BY <3>1, <3>2, <3>3, <1>2 DEF IsBlockOfHeap, InHeap
  <2> QED
    BY <2>1, <2>2, <1>2, <1>8, <1>13 DEF HeapInv
<1>17. Cells(r) \subseteq CellsOf(free_list)
  BY <1>0, <1>1 DEF CellsOf
<1>18. /\ CellsOf(new) \cup Cells(RegionOf(used)) \cup dropped = CellsOf(free_list)
       /\ dropped \cap (CellsOf(new) \cup Cells(RegionOf(used))) = {}
  BY <1>5, <1>8, <1>17
<1> QED
  BY <1>2, <1>5, <1>9, <1>15, <1>18

\* What is apart from a region and from the list is apart from the region
\* joined with its neighbours.
LEMMA JoinedApart ==
  ASSUME NEW list \in Seq(Places), NEW region \in Places, region.start < region.end,
         \A i \in DOMAIN list : list[i].start < list[i].end,
         NEW r, Joined(list, region, r),
         NEW s \in Places, s.start < s.end, Apart(s, region),
         \A i \in DOMAIN list : Apart(s, list[i])
  PROVE  Apart(s, r)
<1>1. \A i \in DOMAIN list : list[i].start \in Nat /\ list[i].end \in Nat
  <2>1. \A i \in DOMAIN list : list[i] \in Places
    BY ElementOfSeq, LenProperties
  <2> QED
    BY <2>1 DEF Places
<1>2. /\ region.start \in Nat /\ region.end \in Nat
      /\ s.start \in Nat /\ s.end \in Nat
  BY DEF Places
<1>3. CASE s.end <= region.start
  <2>1. CASE r.start = region.start
    BY <1>3, <2>1 DEF Apart
  <2>2. CASE \E i \in DOMAIN list : list[i].end = region.start /\ r.start = list[i].start
    <3>1. PICK i \in DOMAIN list : list[i].end = region.start /\ r.start = list[i].start
      BY <2>2
    <3>2. s.end <= list[i].start
      BY <3>1, <1>1, <1>2, <1>3 DEF Apart
    <3> QED
      BY <3>1, <3>2 DEF Apart
  <2> QED
    BY <2>1, <2>2 DEF Joined
<1>4. CASE region.end <= s.start
  <2>1. CASE r.end = region.end
    BY <1>4, <2>1 DEF Apart
  <2>2. CASE \E i \in DOMAIN list : list[i].start = region.end /\ r.end = list[i].end
    <3>1. PICK i \in DOMAIN list : list[i].start = region.end /\ r.end = list[i].end
      BY <2>2
    <3>2. list[i].end <= s.start
      BY <3>1, <1>1, <1>2, <1>4 DEF Apart
    <3> QED
      BY <3>1, <3>2 DEF Apart
  <2> QED
    BY <2>1, <2>2 DEF Joined
<1> QED
  BY <1>3, <1>4 DEF Apart

\* A region of the heap apart from the free blocks is freed into a list of
\* blocks of the heap; what is apart from the region and the free blocks stays
\* apart from them.
LEMMA Freed ==
  ASSUME HeapInv, NEW region \in Places, region.start < region.end,
         HeapStart <= region.start, region.end <= heap_end,
         \A i \in DOMAIN free_list : Apart(region, free_list[i])
  PROVE  /\ CoalesceFreedRegion(free_list, region) \in Seq(Places)
         /\ InOrder(CoalesceFreedRegion(free_list, region))
         /\ \A k \in DOMAIN CoalesceFreedRegion(free_list, region) :
              /\ IsBlockOfHeap(CoalesceFreedRegion(free_list, region)[k])
              /\ \A s \in Places :
                   /\ s.start < s.end /\ Apart(s, region)
                   /\ \A i \in DOMAIN free_list : Apart(s, free_list[i])
                   => Apart(s, CoalesceFreedRegion(free_list, region)[k])
         /\ HoldsBlock(region) => CoalesceFreedRegion(free_list, region) # free_list
         /\ CoalesceFreedRegion(free_list, region) # free_list =>
              CellsOf(CoalesceFreedRegion(free_list, region)) = CellsOf(free_list) \cup Cells(region)
<1> DEFINE new == CoalesceFreedRegion(free_list, region)
<1>1. free_list \in Seq(Places) /\ InOrder(free_list)
  BY DEF HeapInv, TypeOK
<1>2. \A i \in DOMAIN free_list :
        /\ HoldsBlock(free_list[i]) /\ HeapStart <= free_list[i].start /\ free_list[i].end <= heap_end
        /\ free_list[i].start \in Nat /\ free_list[i].end \in Nat
  BY HeapNumbers DEF HeapInv, IsBlockOfHeap, InHeap
<1>3. \A i \in DOMAIN free_list : free_list[i].start < free_list[i].end
  <2> TAKE i \in DOMAIN free_list
  <2>1. /\ free_list[i].start \in Nat /\ free_list[i].end \in Nat
        /\ free_list[i].start + HeadSize + MinimumFreeBlockSize <= free_list[i].end
    BY HeapNumbers
  <2> QED
    BY <2>1, HeapAssumption
<1>4. /\ new \in Seq(Places) /\ InOrder(new)
      /\ \A k \in DOMAIN new :
           HoldsBlock(new[k]) /\ (Joined(free_list, region, new[k]) \/ \E i \in DOMAIN free_list : new[k] = free_list[i])
      /\ HoldsBlock(region) =>
           \E k \in DOMAIN new : new[k].start <= region.start /\ region.end <= new[k].end
      /\ new # free_list => CellsOf(free_list) \cup Cells(region) \subseteq CellsOf(new)
  BY <1>1, <1>2, Coalesced
<1> HIDE DEF new
<1>5. ASSUME NEW k \in DOMAIN new
      PROVE  IsBlockOfHeap(new[k])
  <2>1. CASE Joined(free_list, region, new[k])
    <3>1. HeapStart <= new[k].start
      BY <2>1, <1>2 DEF Joined
    <3>2. new[k].end <= heap_end
      BY <2>1, <1>2 DEF Joined
    <3> QED
      BY <3>1, <3>2, <1>4 DEF IsBlockOfHeap, InHeap
  <2>2. CASE \E i \in DOMAIN free_list : new[k] = free_list[i]
    BY <2>2 DEF HeapInv
  <2> QED
    BY <2>1, <2>2, <1>4
<1>6. ASSUME NEW k \in DOMAIN new, NEW s \in Places,
             s.start < s.end, Apart(s, region), \A i \in DOMAIN free_list : Apart(s, free_list[i])
      PROVE  Apart(s, new[k])
  <2>1. CASE Joined(free_list, region, new[k])
    BY <2>1, <1>1, <1>3, <1>6, JoinedApart
  <2>2. CASE \E i \in DOMAIN free_list : new[k] = free_list[i]
    BY <2>2, <1>6
  <2> QED
    BY <2>1, <2>2, <1>4
<1>7. ASSUME HoldsBlock(region), new = free_list
      PROVE  FALSE
  <2>1. PICK k \in DOMAIN free_list : free_list[k].start <= region.start /\ region.end <= free_list[k].end
    BY <1>4, <1>7
  <2>2. region.start \in Nat /\ region.end \in Nat
    BY DEF Places
  <2> QED
    BY <2>1, <2>2, <1>2 DEF Apart
<1>8. ASSUME NEW k \in DOMAIN new, NEW x \in Cells(new[k])
      PROVE  x \in CellsOf(free_list) \cup Cells(region)
  <2>1. CASE \E i \in DOMAIN free_list : new[k] = free_list[i]
    BY <2>1, <1>8 DEF CellsOf
  <2>2. CASE Joined(free_list, region, new[k])
    <3>1. new[k].start \in Nat /\ new[k].end \in Nat /\ region.start \in Nat /\ region.end \in Nat
      BY <2>2, <1>2 DEF Joined, Places
    <3>2. x \in Nat /\ new[k].start <= x /\ x < new[k].end
      BY <3>1, <1>8 DEF Cells
    <3>3. CASE x < region.start
      <4>1. PICK i \in DOMAIN free_list : free_list[i].end = region.start /\ new[k].start = free_list[i].start
        BY <2>2, <3>1, <3>2, <3>3 DEF Joined
      <4>2. x \in Cells(free_list[i])
        BY <4>1, <3>1, <3>2, <3>3 DEF Cells
      <4> QED
        BY <4>2 DEF CellsOf
    <3>4. CASE region.end <= x
      <4>1. PICK i \in DOMAIN free_list : free_list[i].start = region.end /\ new[k].end = free_list[i].end
        BY <2>2, <3>1, <3>2, <3>4 DEF Joined
      <4>2. x \in Cells(free_list[i])
        BY <4>1, <3>1, <3>2, <3>4 DEF Cells
      <4> QED
        BY <4>2 DEF CellsOf
    <3>5. CASE region.start <= x /\ x < region.end
      BY <3>1, <3>2, <3>5 DEF Cells
    <3> QED
      BY <3>1, <3>2, <3>3, <3>4, <3>5
  <2> QED
    BY <2>1, <2>2, <1>4
<1>9. CellsOf(new) \subseteq CellsOf(free_list) \cup Cells(region)
  BY <1>8 DEF CellsOf
<1>10. new # free_list => CellsOf(new) = CellsOf(free_list) \cup Cells(region)
  BY <1>4, <1>9
<1> QED
  BY <1>4, <1>5, <1>6, <1>7, <1>10 DEF new

\* What is freed becomes part of the free list, unless it was emptied.
LEMMA OnlyEmptiedIsDropped ==
  ASSUME HeapInv, NEW b \in used_list, ~Emptied(b)
  PROVE  CoalesceFreedRegion(free_list, RegionOf(b)) # free_list
<1>1. /\ RegionOf(b) \in Places /\ RegionOf(b).start \in Nat /\ RegionOf(b).end \in Nat
      /\ RegionOf(b).start = b.block - HeadSize - b.padding /\ RegionOf(b).end = b.block + b.size
      /\ b.block \in Nat /\ b.size \in Nat /\ b.padding \in Nat
  BY HeapNumbers
<1>2. MinimumFreeBlockSize <= b.size
  BY <1>1, HeapAssumption DEF Emptied
<1>3. RegionOf(b).start < RegionOf(b).end /\ HoldsBlock(RegionOf(b))
  BY <1>1, <1>2, HeapAssumption DEF HoldsBlock, Length
<1>4. /\ HeapStart <= RegionOf(b).start /\ RegionOf(b).end <= heap_end
      /\ \A i \in DOMAIN free_list : Apart(RegionOf(b), free_list[i])
  BY DEF HeapInv, InHeap
<1> QED
  BY <1>1, <1>3, <1>4, Freed

\* Freeing a block.
LEMMA FreeStep ==
  ASSUME HeapInv, NEW b \in used_list, FreeToExpHeap(b)
  PROVE  HeapInv'
<1> DEFINE region == RegionOf(b)
           new == CoalesceFreedRegion(free_list, region)
<1>1. /\ free_list' = new /\ used_list' = used_list \ {b} /\ UNCHANGED <<mode, heap_end>>
      /\ lost' = lost \cup (IF Emptied(b) /\ new = free_list THEN Cells(region) ELSE {})
  BY DEF FreeToExpHeap
<1>2. \A c \in used_list : RegionOf(c) \in Places /\ RegionOf(c).start < RegionOf(c).end
  <2> TAKE c \in used_list
  <2>1. /\ RegionOf(c) \in Places /\ RegionOf(c).start \in Nat /\ RegionOf(c).end \in Nat
        /\ RegionOf(c).start + HeadSize <= RegionOf(c).end
    BY HeapNumbers
  <2> QED
    BY <2>1, HeapAssumption
<1>3. /\ HeapStart <= region.start /\ region.end <= heap_end
      /\ \A i \in DOMAIN free_list : Apart(region, free_list[i])
  BY DEF HeapInv, IsBlockOfHeap, InHeap
<1>4. /\ new \in Seq(Places) /\ InOrder(new)
      /\ \A k \in DOMAIN new :
           /\ IsBlockOfHeap(new[k])
           /\ \A s \in Places :
                /\ s.start < s.end /\ Apart(s, region)
                /\ \A i \in DOMAIN free_list : Apart(s, free_list[i])
                => Apart(s, new[k])
  BY <1>2, <1>3, Freed
<1>9. lost' \subseteq Nat
  <2>1. region.start \in Nat /\ region.end \in Nat
    BY HeapNumbers
  <2>2. Cells(region) \subseteq Nat
    BY <2>1 DEF Cells
  <2>3. lost \subseteq Nat
    BY DEF HeapInv, TypeOK
  <2> QED
    BY <2>2, <2>3, <1>1
<1> HIDE DEF new, region
<1>5. ASSUME NEW c \in used_list, c # b, NEW k \in DOMAIN new
      PROVE  Apart(RegionOf(c), new[k])
  <2>1. Apart(RegionOf(c), region) /\ \A i \in DOMAIN free_list : Apart(RegionOf(c), free_list[i])
    BY <1>5 DEF HeapInv, region
  <2> QED
    BY <2>1, <1>2, <1>4
<1>6. TypeOK'
  BY <1>1, <1>4, <1>9 DEF HeapInv, TypeOK
<1>7. \A k \in DOMAIN free_list' : IsBlockOfHeap(free_list[k])'
  BY <1>1, <1>4 DEF IsBlockOfHeap, InHeap
<1>8. ASSUME NEW c \in used_list'
      PROVE  /\ InHeap(RegionOf(c))'
             /\ \A k \in DOMAIN free_list' : Apart(RegionOf(c), free_list'[k])
             /\ \A d \in used_list' : c = d \/ Apart(RegionOf(c), RegionOf(d))
  BY <1>1, <1>5 DEF HeapInv, IsBlockOfHeap, InHeap
<1> QED
  BY <1>1, <1>4, <1>6, <1>7, <1>8 DEF HeapInv

\* No used block is empty.
NoneEmpty == \A b \in used_list : MinimumFreeBlockSize <= b.size

\* Then the assertion in FreeToExpHeap holds.
LEMMA FreeHolds ==
  ASSUME HeapInv, NoneEmpty
  PROVE  FreeSucceeds
<1>1. ASSUME NEW b \in used_list PROVE ~Emptied(b)
  <2>1. b.size \in Nat /\ MinimumFreeBlockSize <= b.size
    BY HeapNumbers DEF NoneEmpty
  <2> QED
    BY <2>1, HeapAssumption DEF Emptied
<1> QED
  BY <1>1, OnlyEmptiedIsDropped DEF FreeSucceeds

\* A block with another size, where its region ends apart from all others.
LEMMA ResizeUsed ==
  ASSUME HeapInv, NEW b \in used_list, NEW size \in Nat,
         b.block + size <= heap_end,
         used_list' = Resized(b, size), UNCHANGED heap_end,
         NEW d, d = [b EXCEPT !.size = size],
         \A c \in used_list : c = b \/ Apart(RegionOf(d), RegionOf(c))
  PROVE  /\ used_list' \subseteq [block : Nat, size : Nat, padding : 0 .. MaximumPaddingAlignment - 1]
         /\ used_list' = (used_list \ {b}) \cup {d}
         /\ \A c \in used_list' :
              /\ InHeap(RegionOf(c))'
              /\ \A e \in used_list' : c = e \/ Apart(RegionOf(c), RegionOf(e))
<1>1. b \in [block : Nat, size : Nat, padding : 0 .. MaximumPaddingAlignment - 1]
  BY DEF HeapInv, TypeOK
<1>2. /\ d \in [block : Nat, size : Nat, padding : 0 .. MaximumPaddingAlignment - 1]
      /\ d.block = b.block /\ d.size = size /\ d.padding = b.padding
  BY <1>1
<1>3. used_list' = (used_list \ {b}) \cup {d}
  BY DEF Resized
<1>4. /\ RegionOf(d).start = RegionOf(b).start /\ RegionOf(d).end = b.block + size
      /\ RegionOf(d).start = b.block - HeadSize - b.padding
  BY <1>2 DEF RegionOf, Region
<1>5. InHeap(RegionOf(d))'
  <2>1. HeapStart <= RegionOf(d).start
    BY <1>4 DEF HeapInv, InHeap
  <2> QED
    BY <2>1, <1>4 DEF InHeap
<1>6. \A c \in used_list : InHeap(RegionOf(c))'
  BY DEF HeapInv, IsBlockOfHeap, InHeap
<1>7. \A r, s : Apart(r, s) => Apart(s, r)
  BY DEF Apart
<1>8. used_list' \subseteq [block : Nat, size : Nat, padding : 0 .. MaximumPaddingAlignment - 1]
  BY <1>2, <1>3 DEF HeapInv, TypeOK
<1>9. \A c, e \in used_list' : c = e \/ Apart(RegionOf(c), RegionOf(e))
  BY <1>3, <1>7 DEF HeapInv
<1>10. \A c \in used_list' : InHeap(RegionOf(c))'
  BY <1>2, <1>3, <1>5, <1>6 DEF HeapInv
<1> QED
  BY <1>3, <1>8, <1>9, <1>10

\* Giving back the rest of a block.
LEMMA ShrinkStep ==
  ASSUME HeapInv, NEW b \in used_list, NEW size \in NewSizes, Shrink(b, size)
  PROVE  HeapInv'
<1> DEFINE rest == Region(b.block + size, b.block + b.size)
           new == CoalesceFreedRegion(free_list, rest)
           d == [b EXCEPT !.size = size]
<1>1. /\ size < b.size /\ used_list' = Resized(b, size) /\ free_list' = new
      /\ UNCHANGED <<mode, heap_end, lost>>
  BY DEF Shrink
<1>2. /\ b.block \in Nat /\ b.size \in Nat /\ b.padding \in Nat
      /\ RegionOf(b) \in Places /\ RegionOf(b).start \in Nat /\ RegionOf(b).end \in Nat
      /\ RegionOf(b).start = b.block - HeadSize - b.padding /\ RegionOf(b).end = b.block + b.size
  BY HeapNumbers
<1>3. size \in Nat /\ HeadSize \in Nat \ {0} /\ heap_end \in Nat
      /\ MinimumFreeBlockSize \in Nat \ {0} /\ HeapStart \in Nat
  BY HeapNumbers, HeapAssumption
<1>4. /\ rest \in Places /\ rest.start = b.block + size /\ rest.end = b.block + b.size
      /\ rest.start < rest.end
  BY <1>1, <1>2, <1>3 DEF Region, Places
<1> HIDE DEF rest
<1>5. /\ RegionOf(d).start = RegionOf(b).start /\ RegionOf(d).end = b.block + size
      /\ RegionOf(d) \in Places
  <2>1. b \in [block : Nat, size : Nat, padding : 0 .. MaximumPaddingAlignment - 1]
    BY DEF HeapInv, TypeOK
  <2>2. d.block = b.block /\ d.size = size /\ d.padding = b.padding
    BY <2>1
  <2> HIDE DEF d
  <2>3. RegionOf(d).start = RegionOf(b).start /\ RegionOf(d).end = b.block + size
    BY <2>2 DEF RegionOf, Region
  <2> QED
    BY <2>3, <1>2, <1>3 DEF RegionOf, Region, Places
<1>6. RegionOf(d).start < RegionOf(d).end
  BY <1>2, <1>3, <1>5
<1>7. HeapStart <= RegionOf(b).start /\ RegionOf(b).end <= heap_end
  BY DEF HeapInv, IsBlockOfHeap, InHeap
<1> HIDE DEF d
<1>8. ASSUME NEW s \in Places, Apart(RegionOf(b), s)
      PROVE  Apart(RegionOf(d), s) /\ Apart(rest, s) /\ Apart(s, rest)
  <2>1. s.start \in Nat /\ s.end \in Nat
    BY DEF Places
  <2> QED
    BY <2>1, <1>1, <1>2, <1>3, <1>4, <1>5, <1>8 DEF Apart
<1>9. ASSUME NEW i \in DOMAIN free_list
      PROVE  Apart(RegionOf(d), free_list[i]) /\ Apart(rest, free_list[i])
  <2>1. free_list[i] \in Places /\ Apart(RegionOf(b), free_list[i])
    BY HeapNumbers DEF HeapInv
  <2> QED
    BY <2>1, <1>8
<1>10. ASSUME NEW c \in used_list, c # b
       PROVE  Apart(RegionOf(d), RegionOf(c)) /\ Apart(RegionOf(c), rest)
  <2>1. RegionOf(c) \in Places /\ Apart(RegionOf(b), RegionOf(c))
    BY <1>10, HeapNumbers DEF HeapInv
  <2> QED
    BY <2>1, <1>8
<1>11. /\ new \in Seq(Places) /\ InOrder(new)
       /\ \A k \in DOMAIN new :
            /\ IsBlockOfHeap(new[k])
            /\ \A s \in Places :
                 /\ s.start < s.end /\ Apart(s, rest)
                 /\ \A i \in DOMAIN free_list : Apart(s, free_list[i])
                 => Apart(s, new[k])
  <2>1. HeapStart <= rest.start /\ rest.end <= heap_end
    BY <1>2, <1>3, <1>4, <1>7
  <2> QED
    BY <2>1, <1>4, <1>9, Freed
<1> HIDE DEF new
<1>12. ASSUME NEW k \in DOMAIN new
       PROVE  Apart(RegionOf(d), new[k])
  <2>1. Apart(RegionOf(d), rest)
    BY <1>2, <1>3, <1>4, <1>5 DEF Apart
  <2> QED
    BY <2>1, <1>5, <1>6, <1>9, <1>11
<1>13. ASSUME NEW k \in DOMAIN new, NEW c \in used_list, c # b
       PROVE  Apart(RegionOf(c), new[k])
  <2>1. /\ RegionOf(c) \in Places /\ RegionOf(c).start \in Nat /\ RegionOf(c).end \in Nat
        /\ RegionOf(c).start + HeadSize <= RegionOf(c).end
    BY HeapNumbers
  <2>2. RegionOf(c).start < RegionOf(c).end
    BY <2>1, <1>3
  <2>3. \A i \in DOMAIN free_list : Apart(RegionOf(c), free_list[i])
    BY DEF HeapInv
  <2> QED
    BY <2>1, <2>2, <2>3, <1>10, <1>11, <1>13
<1>14. /\ used_list' \subseteq [block : Nat, size : Nat, padding : 0 .. MaximumPaddingAlignment - 1]
       /\ used_list' = (used_list \ {b}) \cup {d}
       /\ \A c \in used_list' :
            /\ InHeap(RegionOf(c))'
            /\ \A e \in used_list' : c = e \/ Apart(RegionOf(c), RegionOf(e))
  <2>1. b.block + size <= heap_end
    BY <1>1, <1>2, <1>3, <1>7
  <2>2. \A c \in used_list : c = b \/ Apart(RegionOf(d), RegionOf(c))
    BY <1>10
  <2> QED
    BY <2>1, <2>2, <1>1, <1>3, ResizeUsed DEF d
<1>15. TypeOK'
  BY <1>1, <1>11, <1>14 DEF HeapInv, TypeOK
<1>16. \A k \in DOMAIN free_list' : IsBlockOfHeap(free_list[k])'
  BY <1>1, <1>11 DEF IsBlockOfHeap, InHeap
<1>17. \A c \in used_list', k \in DOMAIN free_list' : Apart(RegionOf(c), free_list'[k])
  BY <1>1, <1>12, <1>13, <1>14
<1> QED
  BY <1>1, <1>11, <1>14, <1>15, <1>16, <1>17 DEF HeapInv

\* Growing into the free block behind.
LEMMA GrowStep ==
  ASSUME HeapInv, NEW b \in used_list, NEW size \in NewSizes, Grow(b, size)
  PROVE  /\ HeapInv'
         /\ \E n \in Nat, i \in DOMAIN free_list :
              /\ used_list' = Resized(b, n) /\ b.size < n
              /\ free_list[i].start = b.block + b.size /\ b.block + n <= free_list[i].end
              /\ CellsOf(free_list') =
                   (CellsOf(free_list) \ Cells(free_list[i])) \cup (b.block + n .. free_list[i].end - 1)
<1>1. PICK i \in DOMAIN free_list :
        LET rest == Region(b.block + size, free_list[i].end)
        IN  /\ HasRoom(i, b, size)
            /\ free_list' = Replace(free_list, i, i, If(HoldsBlock(rest), rest))
            /\ used_list' = Resized(b, IF HoldsBlock(rest) THEN size ELSE rest.end - b.block)
  BY DEF Grow
<1> DEFINE r == free_list[i]
           rest == Region(b.block + size, r.end)
           others == If(HoldsBlock(rest), rest)
           new == Replace(free_list, i, i, others)
           n == IF HoldsBlock(rest) THEN size ELSE rest.end - b.block
           d == [b EXCEPT !.size = n]
<1>2. size > b.size /\ UNCHANGED <<mode, heap_end, lost>>
  BY DEF Grow
<1>3. free_list' = new /\ used_list' = Resized(b, n) /\ HasRoom(i, b, size)
  BY <1>1
<1>4. /\ b.block \in Nat /\ b.size \in Nat /\ b.padding \in Nat
      /\ RegionOf(b) \in Places /\ RegionOf(b).start \in Nat /\ RegionOf(b).end \in Nat
      /\ RegionOf(b).start = b.block - HeadSize - b.padding /\ RegionOf(b).end = b.block + b.size
      /\ r.start \in Nat /\ r.end \in Nat /\ r \in Places
  BY HeapNumbers
<1>5. size \in Nat /\ HeadSize \in Nat \ {0} /\ heap_end \in Nat
      /\ MinimumFreeBlockSize \in Nat \ {0} /\ HeapStart \in Nat
  BY HeapNumbers, HeapAssumption
<1>6. r.start = b.block + b.size /\ b.block + size <= r.end
  BY <1>3, <1>4, <1>5 DEF HasRoom, BlockSize, MemoryOf
<1>0. r = free_list[i]
  OBVIOUS
<1>7. rest \in Places /\ rest.start = b.block + size /\ rest.end = r.end
  BY <1>4, <1>5 DEF Region, Places
<1> HIDE DEF rest, r
<1>8. /\ n \in Nat /\ b.size < n /\ b.block + n <= r.end
      /\ b.block + n = IF HoldsBlock(rest) THEN rest.start ELSE r.end
  <2>1. CASE HoldsBlock(rest)
    BY <2>1, <1>2, <1>4, <1>5, <1>6, <1>7
  <2>2. CASE ~HoldsBlock(rest)
    BY <2>2, <1>2, <1>4, <1>5, <1>6, <1>7
  <2> QED
    BY <2>1, <2>2
<1>9. /\ others \in Seq(Places) /\ InOrder(others)
      /\ \A m \in 1 .. Len(others) :
           /\ r.start <= others[m].start /\ others[m].end <= r.end
           /\ HoldsBlock(others[m]) /\ others[m] = rest
      /\ CellsOf(others) = b.block + n .. r.end - 1
  <2>1. CASE HoldsBlock(rest)
    <3>1. others = <<rest>>
      BY <2>1 DEF If
    <3>2. others \in Seq(Places) /\ Len(others) = 1 /\ others[1] = rest /\ DOMAIN others = 1 .. 1
      BY <3>1, <1>7
    <3>3. r.start <= rest.start /\ rest.end <= r.end
      BY <1>2, <1>4, <1>5, <1>6, <1>7
    <3> HIDE DEF others
    <3>4. InOrder(others)
      BY <3>2 DEF InOrder
    <3>5. CellsOf(others) = Cells(rest)
      BY <3>2 DEF CellsOf
    <3>6. Cells(rest) = b.block + n .. r.end - 1
      BY <2>1, <1>7, <1>8 DEF Cells
    <3> QED
      BY <3>2, <3>3, <3>4, <3>5, <3>6, <2>1
  <2>2. CASE ~HoldsBlock(rest)
    <3>1. others = <<>>
      BY <2>2 DEF If
    <3>2. CellsOf(others) = {}
      BY <3>1 DEF CellsOf
    <3>3. b.block + n .. r.end - 1 = {}
      BY <2>2, <1>4, <1>8
    <3>4. /\ others \in Seq(Places) /\ InOrder(others)
          /\ \A m \in 1 .. Len(others) :
               /\ r.start <= others[m].start /\ others[m].end <= r.end
               /\ HoldsBlock(others[m]) /\ others[m] = rest
      BY <3>1 DEF InOrder
    <3> HIDE DEF others
    <3> QED
      BY <3>2, <3>3, <3>4
  <2> QED
    BY <2>1, <2>2
<1> HIDE DEF others, n
<1>10. /\ new \in Seq(Places) /\ InOrder(new)
       /\ \A k \in DOMAIN new :
            /\ IsBlockOfHeap(new[k])
            /\ \A s \in Places :
                 /\ \A j \in DOMAIN free_list : j # i => Apart(s, free_list[j])
                 /\ Apart(s, r) \/ \A m \in 1 .. Len(others) : Apart(s, others[m])
                 => Apart(s, new[k])
       /\ CellsOf(new) = (CellsOf(free_list) \ Cells(r)) \cup CellsOf(others)
  BY <1>0, <1>9, Pieces
<1>11. /\ RegionOf(d).start = RegionOf(b).start /\ RegionOf(d).end = b.block + n
       /\ RegionOf(d) \in Places
  <2>1. b \in [block : Nat, size : Nat, padding : 0 .. MaximumPaddingAlignment - 1]
    BY DEF HeapInv, TypeOK
  <2>2. d.block = b.block /\ d.size = n /\ d.padding = b.padding
    BY <2>1
  <2> HIDE DEF d
  <2>3. RegionOf(d).start = RegionOf(b).start /\ RegionOf(d).end = b.block + n
    BY <2>2 DEF RegionOf, Region
  <2> QED
    BY <2>3, <1>4, <1>8 DEF RegionOf, Region, Places
<1> HIDE DEF new, d
<1>12. ASSUME NEW s \in Places, s.start < s.end, Apart(RegionOf(b), s), Apart(s, r)
       PROVE  Apart(RegionOf(d), s)
  <2>1. s.start \in Nat /\ s.end \in Nat
    BY DEF Places
  <2> QED
    BY <2>1, <1>2, <1>4, <1>5, <1>6, <1>8, <1>11, <1>12 DEF Apart
<1>13. ASSUME NEW j \in DOMAIN free_list, j # i
       PROVE  Apart(RegionOf(d), free_list[j])
  <2>1. /\ free_list[j] \in Places /\ free_list[j].start \in Nat /\ free_list[j].end \in Nat
        /\ free_list[j].start + HeadSize + MinimumFreeBlockSize <= free_list[j].end
    BY HeapNumbers
  <2>2. free_list[j].start < free_list[j].end
    BY <2>1, <1>5
  <2>3. free_list[j].end < r.start \/ r.end < free_list[j].start
    BY <1>0, <1>13, HeapNumbers DEF HeapInv, InOrder
  <2>4. Apart(free_list[j], r)
    BY <2>1, <2>3, <1>4 DEF Apart
  <2>5. Apart(RegionOf(b), free_list[j])
    BY DEF HeapInv
  <2> QED
    BY <2>1, <2>2, <2>4, <2>5, <1>12
<1>14. ASSUME NEW c \in used_list
       PROVE  c = b \/ Apart(RegionOf(d), RegionOf(c))
  <2>1. /\ RegionOf(c) \in Places /\ RegionOf(c).start \in Nat /\ RegionOf(c).end \in Nat
        /\ RegionOf(c).start + HeadSize <= RegionOf(c).end
    BY HeapNumbers
  <2>2. RegionOf(c).start < RegionOf(c).end
    BY <2>1, <1>5
  <2>3. Apart(RegionOf(c), r) /\ (c = b \/ Apart(RegionOf(b), RegionOf(c)))
    BY <1>0 DEF HeapInv
  <2> QED
    BY <2>1, <2>2, <2>3, <1>12
<1>15. ASSUME NEW k \in DOMAIN new
       PROVE  Apart(RegionOf(d), new[k])
  <2>1. \A m \in 1 .. Len(others) : Apart(RegionOf(d), others[m])
    <3> TAKE m \in 1 .. Len(others)
    <3>1. others[m] = rest /\ HoldsBlock(rest)
      BY <1>9
    <3>2. RegionOf(d).end = rest.start /\ rest.start \in Nat
      BY SMTT(30), <3>1, <1>4, <1>5, <1>7, <1>8, <1>11
    <3> QED
      BY <3>1, <3>2 DEF Apart
  <2> QED
    BY <2>1, <1>10, <1>11, <1>13
<1>16. ASSUME NEW k \in DOMAIN new, NEW c \in used_list
       PROVE  Apart(RegionOf(c), new[k])
  <2>1. RegionOf(c) \in Places /\ \A j \in DOMAIN free_list : Apart(RegionOf(c), free_list[j])
    BY HeapNumbers DEF HeapInv
  <2> QED
    BY <2>1, <1>0, <1>10
<1>17. /\ used_list' \subseteq [block : Nat, size : Nat, padding : 0 .. MaximumPaddingAlignment - 1]
       /\ used_list' = (used_list \ {b}) \cup {d}
       /\ \A c \in used_list' :
            /\ InHeap(RegionOf(c))'
            /\ \A e \in used_list' : c = e \/ Apart(RegionOf(c), RegionOf(e))
  <2>1. b.block + n <= heap_end
    <3>1. r.end <= heap_end
      BY <1>0 DEF HeapInv, IsBlockOfHeap, InHeap
    <3> QED
      BY <3>1, <1>4, <1>5, <1>8
  <2> QED
    BY <2>1, <1>2, <1>3, <1>8, <1>14, ResizeUsed DEF d
<1>18. TypeOK'
  BY <1>2, <1>3, <1>10, <1>17 DEF HeapInv, TypeOK
<1>19. \A k \in DOMAIN free_list' : IsBlockOfHeap(free_list[k])'
  BY <1>2, <1>3, <1>10 DEF IsBlockOfHeap, InHeap
<1>20. \A c \in used_list', k \in DOMAIN free_list' : Apart(RegionOf(c), free_list'[k])
  BY <1>3, <1>15, <1>16, <1>17
<1>21. HeapInv'
  BY <1>3, <1>10, <1>17, <1>18, <1>19, <1>20 DEF HeapInv
<1>22. CellsOf(free_list') = (CellsOf(free_list) \ Cells(r)) \cup (b.block + n .. r.end - 1)
  BY <1>3, <1>9, <1>10
<1>23. b.size < n /\ n \in Nat /\ b.block + n <= r.end /\ r.start = b.block + b.size
  BY <1>6, <1>8
<1> QED
  BY <1>0, <1>3, <1>21, <1>22, <1>23

\* The last block leaves the heap, and the heap ends where it began.
LEMMA AdjustStep ==
  ASSUME HeapInv, AdjustExpHeap
  PROVE  HeapInv'
<1> DEFINE n == Len(free_list)
           r == free_list[n]
<1>1. n \in Nat /\ DOMAIN free_list = 1 .. n /\ n # 0
  BY HeapNumbers, EmptySeq DEF AdjustExpHeap, HeapInv, TypeOK
<1>2. /\ free_list' = SubSeq(free_list, 1, n - 1) /\ heap_end' = r.start /\ r.end = heap_end
      /\ UNCHANGED <<used_list, mode, lost>>
  BY DEF AdjustExpHeap, Front, Last
<1>3. n \in DOMAIN free_list /\ r.start \in Nat /\ r.end \in Nat
      /\ r.start + HeadSize + MinimumFreeBlockSize <= r.end
  BY <1>1, HeapNumbers
<1>4. \A i \in 1 .. n : free_list[i] \in Places
  BY <1>1, HeapNumbers
<1>5. /\ free_list' \in Seq(Places) /\ Len(free_list') = n - 1
      /\ \A i \in 1 .. n - 1 : free_list'[i] = free_list[i]
  <2>1. \A i \in 1 .. n - 1 : free_list[i] \in Places
    BY <1>4
  <2> QED
    BY <2>1, <1>1, <1>2, SubSeqProperties
<1> HIDE DEF n, r
<1>6. DOMAIN free_list' = 1 .. n - 1
  BY <1>5, LenProperties
<1>7. \A i \in 1 .. n - 1 : i \in DOMAIN free_list /\ i < n
  BY <1>1
<1>8. IsBlockOfHeap(r) /\ r = free_list[n] /\ heap_end \in HeapStart .. HeapEnd
  BY <1>3 DEF HeapInv, TypeOK, r
<1>9. heap_end' \in HeapStart .. HeapEnd /\ heap_end' < heap_end /\ heap_end' \in Nat
  BY <1>2, <1>3, <1>8, HeapAssumption DEF IsBlockOfHeap, InHeap
<1>10. TypeOK'
  BY <1>2, <1>5, <1>9 DEF HeapInv, TypeOK
<1>11. InOrder(free_list')
  BY <1>5, <1>6, <1>7 DEF HeapInv, InOrder
<1>12. ASSUME NEW i \in DOMAIN free_list'
       PROVE  IsBlockOfHeap(free_list[i])' /\ i \in DOMAIN free_list /\ free_list'[i] = free_list[i]
  <2>1. i \in DOMAIN free_list /\ i < n /\ free_list'[i] = free_list[i]
    BY <1>5, <1>6, <1>7
  <2>2. free_list[i].end < r.start /\ free_list[i].end \in Nat
    BY <2>1, <1>3, <1>8, HeapNumbers DEF HeapInv, InOrder
  <2>3. IsBlockOfHeap(free_list[i])
    BY <2>1 DEF HeapInv
  <2> QED
    BY <2>1, <2>2, <2>3, <1>2, <1>3 DEF IsBlockOfHeap, InHeap
<1>13. ASSUME NEW b \in used_list
       PROVE  InHeap(RegionOf(b))'
  <2>1. /\ RegionOf(b).start \in Nat /\ RegionOf(b).end \in Nat
        /\ RegionOf(b).start + HeadSize <= RegionOf(b).end
    BY HeapNumbers
  <2>2. InHeap(RegionOf(b)) /\ Apart(RegionOf(b), r)
    BY <1>3, <1>8 DEF HeapInv
  <2>3. RegionOf(b).end <= r.start
    BY <2>1, <2>2, <1>2, <1>3, HeapAssumption DEF Apart, IsBlockOfHeap, InHeap
  <2> QED
    BY <2>2, <2>3, <1>2 DEF IsBlockOfHeap, InHeap
<1>14. ASSUME NEW b \in used_list'
       PROVE  /\ InHeap(RegionOf(b))'
              /\ \A i \in DOMAIN free_list' : Apart(RegionOf(b), free_list'[i])
              /\ \A c \in used_list' : b = c \/ Apart(RegionOf(b), RegionOf(c))
  BY <1>2, <1>12, <1>13 DEF HeapInv
<1>15. \A i \in DOMAIN free_list' : IsBlockOfHeap(free_list[i])'
  BY <1>12
<1> QED
  BY <1>10, <1>11, <1>14, <1>15 DEF HeapInv

\* A new heap is one free block.
LEMMA InitHeapInv ==
  ASSUME Init
  PROVE  HeapInv
<1> DEFINE r == Region(HeapStart, HeapEnd)
<1>1. /\ free_list = <<r>> /\ used_list = {} /\ mode = "first_fit"
      /\ heap_end = HeapEnd /\ lost = {}
  BY DEF Init
<1>2. /\ r \in Places /\ r.start = HeapStart /\ r.end = HeapEnd
      /\ HeapStart \in Nat /\ HeapEnd \in Nat /\ HeapStart <= HeapEnd
      /\ HeapEnd - HeapStart >= HeadSize + MinimumFreeBlockSize
  BY HeapAssumption DEF Region, Places
<1>3. IsBlockOfHeap(r)
  BY <1>1, <1>2 DEF IsBlockOfHeap, InHeap, HoldsBlock, Length
<1> HIDE DEF r
<1>4. free_list \in Seq(Places) /\ DOMAIN free_list = 1 .. 1 /\ free_list[1] = r
  BY <1>1, <1>2
<1>5. InOrder(free_list)
  BY <1>4 DEF InOrder
<1>6. TypeOK
  BY <1>1, <1>2, <1>4 DEF TypeOK
<1> QED
  BY <1>1, <1>3, <1>4, <1>5, <1>6 DEF HeapInv

\* Each call keeps the invariant.
LEMMA NextHeapInv ==
  ASSUME HeapInv, [Next]_vars
  PROVE  HeapInv'
<1>1. CASE \E size \in Sizes, alignment \in Alignments, direction \in {"front", "back"} :
             AllocateFromExpHeap(size, alignment, direction)
  BY <1>1, AllocateStep
<1>2. CASE \E b \in used_list : FreeToExpHeap(b)
  BY <1>2, FreeStep
<1>3. CASE \E b \in used_list, size \in NewSizes : Grow(b, size)
  BY <1>3, GrowStep
<1>4. CASE \E b \in used_list, size \in NewSizes : Shrink(b, size)
  BY <1>4, ShrinkStep
<1>5. CASE AdjustExpHeap
  BY <1>5, AdjustStep
<1>6. CASE \E new \in {"first_fit", "best_fit"} : SetExpHeapAllocationMode(new)
  BY <1>6 DEF SetExpHeapAllocationMode, HeapInv, TypeOK, IsBlockOfHeap, InHeap
<1>7. CASE UNCHANGED vars
  BY <1>7 DEF vars, HeapInv, TypeOK, IsBlockOfHeap, InHeap
<1> QED
  BY <1>1, <1>2, <1>3, <1>4, <1>5, <1>6, <1>7 DEF Next

\* No sequence of requests makes the regions of the heap overlap or leave it,
\* or puts the free list out of order (lmem_impl_exp_heap.cpp:194-298, 467-545).
THEOREM RegionsStayApart == Spec => []HeapInv
<1>1. Init => HeapInv
  BY InitHeapInv
<1>2. HeapInv /\ [Next]_vars => HeapInv'
  BY NextHeapInv
<1> QED
  BY <1>1, <1>2, PTL DEF Spec

\* What the sizes given to a resize have to be for no used block to become empty.
NothingEmptied == \A size \in NewSizes : MinimumFreeBlockSize <= size

\* Then none does.
LEMMA StayNonempty ==
  ASSUME NothingEmptied, HeapInv, NoneEmpty, [Next]_vars
  PROVE  NoneEmpty'
<1> SUFFICES ASSUME NEW b \in used_list'
             PROVE  MinimumFreeBlockSize <= b.size
  BY DEF NoneEmpty
<1>1. \A c \in used_list : MinimumFreeBlockSize <= c.size /\ c.size \in Nat
  BY HeapNumbers DEF NoneEmpty
<1>2. ASSUME NEW c \in used_list, NEW n \in Nat, used_list' = Resized(c, n), MinimumFreeBlockSize <= n
      PROVE  MinimumFreeBlockSize <= b.size
  <2>1. c \in [block : Nat, size : Nat, padding : 0 .. MaximumPaddingAlignment - 1]
    BY DEF HeapInv, TypeOK
  <2>2. [c EXCEPT !.size = n].size = n
    BY <2>1
  <2> QED
    BY <2>2, <1>1, <1>2 DEF Resized
<1>3. ASSUME NEW size \in Sizes, NEW alignment \in Alignments, NEW direction \in {"front", "back"},
             AllocateFromExpHeap(size, alignment, direction)
      PROVE  MinimumFreeBlockSize <= b.size
  <2>1. PICK block, padding : used_list' = used_list \cup {UsedBlock(block, size, padding)}
    BY <1>3 DEF AllocateFromExpHeap, ConvertFreeBlockToUsedBlock
  <2>2. UsedBlock(block, size, padding).size = size /\ MinimumFreeBlockSize <= size
    BY HeapAssumption DEF UsedBlock
  <2> QED
    BY <2>1, <2>2, <1>1
<1>4. ASSUME NEW c \in used_list, FreeToExpHeap(c)
      PROVE  MinimumFreeBlockSize <= b.size
  BY <1>1, <1>4 DEF FreeToExpHeap
<1>5. ASSUME NEW c \in used_list, NEW size \in NewSizes, Grow(c, size)
      PROVE  MinimumFreeBlockSize <= b.size
  <2>1. PICK n \in Nat : used_list' = Resized(c, n) /\ c.size < n
    BY <1>5, GrowStep
  <2>2. MinimumFreeBlockSize <= n
    BY <2>1, <1>1, HeapAssumption
  <2> QED
    BY <2>1, <2>2, <1>2
<1>6. ASSUME NEW c \in used_list, NEW size \in NewSizes, Shrink(c, size)
      PROVE  MinimumFreeBlockSize <= b.size
  <2>1. used_list' = Resized(c, size) /\ size \in Nat /\ MinimumFreeBlockSize <= size
    BY <1>6, HeapAssumption DEF Shrink, NothingEmptied
  <2> QED
    BY <2>1, <1>2
<1>7. CASE UNCHANGED used_list
  BY <1>1, <1>7
<1>8. AdjustExpHeap \/ (\E new : SetExpHeapAllocationMode(new)) \/ UNCHANGED vars => UNCHANGED used_list
  BY DEF AdjustExpHeap, SetExpHeapAllocationMode, vars
<1> QED
  BY <1>3, <1>4, <1>5, <1>6, <1>7, <1>8 DEF Next

\* The assertion of FreeToExpHeap (line 464) holds if nobody resizes a block to
\* nothing.  Line 477 lets them.
THEOREM FreeIsAsserted ==
  ASSUME NothingEmptied
  PROVE  Spec => []FreeSucceeds
<1>1. Init => NoneEmpty
  BY DEF Init, NoneEmpty
<1>2. NothingEmptied /\ HeapInv /\ NoneEmpty /\ [Next]_vars => NoneEmpty'
  BY StayNonempty
<1>3. HeapInv /\ NoneEmpty => FreeSucceeds
  BY FreeHolds
<1>4. Spec => []HeapInv
  BY RegionsStayApart
<1>5. HeapInv /\ NoneEmpty /\ [Next]_vars => NoneEmpty'
  BY <1>2
<1> QED
  BY <1>1, <1>3, <1>4, <1>5, PTL DEF Spec

\* What is reported as allocatable is just what the searches find.
LEMMA FoundIsAllocatable ==
  ASSUME HeapInv
  PROVE  AllocatableIsFound
<1>1. SUFFICES ASSUME NEW size \in Sizes, NEW alignment \in Alignments
               PROVE  size <= AllocatableSize(alignment) <=> Candidates(size, alignment) # {}
  BY DEF AllocatableIsFound
<1> DEFINE Room(r) == r.end - BlockStart(r, alignment)
           T == {0} \cup {Room(r) : r \in Range(free_list)}
<1>2. size \in Nat /\ 0 < size /\ HeadSize \in Nat /\ alignment \in Nat \ {0}
  BY HeapAssumption
<1>3. Range(free_list) = {free_list[i] : i \in DOMAIN free_list}
  BY DEF Range
<1>4. ASSUME NEW i \in DOMAIN free_list
      PROVE  /\ Room(free_list[i]) \in Int /\ Room(free_list[i]) <= heap_end
             /\ size <= Room(free_list[i]) <=> Fits(free_list[i], size, alignment)
  <2> DEFINE r == free_list[i]
  <2>1. r.start \in Nat /\ r.end \in Nat /\ heap_end \in Nat
    BY HeapNumbers
  <2>2. r.end <= heap_end
    BY DEF HeapInv, IsBlockOfHeap, InHeap
  <2>3. MemoryOf(r) \in Nat
    BY <2>1, <1>2 DEF MemoryOf
  <2>4. BlockStart(r, alignment) \in Nat
    BY <2>3, <1>2, AlignUpProperties DEF BlockStart
  <2> HIDE DEF r
  <2>5. size <= Room(r) <=> Fits(r, size, alignment)
    BY <2>1, <2>3, <2>4, <1>2 DEF Fits, BlockSize
  <2>6. Room(r) \in Int /\ Room(r) <= heap_end
    BY <2>1, <2>2, <2>4
  <2> QED
    BY <2>5, <2>6 DEF r
<1> HIDE DEF Room
<1>5. T \subseteq Int /\ T # {} /\ heap_end \in Int /\ \A y \in T : y <= heap_end
  BY <1>3, <1>4, HeapNumbers
<1>6. Max(T) \in T /\ \A y \in T : Max(T) >= y
  <2> HIDE DEF T
  <2> QED
    BY <1>5, MaxProperties
<1>7. AllocatableSize(alignment) = Max(T)
  BY DEF AllocatableSize, Room
<1>8. ASSUME size <= Max(T)
      PROVE  Fitting(size, alignment) # {}
  <2>1. Max(T) # 0
    BY <1>2, <1>8
  <2>2. PICK i \in DOMAIN free_list : Max(T) = Room(free_list[i])
    BY <2>1, <1>3, <1>6
  <2> QED
    BY <2>2, <1>4, <1>8 DEF Fitting
<1>9. ASSUME Fitting(size, alignment) # {}
      PROVE  size <= Max(T)
  <2>1. PICK i \in DOMAIN free_list : Fits(free_list[i], size, alignment)
    BY <1>9 DEF Fitting
  <2>2. Room(free_list[i]) \in T /\ size <= Room(free_list[i]) /\ Room(free_list[i]) \in Int
    BY <2>1, <1>3, <1>4
  <2>3. Max(T) \in Int /\ Room(free_list[i]) <= Max(T)
    BY <2>2, <1>5, <1>6
  <2> QED
    BY <2>2, <2>3, <1>2
<1> QED
  BY <1>7, <1>8, <1>9, SearchFinds

\* GetExpHeapAllocatableSize (line 556) agrees with both searches, in each mode,
\* on every free list that calls can lead to.
THEOREM AllocatableIsRight == Spec => []AllocatableIsFound
<1>1. HeapInv => AllocatableIsFound
  BY FoundIsAllocatable
<1>2. Spec => []HeapInv
  BY RegionsStayApart
<1> QED
  BY <1>1, <1>2, PTL

UsedBlocks == [block : Nat, size : Nat, padding : 0 .. MaximumPaddingAlignment - 1]

\* A used block as its user sees it.
BlockOf(b) == [at |-> b.block, size |-> b.size]

\* What the invariant says of a used block, without the heap around it.
IsUsed(b) ==
  /\ b \in UsedBlocks
  /\ HeapStart <= RegionOf(b).start /\ RegionOf(b).end <= HeapEnd

\* The used blocks before and after a step.
LEMMA AreUsed ==
  /\ HeapInv => \A b \in used_list : IsUsed(b)
  /\ HeapInv' => \A b \in used_list' : IsUsed(b)
<1>1. ASSUME HeapInv, NEW b \in used_list
      PROVE  IsUsed(b)
  <2>1. b \in UsedBlocks
    BY <1>1 DEF HeapInv, TypeOK, UsedBlocks
  <2>2. HeapStart <= RegionOf(b).start /\ RegionOf(b).end <= heap_end
    BY <1>1 DEF HeapInv, IsBlockOfHeap, InHeap
  <2>3. heap_end \in HeapStart .. HeapEnd /\ HeapStart \in Nat /\ HeapEnd \in Nat
    BY <1>1, HeapAssumption DEF HeapInv, TypeOK
  <2>4. RegionOf(b).end \in Int
    BY <2>1 DEF UsedBlocks, RegionOf, Region
  <2> QED
    BY <2>1, <2>2, <2>3, <2>4 DEF IsUsed
<1>2. ASSUME HeapInv', NEW b \in used_list'
      PROVE  IsUsed(b)
  <2>1. b \in UsedBlocks
    BY <1>2 DEF HeapInv, TypeOK, UsedBlocks
  <2>2. HeapStart <= RegionOf(b).start /\ RegionOf(b).end <= heap_end'
    BY <1>2 DEF HeapInv, IsBlockOfHeap, InHeap
  <2>3. heap_end' \in HeapStart .. HeapEnd /\ HeapStart \in Nat /\ HeapEnd \in Nat
    BY <1>2, HeapAssumption DEF HeapInv, TypeOK
  <2>4. RegionOf(b).end \in Int
    BY <2>1 DEF UsedBlocks, RegionOf, Region
  <2> QED
    BY <2>1, <2>2, <2>3, <2>4 DEF IsUsed
<1> QED
  BY <1>1, <1>2

\* A used block is a block of the allocator.
LEMMA UsedIsBlock ==
  ASSUME NEW b, IsUsed(b)
  PROVE  Users!IsBlock(BlockOf(b))
<1>1. /\ b.block \in Nat /\ b.size \in Nat /\ b.padding \in Nat
      /\ RegionOf(b).start = b.block - HeadSize - b.padding /\ RegionOf(b).end = b.block + b.size
  BY HeapAssumption DEF IsUsed, UsedBlocks, RegionOf, Region
<1>2. HeapStart <= b.block /\ b.block + b.size <= HeapEnd /\ HeapStart \in Nat /\ HeapEnd \in Nat
  BY <1>1, HeapAssumption DEF IsUsed
<1>3. Users!Addresses(BlockOf(b)) = b.block .. b.block + b.size - 1
  BY DEF Users!Addresses, BlockOf
<1>4. Users!Addresses(BlockOf(b)) \subseteq HeapStart .. HeapEnd - 1
  BY <1>1, <1>2, <1>3
<1> QED
  BY <1>4 DEF Users!IsBlock

\* Blocks whose regions are apart have no place in common, empty or not: the
\* head of the later one is between them.
LEMMA ApartPlaces ==
  ASSUME NEW b, NEW c, IsUsed(b), IsUsed(c), Apart(RegionOf(b), RegionOf(c))
  PROVE  Users!Place(BlockOf(b)) \cap Users!Place(BlockOf(c)) = {}
<1>1. /\ b.block \in Nat /\ b.size \in Nat /\ b.padding \in Nat
      /\ c.block \in Nat /\ c.size \in Nat /\ c.padding \in Nat /\ HeadSize \in Nat \ {0}
      /\ RegionOf(b).start = b.block - HeadSize - b.padding /\ RegionOf(b).end = b.block + b.size
      /\ RegionOf(c).start = c.block - HeadSize - c.padding /\ RegionOf(c).end = c.block + c.size
  BY HeapAssumption DEF IsUsed, UsedBlocks, RegionOf, Region
<1>2. b.block + b.size < c.block \/ c.block + c.size < b.block
  BY <1>1 DEF Apart
<1>3. /\ Users!Place(BlockOf(b)) = {b.block} \cup (b.block .. b.block + b.size - 1)
      /\ Users!Place(BlockOf(c)) = {c.block} \cup (c.block .. c.block + c.size - 1)
  BY DEF Users!Place, Users!Addresses, BlockOf
<1> QED
  BY <1>1, <1>2, <1>3

\* No two used blocks have a place in common.
LEMMA NoSharedPlace ==
  ASSUME HeapInv, NEW b \in used_list, NEW c \in used_list, b # c
  PROVE  /\ Users!Place(BlockOf(b)) \cap Users!Place(BlockOf(c)) = {}
         /\ b.block # c.block /\ BlockOf(b) # BlockOf(c)
<1>1. IsUsed(b) /\ IsUsed(c) /\ Apart(RegionOf(b), RegionOf(c))
  BY AreUsed DEF HeapInv
<1>2. Users!Place(BlockOf(b)) \cap Users!Place(BlockOf(c)) = {}
  BY <1>1, ApartPlaces
<1>3. b.block \in Users!Place(BlockOf(b)) /\ c.block \in Users!Place(BlockOf(c))
  BY DEF Users!Place, BlockOf
<1>4. b.block # c.block
  BY <1>2, <1>3
<1> QED
  BY <1>2, <1>4 DEF BlockOf

\* Without b, the users have all other blocks.
LEMMA BlocksWithout ==
  ASSUME HeapInv, NEW b \in used_list
  PROVE  {BlockOf(c) : c \in used_list \ {b}} = {BlockOf(c) : c \in used_list} \ {BlockOf(b)}
BY NoSharedPlace

\* A resized block is one for its users too.
LEMMA ResizeIsResize ==
  ASSUME HeapInv, HeapInv', NEW b \in used_list, NEW n \in Nat, used_list' = Resized(b, n)
  PROVE  Users!Resize
<1> DEFINE d == [b EXCEPT !.size = n]
           before == {BlockOf(c) : c \in used_list}
           after == {BlockOf(c) : c \in used_list'}
<1>1. b \in UsedBlocks /\ d.block = b.block /\ d.size = n
  BY AreUsed DEF IsUsed, UsedBlocks
<1>2. used_list' = (used_list \ {b}) \cup {d}
  BY DEF Resized
<1> HIDE DEF d
<1>3. after = (before \ {BlockOf(b)}) \cup {BlockOf(d)}
  BY <1>2, BlocksWithout
<1>4. IsUsed(d) /\ Users!IsBlock(BlockOf(d))
  BY <1>2, AreUsed, UsedIsBlock
<1>5. Users!Apart(BlockOf(d), before \ {BlockOf(b)})
  <2>1. ASSUME NEW c \in used_list, c # b
        PROVE  Users!Place(BlockOf(d)) \cap Users!Place(BlockOf(c)) = {}
    <3>1. d # c
      BY <2>1, <1>1, NoSharedPlace
    <3>2. Apart(RegionOf(d), RegionOf(c)) /\ IsUsed(c)
      BY <2>1, <3>1, <1>2, AreUsed DEF HeapInv
    <3> QED
      BY <3>2, <1>4, ApartPlaces
  <2> QED
    BY <2>1 DEF Users!Apart
<1>6. BlockOf(b) \in before /\ BlockOf(d) \in after /\ BlockOf(d).at = BlockOf(b).at
  BY <1>1, <1>2 DEF BlockOf
<1>7. /\ before = {[at |-> c.block, size |-> c.size] : c \in used_list}
      /\ after = {[at |-> c.block, size |-> c.size] : c \in used_list'}
  BY DEF BlockOf
<1> HIDE DEF before, after
<1> QED
  BY <1>3, <1>4, <1>5, <1>6, <1>7 DEF Users!Resize

\* Each step of the heap is one of the allocator, or changes no used block.
LEMMA HeapStepIsAllocatorStep ==
  ASSUME HeapInv, HeapInv', [Next]_vars
  PROVE  \/ Users!Allocate \/ Users!Free \/ Users!Resize
         \/ UNCHANGED {[at |-> b.block, size |-> b.size] : b \in used_list}
<1> DEFINE before == {[at |-> b.block, size |-> b.size] : b \in used_list}
           after == {[at |-> b.block, size |-> b.size] : b \in used_list'}
<1>0. before = {BlockOf(b) : b \in used_list} /\ after = {BlockOf(b) : b \in used_list'}
  BY DEF BlockOf
<1>1. ASSUME NEW size \in Sizes, NEW alignment \in Alignments, NEW direction,
             AllocateFromExpHeap(size, alignment, direction)
      PROVE  Users!Allocate
  <2>1. PICK b : /\ used_list' = used_list \cup {b} /\ b.size = size
                 /\ \A c \in used_list : Apart(RegionOf(b), RegionOf(c))
    BY <1>1, AllocateStep
  <2>2. after = before \cup {BlockOf(b)} /\ BlockOf(b) \in after
    BY <2>1, <1>0
  <2>3. IsUsed(b) /\ \A c \in used_list : IsUsed(c)
    BY <2>1, AreUsed
  <2>4. Users!IsBlock(BlockOf(b)) /\ BlockOf(b).size > 0
    BY <2>1, <2>3, UsedIsBlock, HeapAssumption DEF BlockOf
  <2>5. Users!Apart(BlockOf(b), before)
    BY <2>1, <2>3, <1>0, ApartPlaces DEF Users!Apart
  <2> QED
    BY <2>2, <2>4, <2>5 DEF Users!Allocate
<1>2. ASSUME NEW b \in used_list, FreeToExpHeap(b)
      PROVE  Users!Free
  <2>1. used_list' = used_list \ {b}
    BY <1>2 DEF FreeToExpHeap
  <2>2. after = before \ {BlockOf(b)} /\ BlockOf(b) \in before
    BY <2>1, <1>0, BlocksWithout
  <2> QED
    BY <2>2 DEF Users!Free
<1>3. ASSUME NEW b \in used_list, NEW size \in NewSizes, Grow(b, size)
      PROVE  Users!Resize
  BY <1>3, GrowStep, ResizeIsResize
<1>4. ASSUME NEW b \in used_list, NEW size \in NewSizes, Shrink(b, size)
      PROVE  Users!Resize
  <2>1. used_list' = Resized(b, size) /\ size \in Nat
    BY <1>4, HeapAssumption DEF Shrink
  <2> QED
    BY <2>1, ResizeIsResize
<1>5. CASE UNCHANGED used_list
  BY <1>5
<1>6. AdjustExpHeap \/ (\E new : SetExpHeapAllocationMode(new)) \/ UNCHANGED vars => UNCHANGED used_list
  BY DEF AdjustExpHeap, SetExpHeapAllocationMode, vars
<1> QED
  BY <1>1, <1>2, <1>3, <1>4, <1>5, <1>6 DEF Next

\* The heap implements an allocator, whatever sizes blocks are resized to: what
\* it hands out is apart from all that others have, and stays where it is until
\* it is given back.
THEOREM HeapImplementsAllocator == Spec => AllocatorSpec
<1>1. Init => Users!AllocatorInit
  BY DEF Init, Users!AllocatorInit
<1>2. Spec => []HeapInv
  BY RegionsStayApart
<1>3. HeapInv /\ HeapInv' /\ [Next]_vars =>
        [Users!Allocate \/ Users!Free \/ Users!Resize]_({[at |-> b.block, size |-> b.size] : b \in used_list})
  BY HeapStepIsAllocatorStep
<1> QED
  BY <1>1, <1>2, <1>3, PTL DEF Spec, AllocatorSpec, Users!AllocatorSpec

\* The addresses of the used blocks, with their heads and padding.
UsedCells == UNION {Cells(RegionOf(b)) : b \in used_list}

\* What is held is free or used, before and after a step.
LEMMA HeldIs ==
  /\ Held = CellsOf(free_list) \cup UsedCells
  /\ Held' = CellsOf(free_list') \cup UsedCells'
<1>1. Range(free_list) = {free_list[i] : i \in DOMAIN free_list}
  BY DEF Range
<1>2. Range(free_list') = {free_list'[i] : i \in DOMAIN free_list'}
  BY DEF Range
<1>3. Held = CellsOf(free_list) \cup UsedCells
  BY <1>1 DEF Held, Regions, CellsOf, UsedCells
<1>4. Held' = CellsOf(free_list') \cup UsedCells'
  BY <1>2 DEF Held, Regions, CellsOf, UsedCells
<1> QED
  BY <1>3, <1>4

\* Regions apart have no address in common.
LEMMA ApartCells ==
  ASSUME NEW r \in Places, NEW s \in Places, Apart(r, s)
  PROVE  Cells(r) \cap Cells(s) = {}
BY DEF Places, Apart, Cells

\* No address is free and used.
LEMMA FreeOrUsed ==
  ASSUME HeapInv
  PROVE  CellsOf(free_list) \cap UsedCells = {}
<1>1. ASSUME NEW i \in DOMAIN free_list, NEW b \in used_list
      PROVE  Cells(free_list[i]) \cap Cells(RegionOf(b)) = {}
  <2>1. RegionOf(b) \in Places /\ free_list[i] \in Places /\ Apart(RegionOf(b), free_list[i])
    BY HeapNumbers DEF HeapInv
  <2> QED
    BY <2>1, ApartCells
<1> QED
  BY <1>1 DEF CellsOf, UsedCells

\* An allocation keeps all but what it drops, which it writes down.
LEMMA AllocateBytes ==
  ASSUME HeapInv, BytesAreAccounted, NEW size \in Sizes, NEW alignment \in Alignments, NEW direction,
         AllocateFromExpHeap(size, alignment, direction)
  PROVE  BytesAreAccounted'
<1>1. PICK b, dropped :
        /\ used_list' = used_list \cup {b} /\ lost' = lost \cup dropped
        /\ CellsOf(free_list') \cup Cells(RegionOf(b)) \cup dropped = CellsOf(free_list)
        /\ dropped \cap (CellsOf(free_list') \cup Cells(RegionOf(b))) = {}
  BY AllocateStep
<1>2. UsedCells' = UsedCells \cup Cells(RegionOf(b))
  BY <1>1 DEF UsedCells
<1>3. heap_end' = heap_end
  BY DEF AllocateFromExpHeap
<1>4. CellsOf(free_list) \cap UsedCells = {}
  BY FreeOrUsed
<1>5. /\ CellsOf(free_list) \cup UsedCells \cup lost = HeapStart .. heap_end - 1
      /\ (CellsOf(free_list) \cup UsedCells) \cap lost = {}
  BY HeldIs DEF BytesAreAccounted
<1>6. /\ CellsOf(free_list') \cup UsedCells' \cup lost' = HeapStart .. heap_end' - 1
      /\ (CellsOf(free_list') \cup UsedCells') \cap lost' = {}
  BY <1>1, <1>2, <1>3, <1>4, <1>5
<1> QED
  BY <1>6, HeldIs DEF BytesAreAccounted

\* Freeing gives all of the block's region back, or drops all of it.
LEMMA FreeBytes ==
  ASSUME HeapInv, BytesAreAccounted, NEW b \in used_list, FreeToExpHeap(b)
  PROVE  BytesAreAccounted'
<1>1. /\ used_list' = used_list \ {b} /\ heap_end' = heap_end
      /\ free_list' = CoalesceFreedRegion(free_list, RegionOf(b))
      /\ lost' = lost \cup (IF free_list' = free_list THEN Cells(RegionOf(b)) ELSE {})
  BY OnlyEmptiedIsDropped DEF FreeToExpHeap
<1>2. /\ RegionOf(b) \in Places /\ RegionOf(b).start \in Nat /\ RegionOf(b).end \in Nat
      /\ RegionOf(b).start + HeadSize <= RegionOf(b).end
  BY HeapNumbers
<1>3. RegionOf(b).start < RegionOf(b).end
  BY <1>2, HeapAssumption
<1>4. /\ HeapStart <= RegionOf(b).start /\ RegionOf(b).end <= heap_end
      /\ \A i \in DOMAIN free_list : Apart(RegionOf(b), free_list[i])
  BY DEF HeapInv, InHeap
<1>5. UsedCells = UsedCells' \cup Cells(RegionOf(b))
  BY <1>1 DEF UsedCells
<1>6. CASE free_list' # free_list
  <2>1. CellsOf(free_list') = CellsOf(free_list) \cup Cells(RegionOf(b))
    BY <1>1, <1>2, <1>3, <1>4, <1>6, Freed
  <2>2. Held' = Held
    BY <2>1, <1>5, HeldIs
  <2> QED
    BY <2>2, <1>1, <1>6 DEF BytesAreAccounted
<1>7. CASE free_list' = free_list
  <2>1. ASSUME NEW c \in used_list, c # b
        PROVE  Cells(RegionOf(c)) \cap Cells(RegionOf(b)) = {}
    <3>1. RegionOf(c) \in Places /\ Apart(RegionOf(c), RegionOf(b))
      BY <2>1, HeapNumbers DEF HeapInv
    <3> QED
      BY <3>1, <1>2, ApartCells
  <2>2. UsedCells' \cap Cells(RegionOf(b)) = {}
    BY <2>1, <1>1 DEF UsedCells
  <2>3. CellsOf(free_list) \cap Cells(RegionOf(b)) = {}
    BY <1>5, FreeOrUsed
  <2>4. Held = Held' \cup Cells(RegionOf(b)) /\ Held' \cap Cells(RegionOf(b)) = {}
    BY <2>2, <2>3, <1>5, <1>7, HeldIs
  <2>5. lost' = lost \cup Cells(RegionOf(b))
    BY <1>1, <1>7
  <2>6. Held \cup lost = HeapStart .. heap_end - 1 /\ Held \cap lost = {}
    BY DEF BytesAreAccounted
  <2>7. Held' \cup lost' = HeapStart .. heap_end' - 1 /\ Held' \cap lost' = {}
    BY <2>4, <2>5, <2>6, <1>1
  <2> QED
    BY <2>7 DEF BytesAreAccounted
<1> QED
  BY <1>6, <1>7

\* A block with another size: the addresses of all others, and its own.
LEMMA ResizedCells ==
  ASSUME HeapInv, NEW b \in used_list, NEW n \in Nat, used_list' = Resized(b, n)
  PROVE  \E rest :
           /\ UsedCells = rest \cup Cells(RegionOf(b))
           /\ UsedCells' = rest \cup (RegionOf(b).start .. b.block + n - 1)
<1> DEFINE d == [b EXCEPT !.size = n]
           rest == UNION {Cells(RegionOf(c)) : c \in used_list \ {b}}
<1>1. b \in UsedBlocks
  BY AreUsed DEF IsUsed
<1>2. d.block = b.block /\ d.size = n /\ d.padding = b.padding
  BY <1>1 DEF UsedBlocks
<1>3. used_list' = (used_list \ {b}) \cup {d}
  BY DEF Resized
<1> HIDE DEF d
<1>4. Cells(RegionOf(d)) = RegionOf(b).start .. b.block + n - 1
  <2>1. RegionOf(d).start = RegionOf(b).start /\ RegionOf(d).end = b.block + n
    BY <1>2 DEF RegionOf, Region
  <2>2. Cells(RegionOf(d)) = RegionOf(d).start .. RegionOf(d).end - 1
    BY DEF Cells
  <2>3. b.block \in Nat
    BY <1>1 DEF UsedBlocks
  <2> QED
    BY <2>1, <2>2, <2>3
<1>5. UsedCells = rest \cup Cells(RegionOf(b))
  BY DEF UsedCells
<1>6. UsedCells' = rest \cup Cells(RegionOf(d))
  BY <1>3 DEF UsedCells
<1> QED
  BY <1>4, <1>5, <1>6

\* Shrinking frees just what the block gives up.
LEMMA ShrinkBytes ==
  ASSUME HeapInv, BytesAreAccounted,
         NEW b \in used_list, NEW size \in NewSizes, Shrink(b, size)
  PROVE  BytesAreAccounted'
<1> DEFINE r == Region(b.block + size, b.block + b.size)
<1>1. /\ size < b.size /\ used_list' = Resized(b, size) /\ UNCHANGED <<heap_end, lost>>
      /\ free_list' = CoalesceFreedRegion(free_list, r) /\ free_list' # free_list
  BY DEF Shrink
<1>2. /\ b.block \in Nat /\ b.size \in Nat /\ b.padding \in Nat /\ HeadSize \in Nat /\ size \in Nat
      /\ RegionOf(b).start \in Nat /\ RegionOf(b).end \in Nat /\ heap_end \in Nat /\ HeapStart \in Nat
      /\ RegionOf(b).start = b.block - HeadSize - b.padding /\ RegionOf(b).end = b.block + b.size
  BY HeapNumbers, HeapAssumption
<1>3. /\ r \in Places /\ r.start = b.block + size /\ r.end = b.block + b.size /\ r.start < r.end
  BY <1>1, <1>2 DEF Region, Places
<1> HIDE DEF r
<1>4. HeapStart <= r.start /\ r.end <= heap_end
  <2>1. HeapStart <= RegionOf(b).start /\ RegionOf(b).end <= heap_end
    BY DEF HeapInv, IsBlockOfHeap, InHeap
  <2> QED
    BY <2>1, <1>2, <1>3
<1>5. ASSUME NEW i \in DOMAIN free_list
      PROVE  Apart(r, free_list[i])
  <2>1. Apart(RegionOf(b), free_list[i]) /\ free_list[i].start \in Nat /\ free_list[i].end \in Nat
    BY HeapNumbers DEF HeapInv
  <2> QED
    BY <2>1, <1>2, <1>3 DEF Apart
<1>6. CellsOf(free_list') = CellsOf(free_list) \cup Cells(r)
  BY <1>1, <1>3, <1>4, <1>5, Freed
<1>7. PICK rest :
        /\ UsedCells = rest \cup Cells(RegionOf(b))
        /\ UsedCells' = rest \cup (RegionOf(b).start .. b.block + size - 1)
  BY <1>1, <1>2, ResizedCells
<1>8. Cells(RegionOf(b)) = (RegionOf(b).start .. b.block + size - 1) \cup Cells(r)
  BY <1>1, <1>2, <1>3 DEF Cells
<1>9. Held' = Held
  BY <1>6, <1>7, <1>8, HeldIs
<1> QED
  BY <1>1, <1>9 DEF BytesAreAccounted

\* Growing takes from the free block just what it adds to the used one.
LEMMA GrowBytes ==
  ASSUME HeapInv, BytesAreAccounted,
         NEW b \in used_list, NEW size \in NewSizes, Grow(b, size)
  PROVE  BytesAreAccounted'
<1>1. PICK n \in Nat, i \in DOMAIN free_list :
        /\ used_list' = Resized(b, n) /\ b.size < n
        /\ free_list[i].start = b.block + b.size /\ b.block + n <= free_list[i].end
        /\ CellsOf(free_list') =
             (CellsOf(free_list) \ Cells(free_list[i])) \cup (b.block + n .. free_list[i].end - 1)
  BY GrowStep
<1> DEFINE start == RegionOf(b).start
           end == free_list[i].end
<1>2. /\ b.block \in Nat /\ b.size \in Nat /\ start \in Nat /\ end \in Nat
      /\ start + HeadSize <= b.block + b.size /\ RegionOf(b).end = b.block + b.size
  BY HeapNumbers
<1>3. start <= b.block + b.size
  BY <1>2, HeapAssumption
<1>4. PICK rest :
        /\ UsedCells = rest \cup Cells(RegionOf(b))
        /\ UsedCells' = rest \cup (start .. b.block + n - 1)
  BY <1>1, ResizedCells
<1>5. /\ Cells(RegionOf(b)) = start .. b.block + b.size - 1
      /\ Cells(free_list[i]) = b.block + b.size .. end - 1
  BY <1>1, <1>2 DEF Cells
<1>6. Cells(free_list[i]) \subseteq CellsOf(free_list)
  BY DEF CellsOf
<1>7. CellsOf(free_list') = (CellsOf(free_list) \ Cells(free_list[i])) \cup (b.block + n .. end - 1)
  BY <1>1
<1>8. b.size < n /\ b.block + n <= end
  BY <1>1
<1> HIDE DEF start, end
<1>9. /\ start .. b.block + n - 1 = (start .. b.block + b.size - 1) \cup (b.block + b.size .. b.block + n - 1)
      /\ b.block + b.size .. end - 1 =
           (b.block + b.size .. b.block + n - 1) \cup (b.block + n .. end - 1)
  BY <1>2, <1>3, <1>8
<1>10. Held' = Held
  <2> DEFINE taken == b.block + b.size .. b.block + n - 1
             kept == b.block + n .. end - 1
             own == start .. b.block + b.size - 1
  <2>1. /\ UsedCells = rest \cup own /\ UsedCells' = rest \cup own \cup taken
        /\ taken \cup kept \subseteq CellsOf(free_list)
        /\ CellsOf(free_list') = (CellsOf(free_list) \ (taken \cup kept)) \cup kept
    BY <1>4, <1>5, <1>6, <1>7, <1>9
  <2> HIDE DEF taken, kept, own
  <2> QED
    BY <2>1, HeldIs
<1> QED
  BY <1>10 DEF Grow, BytesAreAccounted

\* The memory given back at the end was one free block, and nothing else.
LEMMA AdjustBytes ==
  ASSUME HeapInv, BytesAreAccounted, AdjustExpHeap
  PROVE  BytesAreAccounted'
<1> DEFINE n == Len(free_list)
           r == free_list[n]
<1>1. n \in Nat /\ DOMAIN free_list = 1 .. n /\ n # 0
  BY HeapNumbers, EmptySeq DEF AdjustExpHeap, HeapInv, TypeOK
<1>2. /\ free_list' = SubSeq(free_list, 1, n - 1) /\ heap_end' = r.start /\ r.end = heap_end
      /\ used_list' = used_list /\ lost' = lost
  BY DEF AdjustExpHeap, Front, Last
<1>3. n \in DOMAIN free_list /\ r \in Places /\ r.start \in Nat /\ r.end \in Nat
      /\ r.start + HeadSize + MinimumFreeBlockSize <= r.end
  BY <1>1, HeapNumbers
<1>4. \A i \in 1 .. n : free_list[i] \in Places
  BY <1>1, HeapNumbers
<1>5. /\ DOMAIN free_list' = 1 .. n - 1
      /\ \A i \in 1 .. n - 1 : free_list'[i] = free_list[i]
  <2>1. \A i \in 1 .. n - 1 : free_list[i] \in Places
    BY <1>4
  <2>2. /\ free_list' \in Seq(Places) /\ Len(free_list') = n - 1
        /\ \A i \in 1 .. n - 1 : free_list'[i] = free_list[i]
    BY <2>1, <1>1, <1>2, SubSeqProperties
  <2> QED
    BY <2>2, LenProperties
<1>6. IsBlockOfHeap(r)
  BY <1>3 DEF HeapInv
<1>0. r = free_list[n]
  OBVIOUS
<1> HIDE DEF n, r
<1>7. CellsOf(free_list) = CellsOf(free_list') \cup Cells(r)
  <2>1. \A i \in 1 .. n : i = n \/ i \in 1 .. n - 1
    BY <1>1
  <2>2. \A i \in 1 .. n - 1 : i \in 1 .. n /\ i < n
    BY <1>1
  <2> QED
    BY <2>1, <2>2, <1>0, <1>1, <1>3, <1>5 DEF CellsOf
<1>8. CellsOf(free_list') \cap Cells(r) = {}
  <2>1. ASSUME NEW i \in 1 .. n - 1
        PROVE  Cells(free_list'[i]) \cap Cells(r) = {}
    <3>1. i \in DOMAIN free_list /\ i < n /\ free_list'[i] = free_list[i]
      BY <1>1, <1>5
    <3>2. free_list[i].end < r.start /\ free_list[i] \in Places /\ free_list[i].end \in Nat
      BY <3>1, <1>0, <1>3, HeapNumbers DEF HeapInv, InOrder
    <3>3. Apart(free_list[i], r)
      BY <3>2, <1>3 DEF Apart
    <3> QED
      BY <3>1, <3>2, <3>3, <1>3, ApartCells
  <2> QED
    BY <2>1, <1>5 DEF CellsOf
<1>9. UsedCells' = UsedCells
  BY <1>2 DEF UsedCells
<1>10. /\ Held = Held' \cup Cells(r) /\ Held' \cap Cells(r) = {}
       /\ Cells(r) \cap lost = {}
  BY <1>7, <1>8, <1>9, FreeOrUsed, HeldIs DEF BytesAreAccounted
<1>11. Cells(r) = heap_end' .. heap_end - 1
  BY <1>2 DEF Cells
<1>12. HeapStart .. heap_end' - 1 = (HeapStart .. heap_end - 1) \ (heap_end' .. heap_end - 1)
  <2>1. HeapStart <= r.start /\ r.start \in Nat /\ r.end \in Nat /\ r.start <= r.end /\ HeapStart \in Nat
    BY <1>3, <1>6, HeapAssumption DEF IsBlockOfHeap, InHeap
  <2> QED
    BY <2>1, <1>2
<1>13. Held \cup lost = HeapStart .. heap_end - 1 /\ Held \cap lost = {}
  BY DEF BytesAreAccounted
<1>14. Held' \cup lost' = HeapStart .. heap_end' - 1 /\ Held' \cap lost' = {}
  BY <1>2, <1>10, <1>11, <1>12, <1>13
<1> QED
  BY <1>14 DEF BytesAreAccounted

\* At first the heap is one free block.
LEMMA InitBytes ==
  ASSUME Init
  PROVE  BytesAreAccounted
<1> DEFINE r == Region(HeapStart, HeapEnd)
<1>1. free_list = <<r>> /\ used_list = {} /\ lost = {} /\ heap_end = HeapEnd
  BY DEF Init
<1>2. Cells(r) = HeapStart .. heap_end - 1
  BY <1>1 DEF Cells, Region
<1> HIDE DEF r
<1>3. DOMAIN free_list = 1 .. 1 /\ free_list[1] = r
  BY <1>1
<1>4. CellsOf(free_list) = Cells(r)
  BY <1>3 DEF CellsOf
<1>5. UsedCells = {}
  BY <1>1 DEF UsedCells
<1> QED
  BY <1>1, <1>2, <1>4, <1>5, HeldIs DEF BytesAreAccounted

\* No call loses an address or gives it to two.
LEMMA NextBytes ==
  ASSUME HeapInv, BytesAreAccounted, [Next]_vars
  PROVE  BytesAreAccounted'
<1>1. CASE \E size \in Sizes, alignment \in Alignments, direction \in {"front", "back"} :
             AllocateFromExpHeap(size, alignment, direction)
  BY <1>1, AllocateBytes
<1>2. CASE \E b \in used_list : FreeToExpHeap(b)
  BY <1>2, FreeBytes
<1>3. CASE \E b \in used_list, size \in NewSizes : Grow(b, size)
  BY <1>3, GrowBytes
<1>4. CASE \E b \in used_list, size \in NewSizes : Shrink(b, size)
  BY <1>4, ShrinkBytes
<1>5. CASE AdjustExpHeap
  BY <1>5, AdjustBytes
<1>6. CASE UNCHANGED <<free_list, used_list, heap_end, lost>>
  <2>1. UsedCells' = UsedCells /\ CellsOf(free_list') = CellsOf(free_list)
    BY <1>6 DEF UsedCells
  <2> QED
    BY <2>1, <1>6, HeldIs DEF BytesAreAccounted
<1>7. (\E new : SetExpHeapAllocationMode(new)) \/ UNCHANGED vars
        => UNCHANGED <<free_list, used_list, heap_end, lost>>
  BY DEF SetExpHeapAllocationMode, vars
<1> QED
  BY <1>1, <1>2, <1>3, <1>4, <1>5, <1>6, <1>7 DEF Next

\* Every address of the heap is free, used or dropped, and just one of these,
\* whatever sizes blocks are resized to.  Dropped are, and nothing else, what
\* allocations leave behind their blocks and the regions of blocks freed with no
\* memory left and nothing free beside them (lmem_impl_exp_heap.cpp:194-298,
\* 467-545).
THEOREM BytesAreKept == Spec => []BytesAreAccounted
<1>1. Init => BytesAreAccounted
  BY InitBytes
<1>2. Spec => []HeapInv
  BY RegionsStayApart
<1>3. HeapInv /\ BytesAreAccounted /\ [Next]_vars => BytesAreAccounted'
  BY NextBytes
<1> QED
  BY <1>1, <1>2, <1>3, PTL DEF Spec
================================================================================
