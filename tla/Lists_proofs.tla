---------------------------- MODULE Lists_proofs ----------------------------
(***************************************************************************)
(* Proofs about the two components that keep a sorted list: EventLoop, the *)
(* timers in the order of deadlines, and Jbuf, the frames in the order of  *)
(* sequence numbers that wrap.  First come the arithmetic of clocks and    *)
(* numbers that wrap and what inserting and removing do to a sequence,     *)
(* then that every step of the loop keeps the clock right and the timers   *)
(* in order, then that every packet leaves the buffer in order.            *)
(***************************************************************************)
EXTENDS EventLoop, Jbuf, SequenceTheorems, WellFoundedInduction, TLAPS

(***************************************************************************)
(* The clock.                                                              *)
(***************************************************************************)
LEMMA DivFacts ==
  ASSUME NEW W \in Nat \ {0}, NEW n \in Nat
  PROVE  /\ n \div W \in Nat /\ n % W \in 0..(W - 1)
         /\ n = (n \div W) * W + (n % W)
OBVIOUS

LEMMA DivUnique ==
  ASSUME NEW W \in Nat \ {0}, NEW q \in Nat, NEW r \in 0..(W - 1)
  PROVE  (q * W + r) \div W = q
OBVIOUS

LEMMA NoMultiple ==
  ASSUME NEW W \in Nat \ {0}, NEW k \in Int, k * W < W, 0 - W < k * W
  PROVE  k = 0
OBVIOUS

\* The value that gettimeofday gives back is the time, as long as the counter was read
\* once in each of its rounds.
LEMMA ClockStep ==
  ASSUME NEW W \in Nat \ {0}, NEW s \in Nat, NEW n \in Nat, s <= n, n - s < W
  PROVE  ((IF s % W > n % W THEN s + W ELSE s) \div W) * W + (n % W) = n
<1> DEFINE q == s \div W
           r == s % W
           p == n \div W
           t == n % W
           h == (IF r > t THEN s + W ELSE s) \div W
<1>1. q \in Nat /\ r \in 0..(W - 1) /\ s = q * W + r  BY DivFacts
<1>2. p \in Nat /\ t \in 0..(W - 1) /\ n = p * W + t  BY DivFacts
<1> HIDE DEF q, r, p, t
<1>3. CASE r > t
  <2>1. s + W = (q + 1) * W + r /\ q + 1 \in Nat  BY <1>1
  <2>2. h = q + 1  BY <1>1, <1>3, <2>1, DivUnique
  <2> DEFINE k == p - q - 1
  <2>3. k \in Int /\ k * W = n - s - W + r - t  BY <1>1, <1>2
  <2> HIDE DEF k
  <2>4. k * W < W /\ 0 - W < k * W  BY <1>1, <1>2, <1>3, <2>3
  <2>5. k = 0  BY <2>3, <2>4, NoMultiple
  <2>6. p = q + 1  BY <1>1, <1>2, <2>5 DEF k
  <2> QED  BY <1>2, <2>2, <2>6 DEF q, r, p, t
<1>4. CASE ~(r > t)
  <2>1. h = q  BY <1>1, <1>4, DivUnique
  <2> DEFINE k == p - q
  <2>3. k \in Int /\ k * W = n - s + r - t  BY <1>1, <1>2
  <2> HIDE DEF k
  <2>4. k * W < W /\ 0 - W < k * W  BY <1>1, <1>2, <1>4, <2>3
  <2>5. k = 0  BY <2>3, <2>4, NoMultiple
  <2>6. p = q  BY <1>1, <1>2, <2>5 DEF k
  <2> QED  BY <1>2, <2>1, <2>6 DEF q, r, p, t
<1> QED  BY <1>3, <1>4

(***************************************************************************)
(* Numbers modulo W.                                                       *)
(***************************************************************************)
LEMMA IntDivFacts ==
  ASSUME NEW W \in Nat \ {0}, NEW x \in Int
  PROVE  /\ x \div W \in Int /\ x % W \in 0..(W - 1)
         /\ x = (x \div W) * W + (x % W)
OBVIOUS

LEMMA ModUnique ==
  ASSUME NEW W \in Nat \ {0}, NEW q \in Int, NEW r \in 0..(W - 1)
  PROVE  (q * W + r) % W = r
OBVIOUS

\* Rounds more or less do not change the remainder.
LEMMA ModRounds ==
  ASSUME NEW W \in Nat \ {0}, NEW x \in Int, NEW q \in Int
  PROVE  (x + q * W) % W = x % W
<1> DEFINE p == x \div W
           r == x % W
<1>1. p \in Int /\ r \in 0..(W - 1) /\ x = p * W + r  BY IntDivFacts
<1> HIDE DEF p, r
<1>2. p + q \in Int /\ x + q * W = (p + q) * W + r  BY <1>1
<1>3. ((p + q) * W + r) % W = r  BY <1>1, <1>2, ModUnique
<1>4. (x + q * W) % W = r  BY <1>2, <1>3
<1> QED  BY <1>4 DEF r

LEMMA ModDifference ==
  ASSUME NEW W \in Nat \ {0}, NEW x \in Int, NEW y \in Int
  PROVE  ((x % W) - (y % W)) % W = (x - y) % W
<1> DEFINE p == x \div W
           r == x % W
           q == y \div W
           s == y % W
<1>1. p \in Int /\ r \in 0..(W - 1) /\ x = p * W + r  BY IntDivFacts
<1>2. q \in Int /\ s \in 0..(W - 1) /\ y = q * W + s  BY IntDivFacts
<1> HIDE DEF p, q, r, s
<1>3. p - q \in Int /\ r - s \in Int /\ x - y = (r - s) + (p - q) * W  BY <1>1, <1>2
<1>4. ((r - s) + (p - q) * W) % W = (r - s) % W  BY <1>3, ModRounds
<1>5. (r - s) % W = (x - y) % W  BY <1>3, <1>4
<1> QED  BY <1>5 DEF r, s

LEMMA ModSum ==
  ASSUME NEW W \in Nat \ {0}, NEW x \in Int, NEW m \in Int
  PROVE  ((x % W) + m) % W = (x + m) % W
<1> DEFINE p == x \div W
           r == x % W
<1>1. p \in Int /\ r \in 0..(W - 1) /\ x = p * W + r  BY IntDivFacts
<1> HIDE DEF p, r
<1>2. r + m \in Int /\ x + m = (r + m) + p * W  BY <1>1
<1>3. ((r + m) + p * W) % W = (r + m) % W  BY <1>1, <1>2, ModRounds
<1>4. (r + m) % W = (x + m) % W  BY <1>2, <1>3
<1> QED  BY <1>4 DEF r

\* Of two numbers less than W apart the remainder of the difference tells which is the
\* greater one, as long as they are less than half of W apart.
LEMMA ModNear ==
  ASSUME NEW W \in Nat \ {0}, NEW x \in Int, NEW y \in Int,
         x - y < W \div 2, y - x <= W \div 2
  PROVE  /\ ((x % W) - (y % W)) % W >= W \div 2 <=> x < y
         /\ x % W = y % W <=> x = y
<1> DEFINE h == W \div 2
           d == x - y
<1>1. h \in Nat /\ 2 * h <= W /\ d \in Int /\ d < h /\ 0 - d <= h  OBVIOUS
<1>2. ((x % W) - (y % W)) % W = d % W  BY ModDifference
<1>3. x % W = y % W => d % W = 0
  <2>1. ASSUME x % W = y % W PROVE (x % W) - (y % W) = 0
    <3>1. x % W \in Int  BY IntDivFacts
    <3> QED  BY <2>1, <3>1
  <2>2. 0 % W = 0
    <3>1. 0 \in 0..(W - 1) /\ 0 * W + 0 = 0  OBVIOUS
    <3>2. (0 * W + 0) % W = 0  BY <3>1, ModUnique
    <3> QED  BY <3>1, <3>2
  <2> QED  BY <1>2, <2>1, <2>2
<1> HIDE DEF h
<1>4. CASE d >= 0
  <2>1. d \in 0..(W - 1) /\ d = 0 * W + d  BY <1>1, <1>4
  <2> HIDE DEF d
  <2>2. d % W = d  BY <2>1, ModUnique
  <2> QED  BY <1>1, <1>2, <1>3, <1>4, <2>2 DEF h, d
<1>5. CASE d < 0
  <2>1. d + W \in 0..(W - 1) /\ d = (0 - 1) * W + (d + W) /\ 0 - 1 \in Int  BY <1>1, <1>5
  <2> HIDE DEF d
  <2>2. d % W = d + W  BY <2>1, ModUnique
  <2>3. d % W >= h /\ d % W # 0  BY <1>1, <1>5, <2>1, <2>2
  <2>4. x < y  BY <1>5 DEF d
  <2> QED  BY <1>2, <1>3, <2>3, <2>4 DEF h
<1> QED  BY <1>1, <1>4, <1>5

(***************************************************************************)
(* Sets of numbers have a least and, when bounded, a greatest one.         *)
(***************************************************************************)
Below == {ss \in Nat \X Nat : ss[1] < ss[2]}
LEMMA BelowWF == IsWellFoundedOn(Below, Nat)
<1>1. OpToRel(<, Nat) = Below  BY DEF OpToRel, Below
<1> QED BY <1>1, NatLessThanWellFounded

LEMMA Least ==
  ASSUME NEW T, T \subseteq Nat, T # {}
  PROVE  \E x \in T : \A y \in T : x <= y
<1>1. PICK x \in T : \A y \in T : ~ (<<y, x>> \in Below)
  BY BelowWF, WFMin, Zenon
<1>2. ASSUME NEW y \in T PROVE x <= y
  <2>1. y \in Nat /\ x \in Nat OBVIOUS
  <2>2. ~ (<<y, x>> \in Below) BY <1>1
  <2>3. <<y, x>> \in Below <=> y < x  BY <2>1 DEF Below
  <2> QED BY <2>1, <2>2, <2>3
<1> QED BY <1>2

LEMMA Greatest ==
  ASSUME NEW T, NEW n \in Nat, T \subseteq 0..n, T # {}
  PROVE  \E x \in T : \A y \in T : x >= y
<1> DEFINE U == {n - x : x \in T}
<1>1. U \subseteq Nat /\ U # {}
  <2>1. ASSUME NEW x \in T PROVE n - x \in Nat
    <3>1. x \in 0..n  OBVIOUS
    <3> QED BY <3>1
  <2> QED BY <2>1
<1> HIDE DEF U
<1>2. PICK u \in U : \A y \in U : u <= y  BY <1>1, Least
<1>3. PICK x \in T : u = n - x  BY DEF U
<1>4. ASSUME NEW y \in T PROVE x >= y
  <2>1. n - y \in U  BY DEF U
  <2>2. x \in 0..n /\ y \in 0..n  OBVIOUS
  <2> QED BY <1>2, <1>3, <2>1, <2>2
<1> QED BY <1>4

(***************************************************************************)
(* Sequences.                                                              *)
(***************************************************************************)
\* m is l with e inserted as its element i.
Inserted(m, l, i, e) ==
  /\ Len(m) = Len(l) + 1
  /\ \A j \in 1..(Len(l) + 1) :
       m[j] = IF j < i THEN l[j] ELSE IF j = i THEN e ELSE l[j - 1]

LEMMA InsertFacts ==
  ASSUME NEW S, NEW l \in Seq(S), NEW i \in 1..(Len(l) + 1), NEW e \in S
  PROVE  InsertAt(l, i, e) \in Seq(S) /\ Inserted(InsertAt(l, i, e), l, i, e)
<1> DEFINE a == SubSeq(l, 1, i - 1)
           b == SubSeq(l, i, Len(l))
           c == <<e>>
<1>1. Len(l) \in Nat /\ \A j \in 1..Len(l) : l[j] \in S  BY LenProperties, ElementOfSeq
<1>2. /\ a \in Seq(S) /\ Len(a) = i - 1
      /\ \A j \in 1..(i - 1) : a[j] = l[j]
  <2>1. \A j \in 1..(i - 1) : l[j] \in S  BY <1>1
  <2>2. 1 \in Int /\ i - 1 \in Int  BY <1>1
  <2>3. /\ a \in Seq(S) /\ Len(a) = IF 1 <= i - 1 THEN i - 1 - 1 + 1 ELSE 0
        /\ \A j \in 1..(i - 1 - 1 + 1) : a[j] = l[1 + j - 1]
    BY <2>1, <2>2, SubSeqProperties
  <2> HIDE DEF a
  <2> QED  BY <1>1, <2>3
<1>3. /\ b \in Seq(S) /\ Len(b) = Len(l) - i + 1
      /\ \A j \in 1..(Len(l) - i + 1) : b[j] = l[i + j - 1]
  <2>1. \A j \in i..Len(l) : l[j] \in S  BY <1>1
  <2>2. i \in Int /\ Len(l) \in Int  BY <1>1
  <2>3. /\ b \in Seq(S) /\ Len(b) = IF i <= Len(l) THEN Len(l) - i + 1 ELSE 0
        /\ \A j \in 1..(Len(l) - i + 1) : b[j] = l[i + j - 1]
    BY <2>1, <2>2, SubSeqProperties
  <2> HIDE DEF b
  <2> QED  BY <1>1, <2>3
<1>4. c \in Seq(S) /\ Len(c) = 1 /\ c[1] = e  OBVIOUS
<1>5. InsertAt(l, i, e) = (a \o c) \o b  BY DEF InsertAt
<1> HIDE DEF a, b, c
<1>6. /\ a \o c \in Seq(S) /\ Len(a \o c) = i
      /\ \A j \in 1..i : (a \o c)[j] = IF j < i THEN l[j] ELSE e
  <2>1. /\ a \o c \in Seq(S) /\ Len(a \o c) = Len(a) + Len(c)
        /\ \A j \in 1..(Len(a) + Len(c)) :
             (a \o c)[j] = IF j <= Len(a) THEN a[j] ELSE c[j - Len(a)]
    BY <1>2, <1>4, ConcatProperties
  <2> QED  BY <1>1, <1>2, <1>4, <2>1
<1> DEFINE d == a \o c
<1>10. d \in Seq(S)  BY <1>6
<1>8. InsertAt(l, i, e) = d \o b  BY <1>5 DEF d
<1>9. Len(d) = i /\ \A j \in 1..i : d[j] = IF j < i THEN l[j] ELSE e  BY <1>6 DEF d
<1> HIDE DEF d
<1>7. /\ d \o b \in Seq(S) /\ Len(d \o b) = Len(d) + Len(b)
      /\ \A j \in 1..(Len(d) + Len(b)) :
           (d \o b)[j] = IF j <= Len(d) THEN d[j] ELSE b[j - Len(d)]
  BY <1>3, <1>10, ConcatProperties
<1>11. Len(d \o b) = Len(l) + 1  BY <1>1, <1>3, <1>7, <1>9
<1>12. ASSUME NEW j \in 1..(Len(l) + 1)
       PROVE  (d \o b)[j] = IF j < i THEN l[j] ELSE IF j = i THEN e ELSE l[j - 1]
  <2>1. (d \o b)[j] = IF j <= i THEN d[j] ELSE b[j - i]
    BY <1>1, <1>3, <1>7, <1>9, <1>12
  <2>2. CASE j <= i
    <3>1. j \in 1..i  BY <1>1, <2>2
    <3> QED  BY <1>1, <1>9, <2>1, <2>2, <3>1
  <2>3. CASE j > i
    <3>1. j - i \in 1..(Len(l) - i + 1) /\ i + (j - i) - 1 = j - 1  BY <1>1, <2>3
    <3>2. b[j - i] = l[j - 1]  BY <1>3, <3>1
    <3> QED  BY <1>1, <2>1, <2>3, <3>2
  <2>4. j <= i \/ j > i  BY <1>1
  <2> QED  BY <2>2, <2>3, <2>4, Zenon
<1> QED  BY <1>7, <1>8, <1>11, <1>12 DEF Inserted

LEMMA RemoveFacts ==
  ASSUME NEW S, NEW l \in Seq(S), NEW i \in 1..Len(l)
  PROVE  /\ RemoveAt(l, i) \in Seq(S)
         /\ Len(RemoveAt(l, i)) = Len(l) - 1
         /\ \A j \in 1..(Len(l) - 1) :
              RemoveAt(l, i)[j] = IF j < i THEN l[j] ELSE l[j + 1]
<1> DEFINE a == SubSeq(l, 1, i - 1)
           b == SubSeq(l, i + 1, Len(l))
<1>1. Len(l) \in Nat /\ \A j \in 1..Len(l) : l[j] \in S  BY LenProperties, ElementOfSeq
<1>2. /\ a \in Seq(S) /\ Len(a) = i - 1
      /\ \A j \in 1..(i - 1) : a[j] = l[j]
  <2>1. \A j \in 1..(i - 1) : l[j] \in S  BY <1>1
  <2>2. 1 \in Int /\ i - 1 \in Int  BY <1>1
  <2>3. /\ a \in Seq(S) /\ Len(a) = IF 1 <= i - 1 THEN i - 1 - 1 + 1 ELSE 0
        /\ \A j \in 1..(i - 1 - 1 + 1) : a[j] = l[1 + j - 1]
    BY <2>1, <2>2, SubSeqProperties
  <2> HIDE DEF a
  <2> QED  BY <1>1, <2>3
<1>3. /\ b \in Seq(S) /\ Len(b) = Len(l) - i
      /\ \A j \in 1..(Len(l) - i) : b[j] = l[i + j]
  <2>1. \A j \in (i + 1)..Len(l) : l[j] \in S  BY <1>1
  <2>2. i + 1 \in Int /\ Len(l) \in Int  BY <1>1
  <2>3. /\ b \in Seq(S) /\ Len(b) = IF i + 1 <= Len(l) THEN Len(l) - (i + 1) + 1 ELSE 0
        /\ \A j \in 1..(Len(l) - (i + 1) + 1) : b[j] = l[(i + 1) + j - 1]
    BY <2>1, <2>2, SubSeqProperties
  <2> HIDE DEF b
  <2> QED  BY <1>1, <2>3
<1>5. RemoveAt(l, i) = a \o b  BY DEF RemoveAt
<1> HIDE DEF a, b
<1>7. /\ a \o b \in Seq(S) /\ Len(a \o b) = Len(a) + Len(b)
      /\ \A j \in 1..(Len(a) + Len(b)) :
           (a \o b)[j] = IF j <= Len(a) THEN a[j] ELSE b[j - Len(a)]
  BY <1>2, <1>3, ConcatProperties
<1> QED  BY <1>1, <1>2, <1>3, <1>5, <1>7

(***************************************************************************)
(* The timer list: in the order of deadlines, each timer once.             *)
(***************************************************************************)
Earlier(a, b) == a.jfs < b.jfs \/ (a.jfs = b.jfs /\ a.at <= b.at)
Sorted(l) == \A i, j \in 1..Len(l) : i < j => Earlier(l[i], l[j])
Once(l) == \A i, j \in 1..Len(l) : l[i].t = l[j].t => i = j
Dated(l, n) == \A i \in 1..Len(l) : l[i].jfs = Due(l[i]) /\ l[i].at <= n
Names(l) == {l[i].t : i \in 1..Len(l)}

ListOK(l, n) == l \in Seq(Entry) /\ Sorted(l) /\ Once(l) /\ Dated(l, n)

LEMMA Indexes ==
  ASSUME NEW l \in Seq(Entry)
  PROVE  /\ Len(l) \in Nat /\ DOMAIN l = 1..Len(l)
         /\ \A i \in 1..Len(l) : l[i] \in Entry
BY LenProperties, ElementOfSeq

LEMMA RemovedOK ==
  ASSUME NEW n \in Nat, NEW l, ListOK(l, n), NEW p \in 1..Len(l)
  PROVE  ListOK(RemoveAt(l, p), n) /\ Names(RemoveAt(l, p)) = Names(l) \ {l[p].t}
<1> DEFINE m == RemoveAt(l, p)
           F(j) == IF j < p THEN j ELSE j + 1
<1>1. /\ l \in Seq(Entry) /\ Len(l) \in Nat
      /\ \A i \in 1..Len(l) : l[i] \in Entry
  BY Indexes DEF ListOK
<1>2. /\ m \in Seq(Entry) /\ Len(m) = Len(l) - 1
      /\ \A j \in 1..(Len(l) - 1) : m[j] = IF j < p THEN l[j] ELSE l[j + 1]
  BY <1>1, RemoveFacts
<1> HIDE DEF m
<1>3. \A j \in 1..Len(m) : F(j) \in 1..Len(l) /\ F(j) # p /\ m[j] = l[F(j)]
  BY <1>1, <1>2
<1>4. \A i, j \in 1..Len(m) : (i < j => F(i) < F(j)) /\ (F(i) = F(j) => i = j)
  BY <1>1, <1>2
<1>5. \A i \in 1..Len(l) : i # p => \E j \in 1..Len(m) : i = F(j)
  <2> TAKE i \in 1..Len(l)
  <2>1. CASE i < p  BY <1>1, <1>2, <2>1
  <2>2. CASE i > p
    <3>1. i - 1 \in 1..Len(m) /\ F(i - 1) = i  BY <1>1, <1>2, <2>2
    <3> QED  BY <3>1
  <2> QED  BY <1>1, <2>1, <2>2
<1> HIDE DEF F
<1>6. Sorted(m) /\ Once(m) /\ Dated(m, n)
  <2>1. ASSUME NEW i \in 1..Len(m), NEW j \in 1..Len(m), i < j
        PROVE  Earlier(m[i], m[j])
    <3>1. F(i) \in 1..Len(l) /\ F(j) \in 1..Len(l) /\ F(i) < F(j)  BY <1>3, <1>4, <2>1
    <3>2. Earlier(l[F(i)], l[F(j)])  BY <3>1 DEF ListOK, Sorted
    <3> QED  BY <1>3, <2>1, <3>2
  <2>2. ASSUME NEW i \in 1..Len(m), NEW j \in 1..Len(m), m[i].t = m[j].t
        PROVE  i = j
    <3>1. F(i) \in 1..Len(l) /\ F(j) \in 1..Len(l)  BY <1>3
    <3>2. l[F(i)].t = l[F(j)].t  BY <1>3, <2>2
    <3>3. F(i) = F(j)  BY <3>1, <3>2 DEF ListOK, Once
    <3> QED  BY <1>4, <3>3
  <2>3. ASSUME NEW i \in 1..Len(m) PROVE m[i].jfs = Due(m[i]) /\ m[i].at <= n
    <3>1. F(i) \in 1..Len(l) /\ m[i] = l[F(i)]  BY <1>3
    <3>2. l[F(i)].jfs = Due(l[F(i)]) /\ l[F(i)].at <= n  BY <3>1 DEF ListOK, Dated
    <3> QED  BY <3>1, <3>2
  <2> QED  BY <2>1, <2>2, <2>3 DEF Sorted, Once, Dated
<1>7. Names(m) = Names(l) \ {l[p].t}
  <2>1. ASSUME NEW j \in 1..Len(m) PROVE m[j].t \in Names(l) \ {l[p].t}
    BY <1>3 DEF ListOK, Once, Names
  <2>2. ASSUME NEW i \in 1..Len(l), l[i].t # l[p].t PROVE l[i].t \in Names(m)
    BY <1>3, <1>5, <2>2 DEF Names
  <2> QED  BY <2>1, <2>2 DEF Names
<1> QED  BY <1>2, <1>6, <1>7 DEF ListOK, m

\* The place of a deadline: behind all that are not later.
Behind(l, j, p) ==
  /\ p \in 1..(Len(l) + 1)
  /\ \A i \in 1..Len(l) : (i < p => l[i].jfs <= j) /\ (i >= p => j < l[i].jfs)

\* What goes there: a timer that is in no list.
Goes(l, n, t, e, p) ==
  /\ e \in Entry /\ e.t = t /\ t \notin Names(l)
  /\ e.jfs = Due(e) /\ e.at = n /\ Behind(l, e.jfs, p)

LEMMA InsertedOK ==
  ASSUME NEW n \in Nat, NEW l, ListOK(l, n), NEW t, NEW e, NEW p, Goes(l, n, t, e, p)
  PROVE  ListOK(InsertAt(l, p, e), n) /\ Names(InsertAt(l, p, e)) = Names(l) \cup {t}
<1>0. /\ e \in Entry /\ e.t = t /\ t \notin Names(l)
      /\ e.jfs = Due(e) /\ e.at = n /\ Behind(l, e.jfs, p)
  BY DEF Goes
<1> DEFINE m == InsertAt(l, p, e)
           F(j) == IF j < p THEN j ELSE j - 1
<1>1. /\ l \in Seq(Entry) /\ Len(l) \in Nat
      /\ \A i \in 1..Len(l) : l[i] \in Entry
      /\ p \in 1..(Len(l) + 1)
  BY <1>0, Indexes DEF ListOK, Behind
<1>2. /\ m \in Seq(Entry) /\ Len(m) = Len(l) + 1
      /\ \A j \in 1..(Len(l) + 1) : m[j] = IF j < p THEN l[j] ELSE IF j = p THEN e ELSE l[j - 1]
  <2>1. m \in Seq(Entry) /\ Inserted(m, l, p, e)  BY <1>0, <1>1, InsertFacts
  <2> HIDE DEF m
  <2> QED  BY <2>1 DEF Inserted
<1> HIDE DEF m
<1>3. \A j \in 1..Len(m) : j # p => F(j) \in 1..Len(l) /\ m[j] = l[F(j)]
  BY <1>1, <1>2
<1>4. \A i, j \in 1..Len(m) : i # p /\ j # p =>
        (i < j => F(i) < F(j)) /\ (F(i) = F(j) => i = j)
  BY <1>1, <1>2
<1>5. \A i \in 1..Len(l) : \E j \in 1..Len(m) : j # p /\ i = F(j)
  <2> TAKE i \in 1..Len(l)
  <2>1. CASE i < p  BY <1>1, <1>2, <2>1
  <2>2. CASE i >= p
    <3>1. i + 1 \in 1..Len(m) /\ i + 1 # p /\ F(i + 1) = i  BY <1>1, <1>2, <2>2
    <3> QED  BY <3>1
  <2> QED  BY <1>1, <2>1, <2>2
<1>6. m[p] = e /\ p \in 1..Len(m)  BY <1>1, <1>2
<1>7. \A j \in 1..Len(m) : (j < p => F(j) < p) /\ (j > p => F(j) >= p)
  BY <1>1, <1>2
<1> HIDE DEF F
<1>8. Sorted(m)
  <2> SUFFICES ASSUME NEW i \in 1..Len(m), NEW j \in 1..Len(m), i < j
               PROVE  Earlier(m[i], m[j])
    BY DEF Sorted
  <2>1. CASE i # p /\ j # p  BY <1>3, <1>4, <2>1 DEF ListOK, Sorted
  <2>2. CASE i = p
    <3>0. j # p /\ j > p  BY <1>1, <1>2, <2>2
    <3>1. F(j) \in 1..Len(l) /\ F(j) >= p /\ m[j] = l[F(j)]  BY <1>3, <1>7, <3>0
    <3> QED  BY <1>0, <1>6, <2>2, <3>1 DEF Earlier, Behind
  <2>3. CASE j = p
    <3>0. i # p /\ i < p  BY <1>1, <1>2, <2>3
    <3>1. F(i) \in 1..Len(l) /\ F(i) < p /\ m[i] = l[F(i)]  BY <1>3, <1>7, <3>0
    <3>2. l[F(i)].jfs <= e.jfs /\ l[F(i)].at <= e.at  BY <1>0, <3>1 DEF ListOK, Dated, Behind
    <3>3. l[F(i)].jfs \in Nat /\ e.jfs \in Nat  BY <1>0, <1>1, <3>1 DEF Entry
    <3> QED  BY <1>6, <2>3, <3>1, <3>2, <3>3 DEF Earlier
  <2> QED  BY <2>1, <2>2, <2>3
<1>9. Once(m)
  <2> SUFFICES ASSUME NEW i \in 1..Len(m), NEW j \in 1..Len(m), m[i].t = m[j].t
               PROVE  i = j
    BY DEF Once
  <2>1. CASE i # p /\ j # p  BY <1>3, <1>4, <2>1 DEF ListOK, Once
  <2>2. CASE i = p /\ j # p  BY <1>0, <1>3, <1>6, <2>2 DEF Names
  <2>3. CASE j = p /\ i # p  BY <1>0, <1>3, <1>6, <2>3 DEF Names
  <2> QED  BY <2>1, <2>2, <2>3
<1>10. Dated(m, n)
  <2> SUFFICES ASSUME NEW i \in 1..Len(m) PROVE m[i].jfs = Due(m[i]) /\ m[i].at <= n
    BY DEF Dated
  <2>1. CASE i # p  BY <1>3, <2>1 DEF ListOK, Dated
  <2>2. CASE i = p  BY <1>0, <1>6, <2>2
  <2> QED  BY <2>1, <2>2
<1>11. Names(m) = Names(l) \cup {e.t}
  <2>1. ASSUME NEW j \in 1..Len(m) PROVE m[j].t \in Names(l) \cup {e.t}
    BY <1>3, <1>6 DEF Names
  <2>2. ASSUME NEW i \in 1..Len(l) PROVE l[i].t \in Names(m)
    BY <1>3, <1>5 DEF Names
  <2>3. e.t \in Names(m)  BY <1>6 DEF Names
  <2> QED  BY <2>1, <2>2, <2>3 DEF Names
<1> QED  BY <1>0, <1>2, <1>8, <1>9, <1>10, <1>11 DEF ListOK, m

LEMMA UnlinkedOK ==
  ASSUME NEW n \in Nat, NEW l, ListOK(l, n), NEW t
  PROVE  ListOK(Unlink(l, t), n) /\ Names(Unlink(l, t)) = Names(l) \ {t}
<1>1. DOMAIN l = 1..Len(l)  BY Indexes DEF ListOK
<1>2. CASE Linked(l, t)
  <2> DEFINE p == Place(l, t)
  <2>1. p \in 1..Len(l) /\ l[p].t = t  BY <1>1, <1>2 DEF Linked, Place
  <2>2. Unlink(l, t) = RemoveAt(l, p)  BY <1>2 DEF Unlink
  <2> HIDE DEF p
  <2> QED  BY <2>1, <2>2, RemovedOK
<1>3. CASE ~Linked(l, t)
  <2>1. Unlink(l, t) = l  BY <1>3 DEF Unlink
  <2>2. t \notin Names(l)  BY <1>1, <1>3 DEF Linked, Names
  <2> QED  BY <2>1, <2>2
<1> QED  BY <1>2, <1>3

\* Both ways of looking for the place of a deadline find that one.
LEMMA BehindEarlierFinds ==
  ASSUME NEW n \in Nat, NEW l, ListOK(l, n), NEW j \in Nat
  PROVE  Behind(l, j, BehindEarlier(l, j))
<1> DEFINE T == {0} \cup {i \in DOMAIN l : l[i].jfs <= j}
           g == Max(T)
<1>1. /\ Len(l) \in Nat /\ DOMAIN l = 1..Len(l)
      /\ \A i \in 1..Len(l) : l[i] \in Entry
  BY Indexes DEF ListOK
<1>2. T \subseteq 0..Len(l) /\ T # {}  BY <1>1
<1>3. \E x \in T : \A y \in T : x >= y  BY <1>1, <1>2, Greatest
<1>4. g \in T /\ \A y \in T : g >= y
  <2> HIDE DEF T
  <2> QED  BY <1>3 DEF Max
<1>5. BehindEarlier(l, j) = g + 1  BY DEF BehindEarlier
<1> HIDE DEF g
<1>6. g \in 0..Len(l) /\ (g # 0 => l[g].jfs <= j)  BY <1>1, <1>4
<1>7. ASSUME NEW i \in 1..Len(l), i < g + 1 PROVE l[i].jfs <= j
  <2>1. CASE i = g  BY <1>6, <2>1
  <2>2. CASE i < g
    <3>1. Earlier(l[i], l[g])  BY <1>6, <2>2 DEF ListOK, Sorted
    <3>2. l[i].jfs \in Nat /\ l[g].jfs \in Nat  BY <1>1, <1>6, <2>2 DEF Entry
    <3> QED  BY <1>6, <2>2, <3>1, <3>2 DEF Earlier
  <2> QED  BY <1>6, <1>7, <2>1, <2>2
<1>8. ASSUME NEW i \in 1..Len(l), i >= g + 1 PROVE j < l[i].jfs
  <2>1. i \notin T  BY <1>4, <1>6, <1>8
  <2>2. l[i].jfs \in Nat  BY <1>1 DEF Entry
  <2> QED  BY <1>1, <2>1, <2>2
<1> QED  BY <1>1, <1>5, <1>6, <1>7, <1>8 DEF Behind

LEMMA BeforeLaterFinds ==
  ASSUME NEW n \in Nat, NEW l, ListOK(l, n), NEW j \in Nat
  PROVE  Behind(l, j, BeforeLater(l, j))
<1> DEFINE T == {Len(l) + 1} \cup {i \in DOMAIN l : l[i].jfs > j}
           g == Min(T)
<1>1. /\ Len(l) \in Nat /\ DOMAIN l = 1..Len(l)
      /\ \A i \in 1..Len(l) : l[i] \in Entry
  BY Indexes DEF ListOK
<1>2. T \subseteq 1..(Len(l) + 1) /\ T \subseteq Nat /\ T # {}  BY <1>1
<1>3. \E x \in T : \A y \in T : x <= y  BY <1>2, Least
<1>4. g \in T /\ \A y \in T : g <= y
  <2> HIDE DEF T
  <2> QED  BY <1>3 DEF Min
<1>5. BeforeLater(l, j) = g  BY DEF BeforeLater
<1> HIDE DEF g
<1>6. g \in 1..(Len(l) + 1) /\ (g # Len(l) + 1 => j < l[g].jfs)  BY <1>1, <1>4
<1>7. ASSUME NEW i \in 1..Len(l), i < g PROVE l[i].jfs <= j
  <2>1. i \notin T  BY <1>4, <1>6, <1>7
  <2>2. l[i].jfs \in Nat  BY <1>1 DEF Entry
  <2> QED  BY <1>1, <2>1, <2>2
<1>8. ASSUME NEW i \in 1..Len(l), i >= g PROVE j < l[i].jfs
  <2>1. g \in 1..Len(l) /\ j < l[g].jfs  BY <1>1, <1>6, <1>8
  <2>2. CASE i = g  BY <2>1, <2>2
  <2>3. CASE i > g
    <3>1. Earlier(l[g], l[i])  BY <2>1, <2>3 DEF ListOK, Sorted
    <3>2. l[i].jfs \in Nat /\ l[g].jfs \in Nat  BY <1>1, <2>1 DEF Entry
    <3> QED  BY <2>1, <3>1, <3>2 DEF Earlier
  <2> QED  BY <1>6, <1>8, <2>2, <2>3
<1> QED  BY <1>1, <1>5, <1>6, <1>7, <1>8 DEF Behind

\* tmr_start, with the right time, of a timer whose th is right.
ThRight(l, armed, t) == t \in armed \/ t \notin Names(l)

LEMMA StartedOK ==
  ASSUME now \in Nat, Jiffies = now, NEW l, ListOK(l, now), NEW armed, NEW t \in Timers,
         ThRight(l, armed, t), NEW delay \in Nat
  PROVE  /\ ListOK(Started(l, armed, t, delay), now)
         /\ Names(Started(l, armed, t, delay)) = Names(l) \cup {t}
<1> DEFINE rest == IF t \in armed THEN Unlink(l, t) ELSE l
           j == delay + Jiffies
           e == [t |-> t, jfs |-> j, at |-> now, delay |-> delay]
           p == IF delay = 0 THEN BeforeLater(rest, j) ELSE BehindEarlier(rest, j)
<1>1. ListOK(rest, now) /\ Names(rest) = Names(l) \ {t}
  BY UnlinkedOK DEF ThRight
<1>2. j \in Nat /\ j = now + delay  OBVIOUS
<1>3. e \in Entry /\ e.jfs = Due(e) /\ e.at = now /\ e.t = t /\ e.jfs = j
  BY <1>2 DEF Entry, Due
<1>4. Started(l, armed, t, delay) = Insert(rest, p, e)  BY DEF Started
<1> HIDE DEF rest, j, e
<1>5. Behind(rest, j, p)  BY <1>1, <1>2, BehindEarlierFinds, BeforeLaterFinds
<1> HIDE DEF p
<1>6. DOMAIN rest = 1..Len(rest)  BY <1>1, Indexes DEF ListOK
<1>7. Insert(rest, p, e) = InsertAt(rest, p, e)
  BY <1>1, <1>3, <1>6 DEF Insert, Linked, Names
<1>8. /\ ListOK(InsertAt(rest, p, e), now)
      /\ Names(InsertAt(rest, p, e)) = Names(rest) \cup {t}
  <2>1. Goes(rest, now, t, e, p)  BY <1>1, <1>3, <1>5 DEF Goes
  <2> QED  BY <1>1, <2>1, InsertedOK
<1> QED  BY <1>1, <1>4, <1>7, <1>8

LEMMA TailOK ==
  ASSUME NEW n \in Nat, NEW l, ListOK(l, n), l # <<>>
  PROVE  /\ Head(l) \in Entry /\ Head(l).jfs = Due(Head(l))
         /\ ListOK(Tail(l), n) /\ Names(Tail(l)) = Names(l) \ {Head(l).t}
         /\ Head(l).t \in Names(l)
         /\ \A i \in 1..Len(l) : Head(l).jfs <= Due(l[i])
<1>1. /\ l \in Seq(Entry) /\ Len(l) \in Nat
      /\ \A i \in 1..Len(l) : l[i] \in Entry
  BY Indexes DEF ListOK
<1>2. 1 \in 1..Len(l) /\ Head(l) = l[1]
  <2>1. Len(l) \in Nat \ {0}  BY <1>1, EmptySeq
  <2> QED  BY <1>1, <2>1
<1>3. Tail(l) = RemoveAt(l, 1)
  <2>1. /\ Tail(l) \in Seq(Entry) /\ Len(Tail(l)) = Len(l) - 1
        /\ \A i \in 1..Len(Tail(l)) : Tail(l)[i] = l[i + 1]
    BY <1>1, HeadTailProperties
  <2>2. /\ RemoveAt(l, 1) \in Seq(Entry) /\ Len(RemoveAt(l, 1)) = Len(l) - 1
        /\ \A j \in 1..(Len(l) - 1) : RemoveAt(l, 1)[j] = IF j < 1 THEN l[j] ELSE l[j + 1]
    BY <1>1, <1>2, RemoveFacts
  <2>3. \A i \in 1..Len(Tail(l)) : Tail(l)[i] = RemoveAt(l, 1)[i]  BY <1>1, <2>1, <2>2
  <2> QED  BY <2>1, <2>2, <2>3, SeqEqual
<1>4. ASSUME NEW i \in 1..Len(l) PROVE l[1].jfs <= Due(l[i])
  <2>1. l[i].jfs = Due(l[i]) /\ l[i].jfs \in Nat /\ l[1].jfs \in Nat
    BY <1>1, <1>2 DEF ListOK, Dated, Entry
  <2>2. i # 1 => Earlier(l[1], l[i])  BY <1>2 DEF ListOK, Sorted
  <2> QED  BY <2>1, <2>2 DEF Earlier
<1>5. ListOK(Tail(l), n) /\ Names(Tail(l)) = Names(l) \ {l[1].t}
  <2>1. \A p \in 1..Len(l) :
          ListOK(RemoveAt(l, p), n) /\ Names(RemoveAt(l, p)) = Names(l) \ {l[p].t}
    BY RemovedOK
  <2> QED  BY <1>2, <1>3, <2>1
<1>6. l[1].jfs = Due(l[1])  BY <1>2 DEF ListOK, Dated
<1>7. l[1].t \in Names(l)  BY <1>2 DEF Names
<1> QED  BY <1>1, <1>2, <1>4, <1>5, <1>6, <1>7

(***************************************************************************)
(* The invariant.  Between two readings of the clock less than a round of  *)
(* the counter passes: asleep for the time the sleep is bounded, awake for *)
(* the bound on a busy thread.                                             *)
(***************************************************************************)
Types ==
  /\ pc \in Places /\ polling \in BOOLEAN
  /\ until \in {Forever} \cup 0..(Horizon + MaxTime)
  /\ running \in Entry
  /\ th \subseteq Timers
  /\ polled \in 0..now /\ now \in 0..Horizon /\ seen \in 0..now

IInv ==
  /\ Types
  /\ ClockTrue
  /\ now - seen < Width
  /\ ListOK(tmrl, now)
  /\ th = Names(tmrl) /\ Net \in th
  /\ NotEarly
  /\ WakesInTime

LEMMA ClockRight ==
  ASSUME IInv
  PROVE  /\ Jiffies = now /\ Tick \in 0..(Width - 1)
         /\ ReadClock /\ now' = now => ClockTrue' /\ now' - seen' < Width
<1>1. /\ Width \in Nat \ {0} /\ now \in Nat /\ seen \in Nat /\ seen <= now
      /\ tick64 = seen /\ prev_tick = seen % Width /\ now - seen < Width
  BY TimeAssumption DEF IInv, Types, ClockTrue
<1>2. Jiffies = now
  <2>1. ((IF seen % Width > now % Width THEN seen + Width ELSE seen) \div Width) * Width
          + (now % Width) = now
    BY <1>1, ClockStep
  <2> QED  BY <1>1, <2>1 DEF Jiffies, Tick
<1>3. Tick \in 0..(Width - 1)  BY <1>1, DivFacts DEF Tick
<1>4. ASSUME ReadClock, now' = now PROVE ClockTrue' /\ now' - seen' < Width
  BY <1>1, <1>2, <1>4 DEF ReadClock, ClockTrue, Tick
<1> QED  BY <1>2, <1>3, <1>4

\* The list, and the sleep, which depends on it.
ListPart == ListOK(tmrl, now) /\ th = Names(tmrl) /\ Net \in th

LEMMA Same ==
  ASSUME NEW n \in Nat, NEW k \in Nat, n <= k, NEW l, ListOK(l, n)
  PROVE  ListOK(l, k)
<1>1. \A i \in 1..Len(l) : l[i].at \in Nat  BY Indexes DEF ListOK, Entry
<1> QED  BY <1>1 DEF ListOK, Dated

LEMMA InitIInv == Init => IInv
<1> SUFFICES ASSUME Init PROVE IInv  OBVIOUS
<1> DEFINE e == [t |-> Net, jfs |-> NetInterval, at |-> 0, delay |-> NetInterval]
           l == <<e>>
<1>1. e \in Entry /\ e.jfs = Due(e) /\ e.at = 0 /\ e.t = Net
  BY NetAssumption DEF Entry, Due
<1> HIDE DEF e
<1>2. l \in Seq(Entry) /\ Len(l) = 1 /\ l[1] = e  BY <1>1
<1>3. tmrl = l  BY DEF Init, e
<1> HIDE DEF l
<1>4. ListOK(l, 0) /\ Names(l) = {Net}
  BY <1>1, <1>2 DEF ListOK, Sorted, Once, Dated, Names
<1>5. 0 % Width = 0 /\ Width > 0  BY TimeAssumption
<1>6. NoEntry \in Entry  BY NetAssumption DEF NoEntry, Entry
<1> QED
  BY <1>3, <1>4, <1>5, <1>6, NetAssumption, TimeAssumption
     DEF Init, IInv, Types, ClockTrue, NotEarly, WakesInTime, Places

LEMMA PollIInv == ASSUME IInv, Poll PROVE IInv'
<1>1. Jiffies = now  BY ClockRight
<1>2. /\ tmrl' = tmrl /\ th' = th /\ now' = now /\ pc' = "wait" /\ seen' = now
      /\ polling' = polling /\ running' = running /\ polled' = polled
  BY DEF Poll, ReadClock
<1>3. ClockTrue' /\ now' - seen' < Width  BY ClockRight DEF Poll
<1>4. tmrl # <<>>
  <2>1. Names(<<>>) = {}  BY DEF Names
  <2> QED  BY <2>1 DEF IInv
<1> DEFINE h == Head(tmrl).jfs
           to == Min({NextTimeout, MaxTime})
<1>5. /\ h \in Nat
      /\ \A i \in 1..Len(tmrl) : h <= Due(tmrl[i])
      /\ \A i \in 1..Len(tmrl) : Due(tmrl[i]) \in Nat
  <2>1. now \in Nat  BY DEF IInv, Types
  <2>2. Head(tmrl) \in Entry /\ \A i \in 1..Len(tmrl) : h <= Due(tmrl[i])
    BY <1>4, <2>1, TailOK DEF IInv
  <2>3. \A i \in 1..Len(tmrl) : tmrl[i] \in Entry  BY Indexes DEF IInv, ListOK
  <2> QED  BY <2>2, <2>3 DEF Entry, Due
<1>6. NextTimeout = IF h <= now THEN 1 ELSE h - now  BY <1>1, <1>4 DEF NextTimeout
<1>7. now \in Nat /\ MaxTime \in Nat \ {0} /\ now <= Horizon /\ Horizon \in Nat
  BY TimeAssumption DEF IInv, Types
<1> HIDE DEF h
<1>8. NextTimeout \in Nat \ {0}  BY <1>5, <1>6, <1>7
<1>9. to \in {NextTimeout, MaxTime} /\ to <= NextTimeout /\ to <= MaxTime
  <2>1. \E x \in {NextTimeout, MaxTime} : \A y \in {NextTimeout, MaxTime} : x <= y
    BY <1>7, <1>8
  <2> DEFINE T == {NextTimeout, MaxTime}
  <2>2. to \in T /\ \A y \in T : to <= y
    <3> HIDE DEF T
    <3> QED  BY <2>1 DEF Min, T
  <2> QED  BY <2>2
<1>10. until' = IF to = 0 THEN Forever ELSE now + to  BY DEF Poll
<1> HIDE DEF to
<1>11. until' = now + to /\ to \in Nat \ {0} /\ to <= MaxTime  BY <1>7, <1>8, <1>9, <1>10
<1>12. ASSUME NEW i \in 1..Len(tmrl) PROVE until' <= now + 1 \/ until' <= Due(tmrl[i])
  BY <1>5, <1>6, <1>7, <1>9, <1>11
<1>13. WakesInTime'
  <2>1. DOMAIN tmrl = 1..Len(tmrl)  BY Indexes DEF IInv, ListOK
  <2>2. until' # Forever  BY <1>7, <1>11 DEF Forever
  <2> QED  BY <1>2, <1>7, <1>11, <1>12, <2>1, <2>2 DEF WakesInTime, Due
<1>14. Types'  BY <1>2, <1>7, <1>11 DEF IInv, Types, Places
<1> QED  BY <1>2, <1>3, <1>13, <1>14 DEF IInv, NotEarly

\* Steps that leave the clock, the list and the time alone.
LEMMA QuietIInv ==
  ASSUME IInv, UNCHANGED <<tmrl, th, clock, now>>,
         pc' \in Places \ {"wait", "handler"}, polling' \in BOOLEAN,
         until' \in {until, Forever}, polled' \in {polled, 0}, running' = running
  PROVE  IInv'
BY DEF IInv, Types, ClockTrue, NotEarly, WakesInTime, clock, Places

LEMMA BeginTimersIInv == ASSUME IInv, BeginTimers PROVE IInv'
<1>1. Jiffies = now  BY ClockRight
<1>2. ClockTrue' /\ now' - seen' < Width  BY ClockRight DEF BeginTimers
<1> QED
  BY <1>1, <1>2 DEF BeginTimers, ReadClock, IInv, Types, NotEarly, WakesInTime, Places

LEMMA FireIInv == ASSUME IInv, Fire PROVE IInv'
<1> DEFINE e == Head(tmrl)
           l == Tail(tmrl)
<1>1. /\ tmrl # <<>> /\ e.jfs <= polled /\ pc = "timers"
      /\ tmrl' = Rearmed(l, e.t) /\ th' = IF e.t = Net THEN th ELSE th \ {e.t}
      /\ pc' = IF e.t \in th THEN "handler" ELSE "timers"
      /\ running' = e
      /\ IF e.t \in th THEN ReadClock ELSE UNCHANGED clock
      /\ polling' = polling /\ until' = until /\ polled' = polled /\ now' = now
  BY DEF Fire, HeadDue
<1>2. now \in Nat /\ Jiffies = now /\ polled <= now /\ polled \in Nat
  BY ClockRight DEF IInv, Types
<1>3. /\ e \in Entry /\ e.jfs = Due(e) /\ ListOK(l, now) /\ Names(l) = Names(tmrl) \ {e.t}
      /\ e.t \in Names(tmrl)
  BY <1>1, <1>2, TailOK DEF IInv
<1> HIDE DEF e, l
<1>4. e.t \in Timers /\ e.jfs \in Nat  BY <1>3 DEF Entry
<1>5. ListOK(tmrl', now) /\ th' = Names(tmrl') /\ Net \in th'
  <2>1. CASE e.t = Net
    <3>1. tmrl' = Started(l, {}, Net, NetInterval)  BY <1>1, <2>1 DEF Rearmed
    <3>2. NetInterval \in Nat /\ Net \in Timers /\ ThRight(l, {}, Net)
      BY <1>3, <2>1, NetAssumption DEF ThRight
    <3>3. /\ ListOK(Started(l, {}, Net, NetInterval), now)
          /\ Names(Started(l, {}, Net, NetInterval)) = Names(l) \cup {Net}
      BY <1>2, <1>3, <3>2, StartedOK
    <3> QED  BY <1>1, <1>3, <2>1, <3>1, <3>3 DEF IInv
  <2>2. CASE e.t # Net
    BY <1>1, <1>3, <2>2 DEF Rearmed, IInv
  <2> QED  BY <2>1, <2>2
<1>6. e.t \in th  BY <1>3 DEF IInv
<1>7. ClockTrue' /\ now' - seen' < Width  BY <1>1, <1>6, ClockRight
<1>8. Due(running') <= now'  BY <1>1, <1>2, <1>3, <1>4
<1>9. seen' = now  BY <1>1, <1>6 DEF ReadClock
<1>10. th' \subseteq Timers  BY <1>1 DEF IInv, Types
<1>11. Types'  BY <1>1, <1>2, <1>3, <1>6, <1>9, <1>10 DEF IInv, Types, Places
<1> QED  BY <1>1, <1>5, <1>6, <1>7, <1>8, <1>11 DEF IInv, NotEarly, WakesInTime, Due

LEMMA ReturnIInv == ASSUME IInv, Return PROVE IInv'
<1>1. ClockTrue' /\ now' - seen' < Width  BY ClockRight DEF Return
<1>2. NoEntry \in Entry  BY NetAssumption DEF NoEntry, Entry
<1> QED
  BY <1>1, <1>2 DEF Return, ReadClock, IInv, Types, NotEarly, WakesInTime, Places

LEMMA TmrStartIInv ==
  ASSUME IInv, NEW t \in Timers, NEW delay \in Nat, TmrStart(t, delay) PROVE IInv'
<1>1. now \in Nat /\ Jiffies = now  BY ClockRight DEF IInv, Types
<1>2. ClockTrue' /\ now' - seen' < Width  BY ClockRight DEF TmrStart
<1>3. ThRight(tmrl, th, t) /\ ListOK(tmrl, now)  BY DEF IInv, ThRight
<1>4. /\ ListOK(Started(tmrl, th, t, delay), now)
      /\ Names(Started(tmrl, th, t, delay)) = Names(tmrl) \cup {t}
  BY <1>1, <1>3, StartedOK
<1>5. ListOK(tmrl', now) /\ th' = Names(tmrl') /\ Net \in th'
  BY <1>4 DEF TmrStart, IInv
<1> QED
  BY <1>2, <1>5
     DEF TmrStart, InHandler, ReadClock, IInv, Types, NotEarly, WakesInTime, Places, Due

LEMMA TmrCancelIInv ==
  ASSUME IInv, NEW t \in Timers \ {Net}, TmrCancel(t) PROVE IInv'
<1>1. now \in Nat  BY DEF IInv, Types
<1>2. ListOK(Unlink(tmrl, t), now) /\ Names(Unlink(tmrl, t)) = Names(tmrl) \ {t}
  BY <1>1, UnlinkedOK DEF IInv
<1>3. ListOK(tmrl', now) /\ th' = Names(tmrl') /\ Net \in th'
  BY <1>2 DEF TmrCancel, IInv
<1> QED
  BY <1>3 DEF TmrCancel, InHandler, clock, IInv, Types, ClockTrue, NotEarly, WakesInTime,
              Places, Due

LEMMA CancelIInv == ASSUME IInv, Cancel PROVE IInv'
BY DEF Cancel, InHandler, clock, IInv, Types, ClockTrue, NotEarly, WakesInTime, Places, Due

LEMMA TimePassesIInv == ASSUME IInv, TimePasses PROVE IInv'
<1>1. /\ now \in Nat /\ seen \in Nat /\ seen <= now /\ now < Horizon /\ Horizon \in Nat
      /\ now' = now + 1 /\ polled \in Nat /\ polled <= now
      /\ MaxTime \in Nat /\ MaxBusy \in Nat /\ Width \in Nat
      /\ MaxTime < Width /\ MaxBusy < Width
  BY TimeAssumption DEF IInv, Types, TimePasses
<1>2. UNCHANGED <<pc, polling, until, tmrl, th, polled, running, clock>>  BY DEF TimePasses
<1>3. now' - seen' < Width
  <2>1. CASE pc = "wait"
    <3>1. until # Forever /\ until <= seen + MaxTime  BY <2>1 DEF IInv, WakesInTime
    <3>2. now < until  BY <2>1, <3>1 DEF TimePasses
    <3>3. until \in Nat  BY <1>1, <3>1 DEF IInv, Types
    <3> QED  BY <1>1, <1>2, <3>1, <3>2, <3>3 DEF clock
  <2>2. CASE pc # "wait"
    <3>1. now - seen < MaxBusy  BY <2>2 DEF TimePasses
    <3> QED  BY <1>1, <1>2, <3>1 DEF clock
  <2> QED  BY <2>1, <2>2
<1>4. ListOK(tmrl, now')  BY <1>1, Same DEF IInv
<1>5. Types'
  BY <1>1, <1>2 DEF IInv, Types, clock
<1>6. NotEarly'
  <2>1. Due(running) \in Nat  BY DEF IInv, Types, Entry, Due
  <2>2. Due(running') = Due(running)  BY <1>2
  <2> QED  BY <1>1, <1>2, <2>1, <2>2 DEF IInv, NotEarly
<1>7. WakesInTime' /\ ClockTrue'
  BY <1>2 DEF IInv, WakesInTime, ClockTrue, clock, Due
<1> QED  BY <1>2, <1>3, <1>4, <1>5, <1>6, <1>7 DEF IInv

LEMMA StepIInv == IInv /\ [Next]_vars => IInv'
<1> SUFFICES ASSUME IInv, [Next]_vars PROVE IInv'  OBVIOUS
<1>1. CASE UNCHANGED vars
  BY <1>1 DEF vars, clock, IInv, Types, ClockTrue, NotEarly, WakesInTime, Due
<1>2. CASE Stop \/ Wake \/ SelectFails \/ EndTimers \/ NextTurn
  <2>1. /\ UNCHANGED <<tmrl, th, clock, now>>
        /\ pc' \in Places \ {"wait", "handler"} /\ polling' \in BOOLEAN
        /\ until' \in {until, Forever} /\ polled' \in {polled, 0} /\ running' = running
    BY <1>2 DEF Stop, Wake, SelectFails, EndTimers, NextTurn, Places, IInv, Types
  <2> QED  BY <2>1, QuietIInv
<1>3. CASE Handlers
  BY <1>3, TmrCancelIInv, TmrStartIInv, CancelIInv, DelaysAssumption DEF Handlers
<1> QED
  BY <1>1, <1>2, <1>3, PollIInv, BeginTimersIInv, FireIInv, ReturnIInv, TimePassesIInv
     DEF Next

\* The invariant holds of every behaviour.
THEOREM Invariance == Spec => []IInv
<1> QED  BY InitIInv, StepIInv, PTL DEF Spec

\* Every variable has its type; in particular the extended time never leaves the range
\* of the real one.
THEOREM TypeCorrect == Spec => []TypeOK
<1>1. IInv => TypeOK
  <2> SUFFICES ASSUME IInv PROVE TypeOK  OBVIOUS
  <2>1. tmrl \in Seq(Entry)  BY DEF IInv, ListOK
  <2>2. prev_tick \in 0..(Width - 1)
    BY DivFacts, TimeAssumption DEF IInv, Types, ClockTrue
  <2>3. polled \in 0..Horizon /\ seen \in 0..now /\ tick64 \in 0..Horizon
    BY TimeAssumption DEF IInv, Types, ClockTrue
  <2> QED  BY <2>1, <2>2, <2>3 DEF IInv, Types, TypeOK
<1> QED  BY <1>1, Invariance, PTL

\* The 64-bit time is the real time at every reading, for every width of the counter,
\* as long as the thread is not busy for a whole round of it (gettimeofday.c).
THEOREM ClockIsTrue == Spec => []ClockTrue
<1>1. IInv => ClockTrue  BY DEF IInv
<1> QED  BY <1>1, Invariance, PTL

\* A timer's th says that it is linked, and it is linked once.
THEOREM ThIsTrue == Spec => []ThMeansLinked
<1>1. IInv => ThMeansLinked
  <2> SUFFICES ASSUME IInv PROVE ThMeansLinked  OBVIOUS
  <2>1. DOMAIN tmrl = 1..Len(tmrl)  BY Indexes DEF IInv, ListOK
  <2> QED  BY <2>1 DEF IInv, ListOK, Once, Names, ThMeansLinked
<1> QED  BY <1>1, Invariance, PTL

\* The list is in the order of deadlines, and of the start of those that are equal.
THEOREM KeptInOrder == Spec => []InOrder
<1>1. IInv => InOrder
  <2> SUFFICES ASSUME IInv PROVE InOrder  OBVIOUS
  <2>1. DOMAIN tmrl = 1..Len(tmrl)  BY Indexes DEF IInv, ListOK
  <2>2. \A i, j \in 1..Len(tmrl) : i < j => Earlier(tmrl[i], tmrl[j])
    BY DEF IInv, ListOK, Sorted
  <2>3. \A i \in 1..Len(tmrl) : tmrl[i].jfs = Due(tmrl[i])  BY DEF IInv, ListOK, Dated
  <2> QED  BY <2>1, <2>2, <2>3 DEF InOrder, Earlier
<1> QED  BY <1>1, Invariance, PTL

\* No handler is called before its time.
THEOREM NeverEarly == Spec => []NotEarly
<1>1. IInv => NotEarly  BY DEF IInv
<1> QED  BY <1>1, Invariance, PTL

\* No sleep lasts longer than the control handler or the first timer may wait.
THEOREM AlwaysWakes == Spec => []WakesInTime
<1>1. IInv => WakesInTime  BY DEF IInv
<1> QED  BY <1>1, Invariance, PTL

\* A turn serves every timer that was due when it began.
THEOREM AllServed == Spec => Served
<1>1. IInv /\ [Next]_vars =>
        [pc = "timers" /\ pc' = "control" =>
           \A i \in DOMAIN tmrl : Due(tmrl[i]) > polled]_vars
  <2> SUFFICES ASSUME IInv, Next, pc = "timers", pc' = "control", NEW i \in DOMAIN tmrl
               PROVE  Due(tmrl[i]) > polled
    OBVIOUS
  <2>1. ~HeadDue
    BY DEF Next, Poll, Stop, Wake, SelectFails, BeginTimers, Fire, Return, EndTimers,
           NextTurn, Handlers, TmrStart, TmrCancel, Cancel, InHandler, TimePasses
  <2>2. DOMAIN tmrl = 1..Len(tmrl) /\ tmrl \in Seq(Entry) /\ now \in Nat
    BY Indexes DEF IInv, ListOK, Types
  <2>3. tmrl # <<>>
    <3>1. Len(tmrl) # 0  BY <2>2
    <3> QED  BY <3>1
  <2>4. Head(tmrl) \in Entry /\ Head(tmrl).jfs <= Due(tmrl[i])
    BY <2>2, <2>3, TailOK DEF IInv
  <2>5. ~(Head(tmrl).jfs <= polled)  BY <2>1, <2>3 DEF HeadDue
  <2>6. tmrl[i] \in Entry  BY <2>2, Indexes
  <2> QED  BY <2>4, <2>5, <2>6 DEF IInv, Types, Entry, Due
<1> QED  BY <1>1, Invariance, PTL DEF Spec, Served

-----------------------------------------------------------------------------
(***************************************************************************)
(* Jbuf: the frames in the buffer are near each other and near the last    *)
(* packet that has arrived, so that what 16 bits say of their order is     *)
(* true.                                                                   *)
(***************************************************************************)
Frames == [src : Sources, k : 1..MaxSent]
Reach == Overtaken + Lost + 1

\* The frames of a source of which t is the last packet that has arrived: in order, no
\* two neighbours further apart than the network leaves packets, the last one recent.
Spaced(l, t) ==
  /\ \A i \in 1..Len(l) : l[i].k <= t
  /\ \A i, j \in 1..Len(l) : i < j => l[i].k < l[j].k
  /\ \A i \in 1..Len(l) : i + 1 <= Len(l) => l[i + 1].k - l[i].k <= Reach
  /\ Len(l) > 0 => l[Len(l)].k >= t - Overtaken

\* What the network may deliver when t is the last packet that has arrived.
InWindow(f, t) == f.k >= t - Overtaken /\ f.k <= t + 1 + Lost

LEMMA ReachFacts ==
  /\ MinFrames \in Nat /\ Overtaken \in Nat /\ Lost \in Nat /\ Reach \in Nat
  /\ Modulus \in Nat \ {0} /\ Base \in Nat
  /\ Reach + MinFrames < Modulus \div 2
BY FramesAssumption, SeqAssumption, NetworkAssumption DEF Reach

LEMMA SeqNear ==
  ASSUME NEW f \in Frames, NEW g \in Frames,
         f.k - g.k <= Reach, g.k - f.k <= Reach
  PROVE  /\ SeqLess(Seq16(f), Seq16(g)) <=> f.k < g.k
         /\ Seq16(f) = Seq16(g) <=> f.k = g.k
<1> DEFINE x == Base + f.k
           y == Base + g.k
<1>1. f.k \in Int /\ g.k \in Int  BY DEF Frames
<1>2. x \in Int /\ y \in Int /\ x - y < Modulus \div 2 /\ y - x <= Modulus \div 2
  BY <1>1, ReachFacts
<1>3. x < y <=> f.k < g.k  BY <1>1, ReachFacts
<1>4. x = y <=> f.k = g.k  BY <1>1, ReachFacts
<1> HIDE DEF x, y
<1>5. /\ ((x % Modulus) - (y % Modulus)) % Modulus >= Modulus \div 2 <=> x < y
      /\ x % Modulus = y % Modulus <=> x = y
  BY <1>2, ReachFacts, ModNear
<1>6. Seq16(f) = x % Modulus /\ Seq16(g) = y % Modulus  BY DEF Seq16, x, y
<1> QED  BY <1>3, <1>4, <1>5, <1>6 DEF SeqLess

\* The place a frame goes to, found from the numbers of 16 bits, is the place in the order
\* the packets were sent, and a frame is found to be a duplicate when it is one.
LEMMA PositionFinds ==
  ASSUME NEW l \in Seq(Frames), NEW t \in Nat, Spaced(l, t),
         NEW f \in Frames, InWindow(f, t)
  PROVE  /\ Position(l, f) \in 0..Len(l)
         /\ \A i \in 1..Len(l) : i <= Position(l, f) <=> l[i].k <= f.k
         /\ Position(l, f) > 0 =>
              (Seq16(l[Position(l, f)]) = Seq16(f) <=> l[Position(l, f)].k = f.k)
<1> DEFINE n == Len(l)
           Q == {i \in 1..n : l[i].k <= f.k}
           E == {i \in DOMAIN l : SeqLess(Seq16(l[i]), Seq16(f)) \/ Seq16(l[i]) = Seq16(f)}
<1>1. n \in Nat /\ DOMAIN l = 1..n /\ \A i \in 1..n : l[i] \in Frames
  BY LenProperties, ElementOfSeq
<1>2. f.k \in Int /\ \A i \in 1..n : l[i].k \in Int  BY <1>1 DEF Frames
<1>3. E \subseteq Q
  <2> SUFFICES ASSUME NEW i \in E, i \notin Q PROVE FALSE  OBVIOUS
  <2>1. i \in 1..n /\ l[i].k > f.k /\ l[i].k <= t /\ l[i] \in Frames
    BY <1>1, <1>2 DEF Spaced
  <2>2. l[i].k - f.k <= Reach /\ f.k - l[i].k <= Reach
    BY <1>2, <2>1, ReachFacts DEF InWindow, Reach
  <2>3. ~SeqLess(Seq16(l[i]), Seq16(f)) /\ Seq16(l[i]) # Seq16(f)
    BY <1>2, <2>1, <2>2, SeqNear
  <2> QED  BY <2>3
<1>4. Position(l, f) = IF E = {} THEN 0 ELSE CHOOSE i \in E : \A j \in E : j <= i
  BY DEF Position
<1> HIDE DEF E
<1>5. CASE Q = {}
  <2>1. Position(l, f) = 0  BY <1>3, <1>4, <1>5
  <2> QED  BY <1>1, <1>2, <1>5, <2>1
<1>6. CASE Q # {}
  <2>1. PICK m \in Q : \A i \in Q : m >= i
    <3>1. Q \subseteq 0..n  BY <1>1
    <3> HIDE DEF Q
    <3> QED  BY <1>1, <1>6, <3>1, Greatest
  <2>2. m \in 1..n /\ l[m].k <= f.k /\ l[m] \in Frames  BY <1>1
  <2>3. f.k - l[m].k <= Reach /\ l[m].k - f.k <= Reach
    <3>1. CASE m = n
      BY <1>1, <1>2, <2>2, <3>1, ReachFacts DEF Spaced, InWindow, Reach
    <3>2. CASE m < n
      <4>1. m + 1 \in 1..n /\ m + 1 \notin Q  BY <1>1, <2>1, <2>2, <3>2
      <4>2. l[m + 1].k > f.k  BY <1>2, <4>1
      <4>3. l[m + 1].k - l[m].k <= Reach  BY <1>1, <2>2, <4>1 DEF Spaced
      <4>4. f.k \in Int /\ l[m].k \in Int /\ l[m + 1].k \in Int  BY <1>2, <2>2, <4>1
      <4>5. l[m].k <= f.k  BY <2>2
      <4> QED  BY ONLY <4>2, <4>3, <4>4, <4>5, ReachFacts
    <3>3. m = n \/ m < n
      <4>1. m \in 1..n /\ n \in Nat  BY <1>1, <2>2
      <4> HIDE DEF Q, n
      <4> QED  BY ONLY <4>1
    <3> QED  BY <3>1, <3>2, <3>3, Zenon
  <2>4. /\ SeqLess(Seq16(l[m]), Seq16(f)) <=> l[m].k < f.k
        /\ Seq16(l[m]) = Seq16(f) <=> l[m].k = f.k
    BY <2>2, <2>3, SeqNear
  <2>5. m \in E  BY <1>1, <1>2, <2>2, <2>4 DEF E
  <2>6. \A j \in E : j <= m  BY <1>1, <1>3, <2>1, <2>2
  <2>7. ASSUME NEW i \in E, \A j \in E : j <= i  PROVE i = m
    BY <1>1, <1>3, <2>2, <2>5, <2>6, <2>7
  <2>8. Position(l, f) = m  BY <1>4, <2>5, <2>6, <2>7
  <2>9. ASSUME NEW i \in 1..n PROVE i <= m <=> l[i].k <= f.k
    <3>1. CASE i <= m
      <4>1. CASE i < m
        <5>1. l[i].k < l[m].k  BY <2>2, <4>1 DEF Spaced
        <5> QED  BY <1>2, <2>2, <3>1, <5>1
      <4>2. CASE i = m
        BY <2>2, <3>1, <4>2
      <4>3. i < m \/ i = m  BY <1>1, <2>2, <3>1
      <4> QED  BY <4>1, <4>2, <4>3, Zenon
    <3>2. CASE i > m
      <4>1. i \notin Q  BY <1>1, <2>1, <2>2, <3>2
      <4> QED  BY <1>1, <2>2, <3>2, <4>1
    <3>3. i <= m \/ i > m  BY <1>1, <2>2
    <3> QED  BY <3>1, <3>2, <3>3, Zenon
  <2> QED  BY <2>2, <2>4, <2>8, <2>9
<1> QED  BY <1>5, <1>6

\* A new frame, put where it belongs, leaves the frames so.
LEMMA InsertSpaced ==
  ASSUME NEW l \in Seq(Frames), NEW t \in Nat, Spaced(l, t),
         NEW f \in Frames, InWindow(f, t), NEW p \in 0..Len(l),
         \A i \in 1..Len(l) : i <= p <=> l[i].k <= f.k,
         p > 0 => l[p].k # f.k,
         NEW u, u = IF f.k > t THEN f.k ELSE t,
         NEW m \in Seq(Frames), Inserted(m, l, p + 1, f)
  PROVE  Spaced(m, u)
<1> DEFINE n == Len(l)
<1>1. n \in Nat /\ \A i \in 1..n : l[i] \in Frames
  BY LenProperties, ElementOfSeq
<1>2. f.k \in Int /\ u \in Nat /\ \A i \in 1..n : l[i].k \in Int  BY <1>1 DEF Frames
<1>3. \A i \in 1..n : l[i].k < f.k <=> i <= p
  <2> SUFFICES ASSUME NEW i \in 1..n PROVE l[i].k < f.k <=> i <= p  OBVIOUS
  <2>1. CASE i < p
    <3>1. p \in 1..n /\ l[i].k < l[p].k /\ l[p].k <= f.k  BY <1>1, <2>1 DEF Spaced
    <3> QED  BY <1>2, <2>1, <3>1
  <2>2. CASE i = p
    BY <1>2, <2>2
  <2>3. CASE i > p
    BY <1>2, <2>3
  <2>4. i < p \/ i = p \/ i > p  BY <1>1
  <2> QED  BY <2>1, <2>2, <2>3, <2>4, Zenon
<1>4. ASSUME NEW i \in 1..(n + 1)
      PROVE  /\ i < p + 1 => i \in 1..n /\ m[i] = l[i]
             /\ i = p + 1 => m[i] = f
             /\ i > p + 1 => i - 1 \in 1..n /\ m[i] = l[i - 1]
  BY <1>1, <1>4 DEF Inserted
<1>5. ASSUME NEW i \in 1..(n + 1)  PROVE m[i].k <= u
  <2>1. CASE i < p + 1  BY <1>2, <1>4, <2>1 DEF Spaced
  <2>2. CASE i = p + 1  BY <1>2, <1>4, <2>2
  <2>3. CASE i > p + 1
    <3>1. i - 1 \in 1..n /\ m[i] = l[i - 1]  BY <1>4, <2>3
    <3>2. l[i - 1].k <= t /\ l[i - 1].k \in Int  BY <1>2, <3>1 DEF Spaced
    <3> QED  BY <1>2, <3>1, <3>2
  <2>4. i < p + 1 \/ i = p + 1 \/ i > p + 1  BY <1>1
  <2> QED  BY <2>1, <2>2, <2>3, <2>4, Zenon
<1>6. ASSUME NEW i \in 1..(n + 1), NEW j \in 1..(n + 1), i < j
      PROVE  m[i].k < m[j].k
  <2>1. CASE j < p + 1
    <3>1. i < p + 1  BY <1>1, <1>6, <2>1
    <3>2. i \in 1..n /\ j \in 1..n /\ m[i] = l[i] /\ m[j] = l[j]  BY <1>4, <2>1, <3>1
    <3> QED  BY <1>6, <3>2 DEF Spaced
  <2>2. CASE j = p + 1
    <3>1. i < p + 1 /\ i <= p  BY <1>1, <1>6, <2>2
    <3>2. i \in 1..n /\ m[i] = l[i] /\ m[j] = f  BY <1>4, <2>2, <3>1
    <3> QED  BY <1>3, <3>1, <3>2
  <2>3. CASE j > p + 1
    <3>1. j - 1 \in 1..n /\ m[j] = l[j - 1] /\ ~(j - 1 <= p)  BY <1>1, <1>4, <2>3
    <3>2. l[j - 1].k > f.k  BY <1>2, <3>1
    <3>3. CASE i < p + 1
      <4>1. i \in 1..n /\ m[i] = l[i] /\ i < j - 1  BY <1>1, <1>4, <2>3, <3>3
      <4> QED  BY <3>1, <4>1 DEF Spaced
    <3>4. CASE i = p + 1
      <4>1. m[i] = f  BY <1>4, <3>4
      <4> QED  BY <1>2, <3>1, <3>2, <4>1
    <3>5. CASE i > p + 1
      <4>1. i - 1 \in 1..n /\ m[i] = l[i - 1] /\ i - 1 < j - 1  BY <1>1, <1>4, <1>6, <3>5
      <4> QED  BY <3>1, <4>1 DEF Spaced
    <3>6. i < p + 1 \/ i = p + 1 \/ i > p + 1  BY <1>1
    <3> QED  BY <3>3, <3>4, <3>5, <3>6, Zenon
  <2>4. j < p + 1 \/ j = p + 1 \/ j > p + 1  BY <1>1
  <2> QED  BY <2>1, <2>2, <2>3, <2>4, Zenon
<1>7. ASSUME NEW i \in 1..(n + 1), i + 1 <= n + 1
      PROVE  m[i + 1].k - m[i].k <= Reach
  <2>1. i \in 1..n /\ i + 1 \in 1..(n + 1)  BY <1>1, <1>7
  <2>2. CASE i + 1 < p + 1
    <3>1. i < p + 1 /\ i + 1 <= n  BY <1>1, <2>2
    <3>2. m[i] = l[i] /\ m[i + 1] = l[i + 1]  BY <1>4, <2>1, <2>2, <3>1
    <3> QED  BY <2>1, <3>1, <3>2 DEF Spaced
  <2>3. CASE i = p
    <3>1. m[i] = l[i] /\ m[i + 1] = f /\ l[i] \in Frames
      <4>1. i < p + 1 /\ i + 1 = p + 1  BY <1>1, <2>3
      <4> QED  BY <1>1, <1>4, <2>1, <4>1
    <3>2. f.k - l[i].k <= Reach
      <4>1. CASE i = n
        BY <1>1, <1>2, <2>1, <4>1, ReachFacts DEF Spaced, InWindow, Reach
      <4>2. CASE i < n
        <5>1. i + 1 \in 1..n /\ ~(i + 1 <= p)  BY <1>1, <2>1, <2>3, <4>2
        <5>2. l[i + 1].k > f.k  BY <1>2, <5>1
        <5>3. l[i + 1].k - l[i].k <= Reach  BY <1>1, <2>1, <5>1 DEF Spaced
        <5>4. l[i].k \in Int /\ l[i + 1].k \in Int  BY <1>2, <2>1, <5>1
        <5>5. f.k \in Int /\ Reach \in Nat  BY <1>2, ReachFacts
        <5> QED  BY ONLY <5>2, <5>3, <5>4, <5>5
      <4>3. i = n \/ i < n  BY <1>1, <2>1
      <4> QED  BY <4>1, <4>2, <4>3, Zenon
    <3> QED  BY <3>1, <3>2
  <2>4. CASE i = p + 1
    <3>1. m[i] = f /\ m[i + 1] = l[i] /\ ~(i <= p)
      <4>1. i + 1 > p + 1 /\ (i + 1) - 1 = i /\ ~(i <= p)  BY <1>1, <2>4
      <4>2. m[i + 1] = l[(i + 1) - 1]  BY <1>4, <2>1, <4>1
      <4>3. m[i] = f  BY <1>4, <2>4
      <4> QED  BY <4>1, <4>2, <4>3
    <3>2. l[i].k <= t  BY <2>1 DEF Spaced
    <3>3. l[i].k \in Int /\ f.k \in Int /\ f.k >= t - Overtaken  BY <1>2, <2>1 DEF InWindow
    <3>4. l[i].k - f.k <= Reach  BY ONLY <3>2, <3>3, t \in Nat, ReachFacts DEF Reach
    <3> QED  BY <3>1, <3>4
  <2>5. CASE i > p + 1
    <3>1. i - 1 \in 1..n /\ m[i] = l[i - 1] /\ m[i + 1] = l[i] /\ (i - 1) + 1 = i /\ i <= n
      <4>1. i + 1 > p + 1 /\ (i + 1) - 1 = i /\ (i - 1) + 1 = i  BY <1>1, <2>5
      <4>2. m[i + 1] = l[(i + 1) - 1]  BY <1>4, <2>1, <4>1
      <4> QED  BY <1>1, <1>4, <2>1, <2>5, <4>1, <4>2
    <3>2. l[(i - 1) + 1].k - l[i - 1].k <= Reach  BY <3>1 DEF Spaced
    <3> QED  BY <3>1, <3>2
  <2>6. i + 1 < p + 1 \/ i = p \/ i = p + 1 \/ i > p + 1  BY <1>1, <2>1
  <2> QED  BY <2>2, <2>3, <2>4, <2>5, <2>6, Zenon
<1>8. m[n + 1].k >= u - Overtaken
  <2>1. n + 1 \in 1..(n + 1)  BY <1>1
  <2>2. CASE p = n
    <3>1. m[n + 1] = f  BY <1>4, <2>1, <2>2
    <3> QED  BY <1>2, <3>1, ReachFacts DEF InWindow
  <2>3. CASE p < n
    <3>1. n + 1 > p + 1 /\ (n + 1) - 1 = n /\ n \in 1..n /\ ~(n <= p)  BY <1>1, <2>3
    <3>2. m[n + 1] = l[(n + 1) - 1]  BY <1>4, <2>1, <3>1
    <3>3. l[n].k > f.k /\ l[n].k <= t /\ l[n].k >= t - Overtaken /\ l[n].k \in Int
      <4>1. ~(l[n].k <= f.k) /\ l[n].k \in Int  BY <1>2, <3>1
      <4>2. l[n].k <= t /\ l[n].k >= t - Overtaken  BY <1>1, <3>1 DEF Spaced
      <4> QED  BY <1>2, <4>1, <4>2
    <3>4. u = t  BY <1>2, <3>1, <3>3
    <3> QED  BY <3>1, <3>2, <3>3, <3>4
  <2>4. p = n \/ p < n  BY <1>1
  <2> QED  BY <2>2, <2>3, <2>4, Zenon
<1> QED
  <2>1. Len(m) = n + 1  BY DEF Inserted
  <2> HIDE DEF n
  <2> QED  BY <1>5, <1>6, <1>7, <1>8, <2>1 DEF Spaced

LEMMA TailSpaced ==
  ASSUME NEW l \in Seq(Frames), NEW t \in Nat, Spaced(l, t), l # <<>>
  PROVE  /\ Tail(l) \in Seq(Frames) /\ Len(Tail(l)) = Len(l) - 1
         /\ \A i \in 1..(Len(l) - 1) : Tail(l)[i] = l[i + 1]
         /\ Spaced(Tail(l), t)
<1> DEFINE n == Len(l)
           m == Tail(l)
<1>1. n \in Nat /\ n > 0 /\ \A i \in 1..n : l[i] \in Frames
  BY LenProperties, ElementOfSeq, EmptySeq
<1>2. /\ m \in Seq(Frames) /\ Len(m) = n - 1
      /\ \A i \in 1..(n - 1) : m[i] = l[i + 1]
  BY <1>1, HeadTailProperties
<1> HIDE DEF m
<1>3. \A i \in 1..(n - 1) : i + 1 \in 1..n  BY <1>1
<1>4. \A i \in 1..(n - 1) : m[i].k <= t  BY <1>2, <1>3 DEF Spaced
<1>5. ASSUME NEW i \in 1..(n - 1), NEW j \in 1..(n - 1), i < j PROVE m[i].k < m[j].k
  <2>1. i + 1 \in 1..n /\ j + 1 \in 1..n /\ i + 1 < j + 1  BY <1>1, <1>5
  <2> QED  BY <1>2, <2>1 DEF Spaced
<1>6. ASSUME NEW i \in 1..(n - 1), i + 1 <= n - 1 PROVE m[i + 1].k - m[i].k <= Reach
  <2>1. i + 1 \in 1..(n - 1) /\ i + 1 \in 1..n /\ (i + 1) + 1 <= n  BY <1>1, <1>6
  <2>2. l[(i + 1) + 1].k - l[i + 1].k <= Reach  BY <2>1 DEF Spaced
  <2> QED  BY <1>2, <2>1, <2>2
<1>7. ASSUME n - 1 > 0 PROVE m[n - 1].k >= t - Overtaken
  <2>1. n - 1 \in 1..(n - 1) /\ (n - 1) + 1 = n  BY <1>1, <1>7
  <2>2. m[n - 1] = l[n]  BY <1>2, <2>1
  <2> QED  BY <1>1, <2>2 DEF Spaced
<1> HIDE DEF n
<1>8. Spaced(m, t)  BY <1>2, <1>4, <1>5, <1>6, <1>7 DEF Spaced
<1> QED  BY <1>2, <1>8 DEF m, n

-----------------------------------------------------------------------------
(***************************************************************************)
(* Jbuf: what jbuf_put and jbuf_get do to a buffer that is right.          *)
(***************************************************************************)
Buffer == [framel : Seq(Frames), n : Nat, seqPut : 0..(Modulus - 1), running : BOOLEAN]

\* seq_put is the number of a recent packet.
PutRecent(b, t) ==
  b.running => \E k \in Nat : /\ b.seqPut = (Base + k) % Modulus
                              /\ k <= t /\ k >= t - Overtaken

\* b holds what it should of source s, of which t is the last packet that has arrived.
Holds(b, s, t) ==
  /\ b \in Buffer /\ b.n = Len(b.framel)
  /\ \A i \in 1..Len(b.framel) : b.framel[i].src = s
  /\ Spaced(b.framel, t)
  /\ PutRecent(b, t)

LEMMA BufferFacts ==
  ASSUME NEW b \in Buffer
  PROVE  /\ b.framel \in Seq(Frames) /\ b.n \in Nat /\ b.seqPut \in 0..(Modulus - 1)
         /\ b.running \in BOOLEAN
         /\ Len(b.framel) \in Nat /\ DOMAIN b.framel = 1..Len(b.framel)
         /\ \A i \in 1..Len(b.framel) : b.framel[i] \in Frames
<1>1. /\ b.framel \in Seq(Frames) /\ b.n \in Nat /\ b.seqPut \in 0..(Modulus - 1)
      /\ b.running \in BOOLEAN
  BY DEF Buffer
<1> QED  BY <1>1, LenProperties, ElementOfSeq

\* A packet that is newer than every one before it is never too late.
LEMMA LateIsOld ==
  ASSUME NEW b \in Buffer, NEW t \in Nat, PutRecent(b, t), b.n <= MinFrames,
         NEW f \in Frames, InWindow(f, t), Late(b, f)
  PROVE  f.k <= t
<1>1. PICK k \in Nat : b.seqPut = (Base + k) % Modulus /\ k <= t /\ k >= t - Overtaken
  BY DEF PutRecent, Late
<1> DEFINE z == Base + f.k
           x == z + b.n
           y == Base + k
<1>2. f.k \in Int /\ b.n \in Nat  BY DEF Frames, Buffer
<1>3. z \in Int /\ x \in Int /\ y \in Int  BY <1>2, ReachFacts
<1>4. x - y < Modulus \div 2 /\ y - x <= Modulus \div 2
  <2>1. x - y <= Reach + MinFrames /\ y - x <= Reach
    <3>1. f.k - k <= Reach /\ k - f.k <= Reach
      BY <1>1, <1>2, ReachFacts DEF InWindow, Reach
    <3>2. x - y = (f.k - k) + b.n /\ y - x = (k - f.k) - b.n
      BY <1>1, <1>2, ReachFacts
    <3> HIDE DEF x, y
    <3> QED  BY <1>1, <1>2, <3>1, <3>2, ReachFacts
  <2> HIDE DEF x, y
  <2> QED  BY <1>3, <2>1, ReachFacts
<1>5. x < y => f.k <= t  BY <1>1, <1>2, ReachFacts
<1>6. (Seq16(f) + b.n) % Modulus = x % Modulus
  <2>1. Seq16(f) = z % Modulus  BY DEF Seq16
  <2> HIDE DEF z
  <2>2. ((z % Modulus) + b.n) % Modulus = (z + b.n) % Modulus
    <3>1. b.n \in Int  BY <1>2
    <3> QED  BY <1>3, <3>1, ReachFacts, ModSum
  <2> QED  BY <2>1, <2>2
<1> HIDE DEF x, y, z
<1>7. ((x % Modulus) - (y % Modulus)) % Modulus >= Modulus \div 2 <=> x < y
  BY <1>3, <1>4, ReachFacts, ModNear
<1>8. b.seqPut = y % Modulus  BY <1>1 DEF y
<1>9. SeqLess(x % Modulus, y % Modulus)  BY <1>6, <1>8 DEF Late
<1> QED  BY <1>5, <1>7, <1>9 DEF SeqLess

\* jbuf_put: packets that are too late or there already change nothing, every other one is
\* inserted in its place; one that is newer than every one before it goes to the end.
LEMMA PutHolds ==
  ASSUME NEW s, NEW t \in Nat, NEW b, Holds(b, s, t), b.n <= MinFrames,
         NEW f \in Frames, f.src = s, InWindow(f, t),
         NEW u, u = IF f.k > t THEN f.k ELSE t
  PROVE  /\ Holds(Put(b, f), s, u)
         /\ Put(b, f).n <= b.n + 1
         /\ f.k > t =>
              /\ Put(b, f).n = b.n + 1
              /\ \A i \in 1..b.n : Put(b, f).framel[i] = b.framel[i]
              /\ Put(b, f).framel[b.n + 1] = f
<1> DEFINE l == b.framel
           n == b.n
           p == Position(l, f)
           c == Put(b, f)
<1>1. b \in Buffer  BY DEF Holds
<1>2. /\ l \in Seq(Frames) /\ n = Len(l) /\ n \in Nat /\ f.k \in Int /\ f.k > 0
      /\ Spaced(l, t) /\ \A i \in 1..n : l[i] \in Frames /\ l[i].src = s /\ l[i].k \in Int
  <2>1. /\ l \in Seq(Frames) /\ n = Len(l) /\ n \in Nat /\ Spaced(l, t)
        /\ \A i \in 1..n : l[i] \in Frames /\ l[i].src = s
    BY <1>1, BufferFacts DEF Holds
  <2> HIDE DEF l, n
  <2> QED  BY <2>1 DEF Frames
<1>3. CASE Late(b, f)
  <2>1. c = b  BY <1>3 DEF Put
  <2>2. f.k <= t  BY <1>1, <1>3, LateIsOld DEF Holds
  <2>3. u = t  BY <1>2, <2>2
  <2> QED  BY <1>2, <2>1, <2>2, <2>3
<1> DEFINE r == [b EXCEPT !.n = n + 1]
<1>4. Room(b) = r
  <2>1. n < MaxFrames  BY <1>2, FramesAssumption
  <2> QED  BY <1>2, <2>1 DEF Room
<1>5. r.framel = l /\ r.n = n + 1 /\ r.running = b.running /\ r.seqPut = b.seqPut
      /\ DOMAIN r = DOMAIN b
  BY <1>1 DEF Buffer
<1>6. /\ p \in 0..n
      /\ \A i \in 1..n : i <= p <=> l[i].k <= f.k
      /\ p > 0 => (Seq16(l[p]) = Seq16(f) <=> l[p].k = f.k)
  <2> HIDE DEF l
  <2> QED  BY <1>2, PositionFinds
<1> DEFINE d == p > 0 /\ Seq16(l[p]) = Seq16(f)
<1>7. CASE ~Late(b, f) /\ d
  <2>1. c = [r EXCEPT !.n = @ - 1]
    BY <1>4, <1>5, <1>7 DEF Put
  <2>2. c = b
    <3>1. (n + 1) - 1 = n  BY <1>2
    <3>2. c = [b EXCEPT !.n = n]  BY <1>1, <1>5, <2>1, <3>1 DEF Buffer
    <3> HIDE DEF c
    <3> QED  BY <1>1, <3>2 DEF Buffer
  <2>3. f.k <= t
    <3>1. p \in 1..n /\ l[p].k = f.k  BY <1>2, <1>6, <1>7
    <3> QED  BY <1>2, <3>1 DEF Spaced
  <2>4. u = t  BY <1>2, <2>3
  <2> QED  BY <1>2, <2>2, <2>3, <2>4
<1>8. CASE ~Late(b, f) /\ ~d
  <2> DEFINE m == InsertAt(l, p + 1, f)
             z == Seq16(f)
  <2>1. c = [r EXCEPT !.framel = m, !.seqPut = z, !.running = TRUE]
    BY <1>4, <1>5, <1>8 DEF Put
  <2>2. z = (Base + f.k) % Modulus /\ z \in 0..(Modulus - 1)
    <3>1. Base + f.k \in Int  BY <1>2, ReachFacts
    <3>2. (Base + f.k) % Modulus \in 0..(Modulus - 1)  BY <3>1, ReachFacts, IntDivFacts
    <3> QED  BY <3>2 DEF Seq16
  <2>3. /\ m \in Seq(Frames) /\ Len(m) = Len(l) + 1
        /\ \A j \in 1..(Len(l) + 1) :
             m[j] = IF j < p + 1 THEN l[j] ELSE IF j = p + 1 THEN f ELSE l[j - 1]
    <3>1. PICK i : i = p + 1  OBVIOUS
    <3>2. i \in 1..(Len(l) + 1)  BY <1>2, <1>6, <3>1
    <3> HIDE DEF l, p, n
    <3>3. l \in Seq(Frames)  BY <1>2
    <3>4. InsertAt(l, i, f) \in Seq(Frames) /\ Inserted(InsertAt(l, i, f), l, i, f)
      BY ONLY <3>2, <3>3, f \in Frames, InsertFacts
    <3>5. m \in Seq(Frames) /\ Inserted(m, l, p + 1, f)  BY <3>1, <3>4
    <3> HIDE DEF m
    <3> QED  BY <3>5 DEF Inserted
  <2>4. p > 0 => l[p].k # f.k  BY <1>6, <1>8
  <2> HIDE DEF p, z, m, d
  <2>5. /\ c \in Buffer /\ c.framel = m /\ c.n = n + 1 /\ c.seqPut = z /\ c.running = TRUE
    <3>1. n + 1 \in Nat  BY <1>2
    <3> HIDE DEF l, n, c
    <3> QED  BY <1>1, <2>1, <2>2, <2>3, <3>1 DEF Buffer
  <2> HIDE DEF l, n, c
  <2>6. Spaced(m, u)
    <3>1. m \in Seq(Frames) /\ Inserted(m, l, p + 1, f)  BY <2>3 DEF Inserted
    <3>2. p \in 0..Len(l)  BY <1>2, <1>6
    <3>3. \A i \in 1..Len(l) : i <= p <=> l[i].k <= f.k  BY <1>2, <1>6
    <3> QED  BY <1>2, <2>4, <3>1, <3>2, <3>3, InsertSpaced
  <2>7. \A i \in 1..Len(m) : m[i].src = s
    <3> SUFFICES ASSUME NEW i \in 1..Len(m) PROVE m[i].src = s  OBVIOUS
    <3>1. i < p + 1 => i \in 1..n  BY <1>2, <1>6, <2>3
    <3>2. i > p + 1 => i - 1 \in 1..n  BY <1>2, <1>6, <2>3
    <3>3. i \in 1..(Len(l) + 1) /\ (i < p + 1 \/ i = p + 1 \/ i > p + 1)  BY <1>2, <1>6, <2>3
    <3> QED  BY <1>2, <1>6, <2>3, <3>1, <3>2, <3>3
  <2>8. PutRecent(c, u)
    <3>1. f.k \in Nat /\ f.k <= u /\ f.k >= u - Overtaken
      BY <1>2, ReachFacts DEF InWindow
    <3> QED  BY <2>2, <2>5, <3>1 DEF PutRecent
  <2>9. Holds(c, s, u)  BY <1>2, <2>3, <2>5, <2>6, <2>7, <2>8 DEF Holds
  <2>10. ASSUME f.k > t
         PROVE  m[n + 1] = f /\ \A i \in 1..n : m[i] = l[i]
    <3>1. p = n
      <4>1. CASE n = 0  BY <1>6, <4>1
      <4>2. CASE n > 0
        <5>1. n \in 1..n /\ l[n].k <= t  BY <1>2, <4>2 DEF Spaced
        <5>2. n <= p  BY <1>2, <1>6, <2>10, <5>1
        <5> QED  BY <1>2, <1>6, <5>2
      <4> QED  BY <1>2, <4>1, <4>2
    <3> QED  BY <1>2, <2>3, <3>1
  <2> QED  BY <1>2, <2>5, <2>9, <2>10 DEF l, n, c
<1> QED  BY <1>3, <1>7, <1>8

\* jbuf_get takes the first frame.
LEMMA GotHolds ==
  ASSUME NEW s, NEW t \in Nat, NEW b, Holds(b, s, t), b.framel # <<>>
  PROVE  /\ Holds(Got(b), s, t)
         /\ Got(b).n = b.n - 1
         /\ \A i \in 1..(b.n - 1) : Got(b).framel[i] = b.framel[i + 1]
         /\ Head(b.framel) = b.framel[1] /\ Head(b.framel) \in Frames /\ b.n > 0
<1> DEFINE l == b.framel
           n == b.n
           m == Tail(l)
           c == Got(b)
<1>1. b \in Buffer  BY DEF Holds
<1>2. /\ l \in Seq(Frames) /\ n = Len(l) /\ n \in Nat /\ n > 0 /\ Spaced(l, t)
      /\ \A i \in 1..n : l[i] \in Frames /\ l[i].src = s
  <2>1. /\ l \in Seq(Frames) /\ n = Len(l) /\ n \in Nat /\ Spaced(l, t)
        /\ \A i \in 1..n : l[i] \in Frames /\ l[i].src = s
    BY <1>1, BufferFacts DEF Holds
  <2>2. l # <<>>  OBVIOUS
  <2> HIDE DEF l, n
  <2> QED  BY <2>1, <2>2, EmptySeq
<1>3. /\ m \in Seq(Frames) /\ Len(m) = n - 1
      /\ \A i \in 1..(n - 1) : m[i] = l[i + 1]
      /\ Spaced(m, t)
  <2>1. l # <<>>  OBVIOUS
  <2> HIDE DEF l, n
  <2> QED  BY <1>2, <2>1, TailSpaced
<1>4. /\ c \in Buffer /\ c.framel = m /\ c.n = n - 1
      /\ c.seqPut = b.seqPut /\ c.running = b.running
  <2>1. n - 1 \in Nat  BY <1>2
  <2>2. c = [b EXCEPT !.framel = m, !.n = n - 1]  BY DEF Got
  <2> HIDE DEF m, n, c
  <2> QED  BY <1>1, <1>3, <2>1, <2>2 DEF Buffer
<1>5. PutRecent(c, t)
  <2> HIDE DEF c
  <2> QED  BY <1>4 DEF Holds, PutRecent
<1>6. \A i \in 1..(n - 1) : m[i].src = s
  <2>1. \A i \in 1..(n - 1) : i + 1 \in 1..n  BY <1>2
  <2> HIDE DEF l, m, n
  <2> QED  BY <1>2, <1>3, <2>1
<1>7. Head(l) = l[1] /\ Head(l) \in Frames
  <2>1. 1 \in 1..n  BY <1>2
  <2> HIDE DEF l, n
  <2>2. Head(l) = l[1]  BY <1>2
  <2> QED  BY <1>2, <2>1, <2>2
<1> HIDE DEF c, m
<1>8. Holds(c, s, t)  BY <1>3, <1>4, <1>5, <1>6 DEF Holds
<1> QED  BY <1>2, <1>3, <1>4, <1>7, <1>8 DEF c

-----------------------------------------------------------------------------
(***************************************************************************)
(* Jbuf: the invariant.                                                    *)
(***************************************************************************)
JbufInv ==
  /\ ssrc \in Sources \cup {0} /\ top \in [Sources -> Nat] /\ started \in BOOLEAN
  /\ first \in Nat /\ played \in Nat /\ inorder \in BOOLEAN /\ replayed \in BOOLEAN
  /\ jb \in Buffer /\ jb.n <= MinFrames
  /\ ssrc # 0 => Holds(jb, ssrc, top[ssrc])
  /\ ssrc = 0 => first = 0 /\ ~jb.running /\ jb.n = 0
  /\ first = 0 => jb.framel = <<>>
  /\ InOrderKept

LEMMA FlushedHolds ==
  ASSUME NEW b \in Buffer, NEW s, NEW t \in Nat
  PROVE  /\ Holds(Flushed(b), s, t) /\ Flushed(b).n = 0 /\ Flushed(b).framel = <<>>
         /\ ~Flushed(b).running
<1> DEFINE c == Flushed(b)
<1>1. <<>> \in Seq(Frames) /\ Len(<<>>) = 0 /\ 0 \in Nat  OBVIOUS
<1>2. c \in Buffer /\ c.framel = <<>> /\ c.n = 0 /\ c.running = FALSE
  <2> DEFINE no == <<>>
  <2>1. c = [b EXCEPT !.framel = no, !.n = 0, !.running = FALSE]  BY DEF Flushed
  <2>2. no \in Seq(Frames)  BY <1>1
  <2> HIDE DEF c, no
  <2>3. c \in Buffer /\ c.framel = no /\ c.n = 0 /\ c.running = FALSE
    BY <2>1, <2>2 DEF Buffer
  <2> QED  BY <2>3 DEF no
<1> HIDE DEF c
<1>3. Spaced(<<>>, t)  BY <1>1 DEF Spaced
<1>4. Holds(c, s, t)  BY <1>1, <1>2, <1>3 DEF Holds, PutRecent
<1> QED  BY <1>2, <1>4 DEF c

LEMMA InitJbufInv == JbufInit => JbufInv
<1> SUFFICES ASSUME JbufInit PROVE JbufInv  OBVIOUS
<1>1. jb \in Buffer /\ jb.framel = <<>> /\ jb.n = 0 /\ ~jb.running
  <2>1. <<>> \in Seq(Frames) /\ 0 \in 0..(Modulus - 1) /\ 0 \in Nat
    BY ReachFacts
  <2> QED  BY <2>1 DEF JbufInit, Empty, Buffer
<1>2. InOrderKept  BY DEF JbufInit, InOrderKept
<1>3. /\ ssrc = 0 /\ top \in [Sources -> Nat] /\ started \in BOOLEAN
      /\ first = 0 /\ played \in Nat /\ inorder \in BOOLEAN /\ replayed \in BOOLEAN
  BY DEF JbufInit
<1> QED  BY <1>1, <1>2, <1>3, ReachFacts DEF JbufInv

\* Where the buffer stands when a packet is put into it.
LEMMA PutInto ==
  ASSUME JbufInv, NEW f \in Frames, NEW flush \in BOOLEAN, NEW fresh \in BOOLEAN,
         flush <=> ssrc # 0 /\ ssrc # f.src,
         fresh <=> flush \/ first = 0,
         NEW a, a = IF flush THEN Flushed(jb) ELSE jb
  PROVE  /\ Holds(a, f.src, top[f.src]) /\ a.n <= MinFrames
         /\ fresh => a.n = 0
         /\ ~fresh => a = jb /\ ssrc = f.src
<1>1. f.src \in Sources /\ f.src # 0 /\ top[f.src] \in Nat
  BY NetworkAssumption DEF Frames, JbufInv
<1>2. CASE flush
  BY <1>1, <1>2, FlushedHolds, ReachFacts DEF JbufInv
<1>3. CASE ~flush /\ ssrc = f.src
  <2>1. Holds(jb, ssrc, top[ssrc]) /\ jb.n <= MinFrames
    BY <1>1, <1>3 DEF JbufInv
  <2>2. fresh => jb.n = 0
    <3>1. ASSUME fresh PROVE jb.framel = <<>>  BY <1>3, <3>1 DEF JbufInv
    <3>2. jb.n = Len(jb.framel) /\ Len(<<>>) = 0  BY <2>1 DEF Holds
    <3> QED  BY <3>1, <3>2
  <2> QED  BY <1>3, <2>1, <2>2
<1>4. CASE ~flush /\ ssrc = 0
  <2>1. /\ a = jb /\ jb \in Buffer /\ jb.framel = <<>> /\ jb.n = 0 /\ ~jb.running
        /\ jb.n <= MinFrames /\ first = 0
    BY <1>4 DEF JbufInv
  <2>2. Len(jb.framel) = 0 /\ jb.n = 0  BY <2>1
  <2>3. Spaced(jb.framel, top[f.src])  BY <2>2 DEF Spaced
  <2> QED  BY <2>1, <2>2, <2>3, <1>4 DEF Holds, PutRecent
<1> QED  BY <1>2, <1>3, <1>4

\* A packet keeps the invariant; one that comes in order makes nothing be played again.
LEMMA ReceiveInv ==
  ASSUME JbufInv, NEW f \in Frames, InWindow(f, top[f.src]), Receive(f)
  PROVE  JbufInv' /\ (inorder' => replayed' = replayed)
<1> DEFINE flush == ssrc # 0 /\ ssrc # f.src
           fresh == flush \/ first = 0
           a == IF flush THEN Flushed(jb) ELSE jb
           b == Put(a, f)
           prior == IF fresh THEN 0 ELSE played
           s == f.src
           t == top[s]
           u == IF f.k > t THEN f.k ELSE t
<1>1. /\ ssrc' = s
      /\ top' = [top EXCEPT ![s] = u]
      /\ first' = IF fresh THEN f.k ELSE first
      /\ inorder' = IF fresh THEN f.k > t ELSE inorder /\ f.k = t + 1
  BY DEF Receive
<1>2. IF CanGet(b)
        THEN /\ jb' = Got(b) /\ started' = TRUE
             /\ played' = (IF Head(b.framel).k > prior THEN Head(b.framel).k ELSE prior)
             /\ replayed' = (replayed \/ Head(b.framel).k <= prior)
        ELSE /\ jb' = b /\ played' = prior /\ started' = started /\ replayed' = replayed
  BY DEF Receive
<1>3. /\ s \in Sources /\ s # 0 /\ t \in Nat /\ f.k \in Nat /\ f.k > 0 /\ u \in Nat
      /\ f.k > t => u = f.k
      /\ played \in Nat /\ first \in Nat /\ prior \in Nat
      /\ started \in BOOLEAN /\ replayed \in BOOLEAN /\ inorder \in BOOLEAN
  <2>1. s \in Sources /\ s # 0 /\ f.k \in Nat /\ f.k > 0
    BY NetworkAssumption DEF Frames
  <2>2. /\ t \in Nat /\ played \in Nat /\ first \in Nat
        /\ started \in BOOLEAN /\ replayed \in BOOLEAN /\ inorder \in BOOLEAN
    BY <2>1 DEF JbufInv
  <2> HIDE DEF s, t, fresh
  <2> QED  BY <2>1, <2>2
<1>4. /\ Holds(a, s, t) /\ a.n <= MinFrames
      /\ fresh => a.n = 0
      /\ ~fresh => a = jb /\ ssrc = s
  <2>1. flush \in BOOLEAN /\ fresh \in BOOLEAN  OBVIOUS
  <2> HIDE DEF flush
  <2>2. flush <=> ssrc # 0 /\ ssrc # f.src  BY DEF flush
  <2>3. fresh <=> flush \/ first = 0  OBVIOUS
  <2> HIDE DEF fresh
  <2>4. a = IF flush THEN Flushed(jb) ELSE jb  OBVIOUS
  <2> HIDE DEF a
  <2> QED  BY <2>1, <2>2, <2>3, <2>4, PutInto
<1> HIDE DEF a, flush, s
<1>5. /\ Holds(b, s, u)
      /\ b.n <= a.n + 1
      /\ f.k > t =>
           /\ b.n = a.n + 1
           /\ \A i \in 1..a.n : b.framel[i] = a.framel[i]
           /\ b.framel[a.n + 1] = f
  <2>1. f.src = s /\ InWindow(f, t)  BY DEF s
  <2>2. PICK v : v = u  OBVIOUS
  <2>3. v = IF f.k > t THEN f.k ELSE t  BY <2>2
  <2>4. t \in Nat /\ Holds(a, s, t) /\ a.n <= MinFrames  BY <1>3, <1>4
  <2> HIDE DEF t, u, b, fresh, prior
  <2>5. /\ Holds(Put(a, f), s, v)
        /\ Put(a, f).n <= a.n + 1
        /\ f.k > t =>
             /\ Put(a, f).n = a.n + 1
             /\ \A i \in 1..a.n : Put(a, f).framel[i] = a.framel[i]
             /\ Put(a, f).framel[a.n + 1] = f
    BY ONLY f \in Frames, <2>1, <2>3, <2>4, PutHolds
  <2> QED  BY <2>2, <2>5 DEF b
<1> HIDE DEF b, t, u, fresh, prior
<1>6. a.n \in Nat /\ a.n = Len(a.framel) /\ b.n \in Nat /\ b.n = Len(b.framel)
  BY <1>4, <1>5, BufferFacts DEF Holds
<1> DEFINE k == Head(b.framel).k
           next == IF played = 0 THEN first ELSE played + 1
\* The next packet in order is added at the end of what is kept.
<1>7. ASSUME inorder', ~fresh
      PROVE  /\ first' = first /\ prior = played /\ u = t + 1
             /\ next \in Nat /\ next > played /\ next > 0
             /\ b.n = a.n + 1 /\ next + b.n = u + 1
             /\ \A i \in 1..b.n : b.framel[i].k = next + i - 1
  <2>1. /\ inorder /\ f.k = t + 1 /\ first' = first /\ prior = played /\ first # 0
        /\ a = jb /\ ssrc = s
    BY <1>1, <1>4, <1>7 DEF prior, fresh
  <2>2. /\ \A i \in 1..Len(jb.framel) : jb.framel[i].k = next + i - 1
        /\ next + Len(jb.framel) = t + 1
    <3>1. DOMAIN jb.framel = 1..Len(jb.framel)  BY BufferFacts DEF JbufInv
    <3> QED  BY <2>1, <3>1 DEF JbufInv, InOrderKept, t
  <2>3. next \in Nat /\ next > played /\ next > 0  BY <1>3, <2>1
  <2> HIDE DEF next
  <2>4. u = t + 1 /\ b.n = a.n + 1  BY <1>3, <1>5, <2>1
  <2>5. ASSUME NEW i \in 1..b.n  PROVE b.framel[i].k = next + i - 1
    <3>1. CASE i <= a.n
      <4>1. i \in 1..a.n  BY <1>6, <2>4, <3>1
      <4>2. b.framel[i] = jb.framel[i]  BY <1>3, <1>5, <2>1, <4>1
      <4> QED  BY <1>6, <2>1, <2>2, <4>1, <4>2
    <3>2. CASE i = a.n + 1
      <4>1. b.framel[i] = f  BY <1>3, <1>5, <2>1, <3>2
      <4>2. next + a.n = f.k  BY <1>6, <2>1, <2>2
      <4> QED  BY <1>3, <1>6, <2>3, <3>2, <4>1, <4>2
    <3>3. i <= a.n \/ i = a.n + 1  BY <1>6, <2>4
    <3> QED  BY <3>1, <3>2, <3>3, Zenon
  <2>6. next + b.n = u + 1
    <3>1. a.n = Len(jb.framel)  BY <1>6, <2>1
    <3>2. next + a.n = t + 1  BY <2>2, <3>1
    <3>3. t \in Nat /\ a.n \in Nat  BY <1>3, <1>6
    <3> QED  BY ONLY <2>3, <2>4, <3>2, <3>3
  <2> QED  BY <2>1, <2>3, <2>4, <2>5, <2>6
<1> HIDE DEF next
<1> DEFINE nextp == IF played' = 0 THEN first' ELSE played' + 1
           l == jb'.framel
<1>8. /\ Holds(jb', s, u) /\ jb'.n <= MinFrames /\ played' \in Nat
      /\ started' \in BOOLEAN /\ replayed' \in BOOLEAN
      /\ inorder' => /\ replayed' = replayed
                     /\ Len(l) <= MinFrames
                     /\ \A i \in 1..Len(l) : l[i].k = nextp + i - 1
                     /\ nextp + Len(l) = u + 1
  <2>1. CASE CanGet(b)
    <3>1. b.framel # <<>> /\ b.n > MinFrames  BY <2>1 DEF CanGet
    <3>2. /\ Holds(Got(b), s, u) /\ Got(b).n = b.n - 1
          /\ \A i \in 1..(b.n - 1) : Got(b).framel[i] = b.framel[i + 1]
          /\ Head(b.framel) = b.framel[1] /\ Head(b.framel) \in Frames /\ b.n > 0
      <4>1. PICK c, v : c = b /\ v = u  OBVIOUS
      <4>2. v \in Nat /\ Holds(c, s, v) /\ c.framel # <<>>  BY <1>3, <1>5, <3>1, <4>1
      <4>3. /\ Holds(Got(c), s, v) /\ Got(c).n = c.n - 1
            /\ \A i \in 1..(c.n - 1) : Got(c).framel[i] = c.framel[i + 1]
            /\ Head(c.framel) = c.framel[1] /\ Head(c.framel) \in Frames /\ c.n > 0
        BY ONLY <4>2, GotHolds
      <4> QED  BY <4>1, <4>3
    <3>3. k = b.framel[1].k /\ k \in Nat  BY <3>2 DEF Frames
    <3>4. /\ jb' = Got(b) /\ started' = TRUE
          /\ played' = (IF k > prior THEN k ELSE prior)
          /\ replayed' = (replayed \/ k <= prior)
      BY <1>2, <2>1
    <3> HIDE DEF k
    <3>5. /\ Holds(jb', s, u) /\ jb'.n <= MinFrames /\ played' \in Nat
          /\ started' \in BOOLEAN /\ replayed' \in BOOLEAN
      BY <1>3, <1>4, <1>5, <1>6, <3>2, <3>3, <3>4, ReachFacts
    <3>6. ASSUME inorder'
          PROVE  /\ replayed' = replayed
                 /\ Len(l) <= MinFrames
                 /\ \A i \in 1..Len(l) : l[i].k = nextp + i - 1
                 /\ nextp + Len(l) = u + 1
      <4>1. ~fresh
        <5>1. ASSUME fresh PROVE FALSE
          <6>1. a.n = 0 /\ b.n <= 1  BY <1>4, <1>5, <1>6, <5>1
          <6> QED  BY <1>6, <3>1, <6>1, FramesAssumption
        <5> QED  BY <5>1
      <4>2. /\ prior = played /\ next \in Nat /\ next > played /\ next > 0
            /\ b.n = a.n + 1 /\ next + b.n = u + 1
            /\ \A i \in 1..b.n : b.framel[i].k = next + i - 1
        BY <1>7, <3>6, <4>1
      <4>3. k = next
        <5>1. 1 \in 1..b.n  BY <1>6, <3>2
        <5>2. b.framel[1].k = next + 1 - 1  BY <4>2, <5>1
        <5> QED  BY <3>3, <4>2, <5>2
      <4>4. k > prior /\ played' = next /\ replayed' = replayed
        BY <1>3, <3>3, <3>4, <4>2, <4>3
      <4>5. nextp = next + 1  BY <4>2, <4>4
      <4>6. Len(l) = a.n
        <5>1. jb'.n = Len(l)  BY <3>5 DEF Holds
        <5> QED  BY <1>6, <3>2, <3>4, <4>2, <5>1
      <4>7. ASSUME NEW i \in 1..a.n  PROVE l[i].k = (next + 1) + i - 1
        <5>1. i \in 1..(b.n - 1) /\ i + 1 \in 1..b.n  BY <1>6, <4>2
        <5>2. l[i] = b.framel[i + 1]  BY <3>2, <3>4, <5>1
        <5>3. b.framel[i + 1].k = next + (i + 1) - 1  BY <4>2, <5>1
        <5> QED  BY <4>2, <5>1, <5>2, <5>3
      <4>8. (next + 1) + a.n = u + 1 /\ a.n <= MinFrames
        <5>1. u \in Nat /\ a.n \in Nat /\ a.n <= MinFrames  BY <1>3, <1>4, <1>6
        <5>2. next \in Nat /\ b.n = a.n + 1 /\ next + b.n = u + 1  BY <4>2
        <5> QED  BY ONLY <5>1, <5>2
      <4> HIDE DEF l, nextp
      <4> QED  BY <4>4, <4>5, <4>6, <4>7, <4>8
    <3> QED  BY <3>5, <3>6
  <2>2. CASE ~CanGet(b)
    <3>1. jb' = b /\ played' = prior /\ started' = started /\ replayed' = replayed
      BY <1>2, <2>2
    <3>2. b.n <= MinFrames
      <4>1. CASE b.framel = <<>>
        BY <1>6, <4>1, ReachFacts
      <4>2. CASE b.framel # <<>>
        BY <1>6, <2>2, <4>2, ReachFacts DEF CanGet
      <4> QED  BY <4>1, <4>2
    <3>3. ASSUME inorder', fresh
          PROVE  nextp = f.k /\ u = f.k /\ Len(l) = 1 /\ l[1] = f
      <4>1. f.k > t /\ first' = f.k /\ played' = 0
        BY <1>1, <3>1, <3>3 DEF prior
      <4>2. u = f.k /\ nextp = f.k  BY <1>3, <4>1
      <4>3. a.n = 0  BY <1>4, <3>3
      <4>4. b.n = a.n + 1 /\ b.framel[a.n + 1] = f  BY <1>5, <4>1
      <4>5. b.n = 1 /\ b.framel[1] = f  BY <4>3, <4>4
      <4> HIDE DEF nextp
      <4> QED  BY <1>6, <3>1, <4>2, <4>5
    <3>4. ASSUME inorder', ~fresh
          PROVE  nextp = next /\ Len(l) = b.n
      BY <1>6, <1>7, <3>1, <3>4 DEF next
    <3> HIDE DEF nextp
    <3>5. ASSUME inorder'
          PROVE  /\ Len(l) <= MinFrames
                 /\ \A i \in 1..Len(l) : l[i].k = nextp + i - 1
                 /\ nextp + Len(l) = u + 1
      <4>1. CASE fresh
        <5>1. Len(l) = 1 /\ l[1].k = nextp /\ nextp = u  BY <3>3, <3>5, <4>1
        <5> HIDE DEF l
        <5> QED  BY <1>3, <5>1, FramesAssumption
      <4>2. CASE ~fresh
        BY <1>7, <3>1, <3>2, <3>4, <3>5, <4>2
      <4> QED  BY <4>1, <4>2
    <3> QED  BY <1>3, <1>5, <3>1, <3>2, <3>5
  <2> QED  BY <2>1, <2>2
<1> HIDE DEF nextp, k
<1>9. ssrc' = s /\ s \in Sources /\ s # 0 /\ top' \in [Sources -> Nat] /\ top'[ssrc'] = u
  BY <1>1, <1>3 DEF JbufInv
<1>10. first' \in Nat /\ first' # 0 /\ inorder' \in BOOLEAN
  <2>1. first' \in Nat /\ first' # 0  BY <1>1, <1>3 DEF fresh
  <2>2. CASE fresh
    <3>1. inorder' = (f.k > t)  BY <1>1, <2>2
    <3> QED  BY <2>1, <3>1
  <2>3. CASE ~fresh
    <3>1. inorder' = (inorder /\ f.k = t + 1)  BY <1>1, <2>3
    <3> QED  BY <2>1, <3>1
  <2> QED  BY <2>2, <2>3
<1>11. InOrderKept'
  <2>1. DOMAIN l = 1..Len(l)  BY <1>8, BufferFacts DEF Holds
  <2> QED  BY <1>8, <1>9, <2>1 DEF InOrderKept, nextp
<1>12. jb' \in Buffer /\ Holds(jb', ssrc', top'[ssrc'])
  BY <1>8, <1>9 DEF Holds
<1> HIDE DEF l
<1>13. JbufInv'
  BY <1>8, <1>9, <1>10, <1>11, <1>12 DEF JbufInv
<1> QED  BY <1>8, <1>13

LEMMA ResetInv == ASSUME JbufInv, Reset  PROVE JbufInv'
<1> DEFINE c == Flushed(jb)
<1>1. /\ jb' = c /\ first' = 0 /\ played' = 0 /\ inorder' = TRUE
      /\ ssrc' = ssrc /\ started' = started /\ top' = top /\ replayed' = replayed
  BY DEF Reset
<1>2. jb \in Buffer  BY DEF JbufInv
<1>3. \A s, t : t \in Nat => Holds(c, s, t)  BY <1>2, FlushedHolds
<1>4. c.n = 0 /\ c.framel = <<>> /\ ~c.running /\ c \in Buffer
  BY <1>2, <1>3, FlushedHolds DEF Holds
<1> HIDE DEF c
<1>5. ssrc # 0 => Holds(c, ssrc, top[ssrc])
  <2>1. ssrc # 0 => top[ssrc] \in Nat  BY DEF JbufInv
  <2> QED  BY <1>3, <2>1
<1>6. InOrderKept'  BY <1>1 DEF InOrderKept
<1> QED  BY <1>1, <1>4, <1>5, <1>6, ReachFacts DEF JbufInv

LEMMA StepJbufInv == JbufInv /\ [JbufNext]_jbufvars => JbufInv'
<1> SUFFICES ASSUME JbufInv, [JbufNext]_jbufvars PROVE JbufInv'  OBVIOUS
<1>1. CASE RtpRecv
  <2>a. PICK s \in Sources : \E k \in Arrivals(s) : Receive(Packet(s, k))  BY <1>1 DEF RtpRecv
  <2>1. PICK k \in Arrivals(s) : Receive(Packet(s, k))  BY <2>a
  <2>2. k \in 1..MaxSent /\ k >= top[s] - Overtaken /\ k <= top[s] + 1 + Lost
    BY <2>1 DEF Arrivals
  <2>3. /\ Packet(s, k) \in Frames
        /\ InWindow(Packet(s, k), top[Packet(s, k).src])
    BY <2>2 DEF Packet, Frames, InWindow
  <2> QED  BY <2>1, <2>3, ReceiveInv
<1>2. CASE Reset
  BY <1>2, ResetInv
<1>3. CASE UNCHANGED jbufvars
  BY <1>3 DEF jbufvars, JbufInv, InOrderKept
<1> QED  BY <1>1, <1>2, <1>3 DEF JbufNext

\* What the jitter buffer (jbuf.c) and the handler of RTP packets (stream.c) keep.
THEOREM JbufInvariance == JbufSpec => []JbufInv
<1> QED  BY InitJbufInv, StepJbufInv, PTL DEF JbufSpec

\* The buffer is in the order the packets were sent, holds each once and of one source, and
\* never more than MinFrames of them: no frame has to give way (jbuf_put, frame_alloc).
THEOREM BufferAlwaysTrue == JbufSpec => []BufferTrue
<1>1. JbufInv => BufferTrue
  <2> SUFFICES ASSUME JbufInv PROVE BufferTrue  OBVIOUS
  <2>1. /\ jb \in Buffer /\ jb.n <= MinFrames
        /\ DOMAIN jb.framel = 1..Len(jb.framel)
    BY BufferFacts DEF JbufInv
  <2>2. CASE ssrc = 0
    <3>1. jb.framel = <<>> /\ jb.n = 0  BY <2>2 DEF JbufInv
    <3>2. Len(jb.framel) = 0 /\ DOMAIN jb.framel = {}  BY <3>1
    <3> QED  BY <2>1, <3>1, <3>2 DEF BufferTrue
  <2>3. CASE ssrc # 0
    <3>1. Holds(jb, ssrc, top[ssrc])  BY <2>3 DEF JbufInv
    <3> QED  BY <2>1, <3>1 DEF BufferTrue, Holds, Spaced
  <2> QED  BY <2>2, <2>3
<1> QED  BY <1>1, JbufInvariance, PTL

\* A source whose packets come in order is kept without a gap (rtp_recv, jbuf_get).
THEOREM AlwaysInOrderKept == JbufSpec => []InOrderKept
<1>1. JbufInv => InOrderKept  BY DEF JbufInv
<1> QED  BY <1>1, JbufInvariance, PTL

\* As long as packets come in order none is played again or after a later one (rtp_recv).
THEOREM InOrderNeverReplayed == JbufSpec => [][inorder' => replayed' = replayed]_jbufvars
<1>1. JbufInv /\ [JbufNext]_jbufvars => [inorder' => replayed' = replayed]_jbufvars
  <2> SUFFICES ASSUME JbufInv, JbufNext, inorder' PROVE replayed' = replayed
    BY DEF jbufvars
  <2>1. CASE RtpRecv
    <3>a. PICK s \in Sources : \E k \in Arrivals(s) : Receive(Packet(s, k))  BY <2>1 DEF RtpRecv
    <3>1. PICK k \in Arrivals(s) : Receive(Packet(s, k))  BY <3>a
    <3>2. k \in 1..MaxSent /\ k >= top[s] - Overtaken /\ k <= top[s] + 1 + Lost
      BY <3>1 DEF Arrivals
    <3>3. /\ Packet(s, k) \in Frames
          /\ InWindow(Packet(s, k), top[Packet(s, k).src])
      BY <3>2 DEF Packet, Frames, InWindow
    <3> QED  BY <3>1, <3>3, ReceiveInv
  <2>2. CASE Reset
    BY <2>2 DEF Reset
  <2> QED  BY <2>1, <2>2 DEF JbufNext
<1> QED  BY <1>1, JbufInvariance, PTL DEF JbufSpec

\* When more than one frame is there the last one stays when one is taken.
LEMMA GotLast ==
  ASSUME NEW s, NEW t \in Nat, NEW b, Holds(b, s, t), b.n > 1
  PROVE  Len(Got(b).framel) = b.n - 1 /\ Got(b).framel[b.n - 1] = b.framel[b.n]
<1>1. b.n \in Nat /\ b.n = Len(b.framel) /\ b.framel # <<>>
  <2>1. b.n \in Nat /\ b.n = Len(b.framel)  BY BufferFacts DEF Holds
  <2>2. Len(<<>>) = 0  OBVIOUS
  <2> QED  BY <2>1, <2>2
<1>2. /\ Holds(Got(b), s, t)
      /\ Got(b).n = b.n - 1
      /\ \A i \in 1..(b.n - 1) : Got(b).framel[i] = b.framel[i + 1]
      /\ Head(b.framel) = b.framel[1] /\ Head(b.framel) \in Frames /\ b.n > 0
  <2>1. t \in Nat /\ Holds(b, s, t) /\ b.framel # <<>>  BY <1>1
  <2> QED  BY ONLY <2>1, GotHolds
<1>3. Got(b).n = Len(Got(b).framel)  BY <1>2 DEF Holds
<1>4. b.n - 1 \in 1..(b.n - 1) /\ (b.n - 1) + 1 = b.n  BY <1>1
<1>5. Got(b).framel[b.n - 1] = b.framel[b.n]
  <2>1. Got(b).framel[b.n - 1] = b.framel[(b.n - 1) + 1]  BY <1>2, <1>4
  <2> QED  BY <1>4, <2>1
<1> QED  BY <1>2, <1>3, <1>5

\* A packet that is newer than every one before it is the last one in the buffer after it
\* was received: the frame that is then taken out is an older one.
LEMMA ReceiveKeepsNew ==
  ASSUME JbufInv, NEW f \in Frames, InWindow(f, top[f.src]), Receive(f),
         NEW r \in Sources, top'[r] # top[r]
  PROVE  /\ r = f.src /\ top'[r] = f.k
         /\ Len(jb'.framel) > 0 /\ jb'.framel[Len(jb'.framel)] = f
<1> DEFINE flush == ssrc # 0 /\ ssrc # f.src
           fresh == flush \/ first = 0
           a == IF flush THEN Flushed(jb) ELSE jb
           b == Put(a, f)
           s == f.src
           t == top[f.src]
<1>1. /\ top' = [top EXCEPT ![f.src] = IF f.k > t THEN f.k ELSE t]
      /\ jb' = IF CanGet(b) THEN Got(b) ELSE b
  BY DEF Receive
<1>2. f.src \in Sources /\ t \in Nat /\ top \in [Sources -> Nat] /\ f.k \in Nat
  BY DEF Frames, JbufInv
<1> HIDE DEF t
<1>3. r = f.src /\ top'[r] = f.k /\ f.k > t
  <2>1. r = f.src  BY <1>1, <1>2
  <2>2. top'[r] = IF f.k > t THEN f.k ELSE t  BY <1>1, <1>2, <2>1
  <2>3. top[r] = t  BY <2>1 DEF t
  <2> QED  BY <2>1, <2>2, <2>3
<1>4. Holds(a, f.src, t) /\ a.n <= MinFrames
  <2>1. flush \in BOOLEAN /\ fresh \in BOOLEAN  OBVIOUS
  <2> HIDE DEF flush
  <2>2. flush <=> ssrc # 0 /\ ssrc # f.src  BY DEF flush
  <2>3. fresh <=> flush \/ first = 0  OBVIOUS
  <2> HIDE DEF fresh
  <2>4. a = IF flush THEN Flushed(jb) ELSE jb  OBVIOUS
  <2> HIDE DEF a
  <2> QED  BY <2>1, <2>2, <2>3, <2>4, PutInto DEF t
<1> HIDE DEF a, flush
<1>5. Holds(b, s, f.k) /\ b.n = a.n + 1 /\ b.framel[a.n + 1] = f
  <2>1. PICK z, u : z = f.src /\ u = f.k  OBVIOUS
  <2>2. /\ u = IF f.k > t THEN f.k ELSE t
        /\ f.src = z /\ InWindow(f, t) /\ Holds(a, z, t)
    BY <1>3, <1>4, <2>1 DEF t
  <2>3. /\ Holds(Put(a, f), z, u)
        /\ Put(a, f).n = a.n + 1 /\ Put(a, f).framel[a.n + 1] = f
    BY ONLY f \in Frames, <1>2, <1>3, <1>4, <2>2, PutHolds
  <2> QED  BY <2>1, <2>3
<1> HIDE DEF b, s
<1>6. /\ a.n \in Nat /\ b.n = Len(b.framel) /\ b.framel # <<>> /\ Len(b.framel) = a.n + 1
  <2>1. a.n \in Nat /\ b.n = Len(b.framel)  BY <1>4, <1>5, BufferFacts DEF Holds
  <2>2. Len(<<>>) = 0  OBVIOUS
  <2> QED  BY <1>5, <2>1, <2>2
<1>7. CASE ~CanGet(b)
  BY <1>1, <1>3, <1>5, <1>6, <1>7
<1>8. CASE CanGet(b)
  <2>1. a.n >= 1  BY <1>5, <1>6, <1>8, FramesAssumption DEF CanGet
  <2>2. PICK c, v : c = b /\ v = f.k  OBVIOUS
  <2>3. v \in Nat /\ Holds(c, s, v) /\ c.n > 1  BY <1>2, <1>5, <1>6, <2>1, <2>2
  <2>4. Len(Got(c).framel) = c.n - 1 /\ Got(c).framel[c.n - 1] = c.framel[c.n]
    BY ONLY <2>3, GotLast
  <2>5. jb' = Got(c)  BY <1>1, <1>8, <2>2
  <2> QED  BY <1>3, <1>5, <1>6, <2>1, <2>2, <2>4, <2>5
<1> QED  BY <1>7, <1>8

\* A packet newer than every one of its source before it is never thrown away: it is
\* stored behind all the others, whatever was lost, overtaken or repeated before it, and
\* from whichever source the last one came (jbuf_put, rtp_recv).
THEOREM NewestKept ==
  JbufSpec => [][\A s \in Sources : top'[s] # top[s] =>
                   /\ Len(jb'.framel) > 0
                   /\ jb'.framel[Len(jb'.framel)] = Packet(s, top'[s])]_jbufvars
<1>1. ASSUME JbufInv, JbufNext, NEW r \in Sources, top'[r] # top[r]
      PROVE  /\ Len(jb'.framel) > 0
             /\ jb'.framel[Len(jb'.framel)] = Packet(r, top'[r])
  <2>1. RtpRecv  BY <1>1 DEF JbufNext, Reset
  <2>2. PICK s \in Sources : \E k \in Arrivals(s) : Receive(Packet(s, k))  BY <2>1 DEF RtpRecv
  <2>3. PICK k \in Arrivals(s) : Receive(Packet(s, k))  BY <2>2
  <2>4. k \in 1..MaxSent /\ k >= top[s] - Overtaken /\ k <= top[s] + 1 + Lost
    BY <2>3 DEF Arrivals
  <2>5. PICK f : f = Packet(s, k)  OBVIOUS
  <2>6. /\ f \in Frames /\ InWindow(f, top[f.src]) /\ Receive(f)
        /\ f = Packet(f.src, f.k)
    BY <2>3, <2>4, <2>5 DEF Packet, Frames, InWindow
  <2>7. /\ r = f.src /\ top'[r] = f.k
        /\ Len(jb'.framel) > 0 /\ jb'.framel[Len(jb'.framel)] = f
    BY ONLY <1>1, <2>6, ReceiveKeepsNew
  <2> QED  BY <2>6, <2>7
<1>2. JbufInv /\ [JbufNext]_jbufvars =>
        [\A s \in Sources : top'[s] # top[s] =>
           /\ Len(jb'.framel) > 0
           /\ jb'.framel[Len(jb'.framel)] = Packet(s, top'[s])]_jbufvars
  BY <1>1
<1> QED  BY <1>2, JbufInvariance, PTL DEF JbufSpec
=============================================================================
