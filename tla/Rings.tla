-------------------------------- MODULE Rings -------------------------------
(***************************************************************************)
(* Facts about remainders, and about what they are used for: the rings of  *)
(* the kernel, buffers of p places indexed by counters that wrap at u.     *)
(***************************************************************************)
EXTENDS Integers, Sequences, TLAPS

\* The remainder of a number below the modulus.
LEMMA ModSmall ==
  ASSUME NEW n \in Nat \ {0}, NEW x \in 0 .. n - 1
  PROVE  x % n = x
OBVIOUS

\* Division with remainder.
LEMMA DivMod ==
  ASSUME NEW n \in Nat \ {0}, NEW x \in Nat
  PROVE  /\ x \div n \in Nat /\ x % n \in 0 .. n - 1
         /\ x = n * (x \div n) + (x % n)
OBVIOUS

\* The remainder is the only one.
LEMMA ModUnique ==
  ASSUME NEW n \in Nat \ {0}, NEW q \in Nat, NEW r \in 0 .. n - 1
  PROVE  (n * q + r) % n = r
OBVIOUS

\* One round of the counter.
LEMMA ModWrap ==
  ASSUME NEW n \in Nat \ {0}, NEW x \in n .. 2 * n - 1
  PROVE  x % n = x - n
OBVIOUS

\* Whole rounds do not matter.
LEMMA ModPlus ==
  ASSUME NEW n \in Nat \ {0}, NEW m \in Nat, m % n = 0, NEW x \in Nat
  PROVE  (x + m) % n = x % n
<1> DEFINE q == x \div n
           k == m \div n
<1>1. q \in Nat /\ k \in Nat /\ x % n \in 0 .. n - 1 /\ x = n * q + (x % n) /\ m = n * k
  BY DivMod
<1> HIDE DEF q, k
<1>2. x + m = n * (q + k) + (x % n)
  BY <1>1
<1>3. q + k \in Nat
  BY <1>1
<1>4. (n * (q + k) + (x % n)) % n = x % n
  BY <1>1, <1>3, ModUnique, Zenon
<1>5. QED
  BY <1>2, <1>4, Zenon

\* Two numbers less than the modulus apart have different remainders.
LEMMA ModApart ==
  ASSUME NEW n \in Nat \ {0}, NEW x \in Nat, NEW d \in 1 .. n - 1
  PROVE  (x + d) % n # x % n
<1> DEFINE r == x % n
           q == x \div n
<1>1. q \in Nat /\ r \in 0 .. n - 1 /\ x = n * q + r
  BY DivMod
<1> HIDE DEF r, q
<1>2. CASE r + d < n
  <2>1. x + d = n * q + (r + d)
    BY <1>1
  <2>0. r + d \in 0 .. n - 1
    BY <1>1, <1>2
  <2>2. (n * q + (r + d)) % n = r + d
    BY <1>1, <2>0, ModUnique, Zenon
  <2>3. QED
    BY <1>1, <2>1, <2>2
<1>3. CASE r + d >= n
  <2>1. x + d = n * (q + 1) + (r + d - n)
    BY <1>1
  <2>0. r + d - n \in 0 .. n - 1 /\ q + 1 \in Nat
    BY <1>1, <1>3
  <2>2. (n * (q + 1) + (r + d - n)) % n = r + d - n
    BY <2>0, ModUnique, Zenon
  <2>3. QED
    BY <1>1, <2>1, <2>2
<1>4. QED
  BY <1>1, <1>2, <1>3 DEF r

\* The counter after ++.
LEMMA IncWraps ==
  ASSUME NEW u \in Nat \ {0}, NEW a \in 0 .. u - 1
  PROVE  (a + 1) % u = IF a + 1 = u THEN 0 ELSE a + 1
OBVIOUS

-----------------------------------------------------------------------------
\* How far b is ahead of a, when both wrap, and what is in the ring d between them.
Ahead(a, b, u) == (b + u - a) % u
RingSeq(d, a, b, u, p) == [i \in 1 .. Ahead(a, b, u) |-> d[(a + i - 1) % p]]

\* The distance, without remainders.
LEMMA AheadIs ==
  ASSUME NEW u \in Nat \ {0}, NEW a \in 0 .. u - 1, NEW b \in 0 .. u - 1
  PROVE  /\ Ahead(a, b, u) = IF b >= a THEN b - a ELSE b + u - a
         /\ Ahead(a, b, u) \in 0 .. u - 1
<1>1. CASE b >= a
  BY SMTT(30), <1>1, ModWrap DEF Ahead
<1>2. CASE ~(b >= a)
  BY <1>2, ModSmall DEF Ahead
<1>3. QED
  BY <1>1, <1>2

\* The test for a full ring.
LEMMA AheadFull ==
  ASSUME NEW u \in Nat \ {0}, NEW p \in 1 .. u - 1, NEW a \in 0 .. u - 1, NEW b \in 0 .. u - 1
  PROVE  b = (a + p) % u <=> Ahead(a, b, u) = p
<1> DEFINE d == Ahead(a, b, u)
           f == (a + p) % u
<1>1. f = IF a + p >= u THEN a + p - u ELSE a + p
  <2>1. CASE a + p >= u
    <3>1. a + p \in u .. 2 * u - 1
      BY <2>1
    <3>2. QED
      BY <2>1, <3>1, ModWrap
  <2>2. CASE ~(a + p >= u)
    BY <2>2, ModSmall
  <2>3. QED
    BY <2>1, <2>2
<1>2. d = IF b >= a THEN b - a ELSE b + u - a
  BY AheadIs
<1> HIDE DEF d, f
<1>3. b = f <=> d = p
  BY <1>1, <1>2
<1>4. QED
  BY <1>3 DEF d, f

\* The counter ahead counts on.
LEMMA AheadGrows ==
  ASSUME NEW u \in Nat \ {0}, NEW a \in 0 .. u - 1, NEW b \in 0 .. u - 1, Ahead(a, b, u) < u - 1
  PROVE  Ahead(a, (b + 1) % u, u) = Ahead(a, b, u) + 1
<1> DEFINE c == (b + 1) % u
           d == Ahead(a, b, u)
<1>1. c = IF b + 1 = u THEN 0 ELSE b + 1
  BY IncWraps
<1>2. d = IF b >= a THEN b - a ELSE b + u - a
  BY AheadIs
<1>3. c \in 0 .. u - 1 /\ d < u - 1
  BY <1>1
<1> HIDE DEF c, d
<1>4. Ahead(a, c, u) = IF c >= a THEN c - a ELSE c + u - a
  BY <1>3, AheadIs
<1>5. Ahead(a, c, u) = d + 1
  BY <1>1, <1>2, <1>3, <1>4
<1>6. QED
  BY <1>5 DEF c, d

\* The counter behind counts on, if it is behind.
LEMMA AheadShrinks ==
  ASSUME NEW u \in Nat \ {0}, NEW a \in 0 .. u - 1, NEW b \in 0 .. u - 1, a # b
  PROVE  Ahead(a, b, u) > 0 /\ Ahead((a + 1) % u, b, u) = Ahead(a, b, u) - 1
<1> DEFINE c == (a + 1) % u
           d == Ahead(a, b, u)
<1>1. c = IF a + 1 = u THEN 0 ELSE a + 1
  BY IncWraps
<1>2. d = IF b >= a THEN b - a ELSE b + u - a
  BY AheadIs
<1>3. c \in 0 .. u - 1
  BY <1>1
<1> HIDE DEF c, d
<1>4. Ahead(c, b, u) = IF b >= c THEN b - c ELSE b + u - c
  BY <1>3, AheadIs
<1>5. d > 0 /\ Ahead(c, b, u) = d - 1
  BY <1>1, <1>2, <1>4
<1>6. QED
  BY <1>5 DEF c, d

\* The place of a counter after ++, p a divisor of the round u.
LEMMA IncPlace ==
  ASSUME NEW u \in Nat \ {0}, NEW p \in Nat \ {0}, u % p = 0, NEW a \in 0 .. u - 1, NEW i \in Nat
  PROVE  (((a + 1) % u) + i) % p = (a + 1 + i) % p
<1>1. (i + u) % p = i % p
  BY ModPlus
<1> DEFINE c == (a + 1) % u
<1>2. c = IF a + 1 = u THEN 0 ELSE a + 1
  BY IncWraps
<1> HIDE DEF c
<1>3. c + i = a + 1 + i \/ (c + i = i /\ a + 1 + i = i + u)
  BY <1>2
<1>4. (c + i) % p = (a + 1 + i) % p
  BY <1>1, <1>3
<1>5. QED
  BY <1>4 DEF c

\* A ring of p places, indexed by counters that run through it a whole number of times.
Ring(u, p, a, b) ==
  /\ u \in Nat \ {0} /\ p \in Nat \ {0} /\ u % p = 0
  /\ a \in 0 .. u - 1 /\ b \in 0 .. u - 1

\* The place of b, from that of a and the distance.
LEMMA AheadPlace ==
  ASSUME NEW u, NEW p, NEW a, NEW b, Ring(u, p, a, b)
  PROVE  (a + Ahead(a, b, u)) % p = b % p
<1> DEFINE d == Ahead(a, b, u)
<1>0. u \in Nat /\ p \in Nat \ {0} /\ a \in Nat /\ b \in Nat
  BY DEF Ring
<1>1. d = IF b >= a THEN b - a ELSE b + u - a
  BY AheadIs DEF Ring
<1>2. (b + u) % p = b % p
  BY <1>0, ModPlus DEF Ring
<1> HIDE DEF d
<1>3. a + d = b \/ a + d = b + u
  BY <1>0, <1>1
<1>4. (a + d) % p = b % p
  BY <1>2, <1>3
<1>5. QED
  BY <1>4 DEF d

\* s is a sequence of the n elements from counter a on.
Holds(s, n, d, a, p, S) ==
  /\ s \in Seq(S) /\ Len(s) = n
  /\ \A i \in 1 .. n : s[i] = d[(a + i - 1) % p]

\* The contents are a sequence.
LEMMA RingIsSeq ==
  ASSUME NEW u, NEW p, NEW a, NEW b, Ring(u, p, a, b), NEW S, NEW d \in [0 .. p - 1 -> S]
  PROVE  Ahead(a, b, u) \in Nat /\ Holds(RingSeq(d, a, b, u, p), Ahead(a, b, u), d, a, p, S)
<1> DEFINE n == Ahead(a, b, u)
<1>0. u \in Nat \ {0} /\ p \in Nat \ {0} /\ a \in 0 .. u - 1 /\ b \in 0 .. u - 1
  BY DEF Ring
<1>1. n \in Nat
  BY <1>0, AheadIs
<1> HIDE DEF n
<1>2. \A i \in 1 .. n : (a + i - 1) % p \in 0 .. p - 1
  BY <1>0, <1>1
<1>3. RingSeq(d, a, b, u, p) \in [1 .. n -> S]
  BY <1>2 DEF RingSeq, n
<1>4. \A i \in 1 .. n : RingSeq(d, a, b, u, p)[i] = d[(a + i - 1) % p]
  BY DEF RingSeq, n
<1>5. Holds(RingSeq(d, a, b, u, p), n, d, a, p, S)
  BY <1>1, <1>3, <1>4 DEF Holds
<1>6. QED
  BY <1>1, <1>5 DEF n

\* There is a free place.
RingRoom(u, p, a, b) == p < u /\ Ahead(a, b, u) < p

\* t is s, then x.
IsAfter(x, s, t) == t = Append(s, x)

\* The ring after v is put in at b.
Stored(d, b, v, p) == [d EXCEPT ![b % p] = v]

\* An element put in at b, when the ring is not full, comes last and overwrites none.
LEMMA RingPut ==
  ASSUME NEW u, NEW p, NEW a, NEW b, Ring(u, p, a, b), NEW S, NEW d \in [0 .. p - 1 -> S],
         NEW v \in S, RingRoom(u, p, a, b)
  PROVE  IsAfter(v, RingSeq(d, a, b, u, p), RingSeq(Stored(d, b, v, p), a, (b + 1) % u, u, p))
<1> DEFINE n == Ahead(a, b, u)
           b1 == (b + 1) % u
           d1 == [d EXCEPT ![b % p] = v]
           s == RingSeq(d, a, b, u, p)
           s1 == RingSeq(d1, a, b1, u, p)
<1>0. /\ u \in Nat \ {0} /\ p \in Nat \ {0} /\ p < u /\ n < p
      /\ a \in 0 .. u - 1 /\ b \in 0 .. u - 1
  BY DEF Ring, RingRoom
<1>1. n \in Nat
  BY <1>0, AheadIs
<1>2. Ahead(a, b1, u) = n + 1
  <2>1. n < u - 1
    BY <1>0, <1>1
  <2>2. QED
    BY <1>0, <2>1, AheadGrows, Zenon
<1>3. b1 \in 0 .. u - 1 /\ Ring(u, p, a, b1)
  BY <1>0, IncWraps DEF Ring
<1>4. b % p \in 0 .. p - 1
  BY <1>0
<1>5. d1 \in [0 .. p - 1 -> S] /\ d1[b % p] = v
  BY <1>4
<1>6. \A k \in 0 .. p - 1 : k # b % p => d1[k] = d[k]
  BY <1>4
<1>7. (a + n) % p = b % p
  BY AheadPlace, ZenonT(60)
<1>8. /\ s \in Seq(S) /\ Len(s) = n
      /\ \A i \in 1 .. n : s[i] = d[(a + i - 1) % p]
  <2>1. Holds(s, n, d, a, p, S)
    BY RingIsSeq, Zenon
  <2>2. QED
    BY <2>1 DEF Holds
<1> HIDE DEF b1, d1
<1>9. /\ s1 \in Seq(S) /\ Len(s1) = n + 1
      /\ \A i \in 1 .. n + 1 : s1[i] = d1[(a + i - 1) % p]
  <2>1. Holds(s1, n + 1, d1, a, p, S)
    BY <1>2, <1>3, <1>5, RingIsSeq, Zenon
  <2>2. QED
    BY <2>1 DEF Holds
<1> HIDE DEF n, s, s1
<1>10. ASSUME NEW i \in 1 .. n
       PROVE  s1[i] = s[i]
  <2> DEFINE x == a + i - 1
             y == n - (i - 1)
  <2>1. x \in Nat /\ y \in 1 .. p - 1 /\ a + n = x + y
    BY <1>0, <1>1
  <2>2. x % p \in 0 .. p - 1
    BY <2>1, <1>0
  <2>3. s1[i] = d1[x % p] /\ s[i] = d[x % p]
    BY <1>1, <1>8, <1>9
  <2> HIDE DEF x, y
  <2>4. (x + y) % p # x % p
    BY <2>1, <1>0, ModApart, Zenon
  <2>5. QED
    BY <1>6, <1>7, <2>1, <2>2, <2>3, <2>4, Zenon
<1>11. s1[n + 1] = v
  <2>1. a + (n + 1) - 1 = a + n /\ n + 1 \in 1 .. n + 1
    BY <1>0, <1>1
  <2>2. QED
    BY <2>1, <1>5, <1>7, <1>9, Zenon
<1>12. s1 = Append(s, v)
  BY <1>1, <1>8, <1>9, <1>10, <1>11
<1>13. QED
  BY <1>12 DEF s, s1, d1, b1, Stored, IsAfter

\* s is x, then t.
IsBefore(x, t, s) == s # <<>> /\ Head(s) = x /\ Tail(s) = t

\* The element at a comes first; without it the ring begins at the next place.
LEMMA RingGet ==
  ASSUME NEW u, NEW p, NEW a, NEW b, Ring(u, p, a, b), NEW S, NEW d \in [0 .. p - 1 -> S],
         a # b
  PROVE  IsBefore(d[a % p], RingSeq(d, (a + 1) % u, b, u, p), RingSeq(d, a, b, u, p))
<1> DEFINE n == Ahead(a, b, u)
           a1 == (a + 1) % u
           s == RingSeq(d, a, b, u, p)
           s1 == RingSeq(d, a1, b, u, p)
<1>0. /\ u \in Nat \ {0} /\ p \in Nat \ {0} /\ u % p = 0
      /\ a \in 0 .. u - 1 /\ b \in 0 .. u - 1 /\ a # b
  BY DEF Ring
<1>1. n \in Nat
  BY <1>0, AheadIs
<1>2. a1 \in 0 .. u - 1 /\ Ring(u, p, a1, b)
  BY <1>0, IncWraps DEF Ring
<1>3. n > 0 /\ Ahead(a1, b, u) = n - 1
  BY <1>0, AheadShrinks, Zenon
<1>4. /\ s \in Seq(S) /\ Len(s) = n
      /\ \A i \in 1 .. n : s[i] = d[(a + i - 1) % p]
  <2>1. Holds(s, n, d, a, p, S)
    BY RingIsSeq, Zenon
  <2>2. QED
    BY <2>1 DEF Holds
<1>5. \A i \in Nat : (a1 + i) % p = (a + 1 + i) % p
  BY <1>0, IncPlace
<1> HIDE DEF a1
<1>6. /\ s1 \in Seq(S) /\ Len(s1) = n - 1
      /\ \A i \in 1 .. n - 1 : s1[i] = d[(a1 + i - 1) % p]
  <2>1. Holds(s1, n - 1, d, a1, p, S)
    BY <1>2, <1>3, RingIsSeq, Zenon
  <2>2. QED
    BY <2>1 DEF Holds
<1> HIDE DEF n, s, s1
<1>7. s[1] = d[a % p]
  <2>1. 1 \in 1 .. n /\ a + 1 - 1 = a
    BY <1>0, <1>1, <1>3
  <2>2. QED
    BY <1>4, <2>1, Zenon
<1>8. ASSUME NEW i \in 1 .. n - 1
      PROVE  s1[i] = s[i + 1]
  <2>1. /\ i - 1 \in Nat /\ i + 1 \in 1 .. n
        /\ a1 + i - 1 = a1 + (i - 1) /\ a + (i + 1) - 1 = a + 1 + (i - 1)
    BY <1>0, <1>1, <1>2
  <2>2. s1[i] = d[(a1 + (i - 1)) % p] /\ s[i + 1] = d[(a + 1 + (i - 1)) % p]
    BY <1>4, <1>6, <2>1
  <2>3. QED
    BY <1>5, <2>1, <2>2, Zenon
<1>9. s # <<>> /\ Head(s) = d[a % p] /\ Tail(s) = s1
  BY <1>1, <1>3, <1>4, <1>6, <1>7, <1>8
<1>10. QED
  BY <1>9 DEF s, s1, a1, IsBefore

\* The counter ahead goes back, if it is ahead.
LEMMA AheadBack ==
  ASSUME NEW u \in Nat \ {0}, NEW a \in 0 .. u - 1, NEW b \in 0 .. u - 1, a # b
  PROVE  /\ (b + u - 1) % u \in 0 .. u - 1
         /\ Ahead(a, b, u) > 0 /\ Ahead(a, (b + u - 1) % u, u) = Ahead(a, b, u) - 1
<1> DEFINE c == (b + u - 1) % u
           d == Ahead(a, b, u)
<1>1. c = IF b = 0 THEN u - 1 ELSE b - 1
  <2>1. CASE b = 0
    <3>1. u - 1 \in 0 .. u - 1 /\ b + u - 1 = u - 1
      BY <2>1
    <3>2. (u - 1) % u = u - 1
      BY <3>1, ModSmall, Zenon
    <3>3. QED
      BY <2>1, <3>1, <3>2
  <2>2. CASE b # 0
    <3>1. b + u - 1 \in u .. 2 * u - 1
      BY <2>2
    <3>2. (b + u - 1) % u = b + u - 1 - u
      BY <3>1, ModWrap
    <3>3. QED
      BY <2>2, <3>2
  <2>3. QED
    BY <2>1, <2>2
<1>2. d = IF b >= a THEN b - a ELSE b + u - a
  BY AheadIs
<1>3. c \in 0 .. u - 1
  BY <1>1
<1> HIDE DEF c, d
<1>4. Ahead(a, c, u) = IF c >= a THEN c - a ELSE c + u - a
  BY <1>3, AheadIs
<1>5. d > 0 /\ Ahead(a, c, u) = d - 1
  BY <1>1, <1>2, <1>4
<1>6. QED
  BY <1>3, <1>5 DEF c, d

\* Going back by some of the distance, or by all of it.
LEMMA AheadJump ==
  ASSUME NEW u \in Nat \ {0}, NEW a \in 0 .. u - 1, NEW b \in 0 .. u - 1, NEW i \in 0 .. Ahead(a, b, u)
  PROVE  /\ (b + u - i) % u \in 0 .. u - 1
         /\ Ahead(a, (b + u - i) % u, u) = Ahead(a, b, u) - i
         /\ (b + u - i) % u = a <=> i = Ahead(a, b, u)
<1> DEFINE c == (b + u - i) % u
           d == Ahead(a, b, u)
<1>0. d \in 0 .. u - 1 /\ i \in 0 .. d /\ d = IF b >= a THEN b - a ELSE b + u - a
  BY AheadIs
<1> HIDE DEF d
<1>1. c = IF b >= i THEN b - i ELSE b + u - i
  <2>1. CASE b >= i
    <3> DEFINE x == b + u - i
    <3>1. x \in u .. 2 * u - 1 /\ x - u = b - i
      BY <1>0, <2>1
    <3> HIDE DEF x
    <3>2. x % u = x - u
      BY <3>1, ModWrap, Zenon
    <3>3. QED
      BY <2>1, <3>1, <3>2 DEF x
  <2>2. CASE ~(b >= i)
    <3>1. b + u - i \in 0 .. u - 1
      BY <1>0, <2>2
    <3>2. (b + u - i) % u = b + u - i
      BY <3>1, ModSmall, Zenon
    <3>3. QED
      BY <2>2, <3>2
  <2>3. QED
    BY <2>1, <2>2
<1> HIDE DEF c
<1>2. c \in 0 .. u - 1 /\ (c = a <=> i = d)
  BY <1>0, <1>1
<1>3. Ahead(a, c, u) = IF c >= a THEN c - a ELSE c + u - a
  BY <1>2, AheadIs
<1>4. Ahead(a, c, u) = d - i
  BY <1>0, <1>1, <1>2, <1>3
<1>5. QED
  BY <1>2, <1>4 DEF c, d

\* The place i behind b, counted from a.
PlaceBehind(a, b, i, u, p) == (a + Ahead(a, b, u) + i) % p = (b + i) % p

\* It is the same, counted from b.
LEMMA PlaceFrom ==
  ASSUME NEW u, NEW p, NEW a, NEW b, Ring(u, p, a, b), NEW i \in Nat
  PROVE  PlaceBehind(a, b, i, u, p)
<1> DEFINE d == Ahead(a, b, u)
<1>0. u \in Nat /\ u % p = 0 /\ p \in Nat \ {0} /\ a \in Nat /\ b \in Nat
  BY DEF Ring
<1>1. d = IF b >= a THEN b - a ELSE b + u - a
  BY AheadIs DEF Ring
<1>2. ((b + i) + u) % p = (b + i) % p
  <2>1. b + i \in Nat
    BY <1>0
  <2>2. QED
    BY <1>0, <2>1, ModPlus, Zenon
<1> HIDE DEF d
<1>3. a + d + i = b + i \/ a + d + i = (b + i) + u
  BY <1>0, <1>1
<1>4. (a + d + i) % p = (b + i) % p
  BY <1>2, <1>3, Zenon
<1>5. QED
  BY <1>4 DEF d, PlaceBehind

\* Counter b is between a and c.
Between(u, p, a, b, c) ==
  /\ Ring(u, p, a, b) /\ Ring(u, p, b, c)
  /\ Ahead(a, b, u) + Ahead(b, c, u) = Ahead(a, c, u)

\* st is s, then t.
IsJoin(st, s, t) == st = s \o t

\* The contents from a to c are those up to b, then those from b on.
LEMMA RingSplit ==
  ASSUME NEW u, NEW p, NEW a, NEW b, NEW c, Between(u, p, a, b, c), NEW S, NEW d \in [0 .. p - 1 -> S]
  PROVE  IsJoin(RingSeq(d, a, c, u, p), RingSeq(d, a, b, u, p), RingSeq(d, b, c, u, p))
<1> DEFINE n == Ahead(a, b, u)
           m == Ahead(b, c, u)
           s == RingSeq(d, a, b, u, p)
           t == RingSeq(d, b, c, u, p)
           st == RingSeq(d, a, c, u, p)
<1>0. /\ Ring(u, p, a, b) /\ Ring(u, p, b, c) /\ Ring(u, p, a, c)
      /\ a \in Nat /\ b \in Nat /\ p \in Nat \ {0} /\ Ahead(a, c, u) = n + m
  BY DEF Between, Ring
<1>1. n \in Nat /\ s \in Seq(S) /\ Len(s) = n /\ \A i \in 1 .. n : s[i] = d[(a + i - 1) % p]
  <2>1. n \in Nat /\ Holds(s, n, d, a, p, S)
    BY <1>0, RingIsSeq, Zenon
  <2>2. QED
    BY <2>1 DEF Holds
<1>2. m \in Nat /\ t \in Seq(S) /\ Len(t) = m /\ \A i \in 1 .. m : t[i] = d[(b + i - 1) % p]
  <2>1. m \in Nat /\ Holds(t, m, d, b, p, S)
    BY <1>0, RingIsSeq, Zenon
  <2>2. QED
    BY <2>1 DEF Holds
<1>3. st \in Seq(S) /\ Len(st) = n + m /\ \A i \in 1 .. n + m : st[i] = d[(a + i - 1) % p]
  <2>1. Holds(st, Ahead(a, c, u), d, a, p, S)
    BY <1>0, RingIsSeq, Zenon
  <2>2. Holds(st, n + m, d, a, p, S)
    BY <1>0, <2>1, Zenon
  <2>3. QED
    BY <2>2 DEF Holds
<1>4. ASSUME NEW i \in Nat PROVE (a + n + i) % p = (b + i) % p
  <2>1. PlaceBehind(a, b, i, u, p)
    BY <1>0, PlaceFrom, Zenon
  <2>2. QED
    BY <2>1 DEF PlaceBehind
<1> HIDE DEF n, m, s, t, st
<1>5. ASSUME NEW i \in 1 .. m PROVE st[n + i] = t[i]
  <2>1. i - 1 \in Nat /\ n + i \in 1 .. n + m /\ a + (n + i) - 1 = a + n + (i - 1) /\ b + i - 1 = b + (i - 1)
    BY <1>0, <1>1, <1>2
  <2>2. st[n + i] = d[(a + n + (i - 1)) % p] /\ t[i] = d[(b + (i - 1)) % p]
    BY <1>2, <1>3, <2>1
  <2>3. QED
    BY <1>4, <2>1, <2>2, Zenon
<1>6. \A i \in 1 .. n : st[i] = s[i]
  BY <1>1, <1>2, <1>3, SMTT(60)
<1>7. st = s \o t
  <2>1. Len(s \o t) = n + m /\ s \o t \in Seq(S)
    <3>1. s \in Seq(S) /\ t \in Seq(S) /\ Len(s) = n /\ Len(t) = m
      BY <1>1, <1>2
    <3>2. QED
      BY <3>1
  <2>2. ASSUME NEW i \in 1 .. n + m PROVE st[i] = (s \o t)[i]
    <3>1. CASE i <= n
      BY <1>1, <1>2, <1>6, <3>1
    <3>2. CASE i > n
      <4>1. i - n \in 1 .. m /\ i = n + (i - n)
        BY <1>1, <1>2, <3>2
      <4>2. st[i] = t[i - n]
        BY <1>5, <4>1
      <4>3. QED
        BY <1>1, <1>2, <3>2, <4>2
    <3>3. QED
      BY <1>1, <1>2, <3>1, <3>2
  <2>3. QED
    BY <1>3, <2>1, <2>2
<1>8. QED
  BY <1>7 DEF st, s, t, IsJoin

\* An element put in at c, behind those from a to b, changes none of them.
LEMMA RingKeep ==
  ASSUME NEW u, NEW p, NEW a, NEW b, NEW c, Between(u, p, a, b, c), NEW S, NEW d \in [0 .. p - 1 -> S],
         NEW v \in S, RingRoom(u, p, a, c)
  PROVE  RingSeq(Stored(d, c, v, p), a, b, u, p) = RingSeq(d, a, b, u, p)
<1> DEFINE n == Ahead(a, b, u)
           m == Ahead(a, c, u)
           d1 == Stored(d, c, v, p)
<1>0. /\ Ring(u, p, a, b) /\ Ring(u, p, b, c) /\ Ring(u, p, a, c) /\ m < p
      /\ a \in Nat /\ c \in Nat /\ p \in Nat \ {0} /\ m = n + Ahead(b, c, u)
  BY DEF Between, Ring, RingRoom
<1>1. n \in Nat /\ m \in Nat /\ n <= m
  <2>1. /\ u \in Nat \ {0} /\ a \in 0 .. u - 1 /\ b \in 0 .. u - 1 /\ c \in 0 .. u - 1
    BY <1>0 DEF Ring
  <2>2. n \in 0 .. u - 1 /\ Ahead(b, c, u) \in 0 .. u - 1
    BY <2>1, AheadIs, Zenon
  <2> HIDE DEF n, m
  <2>3. QED
    BY <1>0, <2>1, <2>2
<1>2. (a + m) % p = c % p
  BY <1>0, AheadPlace, ZenonT(60)
<1>3. \A k \in 0 .. p - 1 : k # c % p => d1[k] = d[k]
  BY DEF Stored
<1> HIDE DEF n, m, d1
<1>4. ASSUME NEW i \in 1 .. n PROVE d1[(a + i - 1) % p] = d[(a + i - 1) % p]
  <2> DEFINE x == a + i - 1
             y == m - (i - 1)
  <2>1. x \in Nat /\ y \in 1 .. p - 1 /\ a + m = x + y
    <3>1. i \in Nat /\ i >= 1 /\ i <= n
      BY <1>1
    <3>2. CASE i = 1 /\ n = m
      BY <1>0, <1>1, <3>1, <3>2
    <3>3. QED
      BY <1>0, <1>1, <3>1
  <2>2. x % p \in 0 .. p - 1
    BY <2>1, <1>0
  <2> HIDE DEF x, y
  <2>3. (x + y) % p # x % p
    BY <2>1, <1>0, ModApart, Zenon
  <2>4. d1[x % p] = d[x % p]
    BY <1>2, <1>3, <2>1, <2>2, <2>3, Zenon
  <2>5. QED
    BY <2>4 DEF x
<1>5. [i \in 1 .. n |-> d1[(a + i - 1) % p]] = [i \in 1 .. n |-> d[(a + i - 1) % p]]
  BY <1>4, Zenon
<1>6. QED
  BY <1>5 DEF RingSeq, n, d1

\* Without the element behind which b is, the last is gone.
IsShorter(t, s) == s # <<>> /\ t = SubSeq(s, 1, Len(s) - 1)

\* Back by one from b, the contents lose their last element.
LEMMA RingDrop ==
  ASSUME NEW u, NEW p, NEW a, NEW b, Ring(u, p, a, b), NEW S, NEW d \in [0 .. p - 1 -> S], a # b
  PROVE  IsShorter(RingSeq(d, a, (b + u - 1) % u, u, p), RingSeq(d, a, b, u, p))
<1> DEFINE n == Ahead(a, b, u)
           b1 == (b + u - 1) % u
           s == RingSeq(d, a, b, u, p)
           t == RingSeq(d, a, b1, u, p)
<1>0. /\ u \in Nat \ {0} /\ p \in Nat \ {0} /\ u % p = 0
      /\ a \in 0 .. u - 1 /\ b \in 0 .. u - 1 /\ a # b
  BY DEF Ring
<1>1. n > 0 /\ b1 \in 0 .. u - 1 /\ Ahead(a, b1, u) = n - 1
  BY <1>0, AheadBack
<1>2. n \in Nat /\ s \in Seq(S) /\ Len(s) = n /\ \A i \in 1 .. n : s[i] = d[(a + i - 1) % p]
  <2>1. n \in Nat /\ Holds(s, n, d, a, p, S)
    BY RingIsSeq, Zenon
  <2>2. QED
    BY <2>1 DEF Holds
<1> HIDE DEF b1
<1>3. t \in Seq(S) /\ Len(t) = n - 1 /\ \A i \in 1 .. n - 1 : t[i] = d[(a + i - 1) % p]
  <2>1. Ring(u, p, a, b1)
    BY <1>0, <1>1 DEF Ring
  <2>2. Holds(t, Ahead(a, b1, u), d, a, p, S)
    BY <2>1, RingIsSeq, Zenon
  <2>3. QED
    BY <1>1, <2>2 DEF Holds
<1> HIDE DEF n, s, t
<1>4. s # <<>> /\ t = SubSeq(s, 1, Len(s) - 1)
  <2>1. \A i \in 1 .. n - 1 : t[i] = s[i]
    BY <1>1, <1>2, <1>3
  <2>2. QED
    BY <1>1, <1>2, <1>3, <2>1
<1>5. QED
  BY <1>4 DEF s, t, b1, IsShorter
=============================================================================
