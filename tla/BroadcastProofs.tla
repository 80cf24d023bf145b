--------------------------- MODULE BroadcastProofs ---------------------------
(* Machine-checked proofs about Broadcast, for every value of its constants. *)
EXTENDS Broadcast, SequenceTheorems, WellFoundedInduction, TLAPS

-----------------------------------------------------------------------------
(* Induction: the library's well-foundedness of the natural numbers, for    *)
(* sets.                                                                    *)

\* The pairs in which the first number is the smaller one
Smaller == {p \in Nat \X Nat : p[1] < p[2]}

\* The naturals are well-founded.
LEMMA SmallerWellFounded == IsWellFoundedOn(Smaller, Nat)
  BY NatLessThanWellFounded, ZenonT(40) DEF OpToRel, Smaller

\* Every set of naturals that is not empty has a least element.
LEMMA LeastNumber ==
  ASSUME NEW T, T \subseteq Nat, T # {}
  PROVE  \E x \in T : \A y \in T : x <= y
<1>1. PICK x \in T : \A y \in T : ~(<<y, x>> \in Smaller)
  BY WFMin, SmallerWellFounded
<1>2. ASSUME NEW y \in T PROVE x <= y
  <2>1. x \in Nat /\ y \in Nat /\ ~(<<y, x>> \in Smaller)
    BY <1>1
  <2>2. PICK p : p = <<y, x>>
    OBVIOUS
  <2>3. p \in Nat \X Nat /\ p[1] = y /\ p[2] = x
    BY <2>1, <2>2
  <2>4. y < x => p \in Smaller
    BY <2>3 DEF Smaller
  <2>5. QED BY <2>1, <2>2, <2>4
<1>3. QED BY <1>2

\* A set that has 0, and with every natural the next one, has all of them.
LEMMA Induction ==
  ASSUME NEW S, 0 \in S, \A n \in Nat : n \in S => n + 1 \in S
  PROVE  \A n \in Nat : n \in S
<1> DEFINE T == Nat \ S
<1> SUFFICES ASSUME T # {} PROVE FALSE
  OBVIOUS
<1>1. PICK x \in T : \A y \in T : x <= y
  <2>1. T \subseteq Nat
    OBVIOUS
  <2> HIDE DEF T
  <2>2. QED BY LeastNumber, <2>1
<1>2. x # 0 /\ x - 1 \in Nat
  OBVIOUS
<1>3. x - 1 \in S
  BY <1>1, <1>2
<1>4. QED BY <1>2, <1>3

-----------------------------------------------------------------------------
(* Sequences                                                                *)

\* What a sequence of two has.
LEMMA Concatenated ==
  ASSUME NEW s \in Seq(Nat), NEW t \in Seq(Nat)
  PROVE  /\ s \o t \in Seq(Nat) /\ Len(s \o t) = Len(s) + Len(t)
         /\ \A i \in 1..Len(s) : (s \o t)[i] = s[i]
         /\ \A i \in 1..Len(t) : (s \o t)[Len(s) + i] = t[i]
         /\ \A i \in 1..Len(s \o t) : i \in 1..Len(s) \/ \E j \in 1..Len(t) : i = Len(s) + j
         /\ Elements(s \o t) = Elements(s) \cup Elements(t)
<1>1. PICK l \in Nat, m \in Nat : l = Len(s) /\ m = Len(t)
  OBVIOUS
<1>2. PICK u : u = s \o t
  OBVIOUS
<1>3. /\ u \in Seq(Nat) /\ Len(u) = l + m
      /\ \A i \in 1..l + m : u[i] = IF i <= l THEN s[i] ELSE t[i - l]
  <2>1. /\ s \o t \in Seq(Nat) /\ Len(s \o t) = Len(s) + Len(t)
        /\ \A i \in 1 .. Len(s) + Len(t) :
             (s \o t)[i] = IF i <= Len(s) THEN s[i] ELSE t[i - Len(s)]
    BY ConcatProperties
  <2>2. QED BY <1>1, <1>2, <2>1
<1>4. ASSUME NEW i \in 1..l PROVE u[i] = s[i] /\ i \in 1..l + m
  <2>1. i \in 1..l + m /\ i <= l
    OBVIOUS
  <2>2. QED BY <1>3, <2>1
<1>5. ASSUME NEW i \in 1..m PROVE u[l + i] = t[i] /\ l + i \in 1..l + m
  <2>1. l + i \in 1..l + m /\ ~(l + i <= l) /\ (l + i) - l = i
    OBVIOUS
  <2>2. QED BY <1>3, <2>1
<1>6. ASSUME NEW i \in 1..l + m PROVE i \in 1..l \/ \E j \in 1..m : i = l + j
  <2>1. i \in 1..l \/ (i - l \in 1..m /\ i = l + (i - l))
    OBVIOUS
  <2>2. QED BY <2>1
<1>7. Elements(u) = Elements(s) \cup Elements(t)
  <2>1. /\ \A x : x \in Elements(u) <=> \E i \in 1..l + m : x = u[i]
        /\ \A x : x \in Elements(s) <=> \E i \in 1..l : x = s[i]
        /\ \A x : x \in Elements(t) <=> \E i \in 1..m : x = t[i]
    BY <1>1, <1>3 DEF Elements
  <2>2. ASSUME NEW x \in Elements(u) PROVE x \in Elements(s) \cup Elements(t)
    <3>1. PICK i \in 1..l + m : x = u[i]
      BY <2>1
    <3>2. CASE i \in 1..l
      <4>1. x = s[i]
        BY <1>4, <3>1, <3>2
      <4>2. QED BY <2>1, <3>2, <4>1
    <3>3. ASSUME NEW j \in 1..m, i = l + j PROVE x \in Elements(t)
      <4>1. x = t[j]
        BY <1>5, <3>1, <3>3
      <4>2. QED BY <2>1, <4>1
    <3>4. QED BY <1>6, <3>2, <3>3
  <2>3. ASSUME NEW x \in Elements(s) \cup Elements(t) PROVE x \in Elements(u)
    <3>1. CASE x \in Elements(s)
      <4>1. PICK i \in 1..l : x = s[i]
        BY <2>1, <3>1
      <4>2. QED BY <1>4, <2>1, <4>1
    <3>2. CASE x \in Elements(t)
      <4>1. PICK i \in 1..m : x = t[i]
        BY <2>1, <3>2
      <4>2. QED BY <1>5, <2>1, <4>1
    <3>3. QED BY <3>1, <3>2
  <2>4. QED BY <2>2, <2>3
<1>8. QED BY <1>1, <1>2, <1>3, <1>4, <1>5, <1>6, <1>7

\* Concatenation is associative.
LEMMA Associative ==
  ASSUME NEW s \in Seq(Nat), NEW t \in Seq(Nat), NEW u \in Seq(Nat)
  PROVE  (s \o t) \o u = s \o (t \o u)
BY SMTT(30)

\* One more element.
LEMMA Extended ==
  ASSUME NEW s \in Seq(Nat), NEW n \in Nat
  PROVE  /\ s \o <<n>> \in Seq(Nat) /\ Len(s \o <<n>>) = Len(s) + 1
         /\ \A i \in 1..Len(s) : (s \o <<n>>)[i] = s[i]
         /\ (s \o <<n>>)[Len(s) + 1] = n
         /\ Elements(s \o <<n>>) = Elements(s) \cup {n}
         /\ Append(s, n) = s \o <<n>>
<1>1. PICK t : t = <<n>>
  OBVIOUS
<1>2. t \in Seq(Nat) /\ Len(t) = 1 /\ t[1] = n /\ 1 \in 1..1
  BY <1>1
<1>3. /\ s \o t \in Seq(Nat) /\ Len(s \o t) = Len(s) + Len(t)
      /\ \A i \in 1..Len(s) : (s \o t)[i] = s[i]
      /\ \A i \in 1..Len(t) : (s \o t)[Len(s) + i] = t[i]
      /\ Elements(s \o t) = Elements(s) \cup Elements(t)
  BY <1>2, Concatenated
<1>4. Elements(t) = {n}
  <2>1. \A i \in 1..1 : i = 1
    OBVIOUS
  <2>2. QED BY <1>2, <2>1 DEF Elements
<1>5. Append(s, n) = s \o <<n>>
  BY AppendIsConcat
<1>6. QED BY <1>1, <1>2, <1>3, <1>4, <1>5

-----------------------------------------------------------------------------
(* The ring                                                                 *)

\* The type of a cache
IsCache(c) ==
  /\ c \in [gopNum : Nat, maxFrames : Nat, meta : Nat, vsh : Nat, ash : Nat, first : Nat,
            last : Nat, ring : {c.ring}]
  /\ c.ring \in [0..c.gopNum -> Seq(Nat)]
  /\ c.first \in 0..c.gopNum /\ c.last \in 0..c.gopNum

\* What IsCache says of the fields.
LEMMA CacheFields ==
  ASSUME NEW c, IsCache(c)
  PROVE  /\ c.gopNum \in Nat /\ c.maxFrames \in Nat /\ c.first \in Nat /\ c.last \in Nat
         /\ c.meta \in Nat /\ c.vsh \in Nat /\ c.ash \in Nat
         /\ c.first <= c.gopNum /\ c.last <= c.gopNum
         /\ c.ring \in [0..c.gopNum -> Seq(Nat)]
<1>1. /\ c.gopNum \in Nat /\ c.maxFrames \in Nat /\ c.first \in Nat /\ c.last \in Nat
      /\ c.meta \in Nat /\ c.vsh \in Nat /\ c.ash \in Nat
  BY DEF IsCache
<1>2. c.first <= c.gopNum /\ c.last <= c.gopNum
  BY <1>1 DEF IsCache
<1>3. QED BY <1>1, <1>2 DEF IsCache

\* A number below the divisor is its own remainder, and one less than twice it is that
\* minus the divisor.
LEMMA Remainders ==
  ASSUME NEW x \in Nat, NEW m \in Nat \ {0}
  PROVE  (x < m => x % m = x) /\ (m <= x /\ x < 2 * m => x % m = x - m)
OBVIOUS

\* The number of GOPs, and where in the ring each is.
LEMMA RingPositions ==
  ASSUME NEW c, IsCache(c)
  PROVE  /\ GetGopCount(c) = IF c.first <= c.last THEN c.last - c.first
                             ELSE c.last + c.gopNum + 1 - c.first
         /\ GetGopCount(c) \in 0..c.gopNum
         /\ \A p \in 0..c.gopNum :
              (p + c.first) % GopSize(c) = IF p + c.first <= c.gopNum THEN p + c.first
                                           ELSE p + c.first - c.gopNum - 1
<1>1. PICK g \in Nat, f \in Nat, l \in Nat, m \in Nat \ {0} :
        /\ g = c.gopNum /\ f = c.first /\ l = c.last /\ m = g + 1
        /\ f <= g /\ l <= g
  BY CacheFields
<1>2. GopSize(c) = m
  BY <1>1 DEF GopSize
<1>3. GetGopCount(c) = (l + m - f) % m
  BY <1>1, <1>2 DEF GetGopCount
<1>4. (l + m - f) % m = IF f <= l THEN l - f ELSE l + m - f
  <2>1. PICK x \in Nat : x = l + m - f /\ x < 2 * m
    BY <1>1
  <2>2. (x < m => x % m = x) /\ (m <= x /\ x < 2 * m => x % m = x - m)
    BY Remainders
  <2>3. QED BY <1>1, <2>1, <2>2
<1>5. ASSUME NEW p \in 0..g PROVE (p + f) % m = IF p + f <= g THEN p + f ELSE p + f - g - 1
  <2>1. PICK x \in Nat : x = p + f /\ x < 2 * m
    BY <1>1
  <2>2. (x < m => x % m = x) /\ (m <= x /\ x < 2 * m => x % m = x - m)
    BY Remainders
  <2>3. QED BY <1>1, <2>1, <2>2
<1>6. PICK k \in 0..g : k = GetGopCount(c) /\ k = IF f <= l THEN l - f ELSE l + g + 1 - f
  <2>1. PICK k : k = IF f <= l THEN l - f ELSE l + g + 1 - f
    OBVIOUS
  <2>2. k \in 0..g
    BY <1>1, <2>1
  <2>3. k = GetGopCount(c)
    BY <1>1, <1>3, <1>4, <2>1
  <2>4. QED BY <2>1, <2>2, <2>3
<1>7. \A p \in 0..c.gopNum :
        (p + c.first) % GopSize(c) = IF p + c.first <= c.gopNum THEN p + c.first
                                     ELSE p + c.first - c.gopNum - 1
  BY <1>1, <1>2, <1>5
<1>8. QED BY <1>1, <1>6, <1>7

\* The i-th GOP of a cache
GopAt(c, i) == GetGopDataAt(c, i - 1)

\* It is a sequence.
LEMMA GopAtIs ==
  ASSUME NEW c, IsCache(c), NEW i \in 1..GetGopCount(c)
  PROVE  GopAt(c, i) \in Seq(Nat) /\ i \in 1..c.gopNum
<1>1. PICK g \in Nat, f \in Nat, k \in Nat :
        g = c.gopNum /\ f = c.first /\ f <= g /\ k = GetGopCount(c) /\ k <= g
  BY RingPositions, CacheFields
<1>2. i - 1 \in 0..g /\ i \in 1..g
  BY <1>1
<1>3. (i - 1 + c.first) % GopSize(c) \in 0..g
  <2>1. (i - 1 + c.first) % GopSize(c) =
          IF i - 1 + f <= g THEN i - 1 + f ELSE i - 1 + f - g - 1
    BY <1>1, <1>2, RingPositions
  <2>2. QED BY <1>1, <1>2, <2>1
<1>4. QED BY <1>1, <1>2, <1>3 DEF GopAt, GetGopDataAt, IsCache

\* A new GOP takes the place of the oldest when the ring is full.
LEMMA NewGop ==
  ASSUME NEW c, IsCache(c), c.gopNum # 0, NEW n \in Nat
  PROVE  LET d == FeedNewGop(c, n)
             e == IF GetGopCount(c) = c.gopNum THEN 1 ELSE 0
         IN  /\ IsCache(d) /\ d.gopNum = c.gopNum /\ d.maxFrames = c.maxFrames
             /\ d.meta = c.meta /\ d.vsh = c.vsh /\ d.ash = c.ash
             /\ GetGopCount(d) = GetGopCount(c) + 1 - e
             /\ \A i \in 1..GetGopCount(c) - e : GopAt(d, i) = GopAt(c, i + e)
             /\ GopAt(d, GetGopCount(d)) = <<n>>
<1>1. PICK g \in Nat, f \in Nat, l \in Nat, k \in Nat :
        /\ g = c.gopNum /\ f = c.first /\ l = c.last /\ k = GetGopCount(c)
        /\ f <= g /\ l <= g /\ k <= g /\ g # 0
  <2>1. /\ c.gopNum \in Nat /\ c.first \in Nat /\ c.last \in Nat
        /\ c.first <= c.gopNum /\ c.last <= c.gopNum
    BY CacheFields
  <2>2. GetGopCount(c) \in Nat /\ GetGopCount(c) <= c.gopNum
    BY <2>1, RingPositions
  <2>3. QED BY <2>1, <2>2
<1> DEFINE r == c.ring
<1>2. k = IF f <= l THEN l - f ELSE l + g + 1 - f
  BY <1>1, RingPositions
<1>3. PICK l2 \in Nat : l2 = IF l = g THEN 0 ELSE l + 1
  OBVIOUS
<1>4. (l + 1) % GopSize(c) = l2
  <2>1. PICK x \in Nat, m \in Nat \ {0} : x = l + 1 /\ m = g + 1 /\ x < 2 * m
    BY <1>1
  <2>2. (x < m => x % m = x) /\ (m <= x /\ x < 2 * m => x % m = x - m)
    BY Remainders
  <2>3. QED BY <1>1, <1>3, <2>1, <2>2 DEF GopSize
<1>5. PICK f2 \in Nat : f2 = IF k = g THEN (IF f = g THEN 0 ELSE f + 1) ELSE f
  OBVIOUS
<1>6. (IF IsGopRingFull(c) THEN (f + 1) % GopSize(c) ELSE f) = f2
  <2>1. PICK x \in Nat, m \in Nat \ {0} : x = f + 1 /\ m = g + 1 /\ x < 2 * m
    BY <1>1
  <2>2. (x < m => x % m = x) /\ (m <= x /\ x < 2 * m => x % m = x - m)
    BY Remainders
  <2>3. (f + 1) % GopSize(c) = IF f = g THEN 0 ELSE f + 1
    BY <1>1, <2>1, <2>2 DEF GopSize
  <2>4. IsGopRingFull(c) <=> l2 = f
    BY <1>1, <1>4 DEF IsGopRingFull
  <2>5. l2 = f <=> k = g
    BY <1>1, <1>2, <1>3
  <2>6. QED BY <1>5, <2>3, <2>4, <2>5
<1>7. PICK q : q = [r EXCEPT ![l] = <<n>>]
  OBVIOUS
<1>8. PICK d : d = FeedNewGop(c, n)
  OBVIOUS
<1>9. d = [c EXCEPT !.first = f2, !.ring = q, !.last = l2]
  BY <1>1, <1>4, <1>6, <1>7, <1>8 DEF FeedNewGop, IsCache
<1>10. /\ d.gopNum = g /\ d.maxFrames = c.maxFrames /\ d.meta = c.meta /\ d.vsh = c.vsh
       /\ d.ash = c.ash /\ d.first = f2 /\ d.last = l2 /\ d.ring = q
  BY <1>1, <1>9 DEF IsCache
<1>11. q \in [0..g -> Seq(Nat)] /\ q[l] = <<n>> /\ \A p \in 0..g : p # l => q[p] = r[p]
  <2>1. r \in [0..g -> Seq(Nat)] /\ l \in 0..g /\ <<n>> \in Seq(Nat)
    BY <1>1 DEF IsCache
  <2>2. QED BY <1>7, <2>1
<1>12. f2 \in 0..g /\ l2 \in 0..g
  BY <1>1, <1>3, <1>5
<1>13. IsCache(d)
  <2>1. d \in [gopNum : Nat, maxFrames : Nat, meta : Nat, vsh : Nat, ash : Nat, first : Nat,
               last : Nat, ring : {q}]
    BY <1>9 DEF IsCache
  <2>2. QED BY <1>10, <1>11, <1>12, <2>1 DEF IsCache
<1>14. PICK e \in 0..1 : e = IF k = g THEN 1 ELSE 0
  OBVIOUS
<1>15. GetGopCount(d) = k + 1 - e
  <2>1. GetGopCount(d) = IF f2 <= l2 THEN l2 - f2 ELSE l2 + g + 1 - f2
    BY <1>10, <1>13, RingPositions
  <2>2. QED BY <1>1, <1>2, <1>3, <1>5, <1>14, <2>1
<1>16. \A p \in 0..g : GetGopDataAt(d, p) = q[IF p + f2 <= g THEN p + f2 ELSE p + f2 - g - 1]
  BY <1>10, <1>13, RingPositions DEF GetGopDataAt
<1>17. \A p \in 0..g : GetGopDataAt(c, p) = r[IF p + f <= g THEN p + f ELSE p + f - g - 1]
  BY <1>1, RingPositions DEF GetGopDataAt
<1>18. ASSUME NEW i \in 1..k - e PROVE GopAt(d, i) = GopAt(c, i + e)
  <2>1. PICK p \in 0..g, x \in 0..g : p = i - 1 /\ x = IF p + f2 <= g THEN p + f2 ELSE p + f2 - g - 1
    BY <1>1, <1>12, <1>14
  <2>2. GopAt(d, i) = q[x]
    BY <1>16, <2>1 DEF GopAt
  <2>3. PICK p2 \in 0..g : p2 = (i + e) - 1
    BY <1>1, <1>14
  <2>4. x = IF p2 + f <= g THEN p2 + f ELSE p2 + f - g - 1
    BY <1>1, <1>5, <1>14, <2>1, <2>3
  <2>5. GopAt(c, i + e) = r[x]
    BY <1>17, <2>3, <2>4 DEF GopAt
  <2>6. x # l
    BY <1>1, <1>2, <1>14, <2>1, <2>3, <2>4
  <2>7. QED BY <1>11, <2>1, <2>2, <2>5, <2>6
<1>19. GopAt(d, GetGopCount(d)) = <<n>>
  <2>1. PICK p \in 0..g : p = k + 1 - e - 1
    BY <1>1, <1>14
  <2>2. l = IF p + f2 <= g THEN p + f2 ELSE p + f2 - g - 1
    BY <1>1, <1>2, <1>5, <1>14, <2>1
  <2>3. GopAt(d, k + 1 - e) = q[l]
    BY <1>16, <2>1, <2>2 DEF GopAt
  <2>4. QED BY <1>11, <1>15, <2>3
<1>20. QED BY <1>1, <1>8, <1>10, <1>13, <1>14, <1>15, <1>18, <1>19

\* A frame goes to the last GOP, if there is one and it is not at its limit.
LEMMA LastGop ==
  ASSUME NEW c, IsCache(c), NEW n \in Nat
  PROVE  LET d == FeedLastGop(c, n)
             k == GetGopCount(c)
         IN  /\ IsCache(d) /\ d.gopNum = c.gopNum /\ d.maxFrames = c.maxFrames
             /\ d.meta = c.meta /\ d.vsh = c.vsh /\ d.ash = c.ash
             /\ GetGopCount(d) = k
             /\ \A i \in 1..k - 1 : GopAt(d, i) = GopAt(c, i)
             /\ k # 0 => GopAt(d, k) = IF c.maxFrames = 0 \/ Len(GopAt(c, k)) <= c.maxFrames
                                       THEN Append(GopAt(c, k), n) ELSE GopAt(c, k)
<1>1. PICK g \in Nat, f \in Nat, l \in Nat, k \in Nat :
        /\ g = c.gopNum /\ f = c.first /\ l = c.last /\ k = GetGopCount(c)
        /\ f <= g /\ l <= g /\ k <= g
  BY RingPositions, CacheFields
<1> DEFINE r == c.ring
<1>2. k = IF f <= l THEN l - f ELSE l + g + 1 - f
  BY <1>1, RingPositions
<1>3. IsGopRingEmpty(c) <=> k = 0
  <2>1. IsGopRingEmpty(c) <=> f = l
    BY <1>1 DEF IsGopRingEmpty
  <2>2. QED BY <1>1, <1>2, <2>1
<1>4. PICK x \in 0..g : x = IF l = 0 THEN g ELSE l - 1
  BY <1>1
<1>5. (l + GopSize(c) - 1) % GopSize(c) = x
  <2>1. PICK y \in Nat, m \in Nat \ {0} : y = l + m - 1 /\ m = g + 1 /\ y < 2 * m
    <3>1. l + (g + 1) - 1 \in Nat /\ g + 1 \in Nat \ {0} /\ l + (g + 1) - 1 < 2 * (g + 1)
      BY <1>1
    <3>2. QED BY <3>1
  <2>2. (y < m => y % m = y) /\ (m <= y /\ y < 2 * m => y % m = y - m)
    BY Remainders
  <2>3. QED BY <1>1, <1>4, <2>1, <2>2 DEF GopSize
<1>6. \A p \in 0..g : GetGopDataAt(c, p) = r[IF p + f <= g THEN p + f ELSE p + f - g - 1]
  BY <1>1, RingPositions DEF GetGopDataAt
<1>7. k # 0 => GopAt(c, k) = r[x]
  <2> SUFFICES ASSUME k # 0 PROVE GopAt(c, k) = r[x]
    OBVIOUS
  <2>1. PICK p \in 0..g : p = k - 1
    BY <1>1
  <2>2. x = IF p + f <= g THEN p + f ELSE p + f - g - 1
    BY <1>1, <1>2, <1>4, <2>1
  <2>3. QED BY <1>6, <2>1, <2>2 DEF GopAt
<1>8. PICK d : d = FeedLastGop(c, n)
  OBVIOUS
<1>9. CASE k = 0 \/ ~(c.maxFrames = 0 \/ Len(r[x]) <= c.maxFrames)
  <2>1. d = c
    BY <1>1, <1>3, <1>5, <1>8, <1>9 DEF FeedLastGop
  <2>2. QED BY <1>1, <1>7, <1>8, <1>9, <2>1
<1>10. CASE k # 0 /\ (c.maxFrames = 0 \/ Len(r[x]) <= c.maxFrames)
  <2>1. PICK q : q = [r EXCEPT ![x] = Append(r[x], n)]
    OBVIOUS
  <2>2. d = [c EXCEPT !.ring = q]
    BY <1>1, <1>3, <1>5, <1>8, <1>10, <2>1 DEF FeedLastGop, IsCache
  <2>3. /\ d.gopNum = g /\ d.maxFrames = c.maxFrames /\ d.meta = c.meta /\ d.vsh = c.vsh
        /\ d.ash = c.ash /\ d.first = f /\ d.last = l /\ d.ring = q
    BY <1>1, <2>2 DEF IsCache
  <2>4. q \in [0..g -> Seq(Nat)] /\ q[x] = Append(r[x], n) /\ \A p \in 0..g : p # x => q[p] = r[p]
    <3>1. r \in [0..g -> Seq(Nat)]
      BY <1>1 DEF IsCache
    <3>2. Append(r[x], n) \in Seq(Nat)
      BY <3>1
    <3>3. QED BY <2>1, <3>1, <3>2
  <2>5. IsCache(d)
    <3>1. d \in [gopNum : Nat, maxFrames : Nat, meta : Nat, vsh : Nat, ash : Nat, first : Nat,
                 last : Nat, ring : {q}]
      BY <2>2 DEF IsCache
    <3>2. QED BY <1>1, <2>3, <2>4, <3>1 DEF IsCache
  <2>6. GetGopCount(d) = k
    BY <1>1, <2>3, <2>5, RingPositions
  <2>7. \A p \in 0..g : GetGopDataAt(d, p) = q[IF p + f <= g THEN p + f ELSE p + f - g - 1]
    BY <2>3, <2>5, RingPositions DEF GetGopDataAt
  <2>8. ASSUME NEW i \in 1..k - 1 PROVE GopAt(d, i) = GopAt(c, i)
    <3>1. PICK p \in 0..g, y \in 0..g : p = i - 1 /\ y = IF p + f <= g THEN p + f ELSE p + f - g - 1
      BY <1>1
    <3>2. GopAt(d, i) = q[y] /\ GopAt(c, i) = r[y]
      BY <1>6, <2>7, <3>1 DEF GopAt
    <3>3. y # x
      BY <1>1, <1>2, <1>4, <3>1
    <3>4. QED BY <2>4, <3>1, <3>2, <3>3
  <2>9. GopAt(d, k) = Append(r[x], n)
    <3>1. PICK p \in 0..g : p = k - 1
      BY <1>1, <1>10
    <3>2. x = IF p + f <= g THEN p + f ELSE p + f - g - 1
      <4>1. k # 0
        BY <1>10
      <4>2. QED BY <1>1, <1>2, <1>4, <3>1, <4>1
    <3>3. GopAt(d, k) = q[x]
      BY <2>7, <3>1, <3>2 DEF GopAt
    <3>4. QED BY <2>4, <3>3
  <2>10. QED BY <1>1, <1>7, <1>8, <1>10, <2>3, <2>5, <2>6, <2>8, <2>9
<1>11. QED BY <1>9, <1>10

-----------------------------------------------------------------------------
(* What the cache holds, for the positions S of the key frames and F of all *)
(* frames                                                                   *)

\* The GOP from n
GopOf(S, F, n) == {m \in F : n <= m /\ \A k \in S : ~(n < k /\ k <= m)}

\* s is the GOP G up to the limit x.
Holds(s, G, x) ==
  /\ s # <<>> /\ Ascending(s) /\ Elements(s) \subseteq G
  /\ x # 0 => Len(s) <= x + 1
  /\ \A m \in G : m \notin Elements(s) => x # 0 /\ Len(s) = x + 1 /\ s[Len(s)] < m

\* c holds the most recent GOPs.
Recent(c, S, F) ==
  /\ \A i \in 1..GetGopCount(c) :
       /\ GopAt(c, i)[1] \in S
       /\ Holds(GopAt(c, i), GopOf(S, F, GopAt(c, i)[1]), c.maxFrames)
  /\ \A i, j \in 1..GetGopCount(c) : i < j => GopAt(c, i)[1] < GopAt(c, j)[1]
  /\ \A n \in S : \/ \E i \in 1..GetGopCount(c) : GopAt(c, i)[1] = n
                  \/ /\ GetGopCount(c) = c.gopNum
                     /\ \A i \in 1..GetGopCount(c) : n < GopAt(c, i)[1]

\* The GOPs and the limits of a cache are all that Recent looks at.
LEMMA SameGops ==
  ASSUME NEW c, NEW d, NEW S, NEW F, Recent(c, S, F),
         GetGopCount(d) = GetGopCount(c), d.gopNum = c.gopNum, d.maxFrames = c.maxFrames,
         \A i \in 1..GetGopCount(c) : GopAt(d, i) = GopAt(c, i)
  PROVE  Recent(d, S, F)
BY DEF Recent

\* A key frame begins a GOP.
LEMMA KeyFed ==
  ASSUME NEW c, IsCache(c), c.gopNum # 0, NEW l \in Nat, NEW S, NEW F,
         S \subseteq F, F \subseteq 1..l, Recent(c, S, F)
  PROVE  Recent(FeedNewGop(c, l + 1), S \cup {l + 1}, F \cup {l + 1})
<1>1. PICK n \in Nat : n = l + 1
  OBVIOUS
<1>2. PICK d : d = FeedNewGop(c, n)
  OBVIOUS
<1>3. PICK k \in Nat, g \in Nat, x \in Nat :
        k = GetGopCount(c) /\ g = c.gopNum /\ x = c.maxFrames /\ k <= g
  <2>1. c.gopNum \in Nat /\ c.maxFrames \in Nat
    BY CacheFields
  <2>2. GetGopCount(c) \in Nat /\ GetGopCount(c) <= c.gopNum
    BY <2>1, RingPositions
  <2>3. QED BY <2>1, <2>2
<1>4. PICK e \in 0..1 : e = IF k = g THEN 1 ELSE 0
  OBVIOUS
<1>5. /\ d.gopNum = g /\ d.maxFrames = x
      /\ GetGopCount(d) = k + 1 - e
      /\ \A i \in 1..k - e : GopAt(d, i) = GopAt(c, i + e)
      /\ GopAt(d, k + 1 - e) = <<n>>
  BY <1>1, <1>2, <1>3, <1>4, NewGop
<1>6. PICK k2 \in Nat : k2 = k + 1 - e /\ k2 <= g /\ k2 # 0
  BY <1>3, <1>4
<1>7. /\ GetGopCount(d) = k2 /\ GopAt(d, k2) = <<n>> /\ GopAt(d, k2)[1] = n
      /\ \A i \in 1..k2 : i # k2 => i + e \in 1..k /\ GopAt(d, i) = GopAt(c, i + e)
  <2>1. GetGopCount(d) = k2 /\ GopAt(d, k2) = <<n>> /\ GopAt(d, k2)[1] = n
    BY <1>5, <1>6
  <2>2. ASSUME NEW i \in 1..k2, i # k2 PROVE i + e \in 1..k /\ GopAt(d, i) = GopAt(c, i + e)
    <3>1. i \in 1..k - e /\ i + e \in 1..k
      BY <1>4, <1>6, <2>2
    <3>2. QED BY <1>5, <3>1
  <2>3. QED BY <2>1, <2>2
<1>8. \A i \in 1..k : GopAt(c, i)[1] \in S /\ GopAt(c, i)[1] \in Nat /\ GopAt(c, i)[1] < n
  <2>1. \A y \in S : y \in Nat /\ y < n
    BY <1>1
  <2>2. QED BY <1>3, <2>1 DEF Recent
<1> DEFINE S2 == S \cup {n}
           F2 == F \cup {n}
<1>9. ASSUME NEW y \in S PROVE GopOf(S2, F2, y) = GopOf(S, F, y)
  <2>1. y \in Nat /\ y < n
    BY <1>1
  <2>2. n \notin GopOf(S2, F2, y)
    BY <2>1 DEF GopOf
  <2>3. \A m \in F : m \in Nat /\ ~(n <= m)
    BY <1>1
  <2>4. \A m \in F : m \in GopOf(S2, F2, y) <=> m \in GopOf(S, F, y)
    BY <2>3 DEF GopOf
  <2>5. QED BY <2>2, <2>4 DEF GopOf
<1>10. GopOf(S2, F2, n) = {n}
  <2>1. \A m \in F : m \in Nat /\ ~(n <= m)
    BY <1>1
  <2>2. \A k3 \in S : k3 \in Nat /\ ~(n < k3)
    BY <1>1
  <2>3. \A k3 \in S2 : ~(n < k3)
    BY <2>2
  <2>4. \A m \in F2 : n <= m <=> m = n
    BY <2>1
  <2>5. \A m : m \in GopOf(S2, F2, n) <=> m = n
    BY <2>3, <2>4 DEF GopOf
  <2>6. QED BY <2>5
<1>11. Holds(<<n>>, {n}, x)
  <2>1. Elements(<<n>>) = {n}
    <3>1. \A i \in 1..1 : i = 1
      OBVIOUS
    <3>2. QED BY <3>1 DEF Elements
  <2>2. Ascending(<<n>>)
    BY DEF Ascending
  <2>3. QED BY <2>1, <2>2 DEF Holds
<1>12. ASSUME NEW i \in 1..k2
       PROVE  /\ GopAt(d, i)[1] \in S2
              /\ Holds(GopAt(d, i), GopOf(S2, F2, GopAt(d, i)[1]), x)
  <2>1. CASE i = k2
    BY <1>7, <1>10, <1>11, <2>1
  <2>2. CASE i # k2
    <3>1. i + e \in 1..k /\ GopAt(d, i) = GopAt(c, i + e)
      BY <1>7, <2>2
    <3>2. /\ GopAt(c, i + e)[1] \in S
          /\ Holds(GopAt(c, i + e), GopOf(S, F, GopAt(c, i + e)[1]), x)
      BY <1>3, <3>1 DEF Recent
    <3>3. QED BY <1>9, <3>1, <3>2
  <2>3. QED BY <2>1, <2>2
<1>13. ASSUME NEW i \in 1..k2, NEW j \in 1..k2, i < j
       PROVE  GopAt(d, i)[1] < GopAt(d, j)[1]
  <2>1. i # k2 /\ i + e \in 1..k /\ GopAt(d, i) = GopAt(c, i + e)
    <3>1. i # k2
      BY <1>13
    <3>2. QED BY <1>7, <3>1
  <2>2. CASE j = k2
    BY <1>7, <1>8, <2>1, <2>2
  <2>3. CASE j # k2
    <3>1. j + e \in 1..k /\ GopAt(d, j) = GopAt(c, j + e)
      BY <1>7, <2>3
    <3>2. i + e < j + e
      BY <1>13
    <3>3. QED BY <1>3, <2>1, <3>1, <3>2 DEF Recent
  <2>4. QED BY <2>2, <2>3
<1>14. ASSUME NEW y \in S2
       PROVE  \/ \E i \in 1..k2 : GopAt(d, i)[1] = y
              \/ k2 = g /\ \A i \in 1..k2 : y < GopAt(d, i)[1]
  <2>1. CASE y = n
    <3>1. k2 \in 1..k2
      BY <1>6
    <3>2. QED BY <1>7, <2>1, <3>1
  <2>2. CASE y \in S /\ \E i \in 1..k : GopAt(c, i)[1] = y
    <3>1. PICK i \in 1..k : GopAt(c, i)[1] = y
      BY <2>2
    <3>2. CASE i - e \in 1..k2 /\ i - e # k2
      <4>1. (i - e) + e = i
        BY <3>2
      <4>2. GopAt(d, i - e) = GopAt(c, i)
        BY <1>7, <3>2, <4>1
      <4>3. QED BY <3>1, <3>2, <4>2
    <3>3. CASE i = 1 /\ e = 1
      <4>1. k2 = g
        BY <1>4, <1>6, <3>3
      <4>2. ASSUME NEW j \in 1..k2 PROVE y < GopAt(d, j)[1]
        <5>1. CASE j = k2
          BY <1>7, <1>8, <3>1, <5>1
        <5>2. CASE j # k2
          <6>1. j + e \in 1..k /\ GopAt(d, j) = GopAt(c, j + e) /\ i < j + e
            BY <1>7, <3>3, <5>2
          <6>2. QED BY <1>3, <3>1, <6>1 DEF Recent
        <5>3. QED BY <5>1, <5>2
      <4>3. QED BY <4>1, <4>2
    <3>4. QED BY <1>4, <1>6, <3>2, <3>3
  <2>3. CASE y \in S /\ k = g /\ \A i \in 1..k : y < GopAt(c, i)[1]
    <3>1. k2 = g
      BY <1>4, <1>6, <2>3
    <3>2. ASSUME NEW j \in 1..k2 PROVE y < GopAt(d, j)[1]
      <4>1. CASE j = k2
        BY <1>1, <1>7, <2>3, <4>1
      <4>2. CASE j # k2
        BY <1>7, <2>3, <4>2
      <4>3. QED BY <4>1, <4>2
    <3>3. QED BY <3>1, <3>2
  <2>4. y \in S => \/ \E i \in 1..k : GopAt(c, i)[1] = y
                   \/ k = g /\ \A i \in 1..k : y < GopAt(c, i)[1]
    BY <1>3 DEF Recent
  <2>5. QED BY <2>1, <2>2, <2>3, <2>4
<1>15. Recent(d, S2, F2)
  BY <1>5, <1>7, <1>12, <1>13, <1>14 DEF Recent
<1>16. QED BY <1>1, <1>2, <1>15

\* A sequence that one more and greater number follows.
LEMMA AscendingExtended ==
  ASSUME NEW s \in Seq(Nat), Ascending(s), NEW n \in Nat, \A y \in Elements(s) : y < n
  PROVE  Ascending(s \o <<n>>)
<1>1. PICK l \in Nat : l = Len(s)
  OBVIOUS
<1>2. PICK t : t = s \o <<n>>
  OBVIOUS
<1>3. Len(t) = l + 1 /\ (\A i \in 1..l : t[i] = s[i]) /\ t[l + 1] = n
  BY <1>1, <1>2, Extended
<1>4. ASSUME NEW i \in 1..l + 1, NEW j \in 1..l + 1, i < j PROVE t[i] < t[j]
  <2>1. i \in 1..l /\ t[i] = s[i]
    <3>1. i \in 1..l
      BY <1>4
    <3>2. QED BY <1>3, <3>1
  <2>2. CASE j = l + 1
    <3>1. s[i] \in Elements(s)
      BY <1>1, <2>1 DEF Elements
    <3>2. QED BY <1>3, <2>1, <2>2, <3>1
  <2>3. CASE j \in 1..l
    <3>1. s[i] < s[j]
      BY <1>1, <1>4, <2>1, <2>3 DEF Ascending
    <3>2. QED BY <1>3, <2>1, <2>3, <3>1
  <2>4. QED BY <2>2, <2>3
<1>5. QED BY <1>2, <1>3, <1>4 DEF Ascending

\* The last GOP gets one more frame, or is at its limit.
LEMMA HoldsMore ==
  ASSUME NEW s \in Seq(Nat), NEW G, NEW n \in Nat, NEW x \in Nat, Holds(s, G, x),
         \A m \in G : m \in Nat /\ m < n
  PROVE  Holds(IF x = 0 \/ Len(s) <= x THEN Append(s, n) ELSE s, G \cup {n}, x)
<1>1. PICK l \in Nat : l = Len(s) /\ l # 0 /\ s[l] \in Elements(s)
  <2>1. Len(s) \in Nat /\ Len(s) # 0
    BY EmptySeq DEF Holds
  <2>2. Len(s) \in 1..Len(s)
    BY <2>1
  <2>3. QED BY <2>1, <2>2 DEF Elements
<1>2. \A y \in Elements(s) : y \in Nat /\ y < n
  BY DEF Holds
<1>3. CASE x = 0 \/ l <= x
  <2>1. PICK t : t = s \o <<n>>
    OBVIOUS
  <2>2. Append(s, n) = t /\ Len(t) = l + 1 /\ Elements(t) = Elements(s) \cup {n} /\ t \in Seq(Nat)
    BY <1>1, <2>1, Extended
  <2>3. Ascending(t)
    BY <1>2, <2>1, AscendingExtended DEF Holds
  <2>4. t # <<>>
    <3>1. Len(t) # 0
      BY <1>1, <2>2
    <3>2. QED BY <2>2, <3>1, EmptySeq
  <2>5. \A m \in G : m \in Elements(s)
    <3>1. \A m \in G : m \notin Elements(s) => x # 0 /\ l = x + 1
      BY <1>1 DEF Holds
    <3>2. QED BY <1>1, <1>3, <3>1
  <2>6. x # 0 => Len(t) <= x + 1
    BY <1>1, <1>3, <2>2
  <2>7. Elements(t) \subseteq G \cup {n}
    BY <2>2 DEF Holds
  <2>8. Holds(t, G \cup {n}, x)
    BY <2>2, <2>3, <2>4, <2>5, <2>6, <2>7 DEF Holds
  <2>9. QED BY <1>1, <1>3, <2>2, <2>8
<1>4. CASE ~(x = 0 \/ l <= x)
  <2>1. l = x + 1
    <3>1. l <= x + 1
      BY <1>1, <1>4 DEF Holds
    <3>2. QED BY <1>1, <1>4, <3>1
  <2>2. s[l] < n
    BY <1>1, <1>2
  <2>3. Holds(s, G \cup {n}, x)
    BY <1>1, <1>4, <2>1, <2>2 DEF Holds
  <2>4. QED BY <1>1, <1>4, <2>3
<1>5. QED BY <1>3, <1>4

\* Any other frame belongs to the GOP that began last.
LEMMA FrameFed ==
  ASSUME NEW c, IsCache(c), NEW l \in Nat, NEW S, NEW F,
         S \subseteq F, F \subseteq 1..l, Recent(c, S, F)
  PROVE  Recent(FeedLastGop(c, l + 1), S, F \cup {l + 1})
<1>1. PICK n \in Nat : n = l + 1
  OBVIOUS
<1>2. PICK d : d = FeedLastGop(c, n)
  OBVIOUS
<1>3. PICK k \in Nat, g \in Nat, x \in Nat :
        k = GetGopCount(c) /\ g = c.gopNum /\ x = c.maxFrames /\ k <= g
  <2>1. c.gopNum \in Nat /\ c.maxFrames \in Nat
    BY CacheFields
  <2>2. GetGopCount(c) \in Nat /\ GetGopCount(c) <= c.gopNum
    BY <2>1, RingPositions
  <2>3. QED BY <2>1, <2>2
<1>4. /\ d.gopNum = g /\ d.maxFrames = x /\ GetGopCount(d) = k
      /\ \A i \in 1..k - 1 : GopAt(d, i) = GopAt(c, i)
      /\ k # 0 => GopAt(d, k) = IF x = 0 \/ Len(GopAt(c, k)) <= x
                                THEN Append(GopAt(c, k), n) ELSE GopAt(c, k)
  BY <1>1, <1>2, <1>3, LastGop
<1>5. \A y \in F : y \in Nat /\ y < n
  BY <1>1
<1>6. \A i \in 1..k : /\ GopAt(c, i) \in Seq(Nat) /\ GopAt(c, i) # <<>>
                      /\ GopAt(c, i)[1] \in S /\ GopAt(c, i)[1] \in Nat /\ GopAt(c, i)[1] < n
  <2>1. \A i \in 1..k : GopAt(c, i) \in Seq(Nat)
    BY <1>3, GopAtIs
  <2>2. QED BY <1>3, <1>5, <2>1 DEF Recent, Holds
<1>7. \A i \in 1..k : GopAt(d, i)[1] = GopAt(c, i)[1]
  <2> SUFFICES ASSUME NEW i \in 1..k PROVE GopAt(d, i)[1] = GopAt(c, i)[1]
    OBVIOUS
  <2>1. CASE i # k
    <3>1. i \in 1..k - 1
      BY <2>1
    <3>2. QED BY <1>4, <3>1
  <2>2. CASE i = k
    <3>1. PICK s \in Seq(Nat) : s = GopAt(c, k) /\ s # <<>>
      BY <1>6, <2>2
    <3>2. Append(s, n)[1] = s[1]
      <4>1. Len(s) \in Nat /\ Len(s) # 0
        BY <3>1, EmptySeq
      <4>2. 1 \in 1..Len(s)
        BY <4>1
      <4>3. QED BY <1>1, <4>2, Extended
    <3>3. k # 0
      BY <2>2
    <3>4. QED BY <1>4, <2>2, <3>1, <3>2, <3>3
  <2>3. QED BY <2>1, <2>2
<1> DEFINE F2 == F \cup {n}
<1>8. ASSUME NEW i \in 1..k PROVE Holds(GopAt(d, i), GopOf(S, F2, GopAt(d, i)[1]), x)
  <2>1. PICK y \in S : y = GopAt(c, i)[1] /\ y = GopAt(d, i)[1] /\ y \in Nat /\ y < n
    BY <1>6, <1>7
  <2>2. Holds(GopAt(c, i), GopOf(S, F, y), x)
    BY <1>3, <2>1 DEF Recent
  <2>3. CASE i # k
    <3>1. i \in 1..k - 1 /\ k \in 1..k /\ i < k
      BY <2>3
    <3>2. PICK z \in S : z = GopAt(c, k)[1] /\ z \in Nat /\ z < n /\ y < z
      BY <1>3, <1>6, <2>1, <3>1, ZenonT(40) DEF Recent
    <3>3. n \notin GopOf(S, F2, y)
      BY <3>2 DEF GopOf
    <3>4. GopOf(S, F2, y) = GopOf(S, F, y)
      BY <3>3 DEF GopOf
    <3>5. QED BY <1>4, <2>1, <2>2, <3>1, <3>4
  <2>4. CASE i = k
    <3>1. \A z \in S : ~(y < z)
      <4> SUFFICES ASSUME NEW z \in S, y < z PROVE FALSE
        OBVIOUS
      <4>1. z \in Nat
        BY <1>5
      <4>2. ~ \A j \in 1..k : z < GopAt(c, j)[1]
        <5>1. ~(z < GopAt(c, i)[1])
          BY <2>1, <4>1
        <5>2. QED BY <5>1
      <4>3. PICK j \in 1..k : GopAt(c, j)[1] = z
        BY <1>3, <4>2 DEF Recent
      <4>4. j # k /\ j < k
        <5>1. j = i => y = z
          BY <2>1, <4>3
        <5>2. y # z
          BY <2>1, <4>1
        <5>3. QED BY <2>4, <5>1, <5>2
      <4>5. GopAt(c, j)[1] < GopAt(c, i)[1]
        BY <1>3, <2>4, <4>4 DEF Recent
      <4>6. QED BY <2>1, <4>1, <4>3, <4>5
    <3>2. GopOf(S, F2, y) = GopOf(S, F, y) \cup {n}
      <4>1. n \in GopOf(S, F2, y)
        BY <2>1, <3>1 DEF GopOf
      <4>2. QED BY <4>1 DEF GopOf
    <3>3. \A m \in GopOf(S, F, y) : m \in Nat /\ m < n
      BY <1>5 DEF GopOf
    <3>4. PICK s \in Seq(Nat) : s = GopAt(c, i)
      BY <1>6
    <3>5. Holds(IF x = 0 \/ Len(s) <= x THEN Append(s, n) ELSE s, GopOf(S, F, y) \cup {n}, x)
      BY <2>2, <3>3, <3>4, HoldsMore
    <3>6. k # 0
      BY <2>4
    <3>7. QED BY <1>4, <2>1, <2>4, <3>2, <3>4, <3>5, <3>6
  <2>5. QED BY <2>3, <2>4
<1>9. \A i \in 1..k : GopAt(d, i)[1] \in S
  BY <1>6, <1>7
<1>10. \A i, j \in 1..k : i < j => GopAt(d, i)[1] < GopAt(d, j)[1]
  BY <1>3, <1>7 DEF Recent
<1>11. \A y \in S : \/ \E i \in 1..k : GopAt(d, i)[1] = y
                    \/ k = g /\ \A i \in 1..k : y < GopAt(d, i)[1]
  <2> SUFFICES ASSUME NEW y \in S
               PROVE  \/ \E i \in 1..k : GopAt(d, i)[1] = y
                      \/ k = g /\ \A i \in 1..k : y < GopAt(d, i)[1]
    OBVIOUS
  <2>1. \/ \E i \in 1..k : GopAt(c, i)[1] = y
        \/ k = g /\ \A i \in 1..k : y < GopAt(c, i)[1]
    BY <1>3 DEF Recent
  <2>2. QED BY <1>7, <2>1
<1>12. Recent(d, S, F2)
  BY <1>4, <1>8, <1>9, <1>10, <1>11 DEF Recent
<1>13. QED BY <1>1, <1>2, <1>12

-----------------------------------------------------------------------------
(* The cached GOPs one after the other                                      *)

\* An ascending sequence and one that begins above it.
LEMMA AscendingConcatenated ==
  ASSUME NEW s \in Seq(Nat), NEW t \in Seq(Nat), Ascending(s), Ascending(t),
         \A x \in Elements(s), y \in Elements(t) : x < y
  PROVE  Ascending(s \o t)
<1>1. PICK l \in Nat, m \in Nat : l = Len(s) /\ m = Len(t)
  OBVIOUS
<1>2. PICK u : u = s \o t
  OBVIOUS
<1>3. /\ Len(u) = l + m
      /\ \A i \in 1..l : u[i] = s[i]
      /\ \A i \in 1..m : u[l + i] = t[i]
      /\ \A i \in 1..l + m : i \in 1..l \/ \E j \in 1..m : i = l + j
  <2>1. /\ s \o t \in Seq(Nat) /\ Len(s \o t) = Len(s) + Len(t)
        /\ \A i \in 1..Len(s) : (s \o t)[i] = s[i]
        /\ \A i \in 1..Len(t) : (s \o t)[Len(s) + i] = t[i]
        /\ \A i \in 1..Len(s \o t) : i \in 1..Len(s) \/ \E j \in 1..Len(t) : i = Len(s) + j
    BY Concatenated
  <2>2. QED BY <1>1, <1>2, <2>1
<1>4. ASSUME NEW i \in 1..l + m, NEW j \in 1..l + m, i < j PROVE u[i] < u[j]
  <2>1. CASE i \in 1..l /\ j \in 1..l
    BY <1>1, <1>3, <1>4, <2>1 DEF Ascending
  <2>2. CASE i \in 1..l /\ \E b \in 1..m : j = l + b
    <3>1. PICK b \in 1..m : j = l + b
      BY <2>2
    <3>2. s[i] \in Elements(s) /\ t[b] \in Elements(t)
      BY <1>1, <2>2 DEF Elements
    <3>3. u[i] = s[i] /\ u[j] = t[b]
      BY <1>3, <2>2, <3>1
    <3>4. QED BY <3>2, <3>3
  <2>3. CASE \E a \in 1..m : i = l + a
    <3>1. PICK a \in 1..m : i = l + a
      BY <2>3
    <3>2. j \notin 1..l
      BY <1>4, <3>1
    <3>3. PICK b \in 1..m : j = l + b
      BY <1>3, <3>2
    <3>4. a < b
      BY <1>4, <3>1, <3>3
    <3>5. u[i] = t[a] /\ u[j] = t[b]
      BY <1>3, <3>1, <3>3
    <3>6. QED BY <1>1, <3>4, <3>5 DEF Ascending
  <2>4. QED BY <1>3, <2>1, <2>2, <2>3
<1>5. QED BY <1>2, <1>3, <1>4 DEF Ascending

\* The sequences that FlattenSeq goes through can be had, however many.
LEMMA FlattenExists ==
  ASSUME NEW q, NEW m \in Nat
  PROVE  \E f : f = [i \in 1..m |-> IF i = 1 THEN q[i] ELSE f[i - 1] \o q[i]]
<1> DEFINE S == {k \in Nat : \E f : f = [i \in 1..k |-> IF i = 1 THEN q[i] ELSE f[i - 1] \o q[i]]}
<1>1. 0 \in S
  <2>1. PICK f : f = [i \in 1..0 |-> q[i]]
    OBVIOUS
  <2>2. f = [i \in 1..0 |-> IF i = 1 THEN q[i] ELSE f[i - 1] \o q[i]]
    <3>1. \A i \in 1..0 : FALSE
      OBVIOUS
    <3>2. QED BY <2>1, <3>1
  <2>3. QED BY <2>2
<1>2. ASSUME NEW k \in Nat, k \in S PROVE k + 1 \in S
  <2>1. PICK f : f = [i \in 1..k |-> IF i = 1 THEN q[i] ELSE f[i - 1] \o q[i]]
    BY <1>2
  <2>2. PICK h : h = IF k = 0 THEN q[1] ELSE f[k] \o q[k + 1]
    OBVIOUS
  <2>3. PICK g : g = [i \in 1..k + 1 |-> IF i = k + 1 THEN h ELSE f[i]]
    OBVIOUS
  <2>4. ASSUME NEW i \in 1..k + 1 PROVE g[i] = IF i = 1 THEN q[i] ELSE g[i - 1] \o q[i]
    <3>1. CASE i = k + 1 /\ k = 0
      BY <2>2, <2>3, <3>1
    <3>2. CASE i = k + 1 /\ k # 0
      <4>1. i # 1 /\ i - 1 = k /\ k \in 1..k + 1 /\ k # k + 1
        BY <3>2
      <4>2. g[i] = f[k] \o q[k + 1] /\ g[k] = f[k]
        BY <2>2, <2>3, <3>2, <4>1
      <4>3. QED BY <3>2, <4>1, <4>2
    <3>3. CASE i # k + 1 /\ i # 1
      <4>1. i \in 1..k /\ i - 1 \in 1..k + 1 /\ i - 1 # k + 1
        BY <3>3
      <4>2. g[i] = f[i] /\ g[i - 1] = f[i - 1]
        BY <2>3, <3>3, <4>1
      <4>3. f[i] = f[i - 1] \o q[i]
        BY <2>1, <3>3, <4>1
      <4>4. QED BY <3>3, <4>2, <4>3
    <3>4. CASE i # k + 1 /\ i = 1
      <4>1. i \in 1..k
        BY <3>4
      <4>2. g[i] = f[i] /\ f[i] = q[i]
        BY <2>1, <2>3, <3>4, <4>1
      <4>3. QED BY <3>4, <4>2
    <3>5. QED BY <3>1, <3>2, <3>3, <3>4
  <2>5. g = [i \in 1..k + 1 |-> IF i = 1 THEN q[i] ELSE g[i - 1] \o q[i]]
    <3>1. PICK h2 : h2 = [i \in 1..k + 1 |-> IF i = 1 THEN q[i] ELSE g[i - 1] \o q[i]]
      OBVIOUS
    <3>2. \A i \in 1..k + 1 : g[i] = h2[i]
      BY <2>4, <3>1
    <3>3. g = h2
      BY <2>3, <3>1, <3>2
    <3>4. QED BY <3>1, <3>3
  <2>6. \E f2 : f2 = [i \in 1..k + 1 |-> IF i = 1 THEN q[i] ELSE f2[i - 1] \o q[i]]
    BY <2>5
  <2>7. k + 1 \in Nat
    OBVIOUS
  <2>8. QED BY <2>6, <2>7
<1>3. \A k \in Nat : k \in S
  <2> HIDE DEF S
  <2>1. QED BY <1>1, <1>2, Induction
<1>4. QED BY <1>3

\* f is the first k sequences of q, one after the other.
Joined(f, q, k) ==
  /\ f \in Seq(Nat) /\ Ascending(f) /\ f[1] = q[1][1] /\ Len(f) # 0
  /\ \A x : x \in Elements(f) <=> \E i \in 1..k : x \in Elements(q[i])

\* Sequences in ascending order make an ascending sequence.
LEMMA Flattened ==
  ASSUME NEW k \in Nat, k # 0, NEW q \in Seq(Seq(Nat)), Len(q) = k,
         \A i \in 1..k : q[i] # <<>> /\ Ascending(q[i]),
         \A i, j \in 1..k : i < j => \A x \in Elements(q[i]), y \in Elements(q[j]) : x < y
  PROVE  Joined(FlattenSeq(q), q, k)
<1> DEFINE f == CHOOSE f : f = [i \in 1..k |-> IF i = 1 THEN q[i] ELSE f[i - 1] \o q[i]]
<1>1. FlattenSeq(q) = f[k]
  BY DEF FlattenSeq
<1>2. f = [i \in 1..k |-> IF i = 1 THEN q[i] ELSE f[i - 1] \o q[i]]
  BY FlattenExists
<1> HIDE DEF f
<1>3. \A i \in 1..k : q[i] \in Seq(Nat) /\ Len(q[i]) \in Nat /\ Len(q[i]) # 0
  <2>1. \A i \in 1..k : q[i] \in Seq(Nat)
    BY ElementOfSeq
  <2>2. QED BY <2>1, EmptySeq
<1> DEFINE S == {n \in Nat : n + 1 \in 1..k => Joined(f[n + 1], q, n + 1)}
<1>4. 0 \in S
  <2>1. 1 \in 1..k /\ f[1] = q[1]
    <3>1. 1 \in 1..k
      OBVIOUS
    <3>2. QED BY <1>2, <3>1
  <2>2. \A i \in 1..1 : i = 1
    OBVIOUS
  <2>3. \A x : x \in Elements(f[1]) <=> \E i \in 1..1 : x \in Elements(q[i])
    BY <2>1, <2>2
  <2>4. Joined(f[1], q, 1)
    BY <1>3, <2>1, <2>3 DEF Joined
  <2>5. QED BY <2>4
<1>5. ASSUME NEW n \in Nat, n \in S PROVE n + 1 \in S
  <2> SUFFICES ASSUME n + 2 \in 1..k PROVE Joined(f[n + 2], q, n + 2)
    <3>1. (n + 1) + 1 = n + 2
      OBVIOUS
    <3>2. QED BY <3>1
  <2>1. PICK a \in 1..k, b \in 1..k : a = n + 1 /\ b = n + 2 /\ a = b - 1 /\ b # 1 /\ a < b
    OBVIOUS
  <2>2. Joined(f[a], q, a)
    BY <1>5, <2>1
  <2>3. f[b] = f[a] \o q[b]
    BY <1>2, <2>1
  <2>4. PICK s \in Seq(Nat), t \in Seq(Nat) :
          /\ s = f[a] /\ t = q[b] /\ Ascending(s) /\ Ascending(t) /\ s[1] = q[1][1]
          /\ Len(s) \in Nat /\ Len(s) # 0
    <3>1. PICK s, t : s = f[a] /\ t = q[b]
      OBVIOUS
    <3>2. Joined(s, q, a)
      BY <2>2, <3>1
    <3>3. s \in Seq(Nat) /\ Ascending(s) /\ s[1] = q[1][1] /\ Len(s) # 0
      BY <3>2 DEF Joined
    <3>4. t \in Seq(Nat) /\ Ascending(t)
      BY <1>3, <2>1, <3>1
    <3>5. Len(s) \in Nat
      BY <3>3, LenProperties
    <3>6. QED BY <3>1, <3>3, <3>4, <3>5
  <2>5. \A x : x \in Elements(s) <=> \E i \in 1..a : x \in Elements(q[i])
    BY <2>2, <2>4 DEF Joined
  <2>6. \A x \in Elements(s), y \in Elements(t) : x < y
    <3>1. \A i \in 1..a : i \in 1..k /\ i < b
      BY <2>1
    <3>2. ASSUME NEW x \in Elements(s), NEW y \in Elements(t) PROVE x < y
      <4>1. PICK i \in 1..a : x \in Elements(q[i])
        BY <2>5
      <4>2. i \in 1..k /\ i < b /\ y \in Elements(q[b])
        BY <2>4, <3>1
      <4>3. QED BY <2>1, <4>1, <4>2
    <3>3. QED BY <3>2
  <2>7. Ascending(s \o t)
    BY <2>4, <2>6, AscendingConcatenated
  <2>8. /\ s \o t \in Seq(Nat) /\ Len(s \o t) = Len(s) + Len(t)
        /\ \A i \in 1..Len(s) : (s \o t)[i] = s[i]
        /\ Elements(s \o t) = Elements(s) \cup Elements(t)
    BY Concatenated
  <2>9. (s \o t)[1] = q[1][1] /\ Len(s \o t) # 0
    <3>1. 1 \in 1..Len(s) /\ Len(t) \in Nat
      <4>1. PICK l \in Nat : l = Len(s) /\ l # 0
        BY <2>4
      <4>2. 1 \in 1..l
        BY <4>1
      <4>3. QED BY <4>1, <4>2, LenProperties
    <3>2. QED BY <2>4, <2>8, <3>1
  <2>10. \A x : x \in Elements(s \o t) <=> \E i \in 1..b : x \in Elements(q[i])
    <3>1. a \in Nat /\ b = a + 1
      BY <2>1
    <3>2. \A i \in 1..a + 1 : i \in 1..a \/ i = a + 1
      BY <3>1
    <3>3. (\A i \in 1..a : i \in 1..a + 1) /\ a + 1 \in 1..a + 1
      BY <3>1
    <3>4. \A i : i \in 1..b <=> i \in 1..a \/ i = b
      BY <3>1, <3>2, <3>3
    <3>5. QED BY <2>4, <2>5, <2>8, <3>4
  <2>11. QED BY <2>1, <2>3, <2>4, <2>7, <2>8, <2>9, <2>10 DEF Joined
<1>6. \A n \in Nat : n \in S
  <2> HIDE DEF S
  <2>1. QED BY <1>4, <1>5, Induction
<1>7. Joined(f[k], q, k)
  <2>1. k - 1 \in Nat /\ (k - 1) + 1 = k /\ k \in 1..k
    OBVIOUS
  <2>2. QED BY <1>6, <2>1
<1>8. QED BY <1>1, <1>7

\* A frame after a cached GOP began belongs to a cached GOP.
LEMMA FrameHasGop ==
  ASSUME NEW c, IsCache(c), NEW S, NEW F, F \subseteq Nat, S \subseteq F, Recent(c, S, F),
         NEW y \in F, NEW i \in 1..GetGopCount(c), GopAt(c, i)[1] <= y
  PROVE  \E j \in 1..GetGopCount(c) : y \in GopOf(S, F, GopAt(c, j)[1])
<1>1. PICK k \in Nat : k = GetGopCount(c)
  <2>1. c.gopNum \in Nat
    BY CacheFields
  <2>2. QED BY <2>1, RingPositions
<1>2. \A j \in 1..k : GopAt(c, j)[1] \in S /\ GopAt(c, j)[1] \in Nat
  BY <1>1 DEF Recent
<1>3. y \in Nat /\ i \in 1..k
  BY <1>1
<1> DEFINE T == {d \in Nat : d < k /\ GopAt(c, k - d)[1] <= y}
<1>4. T \subseteq Nat /\ T # {}
  <2>1. k - i \in Nat /\ k - i < k /\ k - (k - i) = i
    BY <1>3
  <2>2. k - i \in T
    BY <1>3, <2>1
  <2>3. QED BY <2>2
<1>5. PICK d \in T : \A z \in T : d <= z
  <2> HIDE DEF T
  <2>1. QED BY <1>4, LeastNumber
<1>6. PICK j \in 1..k : j = k - d /\ GopAt(c, j)[1] <= y
  BY <1>5
<1>7. ASSUME NEW t \in S, GopAt(c, j)[1] < t, t <= y PROVE FALSE
  <2>1. t \in Nat /\ GopAt(c, j)[1] \in Nat
    BY <1>2
  <2>2. ~(t < GopAt(c, j)[1])
    BY <1>7, <2>1
  <2>3. PICK j2 \in 1..k : GopAt(c, j2)[1] = t
    BY <1>1, <2>2 DEF Recent
  <2>4. ~(j2 < j) /\ j2 # j
    <3>1. j2 < j => t < GopAt(c, j)[1]
      BY <1>1, <2>3 DEF Recent
    <3>2. j2 = j => GopAt(c, j)[1] = t
      BY <2>3
    <3>3. GopAt(c, j)[1] # t
      BY <1>7, <2>1
    <3>4. QED BY <2>2, <3>1, <3>2, <3>3
  <2>5. k - j2 \in Nat /\ k - j2 < k /\ k - (k - j2) = j2 /\ k - j2 < d
    BY <1>6, <2>4
  <2>6. k - j2 \in T
    BY <1>7, <2>3, <2>5
  <2>7. d <= k - j2
    <3> HIDE DEF T
    <3>1. QED BY <1>5, <2>6
  <2>8. QED BY <1>5, <2>5, <2>7
<1>8. y \in GopOf(S, F, GopAt(c, j)[1])
  BY <1>6, <1>7 DEF GopOf
<1>9. QED BY <1>1, <1>8

\* What the cached GOPs are as one sequence: frames from a key frame on, in order,
\* and every one unless a limit is set.
CachedWell(t, k, x, S, F) ==
  /\ t \in Seq(Nat) /\ Ascending(t) /\ Elements(t) \subseteq F
  /\ k = 0 => t = <<>>
  /\ k # 0 => Len(t) # 0 /\ t[1] \in S
  /\ \A y \in Elements(t) : \E z \in S : z <= y
  /\ x = 0 => \A y \in Elements(t), z \in F : y < z => z \in Elements(t)

\* They are so.
LEMMA CachedGopsAre ==
  ASSUME NEW c, IsCache(c), NEW S, NEW F, F \subseteq Nat, S \subseteq F, Recent(c, S, F)
  PROVE  CachedWell(CachedGops(c), GetGopCount(c), c.maxFrames, S, F)
<1>1. PICK k \in Nat : k = GetGopCount(c)
  <2>1. c.gopNum \in Nat
    BY CacheFields
  <2>2. QED BY <2>1, RingPositions
<1>2. PICK q : q = [i \in 1..k |-> GopAt(c, i)]
  OBVIOUS
<1>3. CachedGops(c) = FlattenSeq(q)
  BY <1>1, <1>2 DEF CachedGops, GopAt
<1>4. \A i \in 1..k : q[i] = GopAt(c, i) /\ q[i] \in Seq(Nat)
  <2>1. \A i \in 1..k : GopAt(c, i) \in Seq(Nat)
    BY <1>1, GopAtIs
  <2>2. QED BY <1>2, <2>1
<1>5. q \in Seq(Seq(Nat)) /\ Len(q) = k
  <2>1. q \in [1..k -> Seq(Nat)]
    BY <1>2, <1>4
  <2>2. QED BY <2>1
<1>6. CASE k = 0
  <2>1. q = <<>>
    BY <1>5, <1>6, EmptySeq
  <2>2. CachedGops(c) = <<>>
    BY <1>3, <1>5, <1>6, <2>1 DEF FlattenSeq
  <2>3. Elements(<<>>) = {} /\ Ascending(<<>>)
    BY DEF Elements, Ascending
  <2>4. QED BY <1>1, <1>6, <2>2, <2>3 DEF CachedWell
<1>7. CASE k # 0
  <2>1. \A i \in 1..k : /\ q[i][1] \in S /\ q[i][1] \in Nat
                        /\ Holds(q[i], GopOf(S, F, q[i][1]), c.maxFrames)
    BY <1>1, <1>4 DEF Recent
  <2>2. \A i, j \in 1..k : i < j => q[i][1] < q[j][1]
    BY <1>1, <1>4 DEF Recent
  <2>3. \A i \in 1..k : q[i] # <<>> /\ Ascending(q[i]) /\ Elements(q[i]) \subseteq GopOf(S, F, q[i][1])
    BY <2>1 DEF Holds
  <2>4. ASSUME NEW i \in 1..k, NEW j \in 1..k, i < j, NEW x \in Elements(q[i]), NEW y \in Elements(q[j])
        PROVE  x < y
    <3>1. x \in GopOf(S, F, q[i][1]) /\ y \in GopOf(S, F, q[j][1])
      BY <2>3
    <3>2. q[j][1] \in S /\ q[j][1] \in Nat /\ q[i][1] < q[j][1] /\ x \in Nat /\ y \in Nat
      BY <2>1, <2>2, <2>4, <3>1 DEF GopOf
    <3>3. ~(q[j][1] <= x) /\ q[j][1] <= y
      BY <3>1, <3>2 DEF GopOf
    <3>4. QED BY <3>2, <3>3
  <2>5. PICK t : t = FlattenSeq(q)
    OBVIOUS
  <2>6. Joined(t, q, k)
    BY <1>5, <1>7, <2>3, <2>4, <2>5, Flattened
  <2>7. t \in Seq(Nat) /\ Ascending(t) /\ Len(t) # 0 /\ t[1] \in S
    <3>1. 1 \in 1..k
      BY <1>7
    <3>2. QED BY <2>1, <2>6, <3>1 DEF Joined
  <2>8. \A y : y \in Elements(t) <=> \E i \in 1..k : y \in Elements(q[i])
    BY <2>6 DEF Joined
  <2>9. ASSUME NEW y \in Elements(t) PROVE y \in F /\ \E z \in S : z <= y
    <3>1. PICK i \in 1..k : y \in Elements(q[i])
      BY <2>8
    <3>2. y \in GopOf(S, F, q[i][1])
      BY <2>3, <3>1
    <3>3. QED BY <2>1, <3>2 DEF GopOf
  <2>10. ASSUME c.maxFrames = 0, NEW y \in Elements(t), NEW z \in F, y < z PROVE z \in Elements(t)
    <3>1. PICK i \in 1..k : y \in Elements(q[i])
      BY <2>8
    <3>2. y \in GopOf(S, F, q[i][1])
      BY <2>3, <3>1
    <3>3. q[i][1] <= y /\ y \in Nat /\ z \in Nat /\ q[i][1] \in Nat
      BY <2>1, <3>2 DEF GopOf
    <3>4. GopAt(c, i)[1] <= z
      <4>1. q[i][1] <= z
        BY <2>10, <3>3
      <4>2. QED BY <1>4, <4>1
    <3>5. PICK j \in 1..k : z \in GopOf(S, F, q[j][1])
      <4>1. i \in 1..GetGopCount(c)
        BY <1>1
      <4>2. \E j \in 1..GetGopCount(c) : z \in GopOf(S, F, GopAt(c, j)[1])
        BY <3>4, <4>1, FrameHasGop
      <4>3. QED BY <1>1, <1>4, <4>2
    <3>6. z \in Elements(q[j])
      BY <2>1, <2>10, <3>5 DEF Holds
    <3>7. QED BY <2>8, <3>6
  <2>11. CachedWell(t, k, c.maxFrames, S, F)
    BY <1>7, <2>7, <2>9, <2>10 DEF CachedWell
  <2>12. QED BY <1>1, <1>3, <2>5, <2>11
<1>8. QED BY <1>6, <1>7

-----------------------------------------------------------------------------
(* What a session is sent, for the positions F of the frames, V of the      *)
(* video frames and K of the key frames                                     *)

\* Each frame once and in order, and none left out after the first
UnbrokenIn(q, F) ==
  /\ \A i, j \in 1..Len(q) : i < j /\ q[i] \in F /\ q[j] \in F => q[i] < q[j]
  /\ \A x \in Elements(q), y \in F : x \in F /\ x < y => y \in Elements(q)

\* No video before a key frame
KeyFirst(q, V, K) == \A i \in 1..Len(q) : q[i] \in V => \E j \in 1..i : q[j] \in K

\* No video frame of h before a sequence header of its publisher
Headed(q, h) ==
  \A i \in 1..Len(q) :
    h[q[i]].type \in {"key", "inter"} =>
      \E j \in 1..(i - 1) : h[q[j]].type = "vsh" /\ h[q[j]].pub = h[q[i]].pub

\* The next message leaves no gap.
LEMMA UnbrokenMore ==
  ASSUME NEW l \in Nat, NEW q \in Seq(Nat), NEW F, NEW F2, Elements(q) \subseteq 1..l,
         F \subseteq 1..l, F \subseteq F2, F2 \subseteq F \cup {l + 1}, UnbrokenIn(q, F)
  PROVE  UnbrokenIn(q \o <<l + 1>>, F2)
<1>1. PICK n \in Nat : n = l + 1
  OBVIOUS
<1>2. PICK k \in Nat : k = Len(q)
  OBVIOUS
<1>3. PICK t : t = q \o <<n>>
  OBVIOUS
<1>4. /\ Len(t) = k + 1 /\ (\A i \in 1..k : t[i] = q[i]) /\ t[k + 1] = n
      /\ Elements(t) = Elements(q) \cup {n}
  BY <1>2, <1>3, Extended
<1>5. \A x \in Elements(q) : x \in Nat /\ x < n
  BY <1>1
<1>6. ASSUME NEW i \in 1..k + 1, NEW j \in 1..k + 1, i < j, t[i] \in F2, t[j] \in F2
      PROVE  t[i] < t[j]
  <2>1. i \in 1..k /\ t[i] = q[i] /\ q[i] \in Elements(q)
    <3>1. i \in 1..k
      BY <1>6
    <3>2. QED BY <1>2, <1>4, <3>1 DEF Elements
  <2>2. CASE j = k + 1
    BY <1>4, <1>5, <2>1, <2>2
  <2>3. CASE j \in 1..k
    <3>1. t[j] = q[j] /\ q[j] \in Elements(q)
      BY <1>2, <1>4, <2>3 DEF Elements
    <3>2. q[i] \in F /\ q[j] \in F
      BY <1>1, <1>5, <1>6, <2>1, <3>1
    <3>3. QED BY <1>2, <1>6, <2>1, <2>3, <3>1, <3>2 DEF UnbrokenIn
  <2>4. QED BY <2>2, <2>3
<1>7. ASSUME NEW x \in Elements(t), NEW y \in F2, x \in F2, x < y PROVE y \in Elements(t)
  <2>1. CASE y = n
    BY <1>4, <2>1
  <2>2. CASE y # n
    <3>1. y \in F /\ y \in Nat /\ y < n
      BY <1>1, <2>2
    <3>2. x # n
      BY <1>7, <3>1
    <3>3. x \in Elements(q) /\ x \in F
      <4>1. x \in Elements(q)
        BY <1>4, <3>2
      <4>2. QED BY <1>1, <1>7, <3>2, <4>1
    <3>4. y \in Elements(q)
      BY <1>7, <3>1, <3>3 DEF UnbrokenIn
    <3>5. QED BY <1>4, <3>4
  <2>3. QED BY <2>1, <2>2
<1>8. UnbrokenIn(t, F2)
  BY <1>4, <1>6, <1>7 DEF UnbrokenIn
<1>9. QED BY <1>1, <1>3, <1>8

\* Headers may come first.
LEMMA UnbrokenAfter ==
  ASSUME NEW s \in Seq(Nat), NEW t \in Seq(Nat), NEW F, Elements(s) \cap F = {}, Ascending(t),
         \A y \in Elements(t), z \in F : y < z => z \in Elements(t)
  PROVE  UnbrokenIn(s \o t, F)
<1>1. PICK l \in Nat, m \in Nat : l = Len(s) /\ m = Len(t)
  OBVIOUS
<1>2. PICK u : u = s \o t
  OBVIOUS
<1>3. /\ Len(u) = l + m
      /\ \A i \in 1..l : u[i] = s[i]
      /\ \A i \in 1..m : u[l + i] = t[i]
      /\ \A i \in 1..l + m : i \in 1..l \/ \E j \in 1..m : i = l + j
      /\ Elements(u) = Elements(s) \cup Elements(t)
  <2>1. /\ s \o t \in Seq(Nat) /\ Len(s \o t) = Len(s) + Len(t)
        /\ \A i \in 1..Len(s) : (s \o t)[i] = s[i]
        /\ \A i \in 1..Len(t) : (s \o t)[Len(s) + i] = t[i]
        /\ \A i \in 1..Len(s \o t) : i \in 1..Len(s) \/ \E j \in 1..Len(t) : i = Len(s) + j
        /\ Elements(s \o t) = Elements(s) \cup Elements(t)
    BY Concatenated
  <2>2. QED BY <1>1, <1>2, <2>1
<1>4. \A i \in 1..l : u[i] \notin F
  BY <1>1, <1>3 DEF Elements
<1>5. ASSUME NEW i \in 1..l + m, NEW j \in 1..l + m, i < j, u[i] \in F, u[j] \in F
      PROVE  u[i] < u[j]
  <2>1. PICK a \in 1..m, b \in 1..m : i = l + a /\ j = l + b
    BY <1>3, <1>4, <1>5
  <2>2. a < b
    BY <1>5, <2>1
  <2>3. u[i] = t[a] /\ u[j] = t[b]
    BY <1>3, <2>1
  <2>4. QED BY <1>1, <2>2, <2>3 DEF Ascending
<1>6. \A x \in Elements(u), y \in F : x \in F /\ x < y => y \in Elements(u)
  BY <1>3
<1>7. QED BY <1>2, <1>3, <1>5, <1>6 DEF UnbrokenIn

\* Headers alone leave no gap.
LEMMA UnbrokenHeaders ==
  ASSUME NEW s \in Seq(Nat), NEW F, Elements(s) \cap F = {}
  PROVE  UnbrokenIn(s, F)
<1>1. \A i \in 1..Len(s) : s[i] \notin F
  BY DEF Elements
<1>2. QED BY <1>1 DEF UnbrokenIn

\* The next message comes after a key frame.
LEMMA KeyFirstMore ==
  ASSUME NEW q \in Seq(Nat), NEW n \in Nat, NEW V, NEW V2, NEW K, NEW K2,
         V2 \subseteq V \cup {n}, K \subseteq K2, K2 \subseteq K \cup {n},
         n \notin Elements(q),
         KeyFirst(q, V, K), n \in K2 \/ (K # {} => K \cap Elements(q) # {}),
         n \in V2 => n \in K2 \/ K # {}
  PROVE  KeyFirst(q \o <<n>>, V2, K2) /\ (K2 # {} => K2 \cap Elements(q \o <<n>>) # {})
<1>1. PICK k \in Nat : k = Len(q)
  OBVIOUS
<1>2. PICK t : t = q \o <<n>>
  OBVIOUS
<1>3. /\ Len(t) = k + 1 /\ (\A i \in 1..k : t[i] = q[i]) /\ t[k + 1] = n
      /\ Elements(t) = Elements(q) \cup {n}
  BY <1>1, <1>2, Extended
<1>4. ASSUME NEW i \in 1..k + 1, t[i] \in V2 PROVE \E j \in 1..i : t[j] \in K2
  <2>1. CASE i \in 1..k
    <3>1. t[i] = q[i] /\ q[i] \in Elements(q)
      BY <1>1, <1>3, <2>1 DEF Elements
    <3>2. q[i] \in V
      BY <1>4, <3>1
    <3>3. PICK j \in 1..i : q[j] \in K
      BY <1>1, <2>1, <3>2 DEF KeyFirst
    <3>4. j \in 1..k
      BY <2>1
    <3>5. t[j] \in K2
      BY <1>3, <3>3, <3>4
    <3>6. QED BY <3>5
  <2>2. CASE i = k + 1 /\ n \in K2
    <3>1. i \in 1..i
      OBVIOUS
    <3>2. QED BY <1>3, <2>2, <3>1
  <2>3. CASE i = k + 1 /\ n \notin K2
    <3>1. PICK x \in K : x \in Elements(q)
      BY <1>3, <1>4, <2>3
    <3>2. PICK j \in 1..k : x = q[j]
      BY <1>1, <3>1 DEF Elements
    <3>3. j \in 1..i /\ t[j] \in K2
      BY <1>3, <2>3, <3>1, <3>2
    <3>4. QED BY <3>3
  <2>4. QED BY <1>3, <1>4, <2>1, <2>2, <2>3
<1>5. KeyFirst(t, V2, K2)
  BY <1>3, <1>4 DEF KeyFirst
<1>6. K2 # {} => K2 \cap Elements(t) # {}
  <2>1. n \in Elements(t) /\ Elements(q) \subseteq Elements(t)
    BY <1>3
  <2>2. QED BY <2>1
<1>7. QED BY <1>2, <1>5, <1>6

\* Headers, then a sequence that begins with a key frame.
LEMMA KeyFirstAfter ==
  ASSUME NEW s \in Seq(Nat), NEW t \in Seq(Nat), NEW V, NEW K, Elements(s) \cap V = {},
         Len(t) # 0 => t[1] \in K
  PROVE  /\ KeyFirst(s \o t, V, K)
         /\ Len(t) # 0 => K \cap Elements(s \o t) # {}
<1>1. PICK l \in Nat, m \in Nat : l = Len(s) /\ m = Len(t)
  OBVIOUS
<1>2. PICK u : u = s \o t
  OBVIOUS
<1>3. /\ Len(u) = l + m
      /\ \A i \in 1..l : u[i] = s[i]
      /\ \A i \in 1..m : u[l + i] = t[i]
      /\ \A i \in 1..l + m : i \in 1..l \/ \E j \in 1..m : i = l + j
      /\ Elements(u) = Elements(s) \cup Elements(t)
  <2>1. /\ s \o t \in Seq(Nat) /\ Len(s \o t) = Len(s) + Len(t)
        /\ \A i \in 1..Len(s) : (s \o t)[i] = s[i]
        /\ \A i \in 1..Len(t) : (s \o t)[Len(s) + i] = t[i]
        /\ \A i \in 1..Len(s \o t) : i \in 1..Len(s) \/ \E j \in 1..Len(t) : i = Len(s) + j
        /\ Elements(s \o t) = Elements(s) \cup Elements(t)
    BY Concatenated
  <2>2. QED BY <1>1, <1>2, <2>1
<1>4. \A i \in 1..l : u[i] \notin V
  BY <1>1, <1>3 DEF Elements
<1>5. ASSUME NEW i \in 1..l + m, u[i] \in V PROVE \E j \in 1..i : u[j] \in K
  <2>1. PICK a \in 1..m : i = l + a
    BY <1>3, <1>4, <1>5
  <2>2. l + 1 \in 1..i /\ 1 \in 1..m /\ m # 0
    BY <2>1
  <2>3. u[l + 1] = t[1]
    BY <1>3, <2>2
  <2>4. u[l + 1] \in K
    BY <1>1, <2>2, <2>3
  <2>5. QED BY <2>2, <2>4
<1>6. ASSUME m # 0 PROVE K \cap Elements(u) # {}
  <2>1. 1 \in 1..m
    BY <1>6
  <2>2. t[1] \in Elements(t) /\ t[1] \in K
    BY <1>1, <1>6, <2>1 DEF Elements
  <2>3. QED BY <1>3, <2>2
<1>7. KeyFirst(u, V, K)
  BY <1>3, <1>5 DEF KeyFirst
<1>8. QED BY <1>1, <1>2, <1>6, <1>7

\* What was sent of what is due is the beginning of it.
LEMMA KeyFirstSent ==
  ASSUME NEW s \in Seq(Nat), NEW t \in Seq(Nat), NEW V, NEW K, KeyFirst(s \o t, V, K)
  PROVE  KeyFirst(s, V, K)
<1>1. PICK l \in Nat, m \in Nat : l = Len(s) /\ m = Len(t)
  OBVIOUS
<1>2. PICK u : u = s \o t
  OBVIOUS
<1>3. Len(u) = l + m /\ \A i \in 1..l : u[i] = s[i]
  <2>1. /\ s \o t \in Seq(Nat) /\ Len(s \o t) = Len(s) + Len(t)
        /\ \A i \in 1..Len(s) : (s \o t)[i] = s[i]
    BY Concatenated
  <2>2. QED BY <1>1, <1>2, <2>1
<1>4. ASSUME NEW i \in 1..l, s[i] \in V PROVE \E j \in 1..i : s[j] \in K
  <2>1. i \in 1..l + m /\ u[i] \in V
    BY <1>3, <1>4
  <2>2. PICK j \in 1..i : u[j] \in K
    BY <1>2, <1>3, <2>1 DEF KeyFirst
  <2>3. j \in 1..l
    OBVIOUS
  <2>4. QED BY <1>3, <2>2, <2>3
<1>5. QED BY <1>1, <1>4 DEF KeyFirst

\* The next message comes after the header it needs.
LEMMA HeadedMore ==
  ASSUME NEW q \in Seq(Nat), NEW n \in Nat, NEW h, NEW h2, \A x \in Elements(q) : h2[x] = h[x],
         Headed(q, h),
         h2[n].type \in {"key", "inter"} =>
           \E x \in Elements(q) : h2[x].type = "vsh" /\ h2[x].pub = h2[n].pub
  PROVE  Headed(q \o <<n>>, h2)
<1>1. PICK k \in Nat : k = Len(q)
  OBVIOUS
<1>2. PICK t : t = q \o <<n>>
  OBVIOUS
<1>3. Len(t) = k + 1 /\ (\A i \in 1..k : t[i] = q[i]) /\ t[k + 1] = n
  BY <1>1, <1>2, Extended
<1>4. \A i \in 1..k : h2[t[i]] = h[q[i]]
  BY <1>1, <1>3 DEF Elements
<1>5. ASSUME NEW i \in 1..k + 1, h2[t[i]].type \in {"key", "inter"}
      PROVE  \E j \in 1..(i - 1) : h2[t[j]].type = "vsh" /\ h2[t[j]].pub = h2[t[i]].pub
  <2>1. CASE i \in 1..k
    <3>1. h[q[i]].type \in {"key", "inter"} /\ h2[t[i]] = h[q[i]]
      BY <1>4, <1>5, <2>1
    <3>2. PICK j \in 1..(i - 1) : h[q[j]].type = "vsh" /\ h[q[j]].pub = h[q[i]].pub
      BY <1>1, <2>1, <3>1 DEF Headed
    <3>3. j \in 1..k
      BY <2>1
    <3>4. h2[t[j]] = h[q[j]]
      BY <1>4, <3>3
    <3>5. QED BY <3>1, <3>2, <3>4
  <2>2. CASE i = k + 1
    <3>1. PICK x \in Elements(q) : h2[x].type = "vsh" /\ h2[x].pub = h2[n].pub
      BY <1>3, <1>5, <2>2
    <3>2. PICK j \in 1..k : x = q[j]
      BY <1>1 DEF Elements
    <3>3. j \in 1..(i - 1) /\ t[j] = x /\ t[i] = n
      BY <1>3, <2>2, <3>2
    <3>4. QED BY <3>1, <3>3
  <2>3. QED BY <2>1, <2>2
<1>6. QED BY <1>2, <1>3, <1>5 DEF Headed

\* Headers, then frames of one publisher.
LEMMA HeadedAfter ==
  ASSUME NEW s \in Seq(Nat), NEW t \in Seq(Nat), NEW h, NEW p,
         \A x \in Elements(s) : h[x].type \notin {"key", "inter"},
         \A x \in Elements(t) : h[x].pub = p,
         Len(t) # 0 => \E x \in Elements(s) : h[x].type = "vsh" /\ h[x].pub = p
  PROVE  Headed(s \o t, h)
<1>1. PICK l \in Nat, m \in Nat : l = Len(s) /\ m = Len(t)
  OBVIOUS
<1>2. PICK u : u = s \o t
  OBVIOUS
<1>3. /\ Len(u) = l + m
      /\ \A i \in 1..l : u[i] = s[i]
      /\ \A i \in 1..m : u[l + i] = t[i]
      /\ \A i \in 1..l + m : i \in 1..l \/ \E j \in 1..m : i = l + j
  <2>1. /\ s \o t \in Seq(Nat) /\ Len(s \o t) = Len(s) + Len(t)
        /\ \A i \in 1..Len(s) : (s \o t)[i] = s[i]
        /\ \A i \in 1..Len(t) : (s \o t)[Len(s) + i] = t[i]
        /\ \A i \in 1..Len(s \o t) : i \in 1..Len(s) \/ \E j \in 1..Len(t) : i = Len(s) + j
    BY Concatenated
  <2>2. QED BY <1>1, <1>2, <2>1
<1>4. \A i \in 1..l : h[u[i]].type \notin {"key", "inter"}
  BY <1>1, <1>3 DEF Elements
<1>5. ASSUME NEW i \in 1..l + m, h[u[i]].type \in {"key", "inter"}
      PROVE  \E j \in 1..(i - 1) : h[u[j]].type = "vsh" /\ h[u[j]].pub = h[u[i]].pub
  <2>1. PICK a \in 1..m : i = l + a
    BY <1>3, <1>4, <1>5
  <2>2. u[i] = t[a] /\ t[a] \in Elements(t) /\ m # 0
    <3>1. m # 0
      BY <2>1
    <3>2. t[a] \in Elements(t)
      BY <1>1 DEF Elements
    <3>3. QED BY <1>3, <2>1, <3>1, <3>2
  <2>3. PICK x \in Elements(s) : h[x].type = "vsh" /\ h[x].pub = p
    BY <1>1, <2>2
  <2>4. PICK j \in 1..l : x = s[j]
    BY <1>1 DEF Elements
  <2>5. j \in 1..(i - 1) /\ u[j] = x
    BY <1>3, <2>1, <2>4
  <2>6. QED BY <2>2, <2>3, <2>5
<1>6. QED BY <1>2, <1>3, <1>5 DEF Headed

-----------------------------------------------------------------------------
(* The history                                                              *)

\* The types of messages
AllTypes == HeaderTypes \cup {"key", "inter", "audio"}

\* One message
Message(type, p) == [type |-> type, pub |-> p]

\* A history with one message more, and its position
With(h, type, p) == Append(h, Message(type, p))
Latest(h) == Len(h) + 1

\* The positions in h of the frames, the video frames, the key frames
FramesOf(h) == {i \in 1..Len(h) : h[i].type \notin HeaderTypes}
VideosOf(h) == {i \in 1..Len(h) : h[i].type \in {"key", "inter"}}
KeysOf(h) == {i \in 1..Len(h) : h[i].type = "key"}

\* The positions in h of the key frames and of the sequence headers of publisher p
StartsOf(h, p) == {i \in 1..Len(h) : h[i] = Message("key", p)}
HeadersOf(h, p) == {i \in 1..Len(h) : h[i] = Message("vsh", p)}

\* The publishers come one after the other and are well formed.
HistOk(h, p) ==
  /\ h \in Seq([type : AllTypes, pub : Nat]) /\ p \in Nat
  /\ \A i, j \in 1..Len(h) : i <= j => h[i].pub <= h[j].pub
  /\ \A i \in 1..Len(h) : h[i].pub <= p
  /\ \A i \in 1..Len(h) : h[i].type = "key" => HeadersOf(h, h[i].pub) # {}
  /\ \A i \in 1..Len(h) : h[i].type = "inter" => StartsOf(h, h[i].pub) # {}

\* A well formed publisher p may send the type after h.
MayFollow(type, h, p) ==
  /\ type = "key" => HeadersOf(h, p) # {}
  /\ type = "inter" => StartsOf(h, p) # {}

\* The fields of a message.
LEMMA MessageIs ==
  ASSUME NEW type \in AllTypes, NEW p \in Nat
  PROVE  /\ Message(type, p) \in [type : AllTypes, pub : Nat]
         /\ Message(type, p).type = type /\ Message(type, p).pub = p
BY DEF Message

\* A message is known by its fields.
LEMMA MessageOf ==
  ASSUME NEW r \in [type : AllTypes, pub : Nat], NEW type, NEW p
  PROVE  r = Message(type, p) <=> r.type = type /\ r.pub = p
BY DEF Message

\* h2 is h and the message n.
Follows(h2, n, h, type, p) ==
  /\ Len(h) \in Nat /\ n \in Nat /\ n = Len(h) + 1 /\ p \in Nat /\ Len(h2) = n
  /\ h2 \in Seq([type : AllTypes, pub : Nat])
  /\ \A i \in 1..n : h2[i] \in [type : AllTypes, pub : Nat]
  /\ \A i \in 1..Len(h) : h2[i] = h[i] /\ h[i] \in [type : AllTypes, pub : Nat] /\ i \in 1..n
  /\ h2[n] = Message(type, p) /\ h2[n].type = type /\ h2[n].pub = p
  /\ \A i \in 1..n : i \in 1..Len(h) \/ i = n
  /\ n \in 1..n /\ n \notin 1..Len(h)

\* One more message
LEMMA AppendedIs ==
  ASSUME NEW h, NEW p, HistOk(h, p), NEW type \in AllTypes
  PROVE  Follows(With(h, type, p), Latest(h), h, type, p)
<1> DEFINE h2 == With(h, type, p)
           n == Latest(h)
<1>1. h \in Seq([type : AllTypes, pub : Nat]) /\ p \in Nat
  BY DEF HistOk
<1>2. PICK r \in [type : AllTypes, pub : Nat] : r = Message(type, p) /\ r.type = type /\ r.pub = p
  BY <1>1, MessageIs
<1>3. PICK l \in Nat : l = Len(h) /\ n = l + 1
  BY <1>1 DEF Latest
<1>4. /\ h2 \in Seq([type : AllTypes, pub : Nat]) /\ Len(h2) = l + 1
      /\ (\A i \in 1..l : h2[i] = h[i]) /\ h2[l + 1] = r
  <2>1. /\ Append(h, r) \in Seq([type : AllTypes, pub : Nat])
        /\ Len(Append(h, r)) = Len(h) + 1
        /\ \A i \in 1..Len(h) : Append(h, r)[i] = h[i]
        /\ Append(h, r)[Len(h) + 1] = r
    BY <1>1, AppendProperties
  <2>2. QED BY <1>2, <1>3, <2>1 DEF With
<1>5. \A i \in 1..l : h[i] \in [type : AllTypes, pub : Nat] /\ i \in 1..n
  <2>1. \A i \in 1..l : h[i] \in [type : AllTypes, pub : Nat]
    BY <1>1, <1>3, ElementOfSeq
  <2>2. \A i \in 1..l : i \in 1..n
    BY <1>3
  <2>3. QED BY <2>1, <2>2
<1>6. \A i \in 1..n : (i \in 1..l \/ i = n) /\ i \in 1..Len(h2)
  BY <1>3, <1>4
<1>7. \A i \in 1..n : h2[i] \in [type : AllTypes, pub : Nat]
  BY <1>4, <1>6, ElementOfSeq
<1>8. n \in 1..n /\ n \notin 1..l
  BY <1>3
<1>9. QED BY <1>1, <1>2, <1>3, <1>4, <1>5, <1>6, <1>7, <1>8 DEF Follows

\* What a message adds to the positions
Grown(h2, n, h, type, p) ==
  /\ FramesOf(h2) = FramesOf(h) \cup (IF type \in HeaderTypes THEN {} ELSE {n})
  /\ VideosOf(h2) = VideosOf(h) \cup (IF type \in {"key", "inter"} THEN {n} ELSE {})
  /\ KeysOf(h2) = KeysOf(h) \cup (IF type = "key" THEN {n} ELSE {})
  /\ StartsOf(h2, p) = StartsOf(h, p) \cup (IF type = "key" THEN {n} ELSE {})
  /\ HeadersOf(h2, p) = HeadersOf(h, p) \cup (IF type = "vsh" THEN {n} ELSE {})
  /\ \A x : HeadersOf(h, x) \subseteq HeadersOf(h2, x) /\ StartsOf(h, x) \subseteq StartsOf(h2, x)

\* It does.
LEMMA AppendedSets ==
  ASSUME NEW h, NEW p, NEW type \in AllTypes, NEW n, NEW h2, Follows(h2, n, h, type, p)
  PROVE  Grown(h2, n, h, type, p)
<1>1. /\ Len(h2) = n /\ (\A i \in 1..Len(h) : h2[i] = h[i] /\ i \in 1..n)
      /\ h2[n] = Message(type, p) /\ h2[n].type = type /\ h2[n].pub = p
      /\ (\A i \in 1..n : i \in 1..Len(h) \/ i = n) /\ n \in 1..n
  BY DEF Follows
<1>2. h2[n] \in [type : AllTypes, pub : Nat]
  BY DEF Follows
<1>3. FramesOf(h2) = FramesOf(h) \cup (IF type \in HeaderTypes THEN {} ELSE {n})
  BY <1>1 DEF FramesOf
<1>4. VideosOf(h2) = VideosOf(h) \cup (IF type \in {"key", "inter"} THEN {n} ELSE {})
  BY <1>1 DEF VideosOf
<1>5. KeysOf(h2) = KeysOf(h) \cup (IF type = "key" THEN {n} ELSE {})
  BY <1>1 DEF KeysOf
<1>6. (h2[n] = Message("key", p) <=> type = "key") /\ (h2[n] = Message("vsh", p) <=> type = "vsh")
  BY <1>1, <1>2, MessageOf
<1>7. StartsOf(h2, p) = StartsOf(h, p) \cup (IF type = "key" THEN {n} ELSE {})
  BY <1>1, <1>6 DEF StartsOf
<1>8. HeadersOf(h2, p) = HeadersOf(h, p) \cup (IF type = "vsh" THEN {n} ELSE {})
  BY <1>1, <1>6 DEF HeadersOf
<1>9. \A x : HeadersOf(h, x) \subseteq HeadersOf(h2, x) /\ StartsOf(h, x) \subseteq StartsOf(h2, x)
  BY <1>1 DEF HeadersOf, StartsOf
<1>10. QED BY <1>3, <1>4, <1>5, <1>7, <1>8, <1>9 DEF Grown

\* The history stays well formed.
LEMMA HistStep ==
  ASSUME NEW h, NEW p, HistOk(h, p), NEW type \in AllTypes, NEW n, NEW h2,
         Follows(h2, n, h, type, p), MayFollow(type, h, p)
  PROVE  HistOk(h2, p)
<1>1. /\ Len(h) \in Nat /\ n \in Nat /\ p \in Nat /\ Len(h2) = n
      /\ h2 \in Seq([type : AllTypes, pub : Nat])
      /\ (\A i \in 1..n : h2[i] \in [type : AllTypes, pub : Nat])
      /\ (\A i \in 1..Len(h) : h2[i] = h[i])
      /\ h2[n].type = type /\ h2[n].pub = p
      /\ \A i \in 1..n : i \in 1..Len(h) \/ i = n
  BY DEF Follows
<1>2. \A x : HeadersOf(h, x) \subseteq HeadersOf(h2, x) /\ StartsOf(h, x) \subseteq StartsOf(h2, x)
  BY AppendedSets DEF Grown
<1>3. \A i \in 1..n : h2[i].pub \in Nat
  BY <1>1
<1>4. ASSUME NEW i \in 1..n PROVE h2[i].pub <= p
  <2>1. CASE i = n
    BY <1>1, <2>1
  <2>2. CASE i \in 1..Len(h)
    <3>1. h[i].pub <= p
      BY <2>2 DEF HistOk
    <3>2. QED BY <1>1, <2>2, <3>1
  <2>3. QED BY <1>1, <2>1, <2>2
<1>5. ASSUME NEW i \in 1..n, NEW j \in 1..n, i <= j PROVE h2[i].pub <= h2[j].pub
  <2>1. CASE j = n
    BY <1>1, <1>4, <2>1
  <2>2. CASE j \in 1..Len(h)
    <3>1. i \in 1..Len(h)
      BY <1>1, <1>5, <2>2
    <3>2. QED BY <1>1, <1>5, <2>2, <3>1 DEF HistOk
  <2>3. QED BY <1>1, <2>1, <2>2
<1>6. ASSUME NEW i \in 1..n, h2[i].type = "key" PROVE HeadersOf(h2, h2[i].pub) # {}
  <2>1. CASE i = n
    BY <1>1, <1>2, <1>6, <2>1 DEF MayFollow
  <2>2. CASE i \in 1..Len(h)
    <3>1. HeadersOf(h, h[i].pub) # {}
      BY <1>1, <1>6, <2>2 DEF HistOk
    <3>2. QED BY <1>1, <1>2, <2>2, <3>1
  <2>3. QED BY <1>1, <2>1, <2>2
<1>7. ASSUME NEW i \in 1..n, h2[i].type = "inter" PROVE StartsOf(h2, h2[i].pub) # {}
  <2>1. CASE i = n
    BY <1>1, <1>2, <1>7, <2>1 DEF MayFollow
  <2>2. CASE i \in 1..Len(h)
    <3>1. StartsOf(h, h[i].pub) # {}
      BY <1>1, <1>7, <2>2 DEF HistOk
    <3>2. QED BY <1>1, <1>2, <2>2, <3>1
  <2>3. QED BY <1>1, <2>1, <2>2
<1>8. QED BY <1>1, <1>4, <1>5, <1>6, <1>7 DEF HistOk

\* Video implies a key frame and a header.
LEMMA VideoNeeds ==
  ASSUME NEW h, NEW p, HistOk(h, p)
  PROVE  /\ StartsOf(h, p) # {} => HeadersOf(h, p) # {}
         /\ VideosOf(h) # {} => \E i \in 1..Len(h) : h[i].type = "vsh"
         /\ VideosOf(h) # {} => KeysOf(h) # {}
         /\ KeysOf(h) \subseteq VideosOf(h) /\ VideosOf(h) \subseteq FramesOf(h)
         /\ StartsOf(h, p) \subseteq FramesOf(h) /\ FramesOf(h) \subseteq 1..Len(h)
         /\ StartsOf(h, p) \subseteq KeysOf(h)
<1>1. \A i \in 1..Len(h) : h[i] \in [type : AllTypes, pub : Nat]
  <2>1. h \in Seq([type : AllTypes, pub : Nat])
    BY DEF HistOk
  <2>2. QED BY <2>1, ElementOfSeq
<1>2. \A i \in 1..Len(h) : \A t, x : h[i] = Message(t, x) <=> h[i].type = t /\ h[i].pub = x
  BY <1>1, MessageOf
<1>3. ASSUME NEW x, StartsOf(h, x) # {} PROVE HeadersOf(h, x) # {} /\ KeysOf(h) # {}
  <2>1. PICK i \in 1..Len(h) : h[i].type = "key" /\ h[i].pub = x
    BY <1>2, <1>3 DEF StartsOf
  <2>2. HeadersOf(h, h[i].pub) # {}
    BY <2>1 DEF HistOk
  <2>3. QED BY <2>1, <2>2 DEF KeysOf
<1>4. ASSUME NEW x, HeadersOf(h, x) # {} PROVE \E i \in 1..Len(h) : h[i].type = "vsh"
  BY <1>2, <1>4 DEF HeadersOf
<1>5. ASSUME VideosOf(h) # {} PROVE KeysOf(h) # {} /\ \E x : HeadersOf(h, x) # {}
  <2>1. PICK i \in 1..Len(h) : h[i].type = "key" \/ h[i].type = "inter"
    BY <1>5 DEF VideosOf
  <2>2. CASE h[i].type = "key"
    BY <2>2 DEF HistOk, KeysOf
  <2>3. CASE h[i].type = "inter"
    <3>1. StartsOf(h, h[i].pub) # {}
      BY <2>3 DEF HistOk
    <3>2. QED BY <1>3, <3>1
  <2>4. QED BY <2>1, <2>2, <2>3
<1>6. KeysOf(h) \subseteq VideosOf(h) /\ VideosOf(h) \subseteq FramesOf(h) /\ FramesOf(h) \subseteq 1..Len(h)
  BY DEF KeysOf, VideosOf, FramesOf, HeaderTypes
<1>7. StartsOf(h, p) \subseteq KeysOf(h)
  BY <1>2 DEF StartsOf, KeysOf
<1>8. QED BY <1>3, <1>4, <1>5, <1>6, <1>7

-----------------------------------------------------------------------------
(* The cache                                                                *)

\* d holds the same GOPs as c.
SameRing(d, c) ==
  /\ IsCache(d) /\ d.gopNum = c.gopNum /\ d.maxFrames = c.maxFrames
  /\ GetGopCount(d) = GetGopCount(c)
  /\ \A i \in 1..GetGopCount(c) : GopAt(d, i) = GopAt(c, i)

\* Two caches with the same ring and positions.
LEMMA RingDecides ==
  ASSUME NEW c, NEW d, IsCache(d), d.gopNum = c.gopNum, d.maxFrames = c.maxFrames,
         d.first = c.first, d.last = c.last, d.ring = c.ring
  PROVE  SameRing(d, c)
<1>1. GopSize(d) = GopSize(c)
  BY DEF GopSize
<1>2. GetGopCount(d) = GetGopCount(c)
  BY <1>1 DEF GetGopCount
<1>3. \A i : GopAt(d, i) = GopAt(c, i)
  BY <1>1 DEF GopAt, GetGopDataAt
<1>4. QED BY <1>2, <1>3 DEF SameRing

\* A header only replaces the header of its type.
LEMMA HeaderFed ==
  ASSUME NEW c, IsCache(c), NEW n \in Nat, NEW type \in HeaderTypes
  PROVE  LET d == Feed(c, type, n)
         IN  /\ SameRing(d, c)
             /\ d.meta = IF type = "meta" THEN n ELSE c.meta
             /\ d.vsh = IF type = "vsh" THEN n ELSE c.vsh
             /\ d.ash = IF type = "ash" THEN n ELSE c.ash
<1>1. PICK d : d = Feed(c, type, n)
  OBVIOUS
<1>2. /\ d.gopNum = c.gopNum /\ d.maxFrames = c.maxFrames /\ d.first = c.first
      /\ d.last = c.last /\ d.ring = c.ring
      /\ d.meta = IF type = "meta" THEN n ELSE c.meta
      /\ d.vsh = IF type = "vsh" THEN n ELSE c.vsh
      /\ d.ash = IF type = "ash" THEN n ELSE c.ash
      /\ d \in [gopNum : Nat, maxFrames : Nat, meta : Nat, vsh : Nat, ash : Nat, first : Nat,
                last : Nat, ring : {c.ring}]
  <2>1. CASE type = "meta"
    <3>1. d = [c EXCEPT !.meta = n]
      BY <1>1, <2>1 DEF Feed
    <3>2. QED BY <2>1, <3>1 DEF IsCache
  <2>2. CASE type = "vsh"
    <3>1. d = [c EXCEPT !.vsh = n]
      BY <1>1, <2>2 DEF Feed
    <3>2. QED BY <2>2, <3>1 DEF IsCache
  <2>3. CASE type = "ash"
    <3>1. d = [c EXCEPT !.ash = n]
      BY <1>1, <2>3 DEF Feed
    <3>2. QED BY <2>3, <3>1 DEF IsCache
  <2>4. QED BY <2>1, <2>2, <2>3 DEF HeaderTypes
<1>3. IsCache(d)
  BY <1>2 DEF IsCache
<1>4. SameRing(d, c)
  BY <1>2, <1>3, RingDecides
<1>5. QED BY <1>1, <1>2, <1>4

\* A cleared cache is empty.
LEMMA Cleared ==
  ASSUME NEW c, IsCache(c)
  PROVE  LET d == Clear(c)
         IN  /\ IsCache(d) /\ d.maxFrames = c.maxFrames /\ GetGopCount(d) = 0
             /\ d.meta = 0 /\ d.vsh = 0 /\ d.ash = 0
<1>1. PICK d : d = Clear(c)
  OBVIOUS
<1>2. /\ d.gopNum = c.gopNum /\ d.maxFrames = c.maxFrames /\ d.first = 0
      /\ d.last = 0 /\ d.ring = c.ring /\ d.meta = 0 /\ d.vsh = 0 /\ d.ash = 0
      /\ d \in [gopNum : Nat, maxFrames : Nat, meta : Nat, vsh : Nat, ash : Nat, first : Nat,
                last : Nat, ring : {c.ring}]
  BY <1>1 DEF Clear, IsCache
<1>3. c.gopNum \in Nat /\ 0 \in 0..c.gopNum
  BY CacheFields
<1>4. IsCache(d)
  BY <1>2, <1>3 DEF IsCache
<1>5. GetGopCount(d) = 0
  <2>1. GetGopCount(d) = IF d.first <= d.last THEN d.last - d.first
                         ELSE d.last + d.gopNum + 1 - d.first
    BY <1>4, RingPositions
  <2>2. QED BY <1>2, <2>1
<1>6. QED BY <1>1, <1>2, <1>4, <1>5

\* So is a new one.
LEMMA NewCache ==
  ASSUME NEW g \in Nat, NEW x \in Nat
  PROVE  LET d == NewGopCache(g, x)
         IN  IsCache(d) /\ GetGopCount(d) = 0 /\ d.meta = 0 /\ d.vsh = 0 /\ d.ash = 0
<1>1. PICK d : d = NewGopCache(g, x)
  OBVIOUS
<1>2. PICK r : r = [i \in 0..g |-> <<>>]
  OBVIOUS
<1>3. r \in [0..g -> Seq(Nat)]
  BY <1>2, EmptySeq
<1>4. /\ d.gopNum = g /\ d.maxFrames = x /\ d.first = 0
      /\ d.last = 0 /\ d.ring = r /\ d.meta = 0 /\ d.vsh = 0 /\ d.ash = 0
      /\ d \in [gopNum : Nat, maxFrames : Nat, meta : Nat, vsh : Nat, ash : Nat, first : Nat,
                last : Nat, ring : {r}]
  BY <1>1, <1>2 DEF NewGopCache
<1>5. IsCache(d)
  <2>1. 0 \in 0..g
    OBVIOUS
  <2>2. QED BY <1>3, <1>4, <2>1 DEF IsCache
<1>6. GetGopCount(d) = 0
  <2>1. GetGopCount(d) = IF d.first <= d.last THEN d.last - d.first
                         ELSE d.last + d.gopNum + 1 - d.first
    BY <1>5, RingPositions
  <2>2. QED BY <1>4, <2>1
<1>7. QED BY <1>1, <1>4, <1>5, <1>6

\* x is no header or a header of h.
NilOrHeader(x, h) == x # 0 => x \in 1..Len(h) /\ h[x].type \in HeaderTypes

\* The cache has the headers and the recent GOPs of the input p, if there is one.
CacheOk(c, h, p, in) ==
  /\ IsCache(c)
  /\ NilOrHeader(c.meta, h) /\ NilOrHeader(c.vsh, h) /\ NilOrHeader(c.ash, h)
  /\ c.vsh # 0 => c.vsh \in HeadersOf(h, p)
  /\ in /\ HeadersOf(h, p) # {} => c.vsh # 0
  /\ ~in => GetGopCount(c) = 0 /\ c.meta = 0 /\ c.vsh = 0 /\ c.ash = 0
  /\ in => Recent(c, StartsOf(h, p), FramesOf(h))

\* The ring after a message.
LEMMA RingFed ==
  ASSUME NEW c, IsCache(c), NEW l \in Nat, NEW S, NEW F, S \subseteq F, F \subseteq 1..l,
         Recent(c, S, F), NEW type \in AllTypes, type \notin HeaderTypes
  PROVE  LET d == Feed(c, type, l + 1)
         IN  /\ IsCache(d) /\ d.maxFrames = c.maxFrames
             /\ d.meta = c.meta /\ d.vsh = c.vsh /\ d.ash = c.ash
             /\ Recent(d, S \cup (IF type = "key" THEN {l + 1} ELSE {}), F \cup {l + 1})
<1>1. PICK d : d = Feed(c, type, l + 1)
  OBVIOUS
<1>2. type # "meta" /\ type # "vsh" /\ type # "ash"
  BY DEF HeaderTypes
<1>3. l + 1 \in Nat
  OBVIOUS
<1>4. CASE c.gopNum = 0
  <2>1. d = c
    BY <1>1, <1>2, <1>4 DEF Feed
  <2>2. GetGopCount(c) = 0
    <3>1. GetGopCount(c) \in 0..c.gopNum
      BY RingPositions
    <3>2. QED BY <1>4, <3>1
  <2>3. \A S2, F2 : Recent(c, S2, F2)
    BY <1>4, <2>2 DEF Recent
  <2>4. QED BY <1>1, <2>1, <2>3
<1>5. CASE c.gopNum # 0 /\ type = "key"
  <2>1. d = FeedNewGop(c, l + 1)
    BY <1>1, <1>2, <1>5 DEF Feed
  <2>2. Recent(d, S \cup {l + 1}, F \cup {l + 1})
    BY <1>5, <2>1, KeyFed
  <2>3. /\ IsCache(d) /\ d.maxFrames = c.maxFrames
        /\ d.meta = c.meta /\ d.vsh = c.vsh /\ d.ash = c.ash
    BY <1>3, <1>5, <2>1, NewGop
  <2>4. QED BY <1>1, <1>5, <2>2, <2>3
<1>6. CASE c.gopNum # 0 /\ type # "key"
  <2>1. d = FeedLastGop(c, l + 1)
    BY <1>1, <1>2, <1>6 DEF Feed
  <2>2. Recent(d, S, F \cup {l + 1})
    BY <2>1, FrameFed
  <2>3. /\ IsCache(d) /\ d.maxFrames = c.maxFrames
        /\ d.meta = c.meta /\ d.vsh = c.vsh /\ d.ash = c.ash
    BY <1>3, <2>1, LastGop
  <2>4. S \cup {} = S
    OBVIOUS
  <2>5. QED BY <1>1, <1>6, <2>2, <2>3, <2>4
<1>7. QED BY <1>4, <1>5, <1>6

\* d is a cache that fits the history h, with the limits of c.
FedOk(d, c, h, p) == CacheOk(d, h, p, TRUE) /\ d.maxFrames = c.maxFrames

\* The cache after a message.
LEMMA CacheStep ==
  ASSUME NEW h, NEW p, HistOk(h, p), NEW type \in AllTypes, NEW n, NEW h2,
         Follows(h2, n, h, type, p), NEW c, CacheOk(c, h, p, TRUE)
  PROVE  FedOk(Feed(c, type, n), c, h2, p)
<1>1. PICK d : d = Feed(c, type, n)
  OBVIOUS
<1>2. PICK l \in Nat : l = Len(h) /\ n = l + 1 /\ n \in Nat /\ n # 0
  BY DEF Follows
<1>3. Grown(h2, n, h, type, p)
  BY AppendedSets
<1>4. IsCache(c)
  BY DEF CacheOk
<1>5. \A x : NilOrHeader(x, h) => NilOrHeader(x, h2)
  BY DEF NilOrHeader, Follows
<1>6. type \in HeaderTypes => NilOrHeader(n, h2)
  BY DEF NilOrHeader, Follows
<1>7. NilOrHeader(c.meta, h) /\ NilOrHeader(c.vsh, h) /\ NilOrHeader(c.ash, h)
  BY DEF CacheOk
<1>8. c.vsh # 0 => c.vsh \in HeadersOf(h, p)
  BY DEF CacheOk
<1>9. HeadersOf(h, p) # {} => c.vsh # 0
  BY DEF CacheOk
<1>10. PICK S, F : S = StartsOf(h, p) /\ F = FramesOf(h)
  OBVIOUS
<1>11. Recent(c, S, F)
  BY <1>10 DEF CacheOk
<1>12. S \subseteq F /\ F \subseteq 1..l
  BY <1>2, <1>10, VideoNeeds
<1>13. CASE type \in HeaderTypes
  <2>1. /\ SameRing(d, c)
        /\ d.meta = IF type = "meta" THEN n ELSE c.meta
        /\ d.vsh = IF type = "vsh" THEN n ELSE c.vsh
        /\ d.ash = IF type = "ash" THEN n ELSE c.ash
    BY <1>1, <1>2, <1>4, <1>13, HeaderFed
  <2>2. NilOrHeader(d.meta, h2) /\ NilOrHeader(d.vsh, h2) /\ NilOrHeader(d.ash, h2)
    BY <1>5, <1>6, <1>7, <1>13, <2>1
  <2>3. type # "key"
    BY <1>13 DEF HeaderTypes
  <2>4. StartsOf(h2, p) = S /\ FramesOf(h2) = F
    BY <1>3, <1>10, <1>13, <2>3 DEF Grown
  <2>5. Recent(d, S, F)
    BY <1>11, <2>1, SameGops DEF SameRing
  <2>6. HeadersOf(h2, p) = HeadersOf(h, p) \cup (IF type = "vsh" THEN {n} ELSE {})
    BY <1>3 DEF Grown
  <2>7. d.vsh # 0 => d.vsh \in HeadersOf(h2, p)
    BY <1>8, <2>1, <2>6
  <2>8. HeadersOf(h2, p) # {} => d.vsh # 0
    BY <1>2, <1>9, <2>1, <2>6
  <2>9. IsCache(d) /\ d.maxFrames = c.maxFrames
    BY <2>1 DEF SameRing
  <2>10. QED BY <1>1, <2>2, <2>4, <2>5, <2>7, <2>8, <2>9 DEF CacheOk, FedOk
<1>14. CASE type \notin HeaderTypes
  <2>1. /\ IsCache(d) /\ d.maxFrames = c.maxFrames
        /\ d.meta = c.meta /\ d.vsh = c.vsh /\ d.ash = c.ash
        /\ Recent(d, S \cup (IF type = "key" THEN {l + 1} ELSE {}), F \cup {l + 1})
    <3>1. LET e == Feed(c, type, l + 1)
          IN  /\ IsCache(e) /\ e.maxFrames = c.maxFrames
              /\ e.meta = c.meta /\ e.vsh = c.vsh /\ e.ash = c.ash
              /\ Recent(e, S \cup (IF type = "key" THEN {l + 1} ELSE {}), F \cup {l + 1})
      BY <1>4, <1>11, <1>12, <1>14, RingFed
    <3>2. d = Feed(c, type, l + 1)
      BY <1>1, <1>2
    <3>3. QED BY <3>1, <3>2
  <2>2. type # "vsh"
    BY <1>14 DEF HeaderTypes
  <2>3. /\ StartsOf(h2, p) = S \cup (IF type = "key" THEN {n} ELSE {})
        /\ FramesOf(h2) = F \cup {n} /\ HeadersOf(h2, p) = HeadersOf(h, p)
    BY <1>3, <1>10, <1>14, <2>2 DEF Grown
  <2>4. Recent(d, StartsOf(h2, p), FramesOf(h2))
    BY <1>2, <2>1, <2>3
  <2>5. NilOrHeader(d.meta, h2) /\ NilOrHeader(d.vsh, h2) /\ NilOrHeader(d.ash, h2)
    BY <1>5, <1>7, <2>1
  <2>6. QED BY <1>1, <1>8, <1>9, <2>1, <2>3, <2>4, <2>5 DEF CacheOk, FedOk
<1>15. QED BY <1>13, <1>14

-----------------------------------------------------------------------------
(* What a session that joins is sent                                        *)

\* The headers that are cached.
LEMMA HeadersAre ==
  ASSUME NEW c, IsCache(c)
  PROVE  /\ CachedHeaders(c) \in Seq(Nat)
         /\ \A x : x \in Elements(CachedHeaders(c)) <=> x # 0 /\ x \in {c.meta, c.vsh, c.ash}
<1>1. ASSUME NEW x \in Nat
      PROVE  UnlessNil(x) \in Seq(Nat) /\ \A y : y \in Elements(UnlessNil(x)) <=> y # 0 /\ y = x
  <2>1. CASE x = 0
    <3>1. UnlessNil(x) = <<>> /\ Elements(<<>>) = {}
      BY <2>1 DEF UnlessNil, Elements
    <3>2. QED BY <2>1, <3>1, EmptySeq
  <2>2. CASE x # 0
    <3>1. PICK t : t = <<x>>
      OBVIOUS
    <3>2. UnlessNil(x) = t /\ t \in Seq(Nat) /\ Len(t) = 1 /\ t[1] = x
      BY <2>2, <3>1 DEF UnlessNil
    <3>3. \A i : i \in 1..1 <=> i = 1
      OBVIOUS
    <3>4. \A y : y \in Elements(t) <=> y = x
      BY <3>2, <3>3 DEF Elements
    <3>5. QED BY <2>2, <3>2, <3>4
  <2>3. QED BY <2>1, <2>2
<1>2. c.meta \in Nat /\ c.vsh \in Nat /\ c.ash \in Nat
  BY CacheFields
<1>3. PICK a \in Seq(Nat), b \in Seq(Nat), d \in Seq(Nat) :
        a = UnlessNil(c.meta) /\ b = UnlessNil(c.vsh) /\ d = UnlessNil(c.ash)
  BY <1>1, <1>2
<1>4. a \o b \in Seq(Nat) /\ Elements(a \o b) = Elements(a) \cup Elements(b)
  BY Concatenated
<1>5. PICK e \in Seq(Nat) : e = a \o b
  BY <1>4
<1>6. e \o d \in Seq(Nat) /\ Elements(e \o d) = Elements(e) \cup Elements(d)
  BY Concatenated
<1>7. CachedHeaders(c) = e \o d
  BY <1>3, <1>5 DEF CachedHeaders
<1>8. /\ \A y : y \in Elements(a) <=> y # 0 /\ y = c.meta
      /\ \A y : y \in Elements(b) <=> y # 0 /\ y = c.vsh
      /\ \A y : y \in Elements(d) <=> y # 0 /\ y = c.ash
  BY <1>1, <1>2, <1>3
<1>9. QED BY <1>4, <1>5, <1>6, <1>7, <1>8

\* t is a decodable beginning of what is sent to a session, from a cache of k GOPs with
\* the limit x.
Greets(t, h, p, in, k, x) ==
  /\ t \in Seq(Nat) /\ Elements(t) \subseteq 1..Len(h)
  /\ x = 0 => UnbrokenIn(t, FramesOf(h))
  /\ KeyFirst(t, VideosOf(h), KeysOf(h))
  /\ k = 0 => Elements(t) \cap FramesOf(h) = {}
  /\ k # 0 => KeysOf(h) \cap Elements(t) # {}
  /\ Headed(t, h)
  /\ in /\ HeadersOf(h, p) # {} => HeadersOf(h, p) \cap Elements(t) # {}

\* The headers and the cached GOPs are that.
LEMMA GreetingOk ==
  ASSUME NEW h, NEW p, HistOk(h, p), NEW in \in BOOLEAN, NEW c, CacheOk(c, h, p, in)
  PROVE  Greets(CachedHeaders(c) \o CachedGops(c), h, p, in, GetGopCount(c), c.maxFrames)
<1>1. IsCache(c)
  BY DEF CacheOk
<1>2. PICK F : F = FramesOf(h)
  OBVIOUS
<1>3. PICK l \in Nat : l = Len(h)
  <2>1. h \in Seq([type : AllTypes, pub : Nat])
    BY DEF HistOk
  <2>2. QED BY <2>1
<1>4. /\ KeysOf(h) \subseteq VideosOf(h) /\ VideosOf(h) \subseteq F
      /\ StartsOf(h, p) \subseteq F /\ F \subseteq 1..l /\ StartsOf(h, p) \subseteq KeysOf(h)
      /\ StartsOf(h, p) # {} => HeadersOf(h, p) # {}
  BY <1>2, <1>3, VideoNeeds
<1>5. F \subseteq Nat
  BY <1>4
<1>6. PICK k \in Nat : k = GetGopCount(c)
  <2>1. c.gopNum \in Nat
    BY <1>1, CacheFields
  <2>2. QED BY <1>1, <2>1, RingPositions
<1>7. PICK S : S = IF in THEN StartsOf(h, p) ELSE {}
  OBVIOUS
<1>8. S \subseteq F /\ S \subseteq StartsOf(h, p) /\ Recent(c, S, F)
  <2>1. CASE in
    BY <1>2, <1>4, <1>7, <2>1 DEF CacheOk
  <2>2. CASE ~in
    <3>1. GetGopCount(c) = 0 /\ S = {}
      BY <1>7, <2>2 DEF CacheOk
    <3>2. Recent(c, S, F)
      BY <3>1 DEF Recent
    <3>3. QED BY <3>1, <3>2
  <2>3. QED BY <2>1, <2>2
<1>9. PICK t : t = CachedGops(c)
  OBVIOUS
<1>10. CachedWell(t, k, c.maxFrames, S, F)
  BY <1>1, <1>5, <1>6, <1>8, <1>9, CachedGopsAre
<1>11. t \in Seq(Nat) /\ Elements(t) \subseteq F /\ Ascending(t) /\ (k = 0 <=> Len(t) = 0)
  <2>1. t \in Seq(Nat) /\ Elements(t) \subseteq F /\ Ascending(t)
    BY <1>10 DEF CachedWell
  <2>2. k = 0 => Len(t) = 0
    BY <1>10, EmptySeq DEF CachedWell
  <2>3. k # 0 => Len(t) # 0
    BY <1>10 DEF CachedWell
  <2>4. QED BY <2>1, <2>2, <2>3
<1>12. PICK s \in Seq(Nat) : s = CachedHeaders(c)
  BY <1>1, HeadersAre
<1>13. \A y : y \in Elements(s) <=> y # 0 /\ y \in {c.meta, c.vsh, c.ash}
  BY <1>1, <1>12, HeadersAre
<1>14. \A y \in Elements(s) : y \in 1..l /\ h[y].type \in HeaderTypes
  BY <1>3, <1>13 DEF CacheOk, NilOrHeader
<1>15. /\ Elements(s) \cap F = {} /\ Elements(s) \cap VideosOf(h) = {}
       /\ \A y \in Elements(s) : h[y].type \notin {"key", "inter"}
  <2>1. Elements(s) \cap F = {}
    BY <1>2, <1>14 DEF FramesOf
  <2>2. \A y \in Elements(s) : h[y].type \notin {"key", "inter"}
    BY <1>14 DEF HeaderTypes
  <2>3. QED BY <1>4, <2>1, <2>2
<1>16. PICK u : u = s \o t
  OBVIOUS
<1>17. u \in Seq(Nat) /\ Elements(u) = Elements(s) \cup Elements(t)
  BY <1>11, <1>16, Concatenated
<1>18. Elements(u) \subseteq 1..l
  BY <1>4, <1>11, <1>14, <1>17
<1>19. c.maxFrames = 0 => UnbrokenIn(u, F)
  <2> SUFFICES ASSUME c.maxFrames = 0 PROVE UnbrokenIn(u, F)
    OBVIOUS
  <2>1. \A y \in Elements(t), z \in F : y < z => z \in Elements(t)
    BY <1>10 DEF CachedWell
  <2>2. QED BY <1>11, <1>15, <1>16, <2>1, UnbrokenAfter
<1>20. Len(t) # 0 => t[1] \in KeysOf(h)
  <2>1. k # 0 => t[1] \in S
    BY <1>10 DEF CachedWell
  <2>2. QED BY <1>4, <1>8, <1>11, <2>1
<1>21. KeyFirst(u, VideosOf(h), KeysOf(h)) /\ (k # 0 => KeysOf(h) \cap Elements(u) # {})
  BY <1>11, <1>15, <1>16, <1>20, KeyFirstAfter
<1>22. k = 0 => Elements(u) \cap F = {}
  <2> SUFFICES ASSUME k = 0 PROVE Elements(u) \cap F = {}
    OBVIOUS
  <2>1. t = <<>> /\ Elements(<<>>) = {}
    BY <1>10 DEF CachedWell, Elements
  <2>2. QED BY <1>15, <1>17, <2>1
<1>23. in /\ HeadersOf(h, p) # {} => c.vsh \in HeadersOf(h, p) /\ c.vsh \in Elements(s)
  BY <1>13 DEF CacheOk
<1>24. \A y : y \in HeadersOf(h, p) \/ y \in StartsOf(h, p) => y \in 1..l /\ h[y] \in [type : AllTypes, pub : Nat]
  <2>1. h \in Seq([type : AllTypes, pub : Nat])
    BY DEF HistOk
  <2>2. \A y \in 1..Len(h) : h[y] \in [type : AllTypes, pub : Nat]
    BY <2>1, ElementOfSeq
  <2>3. QED BY <1>3, <2>2 DEF HeadersOf, StartsOf
<1>25. \A y \in HeadersOf(h, p) : h[y].type = "vsh" /\ h[y].pub = p
  BY <1>24, MessageOf DEF HeadersOf
<1>26. \A y \in StartsOf(h, p) : h[y].pub = p
  BY <1>24, MessageOf DEF StartsOf
<1>27. ASSUME NEW y \in Elements(t) PROVE h[y].pub = p
  <2>1. PICK z \in S : z <= y
    BY <1>10 DEF CachedWell
  <2>2. z \in 1..l /\ y \in 1..l /\ h[z].pub = p
    BY <1>4, <1>8, <1>11, <1>26
  <2>3. p <= h[y].pub /\ h[y].pub <= p
    BY <1>3, <2>1, <2>2 DEF HistOk
  <2>4. h[y].pub \in Nat /\ p \in Nat
    <3>1. h \in Seq([type : AllTypes, pub : Nat]) /\ p \in Nat
      BY DEF HistOk
    <3>2. h[y] \in [type : AllTypes, pub : Nat]
      BY <1>3, <2>2, <3>1, ElementOfSeq
    <3>3. QED BY <3>1, <3>2
  <2>5. QED BY <2>3, <2>4
<1>28. Len(t) # 0 => \E y \in Elements(s) : h[y].type = "vsh" /\ h[y].pub = p
  <2> SUFFICES ASSUME Len(t) # 0 PROVE \E y \in Elements(s) : h[y].type = "vsh" /\ h[y].pub = p
    OBVIOUS
  <2>1. t[1] \in S
    BY <1>10, <1>11 DEF CachedWell
  <2>2. in /\ HeadersOf(h, p) # {}
    BY <1>4, <1>7, <1>8, <2>1
  <2>3. QED BY <1>23, <1>25, <2>2
<1>29. Headed(u, h)
  BY <1>11, <1>15, <1>16, <1>27, <1>28, HeadedAfter
<1>30. in /\ HeadersOf(h, p) # {} => HeadersOf(h, p) \cap Elements(u) # {}
  BY <1>17, <1>23
<1>31. Greets(u, h, p, in, k, c.maxFrames)
  BY <1>2, <1>3, <1>17, <1>18, <1>19, <1>21, <1>22, <1>29, <1>30 DEF Greets
<1>32. QED BY <1>6, <1>9, <1>12, <1>16, <1>31

-----------------------------------------------------------------------------
(* One session                                                              *)

\* The type of a session
SessionType == [joined : BOOLEAN, fresh : BOOLEAN, wait : BOOLEAN, out : Seq(Nat)]

\* A session that was sent something.
LEMMA SentIs ==
  ASSUME NEW s \in SessionType, NEW q \in Seq(Nat)
  PROVE  LET g == [s EXCEPT !.out = q]
         IN  /\ g \in SessionType /\ (g.joined <=> s.joined) /\ (g.fresh <=> s.fresh)
             /\ (g.wait <=> s.wait) /\ g.out = q
BY DEF SessionType

\* A session that may have been waiting for a key frame.
LEMMA StopIs ==
  ASSUME NEW s \in SessionType, NEW type
  PROVE  LET g == StopWaiting(s, type)
         IN  /\ g \in SessionType /\ (g.joined <=> s.joined) /\ (g.fresh <=> s.fresh)
             /\ (g.wait <=> s.wait /\ type # "key") /\ g.out = s.out
BY DEF SessionType, StopWaiting

\* A session that may have been fresh.
LEMMA GreetIs ==
  ASSUME NEW c, NEW s \in SessionType, s.fresh => s.out = <<>>, CachedHeaders(c) \in Seq(Nat),
         Greeting(c) \in Seq(Nat)
  PROVE  LET g == Greet(c, s)
         IN  /\ g \in SessionType /\ (g.joined <=> s.joined) /\ ~g.fresh
             /\ (g.wait <=> s.wait /\ (s.fresh => GetGopCount(c) = 0))
             /\ g.out = IF s.fresh THEN Greeting(c) ELSE s.out
<1>1. CASE ~s.fresh
  <2>1. Greet(c, s) = s
    BY <1>1 DEF Greet
  <2>2. QED BY <1>1, <2>1 DEF SessionType
<1>2. CASE s.fresh
  <2>1. PICK k : k = GetGopCount(c)
    OBVIOUS
  <2>2. s.out \o Greeting(c) = Greeting(c)
    BY <1>2, ConcatEmptySeq
  <2>3. PICK t \in Seq(Nat) : t = Greeting(c)
    OBVIOUS
  <2>4. Greet(c, s) = [s EXCEPT !.fresh = FALSE, !.wait = s.wait /\ k = 0, !.out = t]
    BY <1>2, <2>1, <2>2, <2>3 DEF Greet
  <2>5. PICK g : g = [s EXCEPT !.fresh = FALSE, !.wait = s.wait /\ k = 0, !.out = t]
    OBVIOUS
  <2>6. (s.wait /\ k = 0) \in BOOLEAN
    OBVIOUS
  <2>7. /\ g \in SessionType /\ (g.joined <=> s.joined) /\ ~g.fresh
        /\ (g.wait <=> s.wait /\ k = 0) /\ g.out = t
    BY <2>5, <2>6 DEF SessionType
  <2>8. QED BY <1>2, <2>1, <2>3, <2>4, <2>5, <2>7
<1>3. QED BY <1>1, <1>2

\* What a session waits for after a message.
StillWaits(c, s, type) == s.wait /\ (s.fresh => GetGopCount(c) = 0) /\ type # "key"
\* What it was sent before the message.
Before(c, s) == IF s.fresh THEN Greeting(c) ELSE s.out

\* g is s after a message, having been sent q.
ServedAs(c, g, s, type, q) ==
  /\ g \in SessionType /\ (g.joined <=> s.joined) /\ ~g.fresh
  /\ (g.wait <=> StillWaits(c, s, type)) /\ g.out = q

\* Greeted and perhaps no longer waiting.
LEMMA GreetedIs ==
  ASSUME NEW c, NEW s \in SessionType, s.fresh => s.out = <<>>, CachedHeaders(c) \in Seq(Nat),
         Greeting(c) \in Seq(Nat), NEW type
  PROVE  ServedAs(c, StopWaiting(Greet(c, s), type), s, type, Before(c, s))
<1>1. PICK g : g = Greet(c, s)
  OBVIOUS
<1>2. /\ g \in SessionType /\ (g.joined <=> s.joined) /\ ~g.fresh
      /\ (g.wait <=> s.wait /\ (s.fresh => GetGopCount(c) = 0))
      /\ g.out = Before(c, s)
  BY <1>1, GreetIs DEF Before
<1>3. PICK g2 : g2 = StopWaiting(g, type)
  OBVIOUS
<1>4. /\ g2 \in SessionType /\ (g2.joined <=> g.joined) /\ (g2.fresh <=> g.fresh)
      /\ (g2.wait <=> g.wait /\ type # "key") /\ g2.out = g.out
  BY <1>2, <1>3, StopIs
<1>5. QED BY <1>1, <1>2, <1>3, <1>4 DEF ServedAs, StillWaits

\* What an http-flv viewer has been sent.
LEMMA FlvServed ==
  ASSUME NEW v, NEW c, c = CacheOf(v), sess[v] \in SessionType, sess[v].fresh => sess[v].out = <<>>,
         CachedHeaders(c) \in Seq(Nat), Greeting(c) \in Seq(Nat), NEW type, NEW n \in Nat
  PROVE  ServedAs(c, ToFlvSub(v, type, n), sess[v], type,
                  IF StillWaits(c, sess[v], type) THEN Before(c, sess[v]) ELSE Before(c, sess[v]) \o <<n>>)
<1>1. PICK s \in SessionType : s = sess[v]
  OBVIOUS
<1>2. PICK g : g = StopWaiting(Greet(c, s), type)
  OBVIOUS
<1>3. ServedAs(c, g, s, type, Before(c, s))
  BY <1>1, <1>2, GreetedIs
<1>4. g \in SessionType /\ ~g.fresh /\ (g.wait <=> StillWaits(c, s, type)) /\ g.out = Before(c, s)
  BY <1>3 DEF ServedAs
<1>5. ToFlvSub(v, type, n) = IF Ready(g) THEN [g EXCEPT !.out = Append(g.out, n)] ELSE g
  BY <1>1, <1>2 DEF ToFlvSub
<1>6. Ready(g) <=> ~StillWaits(c, s, type)
  BY <1>4 DEF Ready
<1>7. CASE StillWaits(c, s, type)
  BY <1>1, <1>3, <1>5, <1>6, <1>7
<1>8. CASE ~StillWaits(c, s, type)
  <2>1. PICK b \in Seq(Nat) : b = g.out
    BY <1>4 DEF SessionType
  <2>2. PICK q \in Seq(Nat) : q = Append(b, n) /\ q = b \o <<n>>
    BY Extended
  <2>3. PICK g2 : g2 = [g EXCEPT !.out = q]
    OBVIOUS
  <2>4. /\ g2 \in SessionType /\ (g2.joined <=> g.joined) /\ (g2.fresh <=> g.fresh)
        /\ (g2.wait <=> g.wait) /\ g2.out = q
    BY <1>4, <2>3, SentIs
  <2>5. ToFlvSub(v, type, n) = g2
    BY <1>5, <1>6, <1>8, <2>1, <2>2, <2>3
  <2>6. ServedAs(c, g2, s, type, q)
    BY <1>3, <2>4 DEF ServedAs
  <2>7. QED BY <1>1, <1>4, <1>8, <2>1, <2>2, <2>5, <2>6
<1>9. QED BY <1>7, <1>8

\* What a push session has been sent.
LEMMA PushServed ==
  ASSUME NEW v, NEW c, c = CacheOf(v), sess[v] \in SessionType, sess[v].fresh => sess[v].out = <<>>, ~sess[v].wait,
         CachedHeaders(c) \in Seq(Nat), Greeting(c) \in Seq(Nat), NEW type, NEW n \in Nat
  PROVE  ServedAs(c, ToPush(v, n), sess[v], type, Before(c, sess[v]) \o <<n>>)
<1>1. PICK s \in SessionType : s = sess[v]
  OBVIOUS
<1>2. PICK g : g = Greet(c, s)
  OBVIOUS
<1>3. /\ g \in SessionType /\ (g.joined <=> s.joined) /\ ~g.fresh
      /\ (g.wait <=> s.wait /\ (s.fresh => GetGopCount(c) = 0))
      /\ g.out = Before(c, s)
  BY <1>1, <1>2, GreetIs DEF Before
<1>4. PICK b \in Seq(Nat) : b = g.out
  BY <1>3 DEF SessionType
<1>5. PICK q \in Seq(Nat) : q = Append(b, n) /\ q = b \o <<n>>
  BY Extended
<1>6. PICK g2 : g2 = [g EXCEPT !.out = q]
  OBVIOUS
<1>7. /\ g2 \in SessionType /\ (g2.joined <=> g.joined) /\ (g2.fresh <=> g.fresh)
      /\ (g2.wait <=> g.wait) /\ g2.out = q
  BY <1>3, <1>6, SentIs
<1>8. ToPush(v, n) = g2
  BY <1>1, <1>2, <1>4, <1>5, <1>6 DEF ToPush
<1>9. ServedAs(c, g2, s, type, q)
  BY <1>1, <1>3, <1>7 DEF ServedAs, StillWaits
<1>10. QED BY <1>1, <1>3, <1>4, <1>5, <1>8, <1>9

\* What an rtmp viewer has been sent.
LEMMA RtmpServed ==
  ASSUME NEW v, NEW c, c = CacheOf(v), sess[v] \in SessionType, sess[v].fresh => sess[v].out = <<>>,
         CachedHeaders(c) \in Seq(Nat), Greeting(c) \in Seq(Nat), NEW type,
         NEW flushed \in Seq(Nat), NEW written \in Seq(Nat)
  PROVE  ServedAs(c, ToRtmpSub(v, type, flushed, written), sess[v], type,
                  IF Ready(sess[v]) THEN (sess[v].out \o flushed) \o written
                  ELSE IF StillWaits(c, sess[v], type) THEN Before(c, sess[v])
                  ELSE Before(c, sess[v]) \o written)
<1>1. PICK s \in SessionType : s = sess[v]
  OBVIOUS
<1>2. PICK o \in Seq(Nat) : o = s.out
  BY DEF SessionType
<1>3. PICK f \in Seq(Nat) : f = o \o flushed
  BY Concatenated
<1>4. PICK s0 : s0 = IF Ready(s) THEN [s EXCEPT !.out = f] ELSE s
  OBVIOUS
<1>5. /\ s0 \in SessionType /\ (s0.joined <=> s.joined) /\ (s0.fresh <=> s.fresh)
      /\ (s0.wait <=> s.wait) /\ s0.out = IF Ready(s) THEN f ELSE o
  <2>1. CASE Ready(s)
    <3>1. PICK g2 : g2 = [s EXCEPT !.out = f]
      OBVIOUS
    <3>2. /\ g2 \in SessionType /\ (g2.joined <=> s.joined) /\ (g2.fresh <=> s.fresh)
          /\ (g2.wait <=> s.wait) /\ g2.out = f
      BY <3>1, SentIs
    <3>3. QED BY <1>4, <2>1, <3>1, <3>2
  <2>2. CASE ~Ready(s)
    BY <1>2, <1>4, <2>2
  <2>3. QED BY <2>1, <2>2
<1>6. s0.fresh => s0.out = <<>>
  BY <1>1, <1>2, <1>5 DEF Ready
<1>7. PICK g : g = StopWaiting(Greet(c, s0), type)
  OBVIOUS
<1>8. ServedAs(c, g, s0, type, Before(c, s0))
  BY <1>5, <1>6, <1>7, GreetedIs
<1>9. StillWaits(c, s0, type) <=> StillWaits(c, s, type)
  BY <1>5 DEF StillWaits
<1>10. Before(c, s0) = IF Ready(s) THEN f ELSE Before(c, s)
  BY <1>2, <1>5 DEF Before, Ready
<1>11. /\ g \in SessionType /\ (g.joined <=> s.joined) /\ ~g.fresh
       /\ (g.wait <=> StillWaits(c, s, type)) /\ g.out = Before(c, s0)
  BY <1>5, <1>8, <1>9 DEF ServedAs
<1>12. ToRtmpSub(v, type, flushed, written) =
         IF Ready(g) THEN [g EXCEPT !.out = g.out \o written] ELSE g
  BY <1>1, <1>2, <1>3, <1>4, <1>7 DEF ToRtmpSub
<1>13. Ready(g) <=> ~StillWaits(c, s, type)
  BY <1>11 DEF Ready
<1>14. Ready(s) => ~StillWaits(c, s, type)
  BY DEF Ready, StillWaits
<1>15. CASE StillWaits(c, s, type)
  <2>1. ToRtmpSub(v, type, flushed, written) = g
    BY <1>12, <1>13, <1>15
  <2>2. ServedAs(c, g, s, type, Before(c, s))
    BY <1>10, <1>11, <1>14, <1>15 DEF ServedAs
  <2>3. QED BY <1>1, <1>14, <1>15, <2>1, <2>2
<1>16. CASE ~StillWaits(c, s, type)
  <2>1. PICK b \in Seq(Nat) : b = g.out /\ b = Before(c, s0)
    BY <1>11 DEF SessionType
  <2>2. PICK q \in Seq(Nat) : q = b \o written
    BY Concatenated
  <2>3. PICK g2 : g2 = [g EXCEPT !.out = q]
    OBVIOUS
  <2>4. /\ g2 \in SessionType /\ (g2.joined <=> g.joined) /\ (g2.fresh <=> g.fresh)
        /\ (g2.wait <=> g.wait) /\ g2.out = q
    BY <1>11, <2>3, SentIs
  <2>5. ToRtmpSub(v, type, flushed, written) = g2
    BY <1>12, <1>13, <1>16, <2>1, <2>2, <2>3
  <2>6. ServedAs(c, g2, s, type, q)
    BY <1>11, <2>4 DEF ServedAs
  <2>7. q = IF Ready(s) THEN (s.out \o flushed) \o written ELSE Before(c, s) \o written
    BY <1>2, <1>3, <1>10, <2>1, <2>2
  <2>8. QED BY <1>1, <1>16, <2>5, <2>6, <2>7
<1>17. QED BY <1>15, <1>16

\* What a session was sent or will be when the merge writer m is emptied
DueOf(v, s, m) == IF v \in RtmpSubs THEN s.out \o m ELSE s.out

\* q suits a viewer: a key frame first, and one as soon as there is any
Viewed(q, h) ==
  /\ KeyFirst(q, VideosOf(h), KeysOf(h))
  /\ KeysOf(h) # {} => KeysOf(h) \cap Elements(q) # {}

\* q suits a push session: the header of the input, if it has sent one, and no video
\* without its header
Pushed(q, h, p, in) ==
  /\ Headed(q, h)
  /\ in /\ HeadersOf(h, p) # {} => HeadersOf(h, p) \cap Elements(q) # {}

\* The session v, for the limit x of its cache, which is fed or not
SessionOk(v, s, h, p, in, codec, m, x, fd) ==
  /\ s \in SessionType /\ Elements(s.out) \subseteq 1..Len(h)
  /\ ~s.joined => s = Away
  /\ s.fresh => s.out = <<>>
  /\ v \in Viewers /\ s.joined /\ s.fresh => (s.wait <=> codec)
  /\ v \in Viewers /\ ~s.fresh /\ s.wait => Elements(s.out) \cap FramesOf(h) = {}
  /\ v \in Pushes /\ s.joined => ~s.wait
  /\ s.joined /\ Ready(s) =>
       /\ x = 0 => UnbrokenIn(DueOf(v, s, m), FramesOf(h))
       /\ v \in Viewers => Viewed(DueOf(v, s, m), h)
       /\ v \in Pushes /\ fd => Pushed(s.out, h, p, in)

\* The message n after q
LEMMA DueMore ==
  ASSUME NEW h, NEW p, HistOk(h, p), NEW type \in AllTypes, NEW n, NEW h2,
         Follows(h2, n, h, type, p), MayFollow(type, h, p),
         NEW q \in Seq(Nat), Elements(q) \subseteq 1..Len(h)
  PROVE  /\ q \o <<n>> \in Seq(Nat) /\ Elements(q \o <<n>>) \subseteq 1..Len(h2)
         /\ UnbrokenIn(q, FramesOf(h)) => UnbrokenIn(q \o <<n>>, FramesOf(h2))
         /\ KeyFirst(q, VideosOf(h), KeysOf(h)) /\ (type = "key" \/ Viewed(q, h)) => Viewed(q \o <<n>>, h2)
         /\ Pushed(q, h, p, TRUE) => Pushed(q \o <<n>>, h2, p, TRUE)
<1>1. PICK l \in Nat : l = Len(h) /\ n = l + 1 /\ n \in Nat /\ Len(h2) = n /\ n \notin 1..l /\ n \in 1..n
  BY DEF Follows
<1>2. Grown(h2, n, h, type, p)
  BY AppendedSets
<1>3. PICK t : t = q \o <<n>>
  OBVIOUS
<1>4. t \in Seq(Nat) /\ Elements(t) = Elements(q) \cup {n}
  BY <1>1, <1>3, Extended
<1>5. Elements(t) \subseteq 1..n
  BY <1>1, <1>4
<1>6. n \notin Elements(q) /\ Elements(q) \subseteq 1..l
  BY <1>1
<1>7. PICK F, F2 : /\ F = FramesOf(h) /\ F2 = FramesOf(h2)
                   /\ F \subseteq 1..l /\ F \subseteq F2 /\ F2 \subseteq F \cup {n}
  <2>1. FramesOf(h) \subseteq 1..l
    BY <1>1, VideoNeeds
  <2>2. FramesOf(h) \subseteq FramesOf(h2) /\ FramesOf(h2) \subseteq FramesOf(h) \cup {n}
    BY <1>2 DEF Grown
  <2>3. QED BY <2>1, <2>2
<1>8. ASSUME UnbrokenIn(q, F) PROVE UnbrokenIn(t, F2)
  <2>1. F2 \subseteq F \cup {l + 1}
    BY <1>1, <1>7
  <2>2. UnbrokenIn(q \o <<l + 1>>, F2)
    BY <1>6, <1>7, <1>8, <2>1, UnbrokenMore
  <2>3. QED BY <1>1, <1>3, <2>2
<1>9. ASSUME KeyFirst(q, VideosOf(h), KeysOf(h)), type = "key" \/ Viewed(q, h)
      PROVE  Viewed(t, h2)
  <2>1. PICK V, V2, K, K2 : V = VideosOf(h) /\ V2 = VideosOf(h2) /\ K = KeysOf(h) /\ K2 = KeysOf(h2)
    OBVIOUS
  <2>2. /\ V2 = V \cup (IF type \in {"key", "inter"} THEN {n} ELSE {})
        /\ K2 = K \cup (IF type = "key" THEN {n} ELSE {})
    BY <1>2, <2>1 DEF Grown
  <2>3. V2 \subseteq V \cup {n} /\ K \subseteq K2 /\ K2 \subseteq K \cup {n} /\ (type = "key" => n \in K2)
    BY <2>2
  <2>4. n \in K2 \/ (K # {} => K \cap Elements(q) # {})
    BY <1>9, <2>1, <2>3 DEF Viewed
  <2>5. n \in V2 => n \in K2 \/ K # {}
    <3>1. CASE type = "key"
      BY <2>3, <3>1
    <3>2. CASE type = "inter"
      <4>1. StartsOf(h, p) # {} /\ StartsOf(h, p) \subseteq KeysOf(h)
        BY <3>2, VideoNeeds DEF MayFollow
      <4>2. QED BY <2>1, <4>1
    <3>3. CASE type \notin {"key", "inter"}
      <4>1. n \notin V
        <5>1. V \subseteq 1..l
          BY <1>1, <2>1 DEF VideosOf
        <5>2. QED BY <1>1, <5>1
      <4>2. QED BY <2>2, <3>3, <4>1
    <3>4. QED BY <3>1, <3>2, <3>3
  <2>6. KeyFirst(q, V, K)
    BY <1>9, <2>1
  <2>7. KeyFirst(t, V2, K2) /\ (K2 # {} => K2 \cap Elements(t) # {})
    BY <1>1, <1>3, <1>6, <2>3, <2>4, <2>5, <2>6, KeyFirstMore
  <2>8. QED BY <2>1, <2>7 DEF Viewed
<1>10. ASSUME Pushed(q, h, p, TRUE) PROVE Pushed(t, h2, p, TRUE)
  <2>1. HeadersOf(h2, p) = HeadersOf(h, p) \cup (IF type = "vsh" THEN {n} ELSE {})
    BY <1>2 DEF Grown
  <2>2. HeadersOf(h2, p) # {} => HeadersOf(h2, p) \cap Elements(t) # {}
    <3>1. CASE type = "vsh"
      BY <1>4, <2>1, <3>1
    <3>2. CASE type # "vsh"
      BY <1>4, <1>10, <2>1, <3>2 DEF Pushed
    <3>3. QED BY <3>1, <3>2
  <2>3. \A y \in Elements(q) : h2[y] = h[y]
    BY <1>1, <1>6 DEF Follows
  <2>4. h2[n].type = type /\ h2[n].pub = p
    BY DEF Follows
  <2>5. ASSUME type \in {"key", "inter"}
        PROVE  \E y \in Elements(q) : h2[y].type = "vsh" /\ h2[y].pub = h2[n].pub
    <3>1. HeadersOf(h, p) # {}
      BY <2>5, VideoNeeds DEF MayFollow
    <3>2. PICK y \in HeadersOf(h, p) : y \in Elements(q)
      BY <1>10, <3>1 DEF Pushed
    <3>3. y \in 1..Len(h) /\ h[y] = Message("vsh", p)
      BY DEF HeadersOf
    <3>4. h[y] \in [type : AllTypes, pub : Nat]
      BY <3>3 DEF Follows
    <3>5. h[y].type = "vsh" /\ h[y].pub = p
      BY <3>3, <3>4, MessageOf
    <3>6. QED BY <2>3, <2>4, <3>2, <3>5
  <2>6. Headed(q, h)
    BY <1>10 DEF Pushed
  <2>7. Headed(t, h2)
    <3>1. h2[n].type \in {"key", "inter"} =>
            \E y \in Elements(q) : h2[y].type = "vsh" /\ h2[y].pub = h2[n].pub
      BY <2>4, <2>5
    <3>2. n \in Nat
      BY <1>1
    <3>3. Headed(q \o <<n>>, h2)
      BY <2>3, <2>6, <3>1, <3>2, HeadedMore, ZenonT(40)
    <3>4. QED BY <1>3, <3>3
  <2>8. QED BY <2>2, <2>7 DEF Pushed
<1>11. QED BY <1>1, <1>3, <1>4, <1>5, <1>7, <1>8, <1>9, <1>10

\* What a session was sent before a message suits it, if it is to be sent the message.
BeforeWell(c, v, s, type, h, p, fd) ==
  /\ Before(c, s) \in Seq(Nat) /\ Elements(Before(c, s)) \subseteq 1..Len(h)
  /\ v \in Viewers /\ StillWaits(c, s, type) => Elements(Before(c, s)) \cap FramesOf(h) = {}
  /\ ~Ready(s) /\ ~StillWaits(c, s, type) =>
       /\ c.maxFrames = 0 => UnbrokenIn(Before(c, s), FramesOf(h))
       /\ v \in Viewers => /\ KeyFirst(Before(c, s), VideosOf(h), KeysOf(h))
                           /\ type = "key" \/ Viewed(Before(c, s), h)
       /\ v \in Pushes /\ fd => Pushed(Before(c, s), h, p, TRUE)

\* It is so.
LEMMA BeforeOk ==
  ASSUME NEW h, NEW p, HistOk(h, p), NEW c, NEW fd \in BOOLEAN, CacheOk(c, h, p, fd), NEW codec \in BOOLEAN,
         ~codec => VideosOf(h) = {}, NEW v \in Sessions, NEW s, NEW m,
         SessionOk(v, s, h, p, TRUE, codec, m, c.maxFrames, fd), s.joined, NEW type
  PROVE  BeforeWell(c, v, s, type, h, p, fd)
<1>1. /\ s \in SessionType /\ Elements(s.out) \subseteq 1..Len(h)
      /\ v \in Viewers /\ s.fresh => (s.wait <=> codec)
      /\ v \in Viewers /\ ~s.fresh /\ s.wait => Elements(s.out) \cap FramesOf(h) = {}
      /\ v \in Pushes => ~s.wait
  BY DEF SessionOk
<1>2. v \in Viewers \/ v \in Pushes
  BY DEF Sessions, Viewers
<1>3. s.fresh \in BOOLEAN /\ s.wait \in BOOLEAN /\ s.out \in Seq(Nat)
  BY <1>1 DEF SessionType
<1>4. PICK b : b = Before(c, s)
  OBVIOUS
<1>5. PICK F, V, K : /\ F = FramesOf(h) /\ V = VideosOf(h) /\ K = KeysOf(h)
                     /\ K \subseteq V /\ V \subseteq F
  BY VideoNeeds
<1>6. CASE s.fresh
  <2>1. Greets(b, h, p, fd, GetGopCount(c), c.maxFrames)
    BY <1>4, <1>6, GreetingOk DEF Before, Greeting
  <2>2. PICK k : k = GetGopCount(c)
    OBVIOUS
  <2>3. /\ b \in Seq(Nat) /\ Elements(b) \subseteq 1..Len(h)
        /\ c.maxFrames = 0 => UnbrokenIn(b, F)
        /\ KeyFirst(b, V, K)
        /\ k = 0 => Elements(b) \cap F = {}
        /\ k # 0 => K \cap Elements(b) # {}
    BY <1>5, <2>1, <2>2 DEF Greets
  <2>4. fd => Pushed(b, h, p, TRUE)
    BY <2>1 DEF Greets, Pushed
  <2>5. StillWaits(c, s, type) <=> s.wait /\ k = 0 /\ type # "key"
    BY <1>6, <2>2 DEF StillWaits
  <2>6. ASSUME v \in Viewers, ~StillWaits(c, s, type), type # "key" PROVE Viewed(b, h)
    <3>1. CASE k # 0
      BY <1>5, <2>3, <3>1 DEF Viewed
    <3>2. CASE ~s.wait
      <4>1. ~codec
        BY <1>1, <1>6, <2>6, <3>2
      <4>2. V = {} /\ K = {}
        BY <1>5, <4>1
      <4>3. QED BY <1>5, <2>3, <4>2 DEF Viewed
    <3>3. QED BY <2>5, <2>6, <3>1, <3>2
  <2>7. QED BY <1>4, <1>5, <2>3, <2>4, <2>5, <2>6 DEF BeforeWell
<1>7. CASE ~s.fresh
  <2>1. b = s.out /\ b \in Seq(Nat) /\ Elements(b) \subseteq 1..Len(h)
    BY <1>1, <1>3, <1>4, <1>7 DEF Before
  <2>2. v \in Viewers /\ s.wait => Elements(b) \cap F = {}
    BY <1>1, <1>5, <1>7, <2>1
  <2>3. StillWaits(c, s, type) <=> s.wait /\ type # "key"
    BY <1>7 DEF StillWaits
  <2>4. ~Ready(s) <=> s.wait
    BY <1>3, <1>7 DEF Ready
  <2>5. ASSUME s.wait, ~StillWaits(c, s, type)
        PROVE  type = "key" /\ v \in Viewers /\ UnbrokenIn(b, F) /\ KeyFirst(b, V, K)
    <3>1. v \in Viewers /\ Elements(b) \cap F = {} /\ type = "key"
      BY <1>1, <1>2, <2>2, <2>3, <2>5
    <3>2. UnbrokenIn(b, F)
      BY <2>1, <3>1, UnbrokenHeaders
    <3>3. \A i \in 1..Len(b) : b[i] \notin V
      BY <1>5, <3>1 DEF Elements
    <3>4. KeyFirst(b, V, K)
      BY <3>3 DEF KeyFirst
    <3>5. QED BY <3>1, <3>2, <3>4
  <2>6. v \in Pushes => ~s.wait
    BY <1>1
  <2>7. QED BY <1>4, <1>5, <2>1, <2>2, <2>3, <2>4, <2>5, <2>6 DEF BeforeWell
<1>8. QED BY <1>3, <1>6, <1>7

\* A session that was served is as it should be, if what it is due suits it.
LEMMA AfterOk ==
  ASSUME NEW h, NEW p, NEW codec, NEW m, NEW x, NEW fd, NEW v \in Sessions, NEW c, NEW s \in SessionType, s.joined,
         NEW type, NEW q, NEW g, ServedAs(c, g, s, type, q), Elements(q) \subseteq 1..Len(h),
         v \in Viewers /\ StillWaits(c, s, type) => Elements(q) \cap FramesOf(h) = {},
         v \in Pushes => ~s.wait,
         ~StillWaits(c, s, type) =>
           LET d == IF v \in RtmpSubs THEN q \o m ELSE q
           IN  /\ x = 0 => UnbrokenIn(d, FramesOf(h))
               /\ v \in Viewers => Viewed(d, h)
               /\ v \in Pushes /\ fd => Pushed(q, h, p, TRUE)
  PROVE  SessionOk(v, g, h, p, TRUE, codec, m, x, fd)
<1>1. g \in SessionType /\ g.joined /\ ~g.fresh /\ (g.wait <=> StillWaits(c, s, type)) /\ g.out = q
  BY DEF ServedAs
<1>2. DueOf(v, g, m) = IF v \in RtmpSubs THEN q \o m ELSE q
  BY <1>1 DEF DueOf
<1>3. Ready(g) <=> ~StillWaits(c, s, type)
  BY <1>1 DEF Ready
<1>4. v \in Pushes => ~g.wait
  BY <1>1 DEF StillWaits
<1>5. QED BY <1>1, <1>2, <1>3, <1>4 DEF SessionOk

\* A message does not make what came before it a frame.
LEMMA StillNoFrames ==
  ASSUME NEW h, NEW p, NEW type \in AllTypes, NEW n, NEW h2, Follows(h2, n, h, type, p),
         NEW q, Elements(q) \subseteq 1..Len(h)
  PROVE  /\ Elements(q) \subseteq 1..Len(h2)
         /\ Elements(q) \cap FramesOf(h) = {} => Elements(q) \cap FramesOf(h2) = {}
<1>1. Grown(h2, n, h, type, p)
  BY AppendedSets
<1>2. n \notin Elements(q) /\ Elements(q) \subseteq 1..Len(h2)
  BY DEF Follows
<1>3. FramesOf(h2) \subseteq FramesOf(h) \cup {n}
  BY <1>1 DEF Grown
<1>4. QED BY <1>2, <1>3

\* The three kinds of sessions are disjoint.
LEMMA Kinds ==
  /\ \A v \in FlvSubs : v \in Sessions /\ v \in Viewers /\ v \notin RtmpSubs /\ v \notin Pushes
  /\ \A v \in RtmpSubs : v \in Sessions /\ v \in Viewers /\ v \notin Pushes
  /\ \A v \in Pushes : v \in Sessions /\ v \notin RtmpSubs /\ v \notin FlvSubs /\ v \notin Viewers
  /\ \A v \in Sessions : v \in RtmpSubs \/ v \in FlvSubs \/ v \in Pushes
BY BroadcastAssumption DEF BroadcastAssumption, Sessions, Viewers

\* A message to an http-flv viewer.
LEMMA FlvStep ==
  ASSUME NEW h, NEW p, HistOk(h, p), NEW c, NEW fd \in BOOLEAN, CacheOk(c, h, p, fd), NEW codec \in BOOLEAN,
         ~codec => VideosOf(h) = {}, NEW v \in FlvSubs, c = CacheOf(v), NEW m,
         SessionOk(v, sess[v], h, p, TRUE, codec, m, c.maxFrames, fd), sess[v].joined,
         NEW type \in AllTypes, NEW n, NEW h2, Follows(h2, n, h, type, p), MayFollow(type, h, p),
         NEW codec2, NEW m2
  PROVE  SessionOk(v, ToFlvSub(v, type, n), h2, p, TRUE, codec2, m2, c.maxFrames, fd)
<1>1. v \in Sessions /\ v \in Viewers /\ v \notin RtmpSubs /\ v \notin Pushes
  BY Kinds
<1>2. PICK s \in SessionType : s = sess[v] /\ s.joined /\ (s.fresh => s.out = <<>>)
  BY DEF SessionOk
<1>3. SessionOk(v, s, h, p, TRUE, codec, m, c.maxFrames, fd)
  BY <1>2
<1>4. CachedHeaders(c) \in Seq(Nat) /\ Greeting(c) \in Seq(Nat)
  <2>1. Greets(Greeting(c), h, p, fd, GetGopCount(c), c.maxFrames)
    BY GreetingOk DEF Greeting
  <2>2. IsCache(c)
    BY DEF CacheOk
  <2>3. QED BY <2>1, <2>2, HeadersAre DEF Greets
<1>5. n \in Nat
  BY DEF Follows
<1>6. PICK g : g = ToFlvSub(v, type, n)
  OBVIOUS
<1>7. ServedAs(c, g, s, type, IF StillWaits(c, s, type) THEN Before(c, s) ELSE Before(c, s) \o <<n>>)
  BY <1>2, <1>4, <1>5, <1>6, FlvServed
<1>8. PICK b : b = Before(c, s)
  OBVIOUS
<1>9. /\ b \in Seq(Nat) /\ Elements(b) \subseteq 1..Len(h)
      /\ StillWaits(c, s, type) => Elements(b) \cap FramesOf(h) = {}
      /\ ~Ready(s) /\ ~StillWaits(c, s, type) =>
           /\ c.maxFrames = 0 => UnbrokenIn(b, FramesOf(h))
           /\ KeyFirst(b, VideosOf(h), KeysOf(h))
           /\ type = "key" \/ Viewed(b, h)
  <2>1. BeforeWell(c, v, s, type, h, p, fd)
    BY <1>1, <1>2, <1>3, BeforeOk
  <2>2. QED BY <1>1, <1>8, <2>1 DEF BeforeWell
<1>10. CASE StillWaits(c, s, type)
  <2>1. ServedAs(c, g, s, type, b)
    BY <1>7, <1>8, <1>10
  <2>2. Elements(b) \subseteq 1..Len(h2) /\ Elements(b) \cap FramesOf(h2) = {}
    BY <1>9, <1>10, StillNoFrames
  <2>3. SessionOk(v, g, h2, p, TRUE, codec2, m2, c.maxFrames, fd)
    BY <1>1, <1>2, <1>10, <2>1, <2>2, AfterOk
  <2>4. QED BY <1>6, <2>3
<1>11. CASE ~StillWaits(c, s, type)
  <2>1. ServedAs(c, g, s, type, b \o <<n>>)
    BY <1>7, <1>8, <1>11
  <2>2. /\ c.maxFrames = 0 => UnbrokenIn(b, FramesOf(h))
        /\ KeyFirst(b, VideosOf(h), KeysOf(h))
        /\ type = "key" \/ Viewed(b, h)
    <3>1. CASE Ready(s)
      <4>1. b = s.out /\ DueOf(v, s, m) = b
        BY <1>1, <1>8, <3>1 DEF Before, Ready, DueOf
      <4>2. QED BY <1>1, <1>2, <1>3, <3>1, <4>1 DEF SessionOk, Viewed
    <3>2. QED BY <1>9, <1>11, <3>1
  <2>3. /\ Elements(b \o <<n>>) \subseteq 1..Len(h2)
        /\ UnbrokenIn(b, FramesOf(h)) => UnbrokenIn(b \o <<n>>, FramesOf(h2))
        /\ KeyFirst(b, VideosOf(h), KeysOf(h)) /\ (type = "key" \/ Viewed(b, h)) => Viewed(b \o <<n>>, h2)
    BY <1>9, DueMore
  <2>4. PICK q : q = b \o <<n>>
    OBVIOUS
  <2>5. /\ c.maxFrames = 0 => UnbrokenIn(q, FramesOf(h2))
        /\ Viewed(q, h2) /\ ServedAs(c, g, s, type, q) /\ Elements(q) \subseteq 1..Len(h2)
    BY <2>1, <2>2, <2>3, <2>4
  <2>6. SessionOk(v, g, h2, p, TRUE, codec2, m2, c.maxFrames, fd)
    BY <1>1, <1>2, <1>11, <2>5, AfterOk
  <2>7. QED BY <1>6, <2>6
<1>12. QED BY <1>10, <1>11

\* A message to a push session.
LEMMA PushStep ==
  ASSUME NEW h, NEW p, HistOk(h, p), NEW c, NEW fd \in BOOLEAN, CacheOk(c, h, p, fd), NEW codec \in BOOLEAN,
         ~codec => VideosOf(h) = {}, NEW v \in Pushes, c = CacheOf(v), NEW m,
         SessionOk(v, sess[v], h, p, TRUE, codec, m, c.maxFrames, fd), sess[v].joined,
         NEW type \in AllTypes, NEW n, NEW h2, Follows(h2, n, h, type, p), MayFollow(type, h, p),
         NEW codec2, NEW m2
  PROVE  SessionOk(v, ToPush(v, n), h2, p, TRUE, codec2, m2, c.maxFrames, fd)
<1>1. v \in Sessions /\ v \notin RtmpSubs /\ v \notin Viewers
  BY Kinds
<1>2. PICK s \in SessionType : s = sess[v] /\ s.joined /\ (s.fresh => s.out = <<>>) /\ ~s.wait
  BY DEF SessionOk
<1>3. SessionOk(v, s, h, p, TRUE, codec, m, c.maxFrames, fd)
  BY <1>2
<1>4. CachedHeaders(c) \in Seq(Nat) /\ Greeting(c) \in Seq(Nat)
  <2>1. Greets(Greeting(c), h, p, fd, GetGopCount(c), c.maxFrames)
    BY GreetingOk DEF Greeting
  <2>2. IsCache(c)
    BY DEF CacheOk
  <2>3. QED BY <2>1, <2>2, HeadersAre DEF Greets
<1>5. n \in Nat
  BY DEF Follows
<1>6. PICK g : g = ToPush(v, n)
  OBVIOUS
<1>7. ServedAs(c, g, s, type, Before(c, s) \o <<n>>)
  BY <1>2, <1>4, <1>5, <1>6, PushServed
<1>8. PICK b : b = Before(c, s)
  OBVIOUS
<1>9. ~StillWaits(c, s, type)
  BY <1>2 DEF StillWaits
<1>10. /\ b \in Seq(Nat) /\ Elements(b) \subseteq 1..Len(h)
       /\ ~Ready(s) => /\ c.maxFrames = 0 => UnbrokenIn(b, FramesOf(h))
                       /\ fd => Pushed(b, h, p, TRUE)
  <2>1. BeforeWell(c, v, s, type, h, p, fd)
    BY <1>1, <1>2, <1>3, BeforeOk
  <2>2. QED BY <1>8, <1>9, <2>1 DEF BeforeWell
<1>11. (c.maxFrames = 0 => UnbrokenIn(b, FramesOf(h))) /\ (fd => Pushed(b, h, p, TRUE))
  <2>1. CASE Ready(s)
    <3>1. b = s.out /\ DueOf(v, s, m) = b
      BY <1>1, <1>8, <2>1 DEF Before, Ready, DueOf
    <3>2. QED BY <1>2, <1>3, <2>1, <3>1 DEF SessionOk
  <2>2. QED BY <1>10, <2>1
<1>12. PICK q : q = b \o <<n>>
  OBVIOUS
<1>13. /\ Elements(q) \subseteq 1..Len(h2)
       /\ UnbrokenIn(b, FramesOf(h)) => UnbrokenIn(q, FramesOf(h2))
       /\ Pushed(b, h, p, TRUE) => Pushed(q, h2, p, TRUE)
  BY <1>10, <1>12, DueMore
<1>14. ServedAs(c, g, s, type, q)
  BY <1>7, <1>8, <1>12
<1>15. SessionOk(v, g, h2, p, TRUE, codec2, m2, c.maxFrames, fd)
  BY <1>1, <1>2, <1>9, <1>11, <1>13, <1>14, AfterOk
<1>16. QED BY <1>6, <1>15

\* The merge writer m, emptied first or not, and the message n: what is written to the
\* viewers and what is kept in m2
Merges(flushed, written, m2, m, n, flush) ==
  /\ flushed = (IF flush THEN m ELSE <<>>) /\ written \in Seq(Nat) /\ m2 \in Seq(Nat)
  /\ written \o m2 = IF flush THEN <<n>> ELSE m \o <<n>>

\* What a message type, the n-th one, finds: the history h, the input p, the cache c of v
\* and the session v itself as they should be.
Finds(v, c, fd, type, n, h2, h, p, codec, m) ==
  /\ HistOk(h, p) /\ fd \in BOOLEAN /\ CacheOk(c, h, p, fd) /\ codec \in BOOLEAN
  /\ ~codec => VideosOf(h) = {}
  /\ c = CacheOf(v) /\ m \in Seq(Nat) /\ Elements(m) \subseteq 1..Len(h)
  /\ SessionOk(v, sess[v], h, p, TRUE, codec, m, c.maxFrames, fd) /\ sess[v].joined
  /\ type \in AllTypes /\ Follows(h2, n, h, type, p) /\ MayFollow(type, h, p)

\* A message to an rtmp viewer.
LEMMA RtmpStep ==
  ASSUME NEW v \in RtmpSubs, NEW c, NEW fd, NEW type, NEW n, NEW h2, NEW h, NEW p, NEW codec,
         NEW m, Finds(v, c, fd, type, n, h2, h, p, codec, m),
         NEW codec2, NEW flush \in BOOLEAN, NEW flushed, NEW written, NEW m2,
         Merges(flushed, written, m2, m, n, flush),
         ~Ready(sess[v]) /\ ~StillWaits(c, sess[v], type) => flush
  PROVE  SessionOk(v, ToRtmpSub(v, type, flushed, written), h2, p, TRUE, codec2, m2, c.maxFrames, fd)
<1> /\ HistOk(h, p) /\ fd \in BOOLEAN /\ CacheOk(c, h, p, fd) /\ codec \in BOOLEAN
    /\ ~codec => VideosOf(h) = {}
    /\ c = CacheOf(v) /\ m \in Seq(Nat) /\ Elements(m) \subseteq 1..Len(h)
    /\ SessionOk(v, sess[v], h, p, TRUE, codec, m, c.maxFrames, fd) /\ sess[v].joined
    /\ type \in AllTypes /\ Follows(h2, n, h, type, p) /\ MayFollow(type, h, p)
  BY DEF Finds
<1>1. v \in Sessions /\ v \in Viewers /\ v \notin Pushes
  BY Kinds
<1>2. PICK s \in SessionType : s = sess[v] /\ s.joined /\ (s.fresh => s.out = <<>>)
  BY DEF SessionOk
<1>3. SessionOk(v, s, h, p, TRUE, codec, m, c.maxFrames, fd)
  BY <1>2
<1>4. CachedHeaders(c) \in Seq(Nat) /\ Greeting(c) \in Seq(Nat)
  <2>1. Greets(Greeting(c), h, p, fd, GetGopCount(c), c.maxFrames)
    BY GreetingOk DEF Greeting
  <2>2. IsCache(c)
    BY DEF CacheOk
  <2>3. QED BY <2>1, <2>2, HeadersAre DEF Greets
<1>5. /\ written \in Seq(Nat) /\ m2 \in Seq(Nat) /\ flushed = (IF flush THEN m ELSE <<>>)
      /\ written \o m2 = IF flush THEN <<n>> ELSE m \o <<n>>
  BY DEF Merges
<1>6. flushed \in Seq(Nat) /\ n \in Nat /\ <<n>> \in Seq(Nat)
  <2>1. n \in Nat
    BY DEF Follows
  <2>2. QED BY <1>5, <2>1, EmptySeq
<1>7. PICK g : g = ToRtmpSub(v, type, flushed, written)
  OBVIOUS
<1>8. ServedAs(c, g, s, type, IF Ready(s) THEN (s.out \o flushed) \o written
                           ELSE IF StillWaits(c, s, type) THEN Before(c, s)
                           ELSE Before(c, s) \o written)
  BY <1>2, <1>4, <1>5, <1>6, <1>7, RtmpServed
<1>9. PICK b : b = Before(c, s)
  OBVIOUS
<1>10. /\ b \in Seq(Nat) /\ Elements(b) \subseteq 1..Len(h)
       /\ StillWaits(c, s, type) => Elements(b) \cap FramesOf(h) = {}
       /\ ~Ready(s) /\ ~StillWaits(c, s, type) =>
            /\ c.maxFrames = 0 => UnbrokenIn(b, FramesOf(h))
            /\ KeyFirst(b, VideosOf(h), KeysOf(h))
            /\ type = "key" \/ Viewed(b, h)
  <2>1. BeforeWell(c, v, s, type, h, p, fd)
    BY <1>1, <1>2, <1>3, BeforeOk
  <2>2. QED BY <1>1, <1>9, <2>1 DEF BeforeWell
<1>11. Ready(s) => ~StillWaits(c, s, type)
  BY DEF Ready, StillWaits
\* Whoever is due d and the message is as it should be.
<1>12. ASSUME NEW q \in Seq(Nat), NEW d \in Seq(Nat), Elements(d) \subseteq 1..Len(h),
              q \o m2 = d \o <<n>>, ServedAs(c, g, s, type, q), ~StillWaits(c, s, type),
              c.maxFrames = 0 => UnbrokenIn(d, FramesOf(h)),
              KeyFirst(d, VideosOf(h), KeysOf(h)), type = "key" \/ Viewed(d, h)
       PROVE  SessionOk(v, g, h2, p, TRUE, codec2, m2, c.maxFrames, fd)
  <2>1. /\ Elements(d \o <<n>>) \subseteq 1..Len(h2)
        /\ UnbrokenIn(d, FramesOf(h)) => UnbrokenIn(d \o <<n>>, FramesOf(h2))
        /\ KeyFirst(d, VideosOf(h), KeysOf(h)) /\ (type = "key" \/ Viewed(d, h)) => Viewed(d \o <<n>>, h2)
    BY <1>12, DueMore
  <2>2. PICK e : e = q \o m2
    OBVIOUS
  <2>3. Elements(e) = Elements(q) \cup Elements(m2)
    BY <1>5, <2>2, Concatenated
  <2>4. /\ Elements(q) \subseteq 1..Len(h2)
        /\ c.maxFrames = 0 => UnbrokenIn(e, FramesOf(h2))
        /\ Viewed(e, h2)
    BY <1>12, <2>1, <2>2, <2>3
  <2>5. QED BY <1>1, <1>2, <1>12, <2>2, <2>4, AfterOk
<1>13. CASE Ready(s)
  <2>1. PICK o \in Seq(Nat) : o = s.out
    BY DEF SessionType
  <2>2. PICK d \in Seq(Nat) : d = o \o m /\ d = DueOf(v, s, m)
    BY <2>1, Concatenated DEF DueOf
  <2>3. PICK f \in Seq(Nat) : f = o \o flushed
    BY <1>6, Concatenated
  <2>4. PICK q \in Seq(Nat) : q = f \o written
    BY <1>5, Concatenated
  <2>5. ServedAs(c, g, s, type, q)
    BY <1>8, <1>13, <2>1, <2>3, <2>4
  <2>6. q \o m2 = f \o (written \o m2)
    <3>1. (f \o written) \o m2 = f \o (written \o m2)
      BY <1>5, Associative, Zenon
    <3>2. QED BY <2>4, <3>1
  <2>7. f \o (written \o m2) = d \o <<n>>
    <3>1. CASE flush
      BY <1>5, <2>2, <2>3, <3>1
    <3>2. CASE ~flush
      <4>1. f = o
        BY <1>5, <2>3, <3>2, ConcatEmptySeq
      <4>2. (o \o m) \o <<n>> = o \o (m \o <<n>>)
        <5>1. PICK t : t = <<n>>
          OBVIOUS
        <5>2. o \in Seq(Nat) /\ m \in Seq(Nat) /\ t \in Seq(Nat)
          BY <1>6, <5>1
        <5>3. (o \o m) \o t = o \o (m \o t)
          BY <5>2, Associative, ZenonT(40)
        <5>4. QED BY <5>1, <5>3
      <4>3. QED BY <1>5, <2>2, <3>2, <4>1, <4>2
    <3>3. QED BY <3>1, <3>2
  <2>8. Elements(d) \subseteq 1..Len(h)
    <3>1. Elements(d) = Elements(o) \cup Elements(m)
      <4>1. Elements(o \o m) = Elements(o) \cup Elements(m)
        BY Concatenated
      <4>2. QED BY <2>2, <4>1
    <3>2. Elements(o) \subseteq 1..Len(h)
      BY <1>3, <2>1 DEF SessionOk
    <3>3. QED BY <3>1, <3>2
  <2>9. (c.maxFrames = 0 => UnbrokenIn(d, FramesOf(h))) /\ Viewed(d, h)
    BY <1>1, <1>2, <1>3, <1>13, <2>2 DEF SessionOk
  <2>10. KeyFirst(d, VideosOf(h), KeysOf(h))
    BY <2>9 DEF Viewed
  <2>11. SessionOk(v, g, h2, p, TRUE, codec2, m2, c.maxFrames, fd)
    BY <1>11, <1>12, <1>13, <2>5, <2>6, <2>7, <2>8, <2>9, <2>10
  <2>12. QED BY <1>7, <2>11
<1>14. CASE ~Ready(s) /\ StillWaits(c, s, type)
  <2>1. ServedAs(c, g, s, type, b)
    BY <1>8, <1>9, <1>14
  <2>2. Elements(b) \subseteq 1..Len(h2) /\ Elements(b) \cap FramesOf(h2) = {}
    BY <1>10, <1>14, StillNoFrames
  <2>3. SessionOk(v, g, h2, p, TRUE, codec2, m2, c.maxFrames, fd)
    BY <1>1, <1>2, <1>14, <2>1, <2>2, AfterOk
  <2>4. QED BY <1>7, <2>3
<1>15. CASE ~Ready(s) /\ ~StillWaits(c, s, type)
  <2>1. flush /\ written \o m2 = <<n>>
    BY <1>2, <1>5, <1>15
  <2>2. PICK q \in Seq(Nat) : q = b \o written
    BY <1>5, <1>10, Concatenated
  <2>3. ServedAs(c, g, s, type, q)
    BY <1>8, <1>9, <1>15, <2>2
  <2>4. q \o m2 = b \o <<n>>
    <3>1. (b \o written) \o m2 = b \o (written \o m2)
      BY <1>5, <1>10, Associative, ZenonT(40)
    <3>2. QED BY <2>1, <2>2, <3>1
  <2>5. SessionOk(v, g, h2, p, TRUE, codec2, m2, c.maxFrames, fd)
    BY <1>10, <1>12, <1>15, <2>2, <2>3, <2>4
  <2>6. QED BY <1>7, <2>5
<1>16. QED BY <1>13, <1>14, <1>15

-----------------------------------------------------------------------------
(* The invariant                                                            *)

\* The history, the cache, the merge writer and every session are as they should be.
BroadcastInv ==
  /\ setup \in Setups /\ cache.maxFrames = setup.maxFrames
  /\ HistOk(hist, pub) /\ hasInput \in BOOLEAN /\ videoCodec \in BOOLEAN
  /\ ~videoCodec => \A i \in 1..Len(hist) : hist[i].type # "vsh"
  /\ CacheOk(cache, hist, pub, hasInput)
  /\ merge \in Seq(Nat) /\ Elements(merge) \subseteq 1..Len(hist)
  /\ sess \in [Sessions -> SessionType]
  /\ \A v \in Sessions :
       SessionOk(v, sess[v], hist, pub, hasInput, videoCodec, merge, cache.maxFrames, Fed(v))

\* The empty sequence has no elements.
LEMMA NoElements == Elements(<<>>) = {} /\ <<>> \in Seq(Nat) /\ Len(<<>>) = 0
BY EmptySeq DEF Elements

\* Who is away, or has just joined, has nothing to be said of.
LEMMA FreshOk ==
  ASSUME NEW v, NEW h, NEW p, NEW in, NEW codec, NEW m, NEW x, NEW fd, NEW s \in SessionType,
         s.fresh, s.out = <<>>, ~s.joined => s = Away,
         v \in Viewers /\ s.joined => (s.wait <=> codec), v \in Pushes /\ s.joined => ~s.wait
  PROVE  SessionOk(v, s, h, p, in, codec, m, x, fd)
<1>1. ~Ready(s)
  BY DEF Ready
<1>2. Elements(s.out) \subseteq 1..Len(h)
  BY NoElements
<1>3. QED BY <1>1, <1>2 DEF SessionOk

\* It holds of the initial state.
LEMMA BroadcastInvInit == Init => BroadcastInv
<1> SUFFICES ASSUME Init PROVE BroadcastInv
  OBVIOUS
<1>1. hist = <<>> /\ pub = 0 /\ hasInput = FALSE /\ videoCodec = FALSE /\ merge = <<>>
  BY DEF Init
<1>2. \A i \in 1..Len(hist) : FALSE
  BY <1>1, NoElements
<1>3. HistOk(hist, pub)
  <2>1. <<>> \in Seq([type : AllTypes, pub : Nat])
    BY EmptySeq
  <2>2. QED BY <1>1, <1>2, <2>1 DEF HistOk
<1>4. PICK g \in Nat, x \in Nat :
        cache = NewGopCache(g, x) /\ setup \in Setups /\ x = setup.maxFrames
  BY BroadcastAssumption DEF Init, BroadcastAssumption
<1>5. /\ IsCache(cache) /\ GetGopCount(cache) = 0 /\ cache.meta = 0 /\ cache.vsh = 0 /\ cache.ash = 0
      /\ cache.maxFrames = x
  BY <1>4, NewCache DEF NewGopCache
<1>6. CacheOk(cache, hist, pub, hasInput)
  BY <1>1, <1>5 DEF CacheOk, NilOrHeader
<1>7. Away \in SessionType /\ Away.fresh /\ ~Away.joined /\ Away.out = <<>>
  BY NoElements DEF Away, SessionType
<1>8. sess \in [Sessions -> SessionType] /\ \A v \in Sessions : sess[v] = Away
  BY <1>7 DEF Init
<1>9. ASSUME NEW v \in Sessions
      PROVE  SessionOk(v, sess[v], hist, pub, hasInput, videoCodec, merge, cache.maxFrames, Fed(v))
  BY <1>7, <1>8, FreshOk
<1>10. merge \in Seq(Nat) /\ Elements(merge) \subseteq 1..Len(hist)
  BY <1>1, NoElements
<1>11. QED BY <1>1, <1>2, <1>3, <1>4, <1>5, <1>6, <1>8, <1>9, <1>10 DEF BroadcastInv

\* A new publisher has sent nothing yet.
LEMMA NewPublisher ==
  ASSUME NEW h, NEW p, HistOk(h, p)
  PROVE  HistOk(h, p + 1) /\ HeadersOf(h, p + 1) = {} /\ StartsOf(h, p + 1) = {}
<1>1. h \in Seq([type : AllTypes, pub : Nat]) /\ p \in Nat
  BY DEF HistOk
<1>2. \A i \in 1..Len(h) : h[i] \in [type : AllTypes, pub : Nat] /\ h[i].pub \in Nat /\ h[i].pub <= p
  <2>1. \A i \in 1..Len(h) : h[i] \in [type : AllTypes, pub : Nat]
    BY <1>1, ElementOfSeq
  <2>2. QED BY <2>1 DEF HistOk
<1>3. \A i \in 1..Len(h) : h[i].pub <= p + 1 /\ h[i].pub # p + 1
  BY <1>1, <1>2
<1>4. \A i \in 1..Len(h) : \A t : h[i] # Message(t, p + 1)
  BY <1>2, <1>3, MessageOf
<1>5. HeadersOf(h, p + 1) = {} /\ StartsOf(h, p + 1) = {}
  BY <1>4 DEF HeadersOf, StartsOf
<1>6. p + 1 \in Nat
  BY <1>1
<1>7. HistOk(h, p + 1)
  BY <1>3, <1>6 DEF HistOk
<1>8. QED BY <1>5, <1>7

\* AddIn keeps it.
LEMMA AddInStep == BroadcastInv /\ AddIn => BroadcastInv'
<1> SUFFICES ASSUME BroadcastInv, AddIn PROVE BroadcastInv'
  OBVIOUS
<1>1. /\ ~hasInput /\ hasInput' = TRUE /\ pub' = pub + 1 /\ hist' = hist /\ videoCodec' = videoCodec
      /\ cache' = cache /\ merge' = merge /\ sess' = sess /\ setup' = setup
  BY DEF AddIn
<1>2. HistOk(hist, pub')  /\ HeadersOf(hist, pub') = {} /\ StartsOf(hist, pub') = {}
  BY <1>1, NewPublisher DEF BroadcastInv
<1>3. /\ IsCache(cache) /\ GetGopCount(cache) = 0 /\ cache.meta = 0 /\ cache.vsh = 0 /\ cache.ash = 0
  BY <1>1 DEF BroadcastInv, CacheOk
<1>4. Recent(cache, {}, FramesOf(hist))
  BY <1>3 DEF Recent
<1>5. CacheOk(cache, hist, pub', TRUE)
  BY <1>2, <1>3, <1>4 DEF CacheOk, NilOrHeader
<1>6. ASSUME NEW v \in Sessions
      PROVE  SessionOk(v, sess[v], hist, pub', TRUE, videoCodec, merge, cache.maxFrames, Fed(v))
  <2>1. SessionOk(v, sess[v], hist, pub, hasInput, videoCodec, merge, cache.maxFrames, Fed(v))
    BY DEF BroadcastInv
  <2>2. Pushed(sess[v].out, hist, pub, hasInput) => Pushed(sess[v].out, hist, pub', TRUE)
    BY <1>2 DEF Pushed
  <2>3. QED BY <2>1, <2>2 DEF SessionOk
<1>7. QED BY <1>1, <1>2, <1>5, <1>6 DEF BroadcastInv, Fed

\* DelIn keeps it.
LEMMA DelInStep == BroadcastInv /\ DelIn => BroadcastInv'
<1> SUFFICES ASSUME BroadcastInv, DelIn PROVE BroadcastInv'
  OBVIOUS
<1>1. /\ hasInput' = FALSE /\ pub' = pub /\ hist' = hist /\ videoCodec' = videoCodec
      /\ cache' = Clear(cache) /\ merge' = merge /\ sess' = sess /\ setup' = setup
  BY DEF DelIn
<1>2. IsCache(cache)
  BY DEF BroadcastInv, CacheOk
<1>3. PICK d : d = Clear(cache)
  OBVIOUS
<1>4. /\ IsCache(d) /\ d.maxFrames = cache.maxFrames /\ GetGopCount(d) = 0
      /\ d.meta = 0 /\ d.vsh = 0 /\ d.ash = 0
  BY <1>2, <1>3, Cleared
<1>5. CacheOk(d, hist, pub, FALSE)
  BY <1>4 DEF CacheOk, NilOrHeader
<1>6. ASSUME NEW v \in Sessions
      PROVE  SessionOk(v, sess[v], hist, pub, FALSE, videoCodec, merge, d.maxFrames, Fed(v))
  <2>1. SessionOk(v, sess[v], hist, pub, hasInput, videoCodec, merge, d.maxFrames, Fed(v))
    BY <1>4 DEF BroadcastInv
  <2>2. Pushed(sess[v].out, hist, pub, hasInput) => Pushed(sess[v].out, hist, pub, FALSE)
    BY DEF Pushed
  <2>3. QED BY <2>1, <2>2 DEF SessionOk
<1>7. QED BY <1>1, <1>3, <1>4, <1>5, <1>6 DEF BroadcastInv, Fed

\* The cache of a session is as it should be: fed, or as it was made.
LEMMA CacheOfOk ==
  ASSUME BroadcastInv, NEW v
  PROVE  /\ Fed(v) \in BOOLEAN
         /\ \E c, in :
              /\ in \in BOOLEAN /\ c = CacheOf(v) /\ (in <=> hasInput /\ Fed(v))
              /\ CacheOk(c, hist, pub, in) /\ c.maxFrames = cache.maxFrames
<1>1. Fed(v) \in BOOLEAN
  BY DEF Fed
<1>2. CASE Fed(v)
  <2>1. CacheOf(v) = cache /\ hasInput \in BOOLEAN
    BY <1>2 DEF CacheOf, BroadcastInv
  <2>2. PICK c, in : in \in BOOLEAN /\ c = cache /\ in = hasInput
    BY <2>1
  <2>3. /\ c = CacheOf(v) /\ (in <=> hasInput /\ Fed(v))
        /\ CacheOk(c, hist, pub, in) /\ c.maxFrames = cache.maxFrames
    BY <1>2, <2>1, <2>2 DEF BroadcastInv
  <2>4. QED BY <1>1, <2>2, <2>3
<1>3. CASE ~Fed(v)
  <2>1. PICK g \in Nat, x \in Nat : g = setup.gopNum /\ x = setup.maxFrames /\ x = cache.maxFrames
    BY BroadcastAssumption DEF BroadcastInv, BroadcastAssumption
  <2>2. PICK c : c = NewGopCache(g, x) /\ c = CacheOf(v)
    BY <1>3, <2>1 DEF CacheOf
  <2>3. /\ IsCache(c) /\ GetGopCount(c) = 0 /\ c.meta = 0 /\ c.vsh = 0 /\ c.ash = 0
        /\ c.maxFrames = x
    BY <2>2, NewCache DEF NewGopCache
  <2>4. CacheOk(c, hist, pub, FALSE)
    BY <2>3 DEF CacheOk, NilOrHeader
  <2>5. PICK in \in BOOLEAN : in = FALSE
    OBVIOUS
  <2>6. /\ c = CacheOf(v) /\ (in <=> hasInput /\ Fed(v))
        /\ CacheOk(c, hist, pub, in) /\ c.maxFrames = cache.maxFrames
    BY <1>3, <2>1, <2>2, <2>3, <2>4, <2>5
  <2>7. QED BY <1>1, <2>6
<1>4. QED BY <1>1, <1>2, <1>3

\* One session coming or going changes no other.
LEMMA OneSession ==
  ASSUME BroadcastInv, NEW v \in Sessions, NEW s \in SessionType,
         SessionOk(v, s, hist, pub, hasInput, videoCodec, merge, cache.maxFrames, Fed(v)),
         sess' = [sess EXCEPT ![v] = s],
         UNCHANGED <<setup, hist, hasInput, pub, videoCodec, cache, merge>>
  PROVE  BroadcastInv'
<1>1. sess' \in [Sessions -> SessionType] /\ \A w \in Sessions : sess'[w] = IF w = v THEN s ELSE sess[w]
  BY DEF BroadcastInv
<1>2. /\ hist' = hist /\ hasInput' = hasInput /\ pub' = pub /\ videoCodec' = videoCodec
      /\ cache' = cache /\ merge' = merge /\ setup' = setup
  OBVIOUS
<1>3. ASSUME NEW w \in Sessions
      PROVE  SessionOk(w, sess'[w], hist, pub, hasInput, videoCodec, merge, cache.maxFrames, Fed(w))
  <2>1. SessionOk(w, sess[w], hist, pub, hasInput, videoCodec, merge, cache.maxFrames, Fed(w))
    BY DEF BroadcastInv
  <2>2. QED BY <1>1, <2>1
<1>4. QED BY <1>1, <1>2, <1>3 DEF BroadcastInv, Fed

\* AddSub and AddPush keep it.
LEMMA JoinStep ==
  ASSUME BroadcastInv, NEW v \in Sessions, NEW w \in BOOLEAN,
         v \in Viewers => w = videoCodec, v \in Pushes => ~w,
         sess' = [sess EXCEPT ![v] = [Away EXCEPT !.joined = TRUE, !.wait = w]],
         UNCHANGED <<setup, hist, hasInput, pub, videoCodec, cache, merge>>
  PROVE  BroadcastInv'
<1>1. PICK s : s = [Away EXCEPT !.joined = TRUE, !.wait = w]
  OBVIOUS
<1>2. s \in SessionType /\ s.joined /\ s.fresh /\ s.out = <<>> /\ (s.wait <=> w)
  BY <1>1, NoElements DEF Away, SessionType
<1>3. SessionOk(v, s, hist, pub, hasInput, videoCodec, merge, cache.maxFrames, Fed(v))
  BY <1>2, FreshOk
<1>4. QED BY <1>1, <1>2, <1>3, OneSession

\* AddRelayPush keeps it.
LEMMA RelayPushStep ==
  ASSUME BroadcastInv, NEW v \in Pushes, AddRelayPush(v)
  PROVE  BroadcastInv'
<1>1. v \in Sessions /\ v \notin RtmpSubs /\ v \notin Viewers
  BY Kinds
<1>2. PICK c, in : /\ in \in BOOLEAN /\ c = CacheOf(v) /\ (in <=> hasInput /\ Fed(v))
                   /\ Greets(Greeting(c), hist, pub, in, GetGopCount(c), cache.maxFrames)
  <2>1. PICK c, in : /\ in \in BOOLEAN /\ c = CacheOf(v) /\ (in <=> hasInput /\ Fed(v))
                     /\ CacheOk(c, hist, pub, in) /\ c.maxFrames = cache.maxFrames
    BY CacheOfOk
  <2>2. Greets(Greeting(c), hist, pub, in, GetGopCount(c), c.maxFrames)
    BY <2>1, GreetingOk DEF Greeting, BroadcastInv
  <2>3. QED BY <2>1, <2>2
<1>3. PICK q \in Seq(Nat) : q = Greeting(c)
  BY <1>2 DEF Greets
<1>4. PICK s : s = [joined |-> TRUE, fresh |-> FALSE, wait |-> FALSE, out |-> q]
  OBVIOUS
<1>5. s \in SessionType /\ s.joined /\ ~s.fresh /\ ~s.wait /\ s.out = q
  BY <1>4 DEF SessionType
<1>6. /\ Elements(q) \subseteq 1..Len(hist)
      /\ cache.maxFrames = 0 => UnbrokenIn(q, FramesOf(hist))
      /\ Fed(v) => Pushed(q, hist, pub, hasInput)
  BY <1>2, <1>3 DEF Greets, Pushed
<1>7. DueOf(v, s, merge) = q
  BY <1>1, <1>5 DEF DueOf
<1>8. SessionOk(v, s, hist, pub, hasInput, videoCodec, merge, cache.maxFrames, Fed(v))
  BY <1>1, <1>5, <1>6, <1>7 DEF SessionOk
<1>9. /\ sess' = [sess EXCEPT ![v] = s]
      /\ UNCHANGED <<setup, hist, hasInput, pub, videoCodec, cache, merge>>
  BY <1>2, <1>3, <1>4 DEF AddRelayPush, Join
<1>10. QED BY <1>1, <1>5, <1>8, <1>9, OneSession

\* DelSession keeps it.
LEMMA LeaveStep ==
  ASSUME BroadcastInv, NEW v \in Sessions, DelSession(v)
  PROVE  BroadcastInv'
<1>1. Away \in SessionType /\ Away.fresh /\ ~Away.joined /\ Away.out = <<>>
  BY NoElements DEF Away, SessionType
<1>2. SessionOk(v, Away, hist, pub, hasInput, videoCodec, merge, cache.maxFrames, Fed(v))
  BY <1>1, FreshOk
<1>3. QED BY <1>1, <1>2, OneSession DEF DelSession

\* A merge writer that held m takes n into b, after it was flushed of f, and writes w of it.
Merged(m, n, flush, full, b, f, w, m2) ==
  /\ b = (IF flush THEN <<>> ELSE m) \o <<n>> /\ f = (IF flush THEN m ELSE <<>>)
  /\ w = (IF full THEN b ELSE <<>>) /\ m2 = (IF full THEN <<>> ELSE b)
\* b, f, w and m2 are sequences that hold m and n once and in order.
MergedIs(b, f, w, m2, m, n, flush) ==
  b \in Seq(Nat) /\ Elements(b) \subseteq Elements(m) \cup {n} /\ Merges(f, w, m2, m, n, flush)

\* What the merge writer does with a message when there is an rtmp viewer.
LEMMA MergeIs ==
  ASSUME NEW m \in Seq(Nat), NEW n \in Nat, NEW flush \in BOOLEAN, NEW full \in BOOLEAN, NEW b,
         NEW f, NEW w, NEW m2, Merged(m, n, flush, full, b, f, w, m2)
  PROVE  MergedIs(b, f, w, m2, m, n, flush)
<1>1. /\ b = (IF flush THEN <<>> ELSE m) \o <<n>> /\ f = (IF flush THEN m ELSE <<>>)
      /\ w = (IF full THEN b ELSE <<>>) /\ m2 = (IF full THEN <<>> ELSE b)
  BY DEF Merged
<1>2. PICK t \in Seq(Nat) : t = IF flush THEN <<>> ELSE m
  BY NoElements
<1>3. b = t \o <<n>> /\ b \in Seq(Nat) /\ Elements(b) = Elements(t) \cup {n}
  BY <1>1, <1>2, Extended
<1>4. Elements(t) \subseteq Elements(m)
  BY <1>1, <1>2, NoElements
<1>5. b = IF flush THEN <<n>> ELSE m \o <<n>>
  <2>1. CASE flush
    <3>1. <<n>> \in Seq(Nat)
      OBVIOUS
    <3>2. <<>> \o <<n>> = <<n>>
      BY <3>1, ConcatEmptySeq
    <3>3. QED BY <1>1, <1>2, <1>3, <2>1, <3>2
  <2>2. CASE ~flush
    BY <1>1, <1>2, <1>3, <2>2
  <2>3. QED BY <2>1, <2>2
<1>6. w \in Seq(Nat) /\ m2 \in Seq(Nat) /\ w \o m2 = b
  <2>1. <<>> \o b = b /\ b \o <<>> = b
    BY <1>3, ConcatEmptySeq
  <2>2. QED BY <1>1, <1>3, <2>1, NoElements
<1>7. Merges(f, w, m2, m, n, flush)
  BY <1>1, <1>5, <1>6 DEF Merges
<1>8. QED BY <1>3, <1>4, <1>7 DEF MergedIs

\* A message of the input keeps it.
LEMMA OnReadStep ==
  ASSUME BroadcastInv, NEW type \in MsgTypes, OnReadRtmpAvMsg(type)
  PROVE  BroadcastInv'
<1> DEFINE viewed == \E v \in RtmpSubs : sess[v].joined
           n == Latest(hist)
           flush == MustFlush(type)
           flushed == IF flush THEN merge ELSE <<>>
           buffered == (IF flush THEN <<>> ELSE merge) \o (IF viewed THEN <<n>> ELSE <<>>)
           full == viewed /\ Len(buffered) >= MergeSize
           written == IF full THEN buffered ELSE <<>>
           h2 == With(hist, type, pub)
           m2 == IF full THEN <<>> ELSE buffered
           d == Feed(cache, type, n)
           x == cache.maxFrames
<1>1. /\ hist' = h2 /\ merge' = m2 /\ cache' = d /\ videoCodec' = (videoCodec \/ type = "vsh")
      /\ hasInput' = hasInput /\ pub' = pub /\ hasInput /\ setup' = setup
  BY DEF OnReadRtmpAvMsg, Broadcast, With, Message, Latest, SeesVideoCodec
<1>2. sess' = [v \in Sessions |->
                 IF sess[v].joined
                 THEN IF v \in RtmpSubs THEN ToRtmpSub(v, type, flushed, written)
                      ELSE IF v \in FlvSubs THEN ToFlvSub(v, type, n) ELSE ToPush(v, n)
                 ELSE sess[v]]
  BY DEF OnReadRtmpAvMsg, Broadcast, Latest
<1>3. type \in AllTypes
  BY BroadcastAssumption DEF BroadcastAssumption, AllTypes
<1>4. HistOk(hist, pub) /\ CacheOk(cache, hist, pub, TRUE)
  BY <1>1 DEF BroadcastInv
<1>5. Follows(h2, n, hist, type, pub)
  BY <1>3, <1>4, AppendedIs
<1>6. MayFollow(type, hist, pub)
  <2>1. WellFormed(type)
    BY DEF OnReadRtmpAvMsg
  <2>2. (Sent("vsh") => HeadersOf(hist, pub) # {}) /\ (Sent("key") => StartsOf(hist, pub) # {})
    BY DEF Sent, HeadersOf, StartsOf, Message
  <2>3. QED BY <2>1, <2>2 DEF WellFormed, MayFollow
<1>7. n \in Nat /\ Len(h2) = n /\ h2[n].type = type /\ (\A i \in 1..n : i \in 1..Len(hist) \/ i = n)
      /\ (\A i \in 1..Len(hist) : h2[i] = hist[i] /\ i \in 1..n) /\ n \in 1..n
  BY <1>5 DEF Follows
<1>8. HistOk(h2, pub)
  BY <1>3, <1>4, <1>5, <1>6, HistStep
<1>9. CacheOk(d, h2, pub, TRUE) /\ d.maxFrames = x
  <2>1. PICK n0, h0, h, p, c : n0 = n /\ h0 = h2 /\ h = hist /\ p = pub /\ c = cache
    OBVIOUS
  <2>2. Follows(h0, n0, h, type, p) /\ HistOk(h, p) /\ CacheOk(c, h, p, TRUE)
    BY <1>4, <1>5, <2>1
  <2>3. FedOk(Feed(c, type, n0), c, h0, p)
    BY <1>3, <2>2, CacheStep
  <2>4. QED BY <2>1, <2>3 DEF FedOk
<1>10. (videoCodec \/ type = "vsh") \/ \A i \in 1..n : h2[i].type # "vsh"
  BY <1>7 DEF BroadcastInv
<1>11. ~videoCodec => VideosOf(hist) = {}
  BY <1>4, VideoNeeds DEF BroadcastInv
<1>12. merge \in Seq(Nat) /\ Elements(merge) \subseteq 1..Len(hist) /\ videoCodec \in BOOLEAN
  BY DEF BroadcastInv
<1>13. flush \in BOOLEAN /\ full \in BOOLEAN
  BY DEF MustFlush
<1> HIDE DEF n, h2, flush, full
<1>14. viewed => /\ buffered = (IF flush THEN <<>> ELSE merge) \o <<n>>
                 /\ buffered \in Seq(Nat) /\ Elements(buffered) \subseteq Elements(merge) \cup {n}
                 /\ Merges(flushed, written, m2, merge, n, flush)
  <2> SUFFICES ASSUME viewed
               PROVE  /\ buffered = (IF flush THEN <<>> ELSE merge) \o <<n>>
                      /\ buffered \in Seq(Nat) /\ Elements(buffered) \subseteq Elements(merge) \cup {n}
                      /\ Merges(flushed, written, m2, merge, n, flush)
    OBVIOUS
  <2>1. PICK b : b = buffered /\ b = (IF flush THEN <<>> ELSE merge) \o <<n>>
    OBVIOUS
  <2>2. /\ b \in Seq(Nat) /\ Elements(b) \subseteq Elements(merge) \cup {n}
        /\ Merges(IF flush THEN merge ELSE <<>>, IF full THEN b ELSE <<>>, IF full THEN <<>> ELSE b,
                  merge, n, flush)
    <3>1. PICK fl, fu, k : fl = flush /\ fu = full /\ k = n
      OBVIOUS
    <3>2. fl \in BOOLEAN /\ fu \in BOOLEAN /\ k \in Nat /\ b = (IF fl THEN <<>> ELSE merge) \o <<k>>
      BY <1>7, <1>13, <2>1, <3>1
    <3>3. PICK f, w, r, m0 : /\ f = (IF fl THEN m0 ELSE <<>>) /\ w = (IF fu THEN b ELSE <<>>)
                         /\ r = (IF fu THEN <<>> ELSE b) /\ m0 = merge
      OBVIOUS
    <3>4. m0 \in Seq(Nat) /\ Merged(m0, k, fl, fu, b, f, w, r)
      BY <1>12, <3>2, <3>3 DEF Merged
    <3>5. MergedIs(b, f, w, r, m0, k, fl)
      BY <3>2, <3>4, MergeIs
    <3>6. QED BY <3>1, <3>3, <3>5 DEF MergedIs
  <2>3. QED BY <2>1, <2>2
<1>15. m2 \in Seq(Nat) /\ Elements(m2) \subseteq 1..n
  <2>1. CASE viewed
    <3>1. m2 \in Seq(Nat)
      BY <1>14, <2>1 DEF Merges
    <3>2. Elements(m2) \subseteq Elements(merge) \cup {n}
      BY <1>14, <2>1, NoElements
    <3>3. Elements(merge) \cup {n} \subseteq 1..n
      BY <1>7, <1>12
    <3>4. QED BY <3>1, <3>2, <3>3
  <2>2. CASE ~viewed
    <3>1. ~full
      BY <2>2 DEF full
    <3>2. ~flush
      BY <2>2 DEF flush, MustFlush
    <3>3. m2 = merge \o <<>>
      BY <2>2, <3>1, <3>2
    <3>4. m2 = merge
      BY <1>12, <3>3, ConcatEmptySeq
    <3>5. QED BY <1>7, <1>12, <3>4
  <2>3. QED BY <2>1, <2>2
<1>16. ASSUME NEW v \in Sessions
       PROVE  SessionOk(v, sess'[v], h2, pub, TRUE, videoCodec', m2, x, Fed(v))
  <2>1. SessionOk(v, sess[v], hist, pub, TRUE, videoCodec, merge, x, Fed(v))
    BY <1>1 DEF BroadcastInv
  <2>2. PICK c, fd : /\ fd \in BOOLEAN /\ c = CacheOf(v) /\ fd = Fed(v) /\ c.maxFrames = x
                     /\ CacheOk(c, hist, pub, fd)
    <3>1. PICK c, in : /\ in \in BOOLEAN /\ c = CacheOf(v) /\ (in <=> hasInput /\ Fed(v))
                       /\ CacheOk(c, hist, pub, in) /\ c.maxFrames = cache.maxFrames
      BY CacheOfOk
    <3>2. in = Fed(v)
      BY <1>1, <3>1, CacheOfOk
    <3>3. QED BY <3>1, <3>2
  <2>3. SessionOk(v, sess[v], hist, pub, TRUE, videoCodec, merge, c.maxFrames, fd)
    BY <2>1, <2>2
  <2>4. /\ HistOk(hist, pub) /\ CacheOk(c, hist, pub, fd) /\ videoCodec \in BOOLEAN
        /\ ~videoCodec => VideosOf(hist) = {}
        /\ type \in AllTypes /\ Follows(h2, n, hist, type, pub) /\ MayFollow(type, hist, pub)
        /\ c = CacheOf(v) /\ fd \in BOOLEAN
    BY <1>3, <1>4, <1>5, <1>6, <1>11, <1>12, <2>2
  <2>5. sess'[v] = IF sess[v].joined
                   THEN IF v \in RtmpSubs THEN ToRtmpSub(v, type, flushed, written)
                        ELSE IF v \in FlvSubs THEN ToFlvSub(v, type, n) ELSE ToPush(v, n)
                   ELSE sess[v]
    BY <1>2
  <2>6. CASE ~sess[v].joined
    <3>1. sess'[v] = Away
      BY <2>1, <2>5, <2>6 DEF SessionOk
    <3>2. Away \in SessionType /\ Away.fresh /\ ~Away.joined /\ Away.out = <<>>
      BY NoElements DEF Away, SessionType
    <3>3. QED BY <3>1, <3>2, FreshOk
  <2>7. CASE sess[v].joined /\ v \in RtmpSubs
    <3>1. viewed
      BY <2>7
    <3>2. ~Ready(sess[v]) /\ ~StillWaits(c, sess[v], type) => flush
      <4>1. sess[v] \in SessionType
        BY <2>1 DEF SessionOk
      <4>2. sess[v].fresh \in BOOLEAN /\ sess[v].wait \in BOOLEAN
        BY <4>1 DEF SessionType
      <4>3. QED BY <2>7, <4>2 DEF Ready, StillWaits, flush, MustFlush
    <3>3. PICK m3, f, w : m3 = m2 /\ f = flushed /\ w = written
      OBVIOUS
    <3>4. Merges(f, w, m3, merge, n, flush)
      BY <1>14, <3>1, <3>3
    <3>5. SessionOk(v, ToRtmpSub(v, type, f, w), h2, pub, TRUE, videoCodec', m3, c.maxFrames, fd)
      <4>1. Finds(v, c, fd, type, n, h2, hist, pub, videoCodec, merge)
        BY <1>12, <2>7, <2>3, <2>4 DEF Finds
      <4>2. QED BY <1>13, <2>7, <3>2, <3>4, <4>1, RtmpStep
    <3>6. QED BY <2>5, <2>7, <2>2, <3>3, <3>5
  <2>8. CASE sess[v].joined /\ v \in FlvSubs
    <3>1. v \notin RtmpSubs
      BY <2>8, Kinds
    <3>2. PICK m3 : m3 = m2
      OBVIOUS
    <3>3. SessionOk(v, ToFlvSub(v, type, n), h2, pub, TRUE, videoCodec', m3, c.maxFrames, fd)
      BY <2>8, <2>3, <2>4, FlvStep
    <3>4. QED BY <2>5, <2>8, <2>2, <3>1, <3>2, <3>3
  <2>9. CASE sess[v].joined /\ v \in Pushes
    <3>1. v \notin RtmpSubs /\ v \notin FlvSubs
      BY <2>9, Kinds
    <3>2. PICK m3 : m3 = m2
      OBVIOUS
    <3>3. SessionOk(v, ToPush(v, n), h2, pub, TRUE, videoCodec', m3, c.maxFrames, fd)
      BY <2>9, <2>3, <2>4, PushStep
    <3>4. QED BY <2>5, <2>9, <2>2, <3>1, <3>2, <3>3
  <2>10. QED BY <2>6, <2>7, <2>8, <2>9, Kinds
<1>17. sess' \in [Sessions -> SessionType]
  <2>1. \A v \in Sessions : sess'[v] \in SessionType
    BY <1>16 DEF SessionOk
  <2>2. QED BY <1>2, <2>1
<1>18. /\ HistOk(hist', pub') /\ hasInput' \in BOOLEAN /\ videoCodec' \in BOOLEAN
       /\ ~videoCodec' => \A i \in 1..Len(hist') : hist'[i].type # "vsh"
       /\ CacheOk(cache', hist', pub', hasInput')
  BY <1>1, <1>7, <1>8, <1>9, <1>10
<1>19. merge' \in Seq(Nat) /\ Elements(merge') \subseteq 1..Len(hist')
  BY <1>1, <1>7, <1>15
<1>20. \A v \in Sessions :
         SessionOk(v, sess'[v], hist', pub', hasInput', videoCodec', merge', cache'.maxFrames, Fed(v))
  BY <1>1, <1>9, <1>16
<1>21. setup' \in Setups /\ cache'.maxFrames = setup'.maxFrames
  BY <1>1, <1>9 DEF BroadcastInv
<1>22. QED BY <1>1, <1>17, <1>18, <1>19, <1>20, <1>21 DEF BroadcastInv, Fed

\* Every step keeps it.
LEMMA BroadcastInvNext == BroadcastInv /\ [Next]_vars => BroadcastInv'
<1> SUFFICES ASSUME BroadcastInv, [Next]_vars PROVE BroadcastInv'
  OBVIOUS
<1>1. CASE AddIn
  BY <1>1, AddInStep
<1>2. CASE DelIn
  BY <1>2, DelInStep
<1>3. ASSUME NEW v \in Viewers, AddSub(v) PROVE BroadcastInv'
  <2>1. v \in Sessions /\ v \notin Pushes
    BY Kinds DEF Viewers
  <2>2. PICK w \in BOOLEAN : w = videoCodec
    BY DEF BroadcastInv
  <2>3. QED BY <1>3, <2>1, <2>2, JoinStep DEF AddSub, Join
<1>4. ASSUME NEW v \in Pushes, AddPush(v) PROVE BroadcastInv'
  <2>1. v \in Sessions /\ v \notin Viewers
    BY Kinds
  <2>2. PICK w \in BOOLEAN : w = FALSE
    OBVIOUS
  <2>3. QED BY <1>4, <2>1, <2>2, JoinStep DEF AddPush, Join
<1>5. ASSUME NEW v \in Pushes, AddRelayPush(v) PROVE BroadcastInv'
  BY <1>5, RelayPushStep
<1>6. ASSUME NEW v \in Sessions, DelSession(v) PROVE BroadcastInv'
  BY <1>6, LeaveStep
<1>7. ASSUME NEW type \in MsgTypes, OnReadRtmpAvMsg(type) PROVE BroadcastInv'
  BY <1>7, OnReadStep
<1>8. CASE UNCHANGED vars
  BY <1>8 DEF vars, BroadcastInv, Fed
<1>9. QED BY <1>1, <1>2, <1>3, <1>4, <1>5, <1>6, <1>7, <1>8 DEF Next

\* So it is an invariant.
LEMMA BroadcastInvariant == Spec => []BroadcastInv
BY BroadcastInvInit, BroadcastInvNext, PTL DEF Spec

-----------------------------------------------------------------------------
(* What the invariant says                                                  *)

\* The sets of the invariant are what the properties speak of.
LEMMA SetsAre ==
  ASSUME BroadcastInv
  PROVE  /\ Len(hist) \in Nat
         /\ \A n \in Index : IsFrame(n) <=> n \in FramesOf(hist)
         /\ \A n \in Index : IsVideo(n) <=> n \in VideosOf(hist)
         /\ \A n \in Index : IsKey(n) <=> n \in KeysOf(hist)
         /\ \A n \in Index : IsGopStart(n) <=> n \in StartsOf(hist, pub)
         /\ StartsOf(hist, pub) \subseteq Index /\ FramesOf(hist) \subseteq Index
<1>1. Len(hist) \in Nat
  <2>1. hist \in Seq([type : AllTypes, pub : Nat])
    BY DEF BroadcastInv, HistOk
  <2>2. QED BY <2>1, LenProperties
<1>2. /\ \A n \in Index : IsFrame(n) <=> n \in FramesOf(hist)
      /\ \A n \in Index : IsVideo(n) <=> n \in VideosOf(hist)
      /\ \A n \in Index : IsKey(n) <=> n \in KeysOf(hist)
  BY DEF Index, IsFrame, FramesOf, IsVideo, VideosOf, IsKey, KeysOf
<1>3. \A n \in Index : IsGopStart(n) <=> n \in StartsOf(hist, pub)
  BY DEF Index, IsGopStart, StartsOf, Message
<1>4. StartsOf(hist, pub) \subseteq Index /\ FramesOf(hist) \subseteq Index
  BY DEF Index, FramesOf, StartsOf
<1>5. QED BY <1>1, <1>2, <1>3, <1>4

\* So are the GOPs.
LEMMA GopFromIs ==
  ASSUME BroadcastInv, NEW n \in Index
  PROVE  GopFrom(n) = GopOf(StartsOf(hist, pub), FramesOf(hist), n)
<1>1. PICK l, S, F : l = Len(hist) /\ S = StartsOf(hist, pub) /\ F = FramesOf(hist) /\ l \in Nat
  BY SetsAre
<1>2. /\ l \in Nat /\ n \in 1..l /\ S \subseteq 1..l /\ F \subseteq 1..l
      /\ \A m \in 1..l : (IsFrame(m) <=> m \in F) /\ (IsGopStart(m) <=> m \in S)
  BY <1>1, SetsAre DEF Index
<1>3. ASSUME NEW m \in 1..l
      PROVE  (\A k \in n + 1..m : ~IsGopStart(k)) <=> (\A k \in S : ~(n < k /\ k <= m))
  <2>1. ASSUME \A k \in n + 1..m : ~IsGopStart(k), NEW k \in S, n < k, k <= m PROVE FALSE
    <3>1. k \in n + 1..m /\ IsGopStart(k)
      BY <1>2, <1>3, <2>1
    <3>2. QED BY <2>1, <3>1
  <2>2. ASSUME \A k \in S : ~(n < k /\ k <= m), NEW k \in n + 1..m, IsGopStart(k) PROVE FALSE
    <3>1. k \in 1..l /\ n < k /\ k <= m
      BY <1>2, <1>3, <2>2
    <3>2. k \in S
      BY <1>2, <2>2, <3>1
    <3>3. QED BY <2>2, <3>1, <3>2
  <2>3. QED BY <2>1, <2>2
<1>4. ASSUME NEW m PROVE m \in GopFrom(n) <=> m \in GopOf(S, F, n)
  <2>1. m \in GopFrom(n) <=> m \in 1..l /\ n <= m /\ IsFrame(m) /\ \A k \in n + 1..m : ~IsGopStart(k)
    BY <1>1 DEF GopFrom, Index
  <2>2. m \in GopOf(S, F, n) <=> m \in F /\ n <= m /\ \A k \in S : ~(n < k /\ k <= m)
    BY DEF GopOf
  <2>3. QED BY <1>2, <1>3, <2>1, <2>2
<1>5. QED BY <1>1, <1>4

\* The ring is what it should be.
LEMMA CacheIs == BroadcastInv => CacheIsRecentGops
<1> SUFFICES ASSUME BroadcastInv PROVE CacheIsRecentGops
  OBVIOUS
<1>1. CacheOk(cache, hist, pub, hasInput) /\ IsCache(cache)
  BY DEF BroadcastInv, CacheOk
<1>2. PICK k \in Nat : k = GetGopCount(cache)
  BY <1>1, RingPositions, CacheFields
<1>3. Gops = [i \in 1..k |-> GopAt(cache, i)]
  BY <1>2 DEF Gops, GopAt
<1>4. PICK g : g = Gops
  OBVIOUS
<1>5. Len(g) = k /\ \A i \in 1..k : g[i] = GopAt(cache, i)
  BY <1>3, <1>4
<1>6. CASE ~hasInput
  <2>1. k = 0
    BY <1>1, <1>2, <1>6 DEF CacheOk
  <2>2. \A i : i \notin 1..0
    OBVIOUS
  <2>3. g = <<>>
    <3>1. g \in Seq({})
      BY <1>3, <1>4, <2>1, <2>2
    <3>2. QED BY <1>5, <2>1, <3>1, EmptySeq
  <2>4. QED BY <1>4, <1>5, <1>6, <2>1, <2>2, <2>3 DEF CacheIsRecentGops
<1>7. CASE hasInput
  <2>1. PICK S, F : S = StartsOf(hist, pub) /\ F = FramesOf(hist)
    OBVIOUS
  <2>2. Recent(cache, S, F)
    BY <1>1, <1>7, <2>1 DEF CacheOk
  <2>3. S \subseteq Index /\ \A n \in Index : IsGopStart(n) <=> n \in S
    BY <2>1, SetsAre
  <2>4. \A i \in 1..k :
          /\ g[i][1] \in S
          /\ Holds(g[i], GopOf(S, F, g[i][1]), cache.maxFrames)
    BY <1>2, <1>5, <2>2 DEF Recent
  <2>5. ASSUME NEW i \in 1..k
        PROVE  IsGopStart(g[i][1]) /\ HoldsGop(g[i], g[i][1])
    <3>1. PICK s, n : s = g[i] /\ n = s[1]
      OBVIOUS
    <3>2. n \in S /\ n \in Index
      BY <2>3, <2>4, <3>1
    <3>3. Holds(s, GopOf(S, F, n), cache.maxFrames)
      BY <2>4, <3>1
    <3>4. GopFrom(n) = GopOf(S, F, n)
      BY <2>1, <3>2, GopFromIs
    <3>5. HoldsGop(s, n)
      BY <3>1, <3>3, <3>4 DEF HoldsGop, Holds
    <3>6. QED BY <2>3, <3>1, <3>2, <3>5
  <2>6. \A i, j \in 1..k : i < j => g[i][1] < g[j][1]
    BY <1>2, <1>5, <2>2 DEF Recent
  <2>7. \A n \in S : \/ \E i \in 1..k : g[i][1] = n
                     \/ k = cache.gopNum /\ \A i \in 1..k : n < g[i][1]
    BY <1>2, <1>5, <2>2 DEF Recent
  <2>8. QED BY <1>4, <1>5, <1>7, <2>3, <2>5, <2>6, <2>7 DEF CacheIsRecentGops
<1>8. hasInput \in BOOLEAN
  BY DEF BroadcastInv
<1>9. QED BY <1>6, <1>7, <1>8

\* What is due to a session.
LEMMA DueIs ==
  ASSUME BroadcastInv, NEW v \in Sessions
  PROVE  /\ sess[v].out \in Seq(Nat) /\ Elements(sess[v].out) \subseteq Index
         /\ Due(v) = DueOf(v, sess[v], merge)
         /\ Due(v) \in Seq(Nat) /\ Elements(Due(v)) \subseteq Index
<1>1. SessionOk(v, sess[v], hist, pub, hasInput, videoCodec, merge, cache.maxFrames, Fed(v))
  BY DEF BroadcastInv
<1>2. PICK s \in Seq(Nat) : s = sess[v].out /\ Elements(s) \subseteq Index
  BY <1>1 DEF SessionOk, SessionType, Index
<1>3. PICK m \in Seq(Nat) : m = merge /\ Elements(m) \subseteq Index
  BY DEF BroadcastInv, Index
<1>4. s \o m \in Seq(Nat) /\ Elements(s \o m) = Elements(s) \cup Elements(m)
  BY Concatenated
<1>5. Due(v) = IF v \in RtmpSubs THEN s \o m ELSE s
  BY <1>2, <1>3 DEF Due
<1>6. Due(v) = DueOf(v, sess[v], merge)
  BY DEF Due, DueOf
<1>7. QED BY <1>2, <1>3, <1>4, <1>5, <1>6

\* Who got a frame is ready.
LEMMA FrameMeansReady ==
  ASSUME BroadcastInv, NEW v \in Sessions, NEW i \in 1..Len(sess[v].out),
         IsFrame(sess[v].out[i])
  PROVE  sess[v].joined /\ Ready(sess[v])
<1>1. SessionOk(v, sess[v], hist, pub, hasInput, videoCodec, merge, cache.maxFrames, Fed(v))
  BY DEF BroadcastInv
<1>2. PICK s : s = sess[v]
  OBVIOUS
<1>3. s.out[i] \in Elements(s.out) /\ s.out[i] \in FramesOf(hist)
  <2>1. s.out[i] \in Elements(s.out)
    BY <1>2 DEF Elements
  <2>2. s.out[i] \in Index
    BY <1>2, <2>1, DueIs
  <2>3. QED BY <1>2, <2>1, <2>2, SetsAre
<1>4. s.out # <<>>
  BY <1>3, NoElements
<1>5. s.joined /\ ~s.fresh
  BY <1>1, <1>2, <1>4 DEF SessionOk, Away
<1>6. ~s.wait
  BY <1>1, <1>2, <1>3, <1>5, Kinds DEF SessionOk
<1>7. QED BY <1>2, <1>5, <1>6 DEF Ready

\* No session gets a frame twice or misses one.
LEMMA FramesIs == BroadcastInv => NoFrameTwiceOrSkipped
<1> SUFFICES ASSUME BroadcastInv, cache.maxFrames = 0, NEW v \in Sessions,
                    NEW i \in 1..Len(sess[v].out), IsFrame(sess[v].out[i])
             PROVE  Unbroken(Due(v))
  BY DEF NoFrameTwiceOrSkipped
<1>1. SessionOk(v, sess[v], hist, pub, hasInput, videoCodec, merge, cache.maxFrames, Fed(v))
  BY DEF BroadcastInv
<1>2. sess[v].joined /\ Ready(sess[v])
  BY FrameMeansReady
<1>3. PICK q : q = Due(v)
  OBVIOUS
<1>4. UnbrokenIn(q, FramesOf(hist))
  BY <1>1, <1>2, <1>3, DueIs DEF SessionOk
<1>5. \A j \in 1..Len(q) : q[j] \in Elements(q) /\ q[j] \in Index
  BY <1>3, DueIs DEF Elements
<1>6. /\ \A j \in 1..Len(q) : IsFrame(q[j]) <=> q[j] \in FramesOf(hist)
      /\ \A n \in Index : IsFrame(n) <=> n \in FramesOf(hist)
  BY <1>5, SetsAre
<1>7. Unbroken(q)
  BY <1>4, <1>5, <1>6 DEF UnbrokenIn, Unbroken
<1>8. QED BY <1>3, <1>7

\* Every session can decode what it gets.
LEMMA DecodableIs == BroadcastInv => JoinsDecodable
<1> SUFFICES ASSUME BroadcastInv PROVE JoinsDecodable
  OBVIOUS
<1>1. ASSUME NEW v \in Sessions, NEW i \in 1..Len(sess[v].out), IsVideo(sess[v].out[i])
      PROVE  /\ sess[v].out[i] \in Index /\ sess[v].joined /\ Ready(sess[v])
             /\ SessionOk(v, sess[v], hist, pub, hasInput, videoCodec, merge, cache.maxFrames, Fed(v))
  <2>1. sess[v].out[i] \in Index
    BY DueIs DEF Elements
  <2>2. IsFrame(sess[v].out[i])
    BY <1>1 DEF IsVideo, IsFrame, HeaderTypes
  <2>3. QED BY <2>1, <2>2, FrameMeansReady DEF BroadcastInv
<1>2. ASSUME NEW v \in Viewers, NEW i \in 1..Len(sess[v].out), IsVideo(sess[v].out[i])
      PROVE  \E j \in 1..i : IsKey(sess[v].out[j])
  <2>1. v \in Sessions
    BY DEF Viewers, Sessions
  <2>2. PICK s \in Seq(Nat), m \in Seq(Nat) : s = sess[v].out /\ m = merge
    BY <2>1, DueIs DEF BroadcastInv
  <2>3. Viewed(DueOf(v, sess[v], merge), hist)
    BY <1>1, <1>2, <2>1 DEF SessionOk
  <2>4. PICK V, K : V = VideosOf(hist) /\ K = KeysOf(hist)
    OBVIOUS
  <2>5. KeyFirst(IF v \in RtmpSubs THEN s \o m ELSE s, V, K)
    BY <2>2, <2>3, <2>4 DEF Viewed, DueOf
  <2>6. KeyFirst(s, V, K)
    BY <2>5, KeyFirstSent
  <2>7. s[i] \in V
    BY <1>1, <1>2, <2>1, <2>2, <2>4, SetsAre
  <2>8. PICK j \in 1..i : s[j] \in K
    BY <1>2, <2>2, <2>6, <2>7 DEF KeyFirst
  <2>9. IsKey(s[j])
    BY <2>4, <2>8 DEF KeysOf, IsKey
  <2>10. QED BY <2>2, <2>9
<1>3. ASSUME NEW v \in Pushes, Fed(v) PROVE DecodableFor(v)
  <2>1. v \in Sessions
    BY DEF Sessions
  <2>2. ASSUME NEW i \in 1..Len(sess[v].out), IsVideo(sess[v].out[i])
        PROVE  \E j \in 1..(i - 1) : /\ hist[sess[v].out[j]].type = "vsh"
                                     /\ hist[sess[v].out[j]].pub = hist[sess[v].out[i]].pub
    <3>1. Headed(sess[v].out, hist)
      BY <1>1, <1>3, <2>1, <2>2 DEF SessionOk, Pushed
    <3>2. QED BY <2>2, <3>1 DEF Headed, IsVideo
  <2>3. QED BY <2>2 DEF DecodableFor
<1>4. QED BY <1>2, <1>3 DEF JoinsDecodable

-----------------------------------------------------------------------------
(* The theorems                                                             *)

\* GopCache: for every gop_num and every single_gop_max_frame_num the ring holds the last
\* gop_num GOPs of the present input, in order and each whole up to the limit, however far
\* feedNewGop has wrapped it around and however often delIn has cleared it.
THEOREM CacheHoldsRecentGops == Spec => []CacheIsRecentGops
BY BroadcastInvariant, CacheIs, PTL

\* broadcastByRtmpMsg: with no frame limit, a session that got its first frame, from the
\* cached GOPs or live, gets every later frame once and in order, whichever sessions
\* join, wait and leave and whenever the merge writer is flushed for them.
THEOREM NothingTwiceOrSkipped == Spec => []NoFrameTwiceOrSkipped
BY BroadcastInvariant, FramesIs, PTL

\* ShouldWaitVideoKeyFrame and the cached headers: the first video frame a viewer gets is
\* a key frame, whether its cache is fed or not; and where an rtmp server is configured, so
\* that rtmpGopCache is fed, a push session, static or of the relay API, gets the sequence
\* header of a publisher before any of its video.
THEOREM JoiningIsDecodable == Spec => []JoinsDecodable
BY BroadcastInvariant, DecodableIs, PTL
=============================================================================
