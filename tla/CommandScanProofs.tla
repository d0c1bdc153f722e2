---------------------------- MODULE CommandScanProofs ----------------------------
(***************************************************************************)
(* Proofs about CommandLine, for every command line: what the scan takes   *)
(* from the words and where it leaves them is what CommandMeaning says of  *)
(* the line as typed.                                                      *)
(***************************************************************************)
EXTENDS CommandLineProofs, WellFoundedInduction

-----------------------------------------------------------------------------
(* Integers.                                                               *)

(* A product with a positive factor is no smaller.                         *)
LEMMA ProductOrder ==
  \A d, k \in Int : d > 0 /\ k > 0 => d * k >= d
OBVIOUS

(* Quotient and remainder.                                                 *)
LEMMA Division ==
  ASSUME NEW n \in Int, NEW d \in Nat, d > 0
  PROVE  /\ n \div d \in Int /\ n % d \in 0 .. d - 1
         /\ n = d * (n \div d) + (n % d)
OBVIOUS

(* There is only one of each.                                              *)
LEMMA OneQuotient ==
  ASSUME NEW d \in Nat, d > 0, NEW q \in Int, NEW k \in Int,
         NEW r \in 0 .. d - 1, NEW l \in 0 .. d - 1,
         d * q + r = d * k + l
  PROVE  q = k /\ r = l
<1>1. d * (q - k) = l - r
  OBVIOUS
<1>2. CASE q - k > 0
  BY <1>1, <1>2, ProductOrder
<1>3. CASE k - q > 0
  <2>1. d * (k - q) = r - l
    OBVIOUS
  <2> QED BY <2>1, <1>3, ProductOrder
<1>4. CASE q = k
  BY <1>4
<1> QED BY <1>2, <1>3, <1>4

(* Whatever looks like quotient and remainder is.                          *)
LEMMA QuotientIs ==
  ASSUME NEW d \in Nat, d > 0, NEW q \in Int, NEW r \in 0 .. d - 1
  PROVE  (d * q + r) \div d = q /\ (d * q + r) % d = r
<1> DEFINE n == d * q + r
<1>1. n \in Int
  OBVIOUS
<1> HIDE DEF n
<1>2. n \div d \in Int /\ n % d \in 0 .. d - 1 /\ n = d * (n \div d) + (n % d)
  BY <1>1, Division
<1>3. n = d * q + r
  BY DEF n
<1>4. d * q + r = d * (n \div d) + (n % d)
  BY <1>2, <1>3
<1> QED BY <1>2, <1>3, <1>4, OneQuotient

(* Products of integers, which the solvers rearrange only when told how.   *)
LEMMA Distribute ==
  \A a, b, c \in Int : a * (b + c) = a * b + a * c /\ a * (b - c) = a * b - a * c
                       /\ a * b = b * a /\ a * (b * c) = (a * b) * c /\ a * b \in Int
OBVIOUS

(* Adding a multiple of the divisor shifts the quotient alone.             *)
LEMMA ShiftedQuotient ==
  ASSUME NEW n \in Int, NEW d \in Nat, d > 0, NEW k \in Int
  PROVE  (n + d * k) \div d = (n \div d) + k /\ (n + d * k) % d = n % d
<1>1. n \div d \in Int /\ n % d \in 0 .. d - 1 /\ n = d * (n \div d) + (n % d)
  BY Division
<1>2. n + d * k = d * ((n \div d) + k) + (n % d)
  BY <1>1, Distribute
<1>3. (n \div d) + k \in Int
  BY <1>1
<1> QED BY <1>1, <1>2, <1>3, QuotientIs

(* Counting on, the remainder counts up to the divisor and begins again.   *)
LEMMA NextRemainder ==
  ASSUME NEW n \in Int, NEW d \in Nat, d > 0
  PROVE  (n + 1) % d = IF (n % d) + 1 < d THEN (n % d) + 1 ELSE 0
<1> DEFINE q == n \div d
           r == n % d
           k == (n + 1) \div d
           l == (n + 1) % d
<1>1. q \in Int /\ r \in 0 .. d - 1 /\ n = d * q + r
  BY Division
<1>2. k \in Int /\ l \in 0 .. d - 1 /\ n + 1 = d * k + l
  <2>1. n + 1 \in Int
    OBVIOUS
  <2> QED BY <2>1, Division
<1> HIDE DEF q, r, k, l
<1>3. CASE r + 1 < d
  <2>1. d * q + (r + 1) = d * k + l /\ r + 1 \in 0 .. d - 1
    BY <1>1, <1>2, <1>3
  <2>2. l = r + 1
    BY <1>1, <1>2, <2>1, OneQuotient
  <2> QED BY <1>3, <2>2 DEF l, r
<1>4. CASE ~ (r + 1 < d)
  <2>1. r + 1 = d /\ d * (q + 1) = d * q + d
    BY <1>1, <1>4, Distribute
  <2>2. d * (q + 1) + 0 = d * k + l /\ 0 \in 0 .. d - 1 /\ q + 1 \in Int
    BY <1>1, <1>2, <2>1
  <2>3. l = 0
    BY <1>1, <1>2, <2>2, OneQuotient
  <2> QED BY <1>4, <2>3 DEF l, r
<1> QED BY <1>3, <1>4

-----------------------------------------------------------------------------
(* The cycles of pure_permute_args: blocks of nn and no words that begin   *)
(* at `start' change places, each word going to the position that follows  *)
(* its own.                                                                *)

Both(start, nn, no) == start .. start + nn + no - 1
Follows(p, start, nn, no) == IF p >= start + nn THEN p - nn ELSE p + no
Rounds(nn, no, cycles) == (nn + no) \div cycles

(* A position is known by its cycle, which has the number of a position of *)
(* the second block, and by the steps to it from there.                    *)
Numbers(cycle, lap, start, nn, no, cycles) ==
  /\ \A p \in Both(start, nn, no) :
       /\ cycle[Follows(p, start, nn, no)] = cycle[p]
       /\ lap[Follows(p, start, nn, no)] =
            IF lap[p] + 1 < Rounds(nn, no, cycles) THEN lap[p] + 1 ELSE 0
  /\ \A p, q \in Both(start, nn, no) :
       cycle[p] = cycle[q] /\ lap[p] = lap[q] => p = q
  /\ \A i \in 0 .. cycles - 1 :
       start + nn + i \in Both(start, nn, no) =>
         cycle[start + nn + i] = i /\ lap[start + nn + i] = 0

(* There are as many cycles as the greatest common divisor d of the two    *)
(* lengths.  The distance of a position from the second block, divided by  *)
(* d, leaves the number of its cycle; and since d is a sum of multiples of *)
(* the lengths, the quotient tells how many steps it is from there.        *)
LEMMA CyclesNumbered ==
  ASSUME NEW nn \in Nat, NEW no \in Nat, NEW d \in Nat, NEW K \in Nat, NEW M \in Nat,
         nn > 0, no > 0, d > 0, nn = d * K, no = d * M,
         NEW x \in Int, NEW y \in Int, d = x * nn + y * no,
         NEW start \in Int
  PROVE  /\ Rounds(nn, no, d) \in Nat /\ Rounds(nn, no, d) > 0
         /\ \E cycle \in [Both(start, nn, no) -> 0 .. d - 1],
               lap \in [Both(start, nn, no) -> 0 .. Rounds(nn, no, d) - 1] :
                 Numbers(cycle, lap, start, nn, no, d)
<1> DEFINE L == K + M
           w == y - x
           e == start + nn
           Where == Both(start, nn, no)
           After(p) == Follows(p, start, nn, no)
           t(p) == (p - e) \div d
           cycle == [p \in Where |-> (p - e) % d]
           lap == [p \in Where |-> (t(p) * w) % L]
<1> USE DEF Both, Follows
<1>1. K > 0 /\ M > 0 /\ L \in Nat /\ L > 0 /\ w \in Int
  OBVIOUS
<1>2. x * K + y * M = 1
  <2>1. /\ x * nn = d * (x * K) /\ y * no = d * (y * M)
        /\ x * K \in Int /\ y * M \in Int
    BY Distribute
  <2>2. d * (x * K + y * M) = d * 1
    BY <2>1, Distribute
  <2>3. d * (x * K + y * M) + 0 = d * 1 + 0 /\ x * K + y * M \in Int /\ 0 \in 0 .. d - 1
    BY <2>1, <2>2
  <2> QED BY <2>3, OneQuotient
<1>3. M * w = 1 - L * x
  <2>1. M * w = y * M - x * M /\ L * x = x * K + x * M
        /\ x * M \in Int /\ y * M \in Int /\ x * K \in Int
    BY Distribute
  <2> QED BY <1>2, <2>1
<1>4. K * w = L * (w + x) - 1
  <2>1. K * w = L * w - M * w /\ L * (w + x) = L * w + L * x
        /\ L * w \in Int /\ M * w \in Int /\ L * x \in Int
    BY <1>1, Distribute
  <2> QED BY <1>3, <2>1
<1>5. nn + no = d * L
  BY Distribute
<1>6. Rounds(nn, no, d) = L
  <2>1. nn + no = d * L + 0 /\ 0 \in 0 .. d - 1 /\ L \in Int
    BY <1>1, <1>5
  <2> QED BY <2>1, QuotientIs DEF Rounds
<1>7. \A p \in Where : p - e \in Int /\ t(p) \in Int /\ (p - e) % d \in 0 .. d - 1
                       /\ p - e = d * t(p) + ((p - e) % d)
  BY Division
<1>8. \A p \in Where : t(p) * w \in Int /\ (t(p) * w) % L \in 0 .. L - 1
                       /\ (t(p) * w) \div L \in Int
                       /\ t(p) * w = L * ((t(p) * w) \div L) + ((t(p) * w) % L)
  BY <1>1, <1>7, Division
<1>9. cycle \in [Where -> 0 .. d - 1] /\ lap \in [Where -> 0 .. L - 1]
  BY <1>7, <1>8
<1>10. ASSUME NEW p \in Where
       PROVE  /\ After(p) \in Where
              /\ cycle[After(p)] = cycle[p]
              /\ lap[After(p)] = IF lap[p] + 1 < L THEN lap[p] + 1 ELSE 0
  <2>1. After(p) \in Where
    OBVIOUS
  <2>2. \E z \in Int : /\ cycle[After(p)] = cycle[p]
                       /\ t(After(p)) * w = t(p) * w + 1 + L * z
    <3>1. CASE p >= e
      <4>1. After(p) - e = (p - e) + d * (-K) /\ -K \in Int
        BY <3>1
      <4>2. t(After(p)) = t(p) + (-K) /\ (After(p) - e) % d = (p - e) % d
        BY <1>7, <4>1, ShiftedQuotient
      <4>3. t(After(p)) * w = t(p) * w - K * w
        BY <1>1, <1>7, <4>2
      <4>4. t(After(p)) * w = t(p) * w + 1 + L * (-(w + x)) /\ -(w + x) \in Int
        BY <1>1, <1>4, <1>8, <4>3
      <4>5. cycle[After(p)] = cycle[p]
        BY <2>1, <4>2
      <4> QED BY <4>4, <4>5
    <3>2. CASE ~ (p >= e)
      <4>1. After(p) - e = (p - e) + d * M
        BY <3>2
      <4>2. t(After(p)) = t(p) + M /\ (After(p) - e) % d = (p - e) % d
        BY <1>7, <4>1, ShiftedQuotient
      <4>3. t(After(p)) * w = t(p) * w + M * w
        BY <1>1, <1>7, <4>2
      <4>4. t(After(p)) * w = t(p) * w + 1 + L * (-x) /\ -x \in Int
        BY <1>1, <1>3, <1>8, <4>3
      <4>5. cycle[After(p)] = cycle[p]
        BY <2>1, <4>2
      <4> QED BY <4>4, <4>5
    <3> QED BY <3>1, <3>2
  <2>3. PICK z \in Int : t(After(p)) * w = t(p) * w + 1 + L * z
    BY <2>2
  <2>4. (t(After(p)) * w) % L = (t(p) * w + 1) % L
    <3> DEFINE a == t(p) * w + 1
    <3>1. a \in Int
      BY <1>8
    <3>2. t(After(p)) * w = a + L * z
      BY <2>3
    <3> HIDE DEF a, L, t
    <3>3. (a + L * z) % L = a % L
      BY <1>1, <3>1, ShiftedQuotient
    <3> QED BY <3>2, <3>3 DEF a
  <2>5. (t(p) * w + 1) % L = IF ((t(p) * w) % L) + 1 < L THEN ((t(p) * w) % L) + 1 ELSE 0
    BY <1>1, <1>8, NextRemainder
  <2>6. lap[After(p)] = (t(After(p)) * w) % L /\ lap[p] = (t(p) * w) % L
    BY <2>1
  <2> QED BY <2>1, <2>2, <2>4, <2>5, <2>6
<1>11. ASSUME NEW p \in Where, NEW q \in Where, cycle[p] = cycle[q], lap[p] = lap[q]
       PROVE  p = q
  <2> DEFINE D == t(p) - t(q)
             u == ((t(p) * w) \div L) - ((t(q) * w) \div L)
             z == M * u + x * D
  <2>1. p - q = d * D /\ D \in Int
    <3>1. p - e = d * t(p) + ((p - e) % d) /\ q - e = d * t(q) + ((p - e) % d)
          /\ t(p) \in Int /\ t(q) \in Int /\ (p - e) % d \in Int
      BY <1>7, <1>11
    <3> HIDE DEF t
    <3>2. p - q = d * t(p) - d * t(q) /\ p \in Int /\ q \in Int
      <4>1. d * t(p) \in Int /\ d * t(q) \in Int
        BY <3>1, Distribute
      <4> QED BY <3>1, <4>1
    <3> QED BY <3>1, <3>2, Distribute
  <2>2. D * w = L * u /\ u \in Int
    <3> DEFINE a == (t(p) * w) \div L
               b == (t(q) * w) \div L
               r == (t(p) * w) % L
    <3>0. (t(q) * w) % L = r
      BY <1>11
    <3>1. t(p) * w = L * a + r /\ t(q) * w = L * b + r /\ a \in Int /\ b \in Int /\ r \in Int
          /\ t(p) \in Int /\ t(q) \in Int
      <4> HIDE DEF L, w, t
      <4> QED BY <1>7, <1>8, <3>0
    <3> HIDE DEF a, b, r, t, w, L
    <3>2. D * w = t(p) * w - t(q) * w
      BY <1>1, <3>1, Distribute
    <3>3. D * w = L * a - L * b /\ L * a \in Int /\ L * b \in Int
      BY <1>1, <3>1, <3>2, Distribute
    <3>4. u = a - b
      BY DEF a, b
    <3> QED BY <1>1, <3>1, <3>3, <3>4, Distribute
  <2> HIDE DEF D, u
  <2>3. D = L * z /\ z \in Int
    <3>1. D * (M * w) = D - L * (x * D)
      <4>1. D * (M * w) = D * (1 - L * x)
        BY <1>3
      <4>2. D * (1 - L * x) = D * 1 - D * (L * x)
        BY <1>1, <2>1, Distribute
      <4>3. D * (L * x) = L * (x * D)
        BY <1>1, <2>1, Distribute
      <4> QED BY <2>1, <4>1, <4>2, <4>3
    <3>2. D * (M * w) = M * (D * w)
      BY <1>1, <2>1, Distribute
    <3>3. M * (D * w) = L * (M * u)
      BY <1>1, <2>2, Distribute
    <3>4. L * z = L * (M * u) + L * (x * D) /\ z \in Int
          /\ L * (M * u) \in Int /\ L * (x * D) \in Int
      BY <1>1, <2>1, <2>2, Distribute
    <3> QED BY <2>1, <3>1, <3>2, <3>3, <3>4
  <2> HIDE DEF z, L
  <2>4. p - q = (nn + no) * z
    BY <1>1, <1>5, <2>1, <2>3, Distribute
  <2>5. p - q < nn + no /\ q - p < nn + no /\ p \in Int /\ q \in Int
    OBVIOUS
  <2>6. CASE z > 0
    BY <2>3, <2>4, <2>5, <2>6, ProductOrder
  <2>7. CASE -z > 0
    <3>1. q - p = (nn + no) * (-z) /\ -z \in Int
      BY <2>3, <2>4, <2>5
    <3> QED BY <2>3, <2>5, <2>7, <3>1, ProductOrder
  <2>8. CASE z = 0
    BY <2>4, <2>5, <2>8
  <2> QED BY <2>3, <2>6, <2>7, <2>8
<1>12. ASSUME NEW i \in 0 .. d - 1, e + i \in Where
       PROVE  cycle[e + i] = i /\ lap[e + i] = 0
  <2>1. e + i - e = d * 0 + i /\ 0 \in Int
    OBVIOUS
  <2>2. t(e + i) = 0 /\ (e + i - e) % d = i
    BY <2>1, QuotientIs
  <2>3. t(e + i) * w = L * 0 + 0 /\ 0 \in 0 .. L - 1
    BY <1>1, <2>2
  <2>4. (t(e + i) * w) % L = 0
    BY <1>1, <2>3, QuotientIs
  <2> QED BY <1>12, <2>2, <2>4
<1> HIDE DEF cycle, lap, L, Where, After, e
<1>13. Numbers(cycle, lap, start, nn, no, d)
  <2> HIDE DEF Both, Follows
  <2>1. Where = Both(start, nn, no) /\ e = start + nn
    BY DEF Where, e
  <2>2. \A p : After(p) = Follows(p, start, nn, no)
    BY DEF After
  <2> QED BY <1>6, <1>10, <1>11, <1>12, <2>1, <2>2 DEF Numbers
<1>14. Where = Both(start, nn, no)
  BY DEF Where
<1> HIDE DEF Both, Follows
<1> QED BY <1>1, <1>6, <1>9, <1>13, <1>14

-----------------------------------------------------------------------------
(* pure_gcd.                                                               *)

Divides(d, n) == \E k \in Nat : n = d * k
Combines(n, nn, no) == \E x, y \in Int : n = x * nn + y * no

(* Whatever divides both of its arguments divides the lengths of the       *)
(* blocks, and both are sums of multiples of these.                        *)
Common(a, b, nn, no) ==
  /\ \A d \in Nat : Divides(d, a) /\ Divides(d, b) => Divides(d, nn) /\ Divides(d, no)
  /\ Combines(a, nn, no) /\ Combines(b, nn, no)

(* pure_gcd begins with the lengths.                                       *)
LEMMA CommonAtFirst ==
  ASSUME NEW nn \in Nat, NEW no \in Nat
  PROVE  Common(nn, no, nn, no)
<1>1. nn = 1 * nn + 0 * no /\ no = 0 * nn + 1 * no
  OBVIOUS
<1>2. 0 \in Int /\ 1 \in Int
  OBVIOUS
<1> QED BY <1>1, <1>2 DEF Common, Combines

(* A division with a remainder keeps what is common.                       *)
LEMMA CommonAfterStep ==
  ASSUME NEW nn \in Nat, NEW no \in Nat, NEW a \in Nat, NEW b \in Nat, b > 0,
         Common(a, b, nn, no)
  PROVE  Common(b, a % b, nn, no)
<1> DEFINE c == a % b
           q == a \div b
<1>1. c \in Nat /\ q \in Int /\ a = b * q + c /\ c < b
  BY Division
<1> HIDE DEF c, q
<1>2. q \in Nat
  <2>1. CASE -q > 0
    <3>1. b * (-q) >= b /\ b * (-q) = -(b * q) /\ b * q \in Int
      BY <1>1, <2>1, ProductOrder
    <3> QED BY <1>1, <3>1
  <2> QED BY <1>1, <2>1
<1>3. ASSUME NEW d \in Nat, Divides(d, b), Divides(d, c)
      PROVE  Divides(d, a)
  <2>1. PICK k \in Nat : b = d * k
    BY <1>3 DEF Divides
  <2>2. PICK l \in Nat : c = d * l
    BY <1>3 DEF Divides
  <2>3. b * q = d * (k * q) /\ k * q \in Nat
    BY <1>2, <2>1, Distribute
  <2>4. a = d * (k * q + l) /\ k * q + l \in Nat
    BY <1>1, <2>2, <2>3, Distribute
  <2> QED BY <2>4 DEF Divides
<1>4. Combines(c, nn, no)
  <2>1. PICK x1 \in Int, y1 \in Int : a = x1 * nn + y1 * no
    BY DEF Common, Combines
  <2>2. PICK x2 \in Int, y2 \in Int : b = x2 * nn + y2 * no
    BY DEF Common, Combines
  <2>3. b * q = (x2 * q) * nn + (y2 * q) * no /\ x2 * q \in Int /\ y2 * q \in Int
    <3>1. b * q = q * (x2 * nn) + q * (y2 * no)
      BY <1>1, <2>2, Distribute
    <3>2. q * (x2 * nn) = (x2 * q) * nn /\ q * (y2 * no) = (y2 * q) * no
      BY <1>1, Distribute
    <3>3. x2 * q \in Int /\ y2 * q \in Int
      BY <1>1, Distribute
    <3> QED BY <3>1, <3>2, <3>3
  <2> DEFINE x == x1 - x2 * q
             y == y1 - y2 * q
  <2>4. x \in Int /\ y \in Int
    BY <2>3
  <2>5. x * nn = x1 * nn - (x2 * q) * nn /\ y * no = y1 * no - (y2 * q) * no
    BY <2>3, Distribute
  <2>6. /\ x1 * nn \in Int /\ (x2 * q) * nn \in Int
        /\ y1 * no \in Int /\ (y2 * q) * no \in Int
    BY <2>3, Distribute
  <2> HIDE DEF x, y
  <2>7. c = x * nn + y * no
    BY <1>1, <2>1, <2>3, <2>5, <2>6
  <2> QED BY <2>4, <2>7 DEF Combines
<1> QED BY <1>3, <1>4 DEF Common, c

(* At the end the second argument is the number of cycles.                 *)
LEMMA CommonAtLast ==
  ASSUME NEW nn \in Nat, NEW no \in Nat, nn > 0, no > 0,
         NEW a \in Nat, NEW b \in Nat, b > 0,
         Common(a, b, nn, no), a % b = 0, NEW start \in Int
  PROVE  /\ Rounds(nn, no, b) \in Nat /\ Rounds(nn, no, b) > 0
         /\ \E cycle \in [Both(start, nn, no) -> 0 .. b - 1],
               lap \in [Both(start, nn, no) -> 0 .. Rounds(nn, no, b) - 1] :
                 Numbers(cycle, lap, start, nn, no, b)
<1>1. Divides(b, a)
  <2> DEFINE q == a \div b
  <2>1. q \in Int /\ a = b * q
    BY Division
  <2> HIDE DEF q
  <2>2. CASE -q > 0
    <3>1. b * (-q) >= b /\ b * (-q) = -(b * q) /\ b * q \in Int
      BY <2>1, <2>2, ProductOrder
    <3> QED BY <2>1, <3>1
  <2> QED BY <2>1, <2>2 DEF Divides
<1>2. Divides(b, b)
  BY DEF Divides
<1>3. Divides(b, nn) /\ Divides(b, no) /\ Combines(b, nn, no)
  BY <1>1, <1>2 DEF Common
<1>4. PICK k \in Nat : nn = b * k
  BY <1>3 DEF Divides
<1>5. PICK m \in Nat : no = b * m
  BY <1>3 DEF Divides
<1>6. PICK x \in Int, y \in Int : b = x * nn + y * no
  BY <1>3 DEF Combines
<1> QED BY <1>4, <1>5, <1>6, CyclesNumbered

-----------------------------------------------------------------------------
(* The exchange of the blocks in nargv.                                    *)

Where == Both(nonopt_start, nnonopts, nopts)
After(p) == Follows(p, nonopt_start, nnonopts, nopts)

(* The words of old on the way to the positions that follow theirs: those  *)
(* of the cycles done, and of the first steps of this one, have arrived,   *)
(* and the next to go is at the start of the cycle.                        *)
HalfMoved(old, cycle, lap) ==
  /\ perm.i < perm.b =>
       /\ cycle[perm.pos] = perm.i /\ lap[perm.pos] = perm.j
       /\ argv[nonopt_end + perm.i] = old[perm.pos]
  /\ \A p \in Where :
       /\ cycle[p] < perm.i \/ (cycle[p] = perm.i /\ lap[p] < perm.j) =>
            argv[After(p)] = old[p]
       /\ cycle[p] > perm.i \/ (cycle[p] = perm.i /\ lap[p] > perm.j) =>
            argv[p] = old[p]
  /\ \A n \in (1 .. Argc) \ Where : argv[n] = old[n]

(* The positions of the two blocks are those between the first operand and *)
(* the word that is read.                                                  *)
LEMMA WhereFacts ==
  ASSUME LineInv, phase \in {"gcd", "cycles"}
  PROVE  /\ Where = nonopt_start .. optind - 1 /\ Where \subseteq 1 .. Argc
         /\ nnonopts \in Nat /\ nopts \in Nat /\ nnonopts > 0 /\ nopts > 0
         /\ nonopt_end = nonopt_start + nnonopts
         /\ cyclelen = Rounds(nnonopts, nopts, perm.b)
         /\ \A p \in Where : After(p) \in Where
         /\ phase = "cycles" /\ perm.i < perm.b =>
              /\ perm.pos \in Where /\ NextPos = After(perm.pos)
              /\ nonopt_end + perm.i \in Where
<1>1. /\ nonopt_start \in 1 .. Argc /\ nonopt_end \in 1 .. Argc /\ Argc \in Nat
      /\ optind \in 1 .. Argc + 1 /\ perm.opt_end = optind
      /\ nonopt_start < nonopt_end /\ nonopt_end < optind
  BY CycleFacts
<1>2. /\ nnonopts \in Nat /\ nopts \in Nat /\ nnonopts > 0 /\ nopts > 0
      /\ nonopt_end = nonopt_start + nnonopts
      /\ nopts = optind - nonopt_end /\ nnonopts + nopts = optind - nonopt_start
  BY <1>1 DEF nnonopts, nopts
<1>3. Where = nonopt_start .. optind - 1
  <2>1. nonopt_start + nnonopts + nopts - 1 = optind - 1
    BY <1>1, <1>2
  <2> QED BY <2>1 DEF Where, Both
<1>4. Where \subseteq 1 .. Argc
  BY <1>1, <1>3
<1>5. cyclelen = Rounds(nnonopts, nopts, perm.b)
  BY <1>1, <1>2 DEF cyclelen, Rounds
<1>6. \A p \in Where : After(p) \in Where
  BY <1>1, <1>2, <1>3 DEF After, Follows
<1>7. ASSUME phase = "cycles", perm.i < perm.b
      PROVE  /\ perm.pos \in Where /\ NextPos = After(perm.pos)
             /\ nonopt_end + perm.i \in Where
  <2>1. /\ nonopt_start <= perm.pos /\ perm.pos < optind /\ perm.pos \in Int
        /\ perm.i \in Nat /\ perm.b \in Nat /\ perm.b <= optind - nonopt_end
    BY <1>7, CycleFacts DEF LineInv, InBlocks
  <2>2. perm.pos \in Where /\ nonopt_end + perm.i \in Where
    BY <1>1, <1>3, <1>7, <2>1
  <2>3. NextPos = After(perm.pos)
    BY <1>2 DEF NextPos, After, Follows
  <2> QED BY <2>2, <2>3
<1> QED BY <1>2, <1>3, <1>4, <1>5, <1>6, <1>7

(* One exchange takes one word to its place.                               *)
LEMMA MoveStep ==
  ASSUME LineInv, Swap, NEW old,
         NEW cycle \in [Where -> 0 .. perm.b - 1],
         NEW lap \in [Where -> 0 .. cyclelen - 1],
         Numbers(cycle, lap, nonopt_start, nnonopts, nopts, perm.b),
         HalfMoved(old, cycle, lap)
  PROVE  /\ HalfMoved(old, cycle, lap)'
         /\ Where' = Where /\ cyclelen' = cyclelen /\ perm'.b = perm.b
<1> DEFINE start == nonopt_end + perm.i
           pos == perm.pos
           next == After(perm.pos)
           b == perm.b
           i == perm.i
           j == perm.j
           rounds == cyclelen
<1>1. /\ phase = "cycles" /\ i < b /\ Argc' = Argc
      /\ UNCHANGED <<line, posix, phase, optind, place, nonopt_start, nonopt_end, given>>
  BY DEF Swap, Argc
<1>2. /\ pos \in Where /\ next \in Where /\ start \in Where /\ Where \subseteq 1 .. Argc
      /\ NextPos = next /\ next = After(pos) /\ \A p \in Where : After(p) \in Where
  BY <1>1, WhereFacts
<1>3. b \in Nat /\ i \in Nat /\ j \in Nat /\ nonopt_end \in Int
  BY <1>1, CycleFacts
<1>4. /\ \A p \in Where : /\ cycle[After(p)] = cycle[p]
                          /\ lap[After(p)] = IF lap[p] + 1 < rounds THEN lap[p] + 1 ELSE 0
      /\ \A p, q \in Where : cycle[p] = cycle[q] /\ lap[p] = lap[q] => p = q
      /\ \A k \in 0 .. b - 1 :
           nonopt_end + k \in Where => cycle[nonopt_end + k] = k /\ lap[nonopt_end + k] = 0
  BY <1>1, WhereFacts DEF Numbers, Where, After
<1>5. /\ \A p \in Where : cycle[p] \in Nat /\ lap[p] \in Nat /\ lap[p] < rounds
      /\ rounds \in Int
  <2>1. rounds \in Int
    BY <1>1, CycleFacts DEF cyclelen
  <2> QED BY <1>3, <2>1
<1>6. cycle[pos] = i /\ lap[pos] = j /\ argv[start] = old[pos]
  BY <1>1 DEF HalfMoved
<1>7. cycle[start] = i /\ lap[start] = 0
  BY <1>1, <1>2, <1>3, <1>4
<1>8. /\ Where' = Where /\ cyclelen' = cyclelen /\ perm'.b = perm.b
      /\ nnonopts' = nnonopts /\ nopts' = nopts /\ \A p : After(p)' = After(p)
  <2>1. /\ perm \in [then : {"none", "operand", "end"}, opt_end : 0 .. Argc + 1,
                    a : Nat, b : Nat, i : Nat, j : Nat, pos : Int]
    BY DEF LineInv, LineTypeOK
  <2>2. perm'.b = perm.b /\ perm'.opt_end = perm.opt_end
    BY <2>1 DEF Swap
  <2>3. nnonopts' = nnonopts /\ nopts' = nopts /\ cyclelen' = cyclelen
    BY <1>1, <2>2 DEF nnonopts, nopts, cyclelen
  <2> QED BY <1>1, <2>2, <2>3 DEF Where, After
<1>9. /\ \A p \in Where :
           /\ cycle[p] < i \/ (cycle[p] = i /\ lap[p] < j) => argv[After(p)] = old[p]
           /\ cycle[p] > i \/ (cycle[p] = i /\ lap[p] > j) => argv[p] = old[p]
      /\ \A n \in (1 .. Argc) \ Where : argv[n] = old[n]
  BY DEF HalfMoved
<1>10. perm \in [then : {"none", "operand", "end"}, opt_end : 0 .. Argc + 1,
                 a : Nat, b : Nat, i : Nat, j : Nat, pos : Int]
  BY DEF LineInv, LineTypeOK
<1>11. argv' = Exchanged(next, start)
  BY <1>2 DEF Swap
<1>12. \A n \in 1 .. Argc :
         argv'[n] = IF n = start THEN argv[next]
                    ELSE IF n = next THEN argv[start] ELSE argv[n]
  <2>1. argv \in [1 .. Argc -> 1 .. Argc]
    BY DEF LineInv, LineTypeOK
  <2> QED BY <1>2, <1>11, <2>1 DEF Exchanged
<1> HIDE DEF start, pos, next, b, i, j, rounds
<1>13. CASE j + 1 < rounds
  <2>1. perm'.i = i /\ perm'.j = j + 1 /\ perm'.pos = next
    BY <1>2, <1>10, <1>13 DEF Swap, start, pos, next, b, i, j, rounds
  <2>2. cycle[next] = i /\ lap[next] = j + 1 /\ next # start
    <3>1. cycle[next] = i /\ lap[next] = j + 1
      BY <1>2, <1>4, <1>6, <1>13
    <3> QED BY <1>3, <1>7, <3>1
  <2>3. argv'[next] = old[pos] /\ argv'[start] = old[next]
    <3>1. argv[next] = old[next]
      BY <1>2, <1>3, <1>9, <2>2
    <3> QED BY <1>2, <1>6, <1>12, <2>2, <3>1
  <2>4. ASSUME NEW p \in Where, cycle[p] < i \/ (cycle[p] = i /\ lap[p] < j + 1)
        PROVE  argv'[After(p)] = old[p]
    <3>1. CASE p = pos
      BY <1>2, <2>3, <3>1
    <3>2. CASE p # pos
      <4>1. cycle[p] < i \/ (cycle[p] = i /\ lap[p] < j)
        BY <1>2, <1>3, <1>4, <1>5, <1>6, <2>4, <3>2
      <4>2. After(p) # start
        BY <1>2, <1>3, <1>4, <1>5, <1>7, <1>13, <4>1
      <4>3. After(p) # next
        BY <1>2, <1>3, <1>4, <1>5, <1>13, <2>2, <4>1
      <4> QED BY <1>2, <1>9, <1>12, <4>1, <4>2, <4>3
    <3> QED BY <3>1, <3>2
  <2>5. ASSUME NEW p \in Where, cycle[p] > i \/ (cycle[p] = i /\ lap[p] > j + 1)
        PROVE  argv'[p] = old[p]
    <3>1. p # start /\ p # next
      BY <1>3, <1>5, <1>7, <2>2, <2>5
    <3>2. cycle[p] > i \/ (cycle[p] = i /\ lap[p] > j)
      BY <1>3, <1>5, <2>5
    <3> QED BY <1>2, <1>9, <1>12, <3>1, <3>2
  <2>6. \A n \in (1 .. Argc) \ Where : argv'[n] = old[n]
    BY <1>2, <1>9, <1>12
  <2> QED BY <1>1, <1>8, <2>1, <2>2, <2>3, <2>4, <2>5, <2>6 DEF HalfMoved, start, pos, next, b, i, j
<1>14. CASE ~ (j + 1 < rounds)
  <2>1. perm'.i = i + 1 /\ perm'.j = 0 /\ perm'.pos = start + 1
    BY <1>2, <1>3, <1>10, <1>14 DEF Swap, start, pos, next, b, i, j, rounds
  <2>2. next = start
    <3>1. cycle[next] = i /\ lap[next] = 0
      BY <1>2, <1>4, <1>6, <1>14
    <3> QED BY <1>2, <1>4, <1>7, <3>1
  <2>3. \A n \in 1 .. Argc : argv'[n] = argv[n]
    BY <1>12, <2>2
  <2>4. ASSUME NEW p \in Where, cycle[p] < i + 1 \/ (cycle[p] = i + 1 /\ lap[p] < 0)
        PROVE  argv'[After(p)] = old[p]
    <3>1. CASE p = pos
      BY <1>2, <1>6, <2>2, <2>3, <3>1
    <3>2. CASE p # pos
      <4>1. cycle[p] < i \/ (cycle[p] = i /\ lap[p] < j)
        BY <1>2, <1>3, <1>4, <1>5, <1>6, <1>14, <2>4, <3>2
      <4> QED BY <1>2, <1>9, <2>3, <4>1
    <3> QED BY <3>1, <3>2
  <2>5. ASSUME NEW p \in Where, cycle[p] > i + 1 \/ (cycle[p] = i + 1 /\ lap[p] > 0)
        PROVE  argv'[p] = old[p]
    BY <1>2, <1>3, <1>5, <1>9, <2>3, <2>5
  <2>6. \A n \in (1 .. Argc) \ Where : argv'[n] = old[n]
    BY <1>9, <2>3
  <2>7. ASSUME i + 1 < b
        PROVE  /\ cycle[start + 1] = i + 1 /\ lap[start + 1] = 0
               /\ argv'[nonopt_end + (i + 1)] = old[start + 1]
    <3>1. start + 1 = nonopt_end + (i + 1) /\ i + 1 \in 0 .. b - 1 /\ i + 1 > i
      BY <1>3, <2>7 DEF start, i
    <3>2. start + 1 \in Where
      <4>1. /\ Where = nonopt_start .. optind - 1 /\ optind \in Int
            /\ nonopt_start \in Int /\ nonopt_start < nonopt_end
            /\ b <= optind - nonopt_end
        BY <1>1, WhereFacts, CycleFacts DEF b
      <4> QED BY <1>3, <3>1, <4>1
    <3>3. cycle[start + 1] = i + 1 /\ lap[start + 1] = 0
      BY <1>4, <3>1, <3>2
    <3> QED BY <1>2, <1>9, <2>3, <3>1, <3>2, <3>3
  <2> QED BY <1>1, <1>8, <2>1, <2>4, <2>5, <2>6, <2>7 DEF HalfMoved, start, pos, next, b, i, j
<1> QED BY <1>8, <1>13, <1>14

-----------------------------------------------------------------------------
(* Induction: a set of natural numbers has a least element.                *)

Below == {p \in Nat \X Nat : p[1] < p[2]}
LEMMA LeastOf ==
  ASSUME NEW T \in SUBSET Nat, T # {}
  PROVE  \E n \in T : \A m \in T : n <= m
<1>1. IsWellFoundedOn(Below, Nat)
  BY NatLessThanWellFounded DEF OpToRel, Below
<1>2. PICK n \in T : \A m \in T : ~ (<<m, n>> \in Below)
  BY <1>1, WFMin
<1>3. ASSUME NEW m \in T
      PROVE  n <= m
  <2>1. m \in Nat /\ n \in Nat
    OBVIOUS
  <2>2. ~ (<<m, n>> \in Below)
    BY <1>2
  <2> QED BY <2>1, <2>2 DEF Below
<1> QED BY <1>3

(* Which of len words the word before takes, when those in W take the next *)
(* and a word that is taken takes none: of words in a row, every second.   *)
Alternates(f, len, W) ==
  f = [n \in 0 .. len |-> n > 1 /\ ~ f[n - 1] /\ n - 1 \in W]

(* There is such a function for any number of words, so that the recursive *)
(* definition in Arguments means something.                                *)
LEMMA AlternatesExists ==
  ASSUME NEW W, NEW len \in Nat
  PROVE  \E f : Alternates(f, len, W)
<1> DEFINE Bad == {n \in Nat : ~ \E f : Alternates(f, n, W)}
<1>1. 0 \notin Bad
  <2> DEFINE f == [n \in 0 .. 0 |-> FALSE]
  <2>1. \A n \in 0 .. 0 : (n > 1 /\ ~ f[n - 1] /\ n - 1 \in W) = FALSE
    OBVIOUS
  <2>2. Alternates(f, 0, W)
    BY <2>1 DEF Alternates
  <2> QED BY <2>2
<1>2. ASSUME NEW n \in Nat, n \notin Bad
      PROVE  n + 1 \notin Bad
  <2>1. PICK f : Alternates(f, n, W)
    BY <1>2
  <2> DEFINE g == [k \in 0 .. n + 1 |->
                     IF k <= n THEN f[k] ELSE k > 1 /\ ~ f[k - 1] /\ k - 1 \in W]
  <2>2. \A k \in 0 .. n : f[k] = (k > 1 /\ ~ f[k - 1] /\ k - 1 \in W)
    BY <2>1 DEF Alternates
  <2>3. \A k \in 0 .. n + 1 : g[k] = (k > 1 /\ ~ g[k - 1] /\ k - 1 \in W)
    BY <2>2
  <2>4. g = [k \in 0 .. n + 1 |-> g[k]]
    OBVIOUS
  <2>5. Alternates(g, n + 1, W)
    BY <2>3, <2>4 DEF Alternates
  <2> QED BY <2>5
<1>3. Bad = {}
  <2> SUFFICES ASSUME Bad # {}
               PROVE  FALSE
    OBVIOUS
  <2>1. PICK n \in Bad : \A m \in Bad : n <= m
    BY LeastOf
  <2>2. n # 0 /\ n \in Nat
    BY <1>1
  <2>3. n - 1 \in Nat /\ n - 1 \notin Bad
    BY <2>1, <2>2
  <2>4. (n - 1) + 1 \notin Bad
    BY <1>2, <2>3
  <2> QED BY <2>2, <2>4
<1> QED BY <1>3

(* Which words are arguments, one word at a time.                          *)
LEMMA ArgumentsAre ==
  ASSUME NEW words \in Seq(Seq(STRING))
  PROVE  /\ Arguments(words) \subseteq 1 .. Len(words)
         /\ \A n \in 1 .. Len(words) :
              n \in Arguments(words) <=>
                /\ n > 1 /\ n - 1 \notin Arguments(words)
                /\ IsOption(words[n - 1]) /\ WantsNext(words[n - 1])
<1> DEFINE W == {n \in 1 .. Len(words) : IsOption(words[n]) /\ WantsNext(words[n])}
           len == Len(words)
           Takes(f, n) == /\ n > 1
                          /\ ~ f[n - 1]
                          /\ IsOption(words[n - 1]) /\ WantsNext(words[n - 1])
           taken == CHOOSE f : f = [n \in 0 .. len |-> Takes(f, n)]
<1>1. len \in Nat
  OBVIOUS
<1>2. PICK f : Alternates(f, len, W)
  BY <1>1, AlternatesExists
<1>3. \A n \in 0 .. len : (n > 1 /\ ~ f[n - 1] /\ n - 1 \in W) = Takes(f, n)
  <2> SUFFICES ASSUME NEW n \in 0 .. len
               PROVE  (n > 1 /\ ~ f[n - 1] /\ n - 1 \in W) = Takes(f, n)
    OBVIOUS
  <2>1. n > 1 => n - 1 \in 1 .. len
    BY <1>1
  <2> QED BY <2>1
<1>4. f = [n \in 0 .. len |-> Takes(f, n)]
  <2> HIDE DEF W, Takes, len
  <2>1. [n \in 0 .. len |-> n > 1 /\ ~ f[n - 1] /\ n - 1 \in W]
        = [n \in 0 .. len |-> Takes(f, n)]
    BY <1>3, Zenon
  <2> QED BY <1>2, <2>1 DEF Alternates
<1>5. taken = [n \in 0 .. len |-> Takes(taken, n)]
  <2> HIDE DEF Takes, len
  <2> QED BY <1>4
<1>6. Arguments(words) = {n \in 1 .. len : taken[n]}
  BY DEF Arguments
<1> HIDE DEF taken
<1>7. \A n \in 0 .. len : taken[n] = Takes(taken, n)
  <2> HIDE DEF Takes, len
  <2> QED BY <1>5
<1>8. ASSUME NEW n \in 1 .. len
      PROVE  n \in Arguments(words) <=>
               /\ n > 1 /\ n - 1 \notin Arguments(words)
               /\ IsOption(words[n - 1]) /\ WantsNext(words[n - 1])
  <2>1. n \in 0 .. len /\ (n > 1 => n - 1 \in 1 .. len)
    BY <1>1
  <2>2. n \in Arguments(words) <=> Takes(taken, n)
    <3> HIDE DEF Takes, len
    <3> QED BY <1>6, <1>7, <2>1
  <2>3. n > 1 => (n - 1 \in Arguments(words) <=> taken[n - 1])
    <3> HIDE DEF len
    <3> QED BY <1>6, <2>1
  <2> QED BY <2>2, <2>3
<1> QED BY <1>6, <1>8

Stops == TakeArgument \cup {"-"}

(* The end of a cluster is its first letter that ends one.                 *)
LEMMA LastOfIs ==
  ASSUME NEW word \in Seq(STRING), word # <<>>
  PROVE  /\ LastOf(word) \in 2 .. Len(word) + 1
         /\ LastOf(word) = Len(word) + 1 \/ word[LastOf(word)] \in Stops
         /\ \A before \in 2 .. LastOf(word) - 1 : word[before] \notin Stops
<1> DEFINE T == {n \in 2 .. Len(word) + 1 : n = Len(word) + 1 \/ word[n] \in Stops}
           P(n) == /\ n = Len(word) + 1 \/ word[n] \in Stops
                   /\ \A before \in 2 .. n - 1 : word[before] \notin Stops
<1>1. Len(word) \in Nat /\ Len(word) # 0
  BY EmptySeq, LenProperties
<1>2. Len(word) + 1 \in T /\ T \in SUBSET Nat
  BY <1>1
<1>3. PICK n \in T : \A m \in T : n <= m
  <2> HIDE DEF T
  <2>1. T # {}
    BY <1>2
  <2> QED BY <1>2, <2>1, LeastOf
<1>4. P(n) /\ n \in 2 .. Len(word) + 1
  <2>1. ASSUME NEW before \in 2 .. n - 1
        PROVE  word[before] \notin Stops
    <3>1. n \in 2 .. Len(word) + 1 /\ n \in Int /\ before < n /\ before \in 2 .. Len(word) + 1
      BY <1>1
    <3>2. before \notin T
      <4> HIDE DEF T
      <4> QED BY <1>3, <3>1
    <3> QED BY <3>1, <3>2
  <2>2. n \in 2 .. Len(word) + 1
    BY DEF T
  <2>3. n = Len(word) + 1 \/ word[n] \in Stops
    BY DEF T
  <2> QED BY <2>1, <2>2, <2>3
<1>5. LastOf(word) = CHOOSE k \in 2 .. Len(word) + 1 : P(k)
  BY DEF LastOf, Stops
<1> HIDE DEF P
<1>6. LastOf(word) \in 2 .. Len(word) + 1 /\ P(LastOf(word))
  BY <1>4, <1>5
<1> QED BY <1>6 DEF P

(* Reading a cluster, a letter either ends it or is one of its switches.   *)
LEMMA AtStop ==
  ASSUME NEW word \in Seq(STRING), NEW k \in 2 .. Len(word), k <= LastOf(word)
  PROVE  /\ word[k] \in Stops => LastOf(word) = k
         /\ word[k] \notin Stops => k < LastOf(word) /\ word[k] \in Switches(word)
<1>1. word # <<>> /\ Len(word) \in Nat
  BY EmptySeq, LenProperties
<1>2. /\ LastOf(word) \in 2 .. Len(word) + 1
      /\ LastOf(word) = Len(word) + 1 \/ word[LastOf(word)] \in Stops
      /\ \A before \in 2 .. LastOf(word) - 1 : word[before] \notin Stops
  BY <1>1, LastOfIs
<1>3. CASE k = LastOf(word)
  BY <1>1, <1>2, <1>3
<1>4. CASE k < LastOf(word)
  <2>1. k \in 2 .. LastOf(word) - 1
    BY <1>1, <1>2, <1>4
  <2> QED BY <1>2, <1>4, <2>1 DEF Switches
<1> QED BY <1>1, <1>2, <1>3, <1>4

EndsOf(words, posixly) ==
  {n \in (1 .. Len(words)) \ Arguments(words) :
     words[n] = EndOfOptions \/ (posixly /\ ~ IsOption(words[n]))}

(* The last word is the first that ends the options, or the end of the     *)
(* line.                                                                   *)
LEMMA LastWordIs ==
  ASSUME NEW words \in Seq(Seq(STRING)), NEW posixly \in BOOLEAN
  PROVE  /\ LastWord(words, posixly) \in EndsOf(words, posixly) \cup {Len(words) + 1}
         /\ LastWord(words, posixly) \in 1 .. Len(words) + 1
         /\ \A before \in 1 .. LastWord(words, posixly) - 1 :
              before \notin EndsOf(words, posixly)
<1> DEFINE ends == EndsOf(words, posixly)
           T == ends \cup {Len(words) + 1}
           P(n) == \A before \in 1 .. n - 1 : before \notin ends
<1>1. Len(words) \in Nat /\ ends \subseteq 1 .. Len(words)
  BY LenProperties DEF EndsOf
<1>2. T \in SUBSET Nat /\ Len(words) + 1 \in T /\ T \subseteq 1 .. Len(words) + 1
  <2>1. \A n \in ends : n \in 1 .. Len(words) + 1
    BY <1>1
  <2>2. Len(words) + 1 \in 1 .. Len(words) + 1
    BY <1>1
  <2> HIDE DEF ends
  <2> QED BY <2>1, <2>2
<1>3. PICK n \in T : \A m \in T : n <= m
  <2>1. T # {}
    BY <1>2
  <2> HIDE DEF T
  <2> QED BY <1>2, <2>1, LeastOf
<1>4. P(n)
  <2> SUFFICES ASSUME NEW before \in 1 .. n - 1
               PROVE  before \notin ends
    OBVIOUS
  <2>1. n \in Int /\ before < n
    BY <1>1, <1>2
  <2>2. before \in ends => before \in T
    OBVIOUS
  <2> HIDE DEF T, ends
  <2> QED BY <1>3, <2>1, <2>2
<1>5. LastWord(words, posixly) = CHOOSE k \in T : P(k)
  BY DEF LastWord, EndsOf
<1> HIDE DEF P, T
<1>6. LastWord(words, posixly) \in T /\ P(LastWord(words, posixly))
  BY <1>4, <1>5
<1>7. LastWord(words, posixly) \in 1 .. Len(words) + 1
  BY <1>2, <1>6
<1> QED BY <1>6, <1>7 DEF P, T

(* The scan comes to the last word and knows it by itself.                 *)
LEMMA EndsHere ==
  ASSUME NEW words \in Seq(Seq(STRING)), NEW posixly \in BOOLEAN,
         NEW n \in 1 .. Len(words), n <= LastWord(words, posixly),
         n \notin Arguments(words)
  PROVE  LastWord(words, posixly) = n <=>
           words[n] = EndOfOptions \/ (posixly /\ ~ IsOption(words[n]))
<1> DEFINE last == LastWord(words, posixly)
<1>1. /\ last \in EndsOf(words, posixly) \cup {Len(words) + 1}
      /\ last \in 1 .. Len(words) + 1
      /\ \A before \in 1 .. last - 1 : before \notin EndsOf(words, posixly)
      /\ Len(words) \in Nat
  BY LastWordIs, LenProperties
<1>2. n \in EndsOf(words, posixly) <=>
        words[n] = EndOfOptions \/ (posixly /\ ~ IsOption(words[n]))
  BY DEF EndsOf
<1> HIDE DEF last
<1>3. n < last => n \in 1 .. last - 1
  BY <1>1
<1>4. n = last => n \in EndsOf(words, posixly)
  BY <1>1
<1>5. n = last \/ n < last
  BY <1>1 DEF last
<1>6. last = n <=> n \in EndsOf(words, posixly)
  BY <1>1, <1>3, <1>4, <1>5
<1> QED BY <1>2, <1>6 DEF last

(* Which words belong to the options, and which of them name some.         *)
LEMMA OptionWordsAre ==
  ASSUME NEW words \in Seq(Seq(STRING)), NEW posixly \in BOOLEAN, NEW n
  PROVE  /\ n \in OptionWords(words, posixly) <=>
              /\ n \in 1 .. Len(words) /\ n <= LastWord(words, posixly)
              /\ IsOption(words[n]) \/ n \in Arguments(words)
         /\ n \in Mentions(words, posixly) <=>
              /\ n \in 1 .. Len(words) /\ n < LastWord(words, posixly)
              /\ IsOption(words[n]) /\ n \notin Arguments(words)
<1>1. n \in OptionWords(words, posixly) <=>
        /\ n \in 1 .. Len(words) /\ n <= LastWord(words, posixly)
        /\ IsOption(words[n]) \/ n \in Arguments(words)
  BY DEF OptionWords
<1>2. LastWord(words, posixly) \in Int /\ Len(words) \in Nat
  BY LastWordIs, LenProperties
<1>3. n \in 1 .. Len(words) =>
        (n <= LastWord(words, posixly) /\ n # LastWord(words, posixly)
           <=> n < LastWord(words, posixly))
  BY <1>2
<1> QED BY <1>1, <1>3 DEF Mentions

(* A word that is read as an option, and its argument.                     *)
LEMMA PastOption ==
  ASSUME NEW words \in Seq(Seq(STRING)), NEW posixly \in BOOLEAN,
         NEW n \in 1 .. Len(words), n <= LastWord(words, posixly),
         n \notin Arguments(words), IsOption(words[n]), words[n] # EndOfOptions
  PROVE  /\ n \in Mentions(words, posixly) /\ n \in OptionWords(words, posixly)
         /\ ~ WantsNext(words[n]) =>
              n + 1 \notin Arguments(words) /\ n + 1 <= LastWord(words, posixly)
         /\ WantsNext(words[n]) /\ n < Len(words) =>
              /\ n + 1 \in OptionWords(words, posixly) \ Mentions(words, posixly)
              /\ n + 2 \notin Arguments(words) /\ n + 2 <= LastWord(words, posixly)
<1> DEFINE last == LastWord(words, posixly)
<1>1. Len(words) \in Nat /\ last \in 1 .. Len(words) + 1
  BY LastWordIs, LenProperties
<1>2. n < last
  BY <1>1, EndsHere
<1>3. n \in Mentions(words, posixly) /\ n \in OptionWords(words, posixly)
  BY <1>1, <1>2, OptionWordsAre
<1>4. ASSUME ~ WantsNext(words[n])
      PROVE  n + 1 \notin Arguments(words) /\ n + 1 <= last
  <2>1. n + 1 - 1 = n
    OBVIOUS
  <2>2. n + 1 \notin Arguments(words)
    BY <1>4, <2>1, ArgumentsAre
  <2> QED BY <1>1, <1>2, <2>2
<1>5. ASSUME WantsNext(words[n]), n < Len(words)
      PROVE  /\ n + 1 \in OptionWords(words, posixly) \ Mentions(words, posixly)
             /\ n + 2 \notin Arguments(words) /\ n + 2 <= last
  <2>1. /\ n + 1 - 1 = n /\ n + 2 - 1 = n + 1 /\ n + 1 > 1
        /\ n + 1 \in 1 .. Len(words)
    BY <1>1, <1>5
  <2>2. n + 1 \in Arguments(words)
    BY <1>5, <2>1, ArgumentsAre
  <2>3. n + 2 \notin Arguments(words)
    BY <2>1, <2>2, ArgumentsAre
  <2>4. n + 1 # last
    <3>1. last \in EndsOf(words, posixly) \/ last = Len(words) + 1
      BY LastWordIs
    <3> QED BY <1>1, <1>5, <2>2, <3>1 DEF EndsOf
  <2>5. n + 1 < last
    BY <1>1, <1>2, <2>4
  <2>6. n + 1 \in OptionWords(words, posixly) \ Mentions(words, posixly)
    BY <1>1, <2>1, <2>2, <2>5, OptionWordsAre
  <2> QED BY <1>1, <2>3, <2>5, <2>6
<1> QED BY <1>3, <1>4, <1>5

(* A word that is passed over.                                             *)
LEMMA PastOperand ==
  ASSUME NEW words \in Seq(Seq(STRING)), NEW posixly \in BOOLEAN, ~ posixly,
         NEW n \in 1 .. Len(words), n <= LastWord(words, posixly),
         n \notin Arguments(words), ~ IsOption(words[n])
  PROVE  /\ n \notin OptionWords(words, posixly) /\ n \notin Mentions(words, posixly)
         /\ n + 1 \notin Arguments(words) /\ n + 1 <= LastWord(words, posixly)
<1>1. Len(words) \in Nat /\ LastWord(words, posixly) \in 1 .. Len(words) + 1
  BY LastWordIs, LenProperties
<1>2. words[n] # EndOfOptions
  <2>1. IsOption(EndOfOptions)
    BY DEF EndOfOptions, IsOption
  <2> QED BY <2>1
<1>3. n < LastWord(words, posixly)
  BY <1>1, <1>2, EndsHere
<1>4. n \notin OptionWords(words, posixly) /\ n \notin Mentions(words, posixly)
  BY OptionWordsAre
<1>5. n + 1 - 1 = n
  OBVIOUS
<1>6. n + 1 \notin Arguments(words)
  BY <1>5, ArgumentsAre
<1>7. n + 1 <= LastWord(words, posixly)
  BY <1>1, <1>3
<1> QED BY <1>4, <1>6, <1>7

-----------------------------------------------------------------------------
(* What the words before one ask for.                                      *)

(* No two names have one letter, so an ambiguous beginning has none.       *)
LEMMA LongNames ==
  /\ \A a, b \in Names : Long[a] = Long[b] => a = b
  /\ \A a \in Names : Long[a] \in Letters
  /\ \A name \in Seq(STRING) : Matches(name) \subseteq Names
<1>1. /\ \A a, b \in Names : Long[a] = Long[b] => a = b
      /\ \A a \in Names : Long[a] \in Letters
  BY DEF Names, Long, Letters
<1>2. \A name \in Seq(STRING) : Matches(name) \subseteq Names
  BY DEF Matches, Names, Long, Beginnings
<1> QED BY <1>1, <1>2

MentionsOf(letter, n) ==
  {m \in Mentions(line, posix) :
     m < n /\ letter \in Switches(line[m]) \cup Final(line[m])}
ValueAt(letter, n) == IF letter \in TakeArgument THEN ValueFor(line, n) ELSE <<>>
Latest(letter, with) ==
  LET last == CHOOSE n \in with : \A other \in with : other <= n
  IN  IF with = {} THEN NotGiven ELSE ValueAt(letter, last)
SoFar(n) == [letter \in Letters |-> Latest(letter, MentionsOf(letter, n))]
Acceptable(n) == \A m \in Mentions(line, posix) : m < n => ~ Unacceptable(line, m)

(* A word with options replaces the values of those, and of no other.      *)
LEMMA SoFarPast ==
  ASSUME line \in Seq(Seq(STRING)), posix \in BOOLEAN,
         NEW n \in Mentions(line, posix), NEW next \in Int, n < next,
         \A m \in Mentions(line, posix) : m < next => m <= n
  PROVE  \A letter \in Letters :
           SoFar(next)[letter] =
             IF letter \in Switches(line[n]) \cup Final(line[n])
             THEN ValueAt(letter, n) ELSE SoFar(n)[letter]
<1> SUFFICES ASSUME NEW letter \in Letters
             PROVE  Latest(letter, MentionsOf(letter, next)) =
                      IF letter \in Switches(line[n]) \cup Final(line[n])
                      THEN ValueAt(letter, n) ELSE Latest(letter, MentionsOf(letter, n))
  BY DEF SoFar
<1>1. \A m \in Mentions(line, posix) : m \in Int
  BY OptionWordsAre
<1>2. \A m \in Mentions(line, posix) : m < next <=> (m < n \/ m = n)
  BY <1>1
<1>3. CASE letter \in Switches(line[n]) \cup Final(line[n])
  <2> DEFINE with == MentionsOf(letter, next)
  <2>1. n \in with /\ \A m \in with : m <= n /\ m \in Int
    BY <1>1, <1>3 DEF MentionsOf
  <2> HIDE DEF with
  <2>2. (CHOOSE k \in with : \A other \in with : other <= k) = n
    <3> DEFINE k == CHOOSE k \in with : \A other \in with : other <= k
    <3>1. k \in with /\ \A other \in with : other <= k
      BY <2>1
    <3> HIDE DEF k
    <3>2. k = n
      BY <2>1, <3>1
    <3> QED BY <3>2 DEF k
  <2> QED BY <1>3, <2>1, <2>2 DEF Latest, with
<1>4. CASE letter \notin Switches(line[n]) \cup Final(line[n])
  <2>1. MentionsOf(letter, next) = MentionsOf(letter, n)
    BY <1>2, <1>4 DEF MentionsOf
  <2> QED BY <1>4, <2>1
<1> QED BY <1>3, <1>4

(* A word without options replaces none.                                   *)
LEMMA SoFarPassed ==
  ASSUME NEW n \in Int, NEW next \in Int,
         \A m \in Mentions(line, posix) : m < next <=> m < n
  PROVE  /\ SoFar(next) = SoFar(n)
         /\ Acceptable(next) <=> Acceptable(n)
<1>1. \A letter : MentionsOf(letter, next) = MentionsOf(letter, n)
  BY DEF MentionsOf
<1> QED BY <1>1 DEF SoFar, Acceptable

(* The line as a whole.                                                    *)
LEMMA SoFarAll ==
  ASSUME NEW n, \A m \in Mentions(line, posix) : m < n
  PROVE  /\ SoFar(n) = Meaning(line, posix)
         /\ line # <<>> /\ Acceptable(n) => ~ Refuses(line, posix)
<1> DEFINE With(letter) == {m \in Mentions(line, posix) :
                              letter \in Switches(line[m]) \cup Final(line[m])}
<1>1. \A letter : MentionsOf(letter, n) = With(letter)
  BY DEF MentionsOf
<1>2. SoFar(n) = Meaning(line, posix)
  <2>1. Meaning(line, posix) = [letter \in Letters |-> Latest(letter, With(letter))]
    BY DEF Meaning, Latest, ValueAt
  <2> HIDE DEF With
  <2> QED BY <1>1, <2>1 DEF SoFar
<1>3. line # <<>> /\ Acceptable(n) => ~ Refuses(line, posix)
  BY DEF Acceptable, Refuses
<1> QED BY <1>2, <1>3

-----------------------------------------------------------------------------
(* Words in order.                                                         *)

OrderedIn(a, where, what) ==
  /\ {a[n] : n \in where} = what
  /\ \A n, m \in where : n < m => a[n] < a[m]

(* One more word behind those in order.                                    *)
LEMMA OrderedGrows ==
  ASSUME NEW a, NEW where \in SUBSET Int, NEW what \in SUBSET Int, NEW n \in Int,
         OrderedIn(a, where, what), a[n] = n,
         \A k \in where : k < n, \A w \in what : w < n
  PROVE  OrderedIn(a, where \cup {n}, what \cup {n})
<1>1. {a[k] : k \in where \cup {n}} = {a[k] : k \in where} \cup {a[n]}
  OBVIOUS
<1>2. \A k, m \in where \cup {n} : k < m => a[k] < a[m]
  <2> SUFFICES ASSUME NEW k \in where \cup {n}, NEW m \in where \cup {n}, k < m
               PROVE  a[k] < a[m]
    OBVIOUS
  <2>1. k \in where
    <3>1. k # n
      OBVIOUS
    <3> QED BY <3>1
  <2>2. CASE m = n
    BY <2>1, <2>2 DEF OrderedIn
  <2>3. CASE m \in where
    BY <2>1, <2>3 DEF OrderedIn
  <2> QED BY <2>2, <2>3
<1> QED BY <1>1, <1>2 DEF OrderedIn

(* Words behind those in order that are where they were.                   *)
LEMMA OrderedTail ==
  ASSUME NEW a, NEW where \in SUBSET Int, NEW what \in SUBSET Int,
         NEW n \in Int, NEW last \in Int,
         OrderedIn(a, where, what), \A k \in n .. last : a[k] = k,
         \A k \in where : k < n, \A w \in what : w < n
  PROVE  OrderedIn(a, where \cup (n .. last), what \cup (n .. last))
<1>1. {a[k] : k \in where \cup (n .. last)} = what \cup (n .. last)
  BY DEF OrderedIn
<1>2. ASSUME NEW k \in where \cup (n .. last), NEW m \in where \cup (n .. last), k < m
      PROVE  a[k] < a[m]
  <2>1. CASE k \in where /\ m \in where
    BY <1>2, <2>1 DEF OrderedIn
  <2>2. CASE k \in where /\ m \in n .. last
    <3>1. a[k] \in what /\ a[m] = m
      BY <2>2 DEF OrderedIn
    <3>2. a[k] < n /\ a[k] \in Int
      BY <3>1
    <3> QED BY <2>2, <3>1, <3>2
  <2>3. CASE k \in n .. last /\ m \in where
    BY <1>2, <2>3
  <2>4. CASE k \in n .. last /\ m \in n .. last
    BY <1>2, <2>4
  <2> QED BY <2>1, <2>2, <2>3, <2>4
<1> QED BY <1>1, <1>2 DEF OrderedIn

(* Words that are moved without passing one another stay in order.         *)
LEMMA OrderedElsewhere ==
  ASSUME NEW a, NEW old, NEW from \in SUBSET Int, NEW to \in SUBSET Int, NEW what,
         NEW f \in [from -> to],
         \A n \in to : \E k \in from : f[k] = n,
         \A n, m \in from : n < m => f[n] < f[m],
         \A n \in from : a[f[n]] = old[n],
         OrderedIn(old, from, what)
  PROVE  OrderedIn(a, to, what)
<1>1. {a[n] : n \in to} = {old[n] : n \in from}
  <2>1. ASSUME NEW n \in to
        PROVE  a[n] \in {old[m] : m \in from}
    <3>1. PICK k \in from : f[k] = n
      OBVIOUS
    <3> QED BY <3>1
  <2>2. ASSUME NEW n \in from
        PROVE  old[n] \in {a[m] : m \in to}
    <3>1. f[n] \in to /\ a[f[n]] = old[n]
      OBVIOUS
    <3> QED BY <3>1
  <2> QED BY <2>1, <2>2
<1>2. ASSUME NEW n \in to, NEW m \in to, n < m
      PROVE  a[n] < a[m]
  <2>1. PICK k \in from : f[k] = n
    OBVIOUS
  <2>2. PICK l \in from : f[l] = m
    OBVIOUS
  <2>3. k < l
    <3>1. k \in Int /\ l \in Int /\ n \in Int /\ m \in Int
      OBVIOUS
    <3>2. CASE k = l
      BY <1>2, <2>1, <2>2, <3>1, <3>2
    <3>3. CASE l < k
      <4>1. f[l] < f[k]
        BY <3>3
      <4> QED BY <1>2, <2>1, <2>2, <3>1, <4>1
    <3> QED BY <3>1, <3>2, <3>3
  <2>4. old[k] < old[l]
    BY <2>3 DEF OrderedIn
  <2> QED BY <2>1, <2>2, <2>4
<1> QED BY <1>1, <1>2 DEF OrderedIn

(* Two neighbouring blocks that have changed places: the first is after    *)
(* the rest, each in its order.                                            *)
LEMMA BlocksExchanged ==
  ASSUME NEW a, NEW old, NEW start \in Nat, NEW nn \in Nat, NEW no \in Nat,
         start > 0, NEW first, NEW rest,
         \A p \in Both(start, nn, no) : a[Follows(p, start, nn, no)] = old[p],
         \A n \in 1 .. start - 1 : a[n] = old[n],
         OrderedIn(old, start .. start + nn - 1, first),
         OrderedIn(old, (1 .. start + nn + no - 1) \ (start .. start + nn - 1), rest)
  PROVE  /\ OrderedIn(a, start + no .. start + nn + no - 1, first)
         /\ OrderedIn(a, 1 .. start + no - 1, rest)
<1>1. OrderedIn(a, start + no .. start + nn + no - 1, first)
  <2> DEFINE from == start .. start + nn - 1
             to == start + no .. start + nn + no - 1
             f == [n \in from |-> n + no]
  <2>1. f \in [from -> to] /\ from \in SUBSET Int /\ to \in SUBSET Int
    OBVIOUS
  <2>2. \A n \in to : \E k \in from : f[k] = n
    <3> SUFFICES ASSUME NEW n \in to
                 PROVE  \E k \in from : f[k] = n
      OBVIOUS
    <3>1. n - no \in from /\ f[n - no] = n
      OBVIOUS
    <3> QED BY <3>1
  <2>3. \A n, m \in from : n < m => f[n] < f[m]
    OBVIOUS
  <2>4. \A n \in from : a[f[n]] = old[n]
    <3> SUFFICES ASSUME NEW n \in from
                 PROVE  a[f[n]] = old[n]
      OBVIOUS
    <3>1. n \in Both(start, nn, no) /\ Follows(n, start, nn, no) = n + no
      BY DEF Both, Follows
    <3> QED BY <3>1
  <2> HIDE DEF from, to, f
  <2>5. OrderedIn(old, from, first)
    BY DEF from
  <2>6. OrderedIn(a, to, first)
    BY <2>1, <2>2, <2>3, <2>4, <2>5, OrderedElsewhere
  <2> QED BY <2>6 DEF to
<1>2. OrderedIn(a, 1 .. start + no - 1, rest)
  <2> DEFINE from == (1 .. start + nn + no - 1) \ (start .. start + nn - 1)
             to == 1 .. start + no - 1
             f == [n \in from |-> IF n < start THEN n ELSE n - nn]
  <2>1. f \in [from -> to] /\ from \in SUBSET Int /\ to \in SUBSET Int
    OBVIOUS
  <2>2. \A n \in to : \E k \in from : f[k] = n
    <3> SUFFICES ASSUME NEW n \in to
                 PROVE  \E k \in from : f[k] = n
      OBVIOUS
    <3>1. CASE n < start
      BY <3>1
    <3>2. CASE n >= start
      <4>1. n + nn \in from /\ f[n + nn] = n
        BY <3>2
      <4> QED BY <4>1
    <3> QED BY <3>1, <3>2
  <2>3. \A n, m \in from : n < m => f[n] < f[m]
    OBVIOUS
  <2>4. \A n \in from : a[f[n]] = old[n]
    <3> SUFFICES ASSUME NEW n \in from
                 PROVE  a[f[n]] = old[n]
      OBVIOUS
    <3>1. CASE n < start
      BY <3>1
    <3>2. CASE n >= start
      <4>1. n \in Both(start, nn, no) /\ Follows(n, start, nn, no) = n - nn
        BY <3>2 DEF Both, Follows
      <4> QED BY <3>2, <4>1
    <3> QED BY <3>1, <3>2
  <2> HIDE DEF from, to, f
  <2>5. OrderedIn(old, from, rest)
    BY DEF from
  <2>6. OrderedIn(a, to, rest)
    BY <2>1, <2>2, <2>3, <2>4, <2>5, OrderedElsewhere
  <2> QED BY <2>6 DEF to
<1> QED BY <1>1, <1>2

-----------------------------------------------------------------------------
(* The invariant of the scan.                                              *)

Options == OptionWords(line, posix)
Permuting == phase \in {"gcd", "cycles"}
InScan == phase = "scan" \/ (Permuting /\ perm.then = "operand")
Ended == phase = "parsed" \/ (Permuting /\ perm.then = "end")

(* The first piece of the word that is still to be read, and the switches  *)
(* before it.                                                              *)
Reached == Len(line[optind]) - Len(place) + 1
ReadOf == IF place = <<>> THEN {} ELSE {line[optind][n] : n \in 2 .. Reached - 1}

(* The scan is at a word that is no argument, all the words before it were *)
(* acceptable, and main has what they say.                                 *)
Before(n) ==
  /\ n <= LastWord(line, posix) /\ n \notin Arguments(line)
  /\ Acceptable(n)
ReadSoFar ==
  InScan =>
    /\ Before(optind)
    /\ given = [letter \in Letters |->
                  IF letter \in ReadOf THEN <<>> ELSE SoFar(optind)[letter]]

InAWord ==
  phase = "scan" /\ place # <<>> =>
    /\ IsOption(line[optind]) /\ line[optind] # EndOfOptions
    /\ Reached \in 2 .. Len(line[optind]) /\ Reached <= LastOf(line[optind])
    /\ place = SubSeq(line[optind], Reached, Len(line[optind]))
    /\ ReadOf \subseteq Letters \ {"h"}
    /\ nonopt_start # -1 => nonopt_end # -1

Finished ==
  /\ Ended => ~ Refuses(line, posix) /\ given = Meaning(line, posix)
  /\ phase = "refused" => Refuses(line, posix)

(* Where the scan goes on from pure_permute_args.                          *)
GoesOn ==
  /\ Permuting /\ perm.then = "operand" =>
       ~ posix /\ ~ IsOption(line[optind])
  /\ Permuting => perm.then # "none"
  /\ Permuting /\ perm.then = "end" => Options \subseteq 1 .. optind - 1
  /\ posix => nonopt_start = -1

(* The operands passed over are one block.                                 *)
Passed == 1 .. optind - 1
Block ==
  IF nonopt_start = -1 THEN {}
  ELSE nonopt_start .. (IF nonopt_end = -1 THEN optind ELSE nonopt_end) - 1
Sorted(a) ==
  /\ OrderedIn(a, Block, Passed \ Options)
  /\ OrderedIn(a, Passed \ Block, Passed \cap Options)

Sorting ==
  /\ phase \in {"scan", "gcd"} => Sorted(argv)
  /\ phase = "parsed" =>
       /\ OrderedIn(argv, Passed, Options)
       /\ OrderedIn(argv, optind .. Argc, (1 .. Argc) \ Options)

(* pure_gcd finds the number of cycles, and in each the words are moved    *)
(* one after the other.                                                    *)
Dividing ==
  phase = "gcd" => perm.j = 0 /\ Common(perm.a, perm.b, nnonopts, nopts)
Moving ==
  phase = "cycles" =>
    \E old \in [1 .. Argc -> 1 .. Argc],
       cycle \in [Where -> 0 .. perm.b - 1], lap \in [Where -> 0 .. cyclelen - 1] :
      /\ Sorted(old)
      /\ Numbers(cycle, lap, nonopt_start, nnonopts, nopts, perm.b)
      /\ HalfMoved(old, cycle, lap)

ScanInv ==
  /\ ReadSoFar /\ InAWord /\ Finished /\ GoesOn /\ Sorting
  /\ Dividing /\ Moving

(* The invariant says what the two properties say.                         *)
LEMMA ScanInvShows == ScanInv => OptionsTaken /\ Arranged
<1> SUFFICES ASSUME ScanInv
             PROVE  OptionsTaken /\ Arranged
  OBVIOUS
<1>1. OptionsTaken
  BY DEF ScanInv, Finished, Ended, OptionsTaken
<1>2. Arranged
  BY DEF ScanInv, Sorting, Sorted, Arranged, Options, Passed, Block, OrderedIn, InOrder
<1> QED BY <1>1, <1>2

(* It holds before the first word.                                         *)
LEMMA ScanInitInv ==
  ASSUME line \in Seq(Seq(STRING)), posix \in BOOLEAN, LineInit
  PROVE  ScanInv
<1>1. Argc \in Nat /\ optind = 1 /\ place = <<>> /\ phase = "scan"
      /\ nonopt_start = -1 /\ nonopt_end = -1
      /\ given = [letter \in Letters |-> NotGiven]
  BY LenProperties DEF Argc, LineInit
<1>2. Before(1)
  <2>1. 1 <= LastWord(line, posix)
    BY LastWordIs
  <2>2. 1 \notin Arguments(line)
    BY ArgumentsAre
  <2>3. \A m \in Mentions(line, posix) : ~ (m < 1)
    BY OptionWordsAre
  <2> QED BY <2>1, <2>2, <2>3 DEF Before, Acceptable
<1>3. given = [letter \in Letters |->
                 IF letter \in ReadOf THEN <<>> ELSE SoFar(optind)[letter]]
  <2>1. \A m \in Mentions(line, posix) : ~ (m < 1)
    BY OptionWordsAre
  <2>2. \A letter \in Letters : MentionsOf(letter, 1) = {}
    BY <2>1 DEF MentionsOf
  <2>3. \A letter \in Letters : SoFar(1)[letter] = NotGiven
    BY <2>2 DEF SoFar, Latest
  <2>4. ReadOf = {}
    BY <1>1 DEF ReadOf
  <2> QED BY <1>1, <2>3, <2>4
<1>4. Sorted(argv)
  <2>1. Passed = {} /\ Block = {}
    BY <1>1 DEF Passed, Block
  <2> QED BY <2>1 DEF Sorted, OrderedIn
<1>5. ReadSoFar /\ InAWord /\ Finished /\ GoesOn
  BY <1>1, <1>2, <1>3 DEF ReadSoFar, InAWord, Finished, GoesOn, InScan, Ended, Permuting
<1>6. Sorting /\ Dividing /\ Moving
  BY <1>1, <1>4 DEF Sorting, Dividing, Moving
<1> QED BY <1>5, <1>6 DEF ScanInv

(* The program ends.                                                       *)
LEMMA RefusedAt ==
  ASSUME ScanInv, phase = "scan", Refuse, Refuses(line, posix)
  PROVE  ScanInv'
<1>1. phase' = "refused" /\ line' = line /\ posix' = posix
      /\ nonopt_start' = nonopt_start
  BY DEF Refuse
<1> QED BY <1>1 DEF ScanInv, ReadSoFar, InAWord, Finished, GoesOn, Sorting, Dividing,
             Moving, InScan, Ended, Permuting

(* The program ends because of the word that is read.                      *)
LEMMA RefusedWord ==
  ASSUME ScanInv, phase = "scan", Refuse,
         optind \in Mentions(line, posix), Unacceptable(line, optind)
  PROVE  ScanInv'
<1>1. Refuses(line, posix)
  BY DEF Refuses
<1> QED BY <1>1, RefusedAt

(* The program ends without memory for a string.                           *)
LEMMA NoMemory ==
  ASSUME ScanInv, phase' = "no memory",
         UNCHANGED <<line, posix, argv, nonopt_start, nonopt_end, perm>>
  PROVE  ScanInv'
BY DEF ScanInv, ReadSoFar, InAWord, Finished, GoesOn, Sorting, Dividing, Moving,
       InScan, Ended, Permuting

(* What is known between and in the words.                                 *)
LEMMA ScanFacts ==
  ASSUME LineInv, ScanInv, phase = "scan"
  PROVE  /\ line \in Seq(Seq(STRING)) /\ posix \in BOOLEAN /\ Argc \in Nat
         /\ Argc = Len(line)
         /\ optind \in 1 .. Argc + 1 /\ Before(optind)
         /\ \A n \in 1 .. Argc : line[n] \in Seq(STRING)
         /\ \A n \in optind .. Argc : argv[n] = n /\ Word(n) = line[n]
         /\ Sorted(argv)
         /\ given = [letter \in Letters |->
                       IF letter \in ReadOf THEN <<>> ELSE SoFar(optind)[letter]]
         /\ place = <<>> => given = SoFar(optind)
<1>1. \A n \in optind .. Argc : argv[n] = n /\ Word(n) = line[n]
  BY DEF LineInv, Ahead, Word
<1>2. \A n \in 1 .. Argc : line[n] \in Seq(STRING)
  BY LineFacts DEF Argc
<1>3. /\ Before(optind) /\ Sorted(argv)
      /\ given = [letter \in Letters |->
                    IF letter \in ReadOf THEN <<>> ELSE SoFar(optind)[letter]]
  BY DEF ScanInv, ReadSoFar, InScan, Sorting
<1>4. place = <<>> => given = SoFar(optind)
  <2> SUFFICES ASSUME place = <<>>
               PROVE  given = SoFar(optind)
    OBVIOUS
  <2>1. ReadOf = {}
    BY DEF ReadOf
  <2>2. \A letter \in Letters : given[letter] = SoFar(optind)[letter]
    BY <1>3, <2>1
  <2> QED BY <1>3, <2>2 DEF SoFar
<1> QED BY <1>1, <1>2, <1>3, <1>4, LineFacts DEF LineInv, LineTypeOK, Argc

-----------------------------------------------------------------------------
(* Going on by a word.                                                     *)

SortedTo(a, block, options, n) ==
  /\ OrderedIn(a, block, (1 .. n) \ options)
  /\ OrderedIn(a, (1 .. n) \ block, (1 .. n) \cap options)

(* An option behind the block leaves the block as it is.                   *)
LEMMA SortedOption ==
  ASSUME NEW a, NEW n \in Nat, NEW block \in SUBSET (1 .. n), NEW options,
         SortedTo(a, block, options, n), n + 1 \in options, a[n + 1] = n + 1
  PROVE  SortedTo(a, block, options, n + 1)
<1>1. /\ (1 .. n + 1) \ options = (1 .. n) \ options
      /\ (1 .. n + 1) \ block = ((1 .. n) \ block) \cup {n + 1}
      /\ (1 .. n + 1) \cap options = ((1 .. n) \cap options) \cup {n + 1}
  OBVIOUS
<1>2. OrderedIn(a, ((1 .. n) \ block) \cup {n + 1}, ((1 .. n) \cap options) \cup {n + 1})
  <2> DEFINE where == (1 .. n) \ block
             what == (1 .. n) \cap options
  <2>1. /\ where \in SUBSET Int /\ what \in SUBSET Int /\ n + 1 \in Int
        /\ \A k \in where : k < n + 1
        /\ \A w \in what : w < n + 1
        /\ OrderedIn(a, where, what)
    BY DEF SortedTo
  <2> HIDE DEF where, what
  <2>2. OrderedIn(a, where \cup {n + 1}, what \cup {n + 1})
    BY <2>1, OrderedGrows
  <2> QED BY <2>2 DEF where, what
<1> QED BY <1>1, <1>2 DEF SortedTo

(* An operand behind the block becomes its last.                           *)
LEMMA SortedOperand ==
  ASSUME NEW a, NEW n \in Nat, NEW block \in SUBSET (1 .. n), NEW options,
         SortedTo(a, block, options, n), n + 1 \notin options, a[n + 1] = n + 1
  PROVE  SortedTo(a, block \cup {n + 1}, options, n + 1)
<1>1. /\ (1 .. n + 1) \ options = ((1 .. n) \ options) \cup {n + 1}
      /\ (1 .. n + 1) \ (block \cup {n + 1}) = (1 .. n) \ block
      /\ (1 .. n + 1) \cap options = (1 .. n) \cap options
  OBVIOUS
<1>2. OrderedIn(a, block \cup {n + 1}, ((1 .. n) \ options) \cup {n + 1})
  <2> DEFINE what == (1 .. n) \ options
  <2>1. /\ block \in SUBSET Int /\ what \in SUBSET Int /\ n + 1 \in Int
        /\ \A k \in block : k < n + 1
        /\ \A w \in what : w < n + 1
        /\ OrderedIn(a, block, what)
    BY DEF SortedTo
  <2> HIDE DEF what
  <2>2. OrderedIn(a, block \cup {n + 1}, what \cup {n + 1})
    BY <2>1, OrderedGrows
  <2> QED BY <2>2 DEF what
<1> QED BY <1>1, <1>2 DEF SortedTo

(* The word that is read.                                                  *)
LEMMA WordFacts ==
  ASSUME LineInv, ScanInv, phase = "scan", place # <<>>
  PROVE  /\ optind \in 1 .. Argc /\ line[optind] \in Seq(STRING)
         /\ IsOption(line[optind]) /\ line[optind] # EndOfOptions
         /\ Before(optind) /\ optind \in Mentions(line, posix)
         /\ Reached \in 2 .. Len(line[optind]) /\ Reached <= LastOf(line[optind])
         /\ LastOf(line[optind]) \in 2 .. Len(line[optind]) + 1
         /\ Head(place) = line[optind][Reached]
         /\ Tail(place) = SubSeq(line[optind], Reached + 1, Len(line[optind]))
         /\ Tail(place) = <<>> <=> Reached = Len(line[optind])
         /\ Len(Tail(place)) = Len(place) - 1 /\ Len(place) \in Nat
         /\ ReadOf = {line[optind][n] : n \in 2 .. Reached - 1}
         /\ ReadOf \subseteq Letters \ {"h"}
         /\ nonopt_start # -1 => nonopt_end # -1
<1> DEFINE word == line[optind]
<1>1. optind \in 1 .. Argc
  BY ScanFacts DEF LineInv, Reading
<1>2. word \in Seq(STRING) /\ Len(word) \in Nat
  BY <1>1, ScanFacts
<1>3. /\ IsOption(word) /\ word # EndOfOptions
      /\ Reached \in 2 .. Len(word) /\ Reached <= LastOf(word)
      /\ place = SubSeq(word, Reached, Len(word))
      /\ ReadOf \subseteq Letters \ {"h"}
      /\ nonopt_start # -1 => nonopt_end # -1
  BY DEF ScanInv, InAWord
<1>4. Before(optind) /\ optind \in Mentions(line, posix)
  <2>1. /\ Before(optind) /\ line \in Seq(Seq(STRING)) /\ posix \in BOOLEAN
        /\ optind \in 1 .. Len(line)
    BY <1>1, ScanFacts
  <2> QED BY <1>3, <2>1, PastOption DEF Before
<1>5. LastOf(word) \in 2 .. Len(word) + 1
  <2>1. word # <<>>
    BY <1>2, <1>3, EmptySeq
  <2> QED BY <1>2, <2>1, LastOfIs
<1>6. /\ Head(place) = word[Reached]
      /\ Tail(place) = SubSeq(word, Reached + 1, Len(word))
      /\ Tail(place) = <<>> <=> Reached = Len(word)
      /\ Len(Tail(place)) = Len(place) - 1 /\ Len(place) \in Nat
  <2> HIDE DEF word
  <2>1. place \in Seq(STRING)
    BY DEF LineInv, LineTypeOK
  <2>2. Len(place) = Len(word) - Reached + 1 /\ \A n \in 1 .. Len(place) :
          place[n] = word[Reached + n - 1]
    BY <1>2, <1>3, SubSeqProperties
  <2>3. Head(place) = word[Reached]
    BY <1>2, <1>3, <2>1, <2>2
  <2>4. /\ Tail(place) \in Seq(STRING) /\ Len(Tail(place)) = Len(place) - 1
        /\ \A n \in 1 .. Len(place) - 1 : Tail(place)[n] = place[n + 1]
        /\ Len(place) \in Nat
    BY <2>1, HeadTailProperties, LenProperties
  <2>5. Tail(place) = <<>> <=> Reached = Len(word)
    <3>1. Tail(place) = <<>> <=> Len(Tail(place)) = 0
      BY <2>4, EmptySeq
    <3>2. Len(Tail(place)) = Len(word) - Reached
      BY <1>2, <1>3, <2>2, <2>4
    <3>3. Len(word) - Reached = 0 <=> Reached = Len(word)
      BY <1>2, <1>3
    <3> QED BY <3>1, <3>2, <3>3
  <2>6. Tail(place) = SubSeq(word, Reached + 1, Len(word))
    <3> DEFINE rest == SubSeq(word, Reached + 1, Len(word))
    <3>1. /\ rest \in Seq(STRING) /\ Len(rest) = Len(word) - Reached
          /\ \A n \in 1 .. Len(rest) : rest[n] = word[Reached + n]
      BY <1>2, <1>3, SubSeqProperties
    <3>2. Len(Tail(place)) = Len(rest)
      BY <1>2, <1>3, <2>2, <2>4, <3>1
    <3>3. \A n \in 1 .. Len(rest) : Tail(place)[n] = rest[n]
      BY <1>2, <1>3, <2>2, <2>4, <3>1
    <3> HIDE DEF rest
    <3>4. Tail(place) = rest
      BY <2>4, <3>1, <3>2, <3>3, SeqEqual
    <3> QED BY <3>4 DEF rest
  <2> QED BY <2>3, <2>4, <2>5, <2>6
<1>7. ReadOf = {word[n] : n \in 2 .. Reached - 1}
  BY DEF ReadOf
<1> QED BY <1>1, <1>2, <1>3, <1>4, <1>5, <1>6, <1>7

(* The line stays as it was typed.                                         *)
LEMMA LineStays ==
  ASSUME line' = line, posix' = posix
  PROVE  /\ \A n : SoFar(n)' = SoFar(n)
         /\ \A n : Before(n)' <=> Before(n)
         /\ Options' = Options /\ Argc' = Argc
<1>1. \A letter, n : MentionsOf(letter, n)' = MentionsOf(letter, n)
  BY DEF MentionsOf
<1>2. \A letter, with : Latest(letter, with)' = Latest(letter, with)
  BY DEF Latest, ValueAt
<1>3. \A n : SoFar(n)' = SoFar(n)
  BY <1>1, <1>2 DEF SoFar, MentionsOf, Latest, ValueAt
<1>4. \A n : Before(n)' <=> Before(n)
  BY DEF Before, Acceptable
<1> QED BY <1>3, <1>4 DEF Options, Argc

(* The block is before the word that is read.                              *)
LEMMA BlockFacts ==
  ASSUME LineInv
  PROVE  Block \in SUBSET (1 .. optind - 1)
<1>1. optind \in Int /\ nonopt_start \in {-1} \cup 1 .. Argc
      /\ nonopt_end \in {-1} \cup 1 .. Argc /\ Argc \in Nat
  <2>1. optind \in 1 .. Argc + 1 /\ Argc \in Nat
    BY LineFacts
  <2>2. nonopt_start \in {-1} \cup 1 .. Argc /\ nonopt_end \in {-1} \cup 1 .. Argc
    BY DEF LineInv, LineTypeOK
  <2> QED BY <2>1, <2>2
<1>2. /\ nonopt_start # -1 => nonopt_start < optind
      /\ nonopt_end # -1 => nonopt_end <= optind
  BY DEF LineInv, Blocks
<1> QED BY <1>1, <1>2 DEF Block

(* A word is done with: the scan goes on after it, or after its argument.  *)
LEMMA WordDone ==
  ASSUME LineInv, ScanInv, phase = "scan", place # <<>>, NEW next,
         ~ Unacceptable(line, optind),
         WantsNext(line[optind]) => optind < Argc,
         next = (IF WantsNext(line[optind]) THEN optind + 2 ELSE optind + 1),
         optind' = next, place' = <<>>,
         UNCHANGED <<line, posix, phase, argv, nonopt_start, nonopt_end, perm>>,
         given' = [letter \in Letters |->
                     IF letter \in Switches(line[optind]) \cup Final(line[optind])
                     THEN ValueAt(letter, optind) ELSE SoFar(optind)[letter]]
  PROVE  ScanInv'
<1> DEFINE n == optind
<1>1. /\ line \in Seq(Seq(STRING)) /\ posix \in BOOLEAN /\ Argc \in Nat /\ Argc = Len(line)
      /\ Sorted(argv) /\ \A k \in n .. Argc : argv[k] = k
  BY ScanFacts
<1>2. /\ n \in 1 .. Argc /\ Before(n) /\ n \in Mentions(line, posix)
      /\ IsOption(line[n]) /\ line[n] # EndOfOptions
      /\ nonopt_start # -1 => nonopt_end # -1
  BY WordFacts
<1>3. /\ n \in Options
      /\ ~ WantsNext(line[n]) =>
           n + 1 \notin Arguments(line) /\ n + 1 <= LastWord(line, posix)
      /\ WantsNext(line[n]) =>
           /\ n + 1 \in Options /\ n + 1 \notin Mentions(line, posix)
           /\ n + 2 \notin Arguments(line) /\ n + 2 <= LastWord(line, posix)
  BY <1>1, <1>2, PastOption DEF Before, Options
<1>4. next \in Int /\ n < next /\ next \notin Arguments(line) /\ next <= LastWord(line, posix)
  BY <1>2, <1>3
<1>5. \A m \in Mentions(line, posix) : m \in Int
  BY <1>1, OptionWordsAre
<1>6. \A m \in Mentions(line, posix) : m < next => m <= n
  BY <1>2, <1>3, <1>5
<1>7. Acceptable(next)
  <2> SUFFICES ASSUME NEW m \in Mentions(line, posix), m < next
               PROVE  ~ Unacceptable(line, m)
    BY DEF Acceptable
  <2>1. m = n \/ m < n
    BY <1>2, <1>5, <1>6
  <2> QED BY <1>2, <2>1 DEF Before, Acceptable
<1>8. given' = SoFar(next)
  <2>1. \A letter \in Letters : SoFar(next)[letter] = given'[letter]
    BY <1>1, <1>2, <1>4, <1>6, SoFarPast
  <2>2. given' = [letter \in Letters |-> given'[letter]]
    OBVIOUS
  <2>3. SoFar(next) = [letter \in Letters |-> SoFar(next)[letter]]
    BY DEF SoFar
  <2> QED BY <2>1, <2>2, <2>3
<1>9. /\ \A k : SoFar(k)' = SoFar(k)
      /\ \A k : Before(k)' <=> Before(k)
      /\ Options' = Options /\ Argc' = Argc
  BY LineStays
<1>10. ReadSoFar'
  <2>1. Before(next)
    BY <1>4, <1>7 DEF Before
  <2>2. ReadOf' = {}
    BY DEF ReadOf
  <2>3. SoFar(next) = [letter \in Letters |->
                         IF letter \in ReadOf' THEN <<>> ELSE SoFar(next)[letter]]
    BY <2>2 DEF SoFar
  <2>4. Before(optind)' /\ SoFar(optind)' = SoFar(next)
    BY <1>9, <2>1
  <2> HIDE DEF n
  <2> QED BY <1>8, <2>3, <2>4 DEF ReadSoFar
<1>11. Sorted(argv)'
  <2>1. Block' = Block /\ Block \in SUBSET (1 .. n - 1)
    BY <1>2, BlockFacts DEF Block
  <2>2. SortedTo(argv, Block, Options, n - 1)
    BY <1>1 DEF Sorted, SortedTo, Passed
  <2>3. n - 1 \in Nat /\ n - 1 + 1 = n /\ argv[n] = n
    BY <1>1, <1>2
  <2>4. SortedTo(argv, Block, Options, n)
    BY <1>3, <2>1, <2>2, <2>3, SortedOption
  <2>5. SortedTo(argv, Block, Options, next - 1)
    <3>1. CASE WantsNext(line[n])
      <4>1. n \in Nat /\ Block \in SUBSET (1 .. n) /\ argv[n + 1] = n + 1 /\ next - 1 = n + 1
        BY <1>1, <1>2, <2>1, <3>1
      <4> HIDE DEF n
      <4> QED BY <1>3, <2>4, <3>1, <4>1, SortedOption
    <3>2. CASE ~ WantsNext(line[n])
      <4>1. next - 1 = n
        BY <1>2, <3>2
      <4> HIDE DEF n
      <4> QED BY <2>4, <4>1
    <3> QED BY <3>1, <3>2
  <2> QED BY <1>9, <2>1, <2>5 DEF Sorted, SortedTo, Passed
<1>12. InAWord' /\ Finished' /\ GoesOn'
  BY DEF ScanInv, InAWord, Finished, GoesOn, Ended, Permuting
<1>13. Sorting' /\ Dividing' /\ Moving'
  BY <1>11 DEF Sorting, Dividing, Moving
<1> QED BY <1>10, <1>12, <1>13 DEF ScanInv

(* An option without an argument is accepted for its letter.               *)
LEMMA AcceptsSwitch ==
  ASSUME NEW letter \in Letters \ TakeArgument, NEW value
  PROVE  Accepts(letter, value) <=> letter # "h"
BY DEF Accepts, Least, TakeArgument, Letters

(* A switch ends no cluster.                                               *)
LEMMA SwitchesAreNoStops ==
  ASSUME NEW word \in Seq(STRING), word # <<>>
  PROVE  \A letter \in Switches(word) : letter \notin Stops
BY LastOfIs DEF Switches

(* The last option of a word, if that is no switch.                        *)
LEMMA LastTaken ==
  ASSUME LineInv, ScanInv, phase = "scan", place # <<>>,
         Reached = LastOf(line[optind]),
         NEW letter \in Letters, Final(line[optind]) = {letter},
         NEW value, NEW next,
         letter \in TakeArgument => value = ValueFor(line, optind),
         letter \notin TakeArgument => ~ Attached(line[optind]) /\ value = <<>>,
         WantsNext(line[optind]) => optind < Argc,
         next = (IF WantsNext(line[optind]) THEN optind + 2 ELSE optind + 1),
         Take(letter, value, next, <<>>)
  PROVE  ScanInv'
<1> DEFINE word == line[optind]
<1>1. /\ optind \in Mentions(line, posix) /\ optind \in 1 .. Argc /\ Argc = Len(line)
      /\ word \in Seq(STRING) /\ word # <<>>
      /\ LastOf(word) <= Len(word) /\ Switches(word) = ReadOf
      /\ ReadOf \subseteq Letters \ {"h"}
      /\ given = [l \in Letters |->
                    IF l \in ReadOf THEN <<>> ELSE SoFar(optind)[l]]
  <2>1. word # <<>>
    BY WordFacts, EmptySeq DEF IsOption
  <2> QED BY <2>1, WordFacts, ScanFacts DEF Switches
<1>2. \A l \in Switches(word) : l \notin TakeArgument
  BY <1>1, SwitchesAreNoStops DEF Stops
<1>3. \A l \in Letters : Final(word) = {l} <=> l = letter
  OBVIOUS
<1>4. Accepts(letter, value) <=> Accepts(letter, ValueFor(line, optind))
  BY AcceptsSwitch
<1>5. CASE ~ Accepts(letter, value)
  <2>1. Unacceptable(line, optind)
    BY <1>1, <1>3, <1>4, <1>5 DEF Unacceptable
  <2>2. Refuse
    BY <1>5 DEF Take
  <2> QED BY <1>1, <2>1, <2>2, RefusedWord
<1>6. CASE Accepts(letter, value)
  <2>1. ~ Unacceptable(line, optind)
    <3>1. \A l \in Switches(word) : l \in Letters /\ l # "h"
      BY <1>1
    <3>2. WantsNext(word) => optind # Len(line)
      BY <1>1
    <3>3. ~ \A l \in Letters :
              \/ Final(word) # {l}
              \/ l \notin TakeArgument /\ Attached(word)
              \/ WantsNext(word) /\ optind = Len(line)
              \/ ~ Accepts(l, ValueFor(line, optind))
      BY <1>3, <1>4, <1>6, <3>2
    <3> QED BY <3>1, <3>3 DEF Unacceptable
  <2>2. /\ optind' = next /\ place' = <<>>
        /\ UNCHANGED <<line, posix, argv, nonopt_start, nonopt_end, perm>>
    BY <1>6 DEF Take
  <2>3. CASE phase' = "no memory"
    BY <2>2, <2>3, NoMemory
  <2>4. CASE given' = [given EXCEPT ![letter] = value] /\ phase' = phase
    <3>1. given' = [l \in Letters |->
                      IF l \in Switches(word) \cup Final(word)
                      THEN ValueAt(l, optind) ELSE SoFar(optind)[l]]
      <4>1. ValueAt(letter, optind) = value
        BY DEF ValueAt
      <4>2. \A l \in Switches(word) : ValueAt(l, optind) = <<>>
        BY <1>2 DEF ValueAt
      <4>3. given' = [l \in Letters |-> IF l = letter THEN value
                        ELSE IF l \in ReadOf THEN <<>> ELSE SoFar(optind)[l]]
        BY <1>1, <2>4
      <4>4. \A l \in Letters :
              (IF l = letter THEN value
               ELSE IF l \in ReadOf THEN <<>> ELSE SoFar(optind)[l]) =
              (IF l \in Switches(word) \cup Final(word)
               THEN ValueAt(l, optind) ELSE SoFar(optind)[l])
        BY <1>1, <4>1, <4>2
      <4> HIDE DEF word
      <4> QED BY <4>3, <4>4
    <3> QED BY <2>1, <2>2, <2>4, <3>1, WordDone
  <2> QED BY <1>6, <2>3, <2>4 DEF Take
<1> QED BY <1>5, <1>6

(* A switch, which may be the last.                                        *)
LEMMA SwitchTaken ==
  ASSUME LineInv, ScanInv, phase = "scan", place # <<>>,
         Head(place) \in Letters, Head(place) \notin Stops,
         Take(Head(place), <<>>, IF Tail(place) = <<>> THEN optind + 1 ELSE optind,
              Tail(place))
  PROVE  ScanInv'
<1> DEFINE word == line[optind]
           letter == Head(place)
           next == IF Tail(place) = <<>> THEN optind + 1 ELSE optind
<1>1. /\ optind \in Mentions(line, posix) /\ optind \in 1 .. Argc /\ Argc = Len(line)
      /\ word \in Seq(STRING) /\ word # <<>> /\ Len(word) \in Nat
      /\ ReadOf \subseteq Letters \ {"h"}
      /\ ReadOf = {word[n] : n \in 2 .. Reached - 1}
      /\ Reached \in 2 .. Len(word) /\ Reached <= LastOf(word)
      /\ LastOf(word) \in 2 .. Len(word) + 1
      /\ letter = word[Reached] /\ (Tail(place) = <<>> <=> Reached = Len(word))
      /\ given = [l \in Letters |->
                    IF l \in ReadOf THEN <<>> ELSE SoFar(optind)[l]]
  <2>1. /\ optind \in Mentions(line, posix) /\ optind \in 1 .. Argc
        /\ word \in Seq(STRING) /\ IsOption(word)
        /\ ReadOf \subseteq Letters \ {"h"}
        /\ ReadOf = {word[n] : n \in 2 .. Reached - 1}
        /\ Reached \in 2 .. Len(word) /\ Reached <= LastOf(word)
        /\ LastOf(word) \in 2 .. Len(word) + 1
        /\ letter = word[Reached] /\ (Tail(place) = <<>> <=> Reached = Len(word))
    BY WordFacts
  <2>2. /\ Argc = Len(line)
        /\ given = [l \in Letters |->
                      IF l \in ReadOf THEN <<>> ELSE SoFar(optind)[l]]
    BY ScanFacts
  <2>3. word # <<>> /\ Len(word) \in Nat
    <3> HIDE DEF word
    <3> QED BY <2>1, EmptySeq, LenProperties DEF IsOption
  <2> HIDE DEF word, letter
  <2> QED BY <2>1, <2>2, <2>3
<1>2. Reached < LastOf(word) /\ letter \in Switches(word)
  BY <1>1, AtStop
<1>3. letter \in Letters \ TakeArgument
  BY DEF Stops
<1>4. CASE ~ Accepts(letter, <<>>)
  <2>1. Unacceptable(line, optind)
    BY <1>2, <1>3, <1>4, AcceptsSwitch DEF Unacceptable
  <2>2. Refuse
    BY <1>4 DEF Take
  <2> QED BY <1>1, <2>1, <2>2, RefusedWord
<1>5. CASE Accepts(letter, <<>>)
  <2>1. /\ optind' = next /\ place' = Tail(place)
        /\ UNCHANGED <<line, posix, argv, nonopt_start, nonopt_end, perm>>
    BY <1>5 DEF Take
  <2>2. CASE phase' = "no memory"
    BY <2>1, <2>2, NoMemory
  <2>3. CASE given' = [given EXCEPT ![letter] = <<>>] /\ phase' = phase
    <3>1. given' = [l \in Letters |->
                      IF l \in ReadOf \cup {letter} THEN <<>> ELSE SoFar(optind)[l]]
      BY <1>1, <2>3
    <3>2. letter # "h"
      BY <1>3, <1>5, AcceptsSwitch
    <3>3. ReadOf \cup {letter} = {word[n] : n \in 2 .. Reached}
      <4> HIDE DEF word, letter
      <4>1. 2 .. Reached = (2 .. Reached - 1) \cup {Reached}
        BY <1>1
      <4> QED BY <1>1, <4>1
    <3>4. CASE Tail(place) = <<>>
      <4>1. LastOf(word) = Len(word) + 1 /\ Reached = Len(word)
        BY <1>1, <1>2, <3>4
      <4>2. Switches(word) = ReadOf \cup {letter} /\ Final(word) = {}
        BY <1>1, <3>3, <4>1 DEF Switches, Final
      <4>3. ~ WantsNext(word)
        BY <4>2 DEF WantsNext
      <4>4. ~ Unacceptable(line, optind)
        BY <1>1, <1>3, <3>2, <4>1, <4>2 DEF Unacceptable
      <4>5. given' = [l \in Letters |->
                        IF l \in Switches(word) \cup Final(word)
                        THEN ValueAt(l, optind) ELSE SoFar(optind)[l]]
        <5>1. \A l \in Switches(word) : ValueAt(l, optind) = <<>>
          BY <1>1, SwitchesAreNoStops DEF ValueAt, Stops
        <5>2. Switches(word) \cup Final(word) = ReadOf \cup {letter}
          BY <4>2
        <5> HIDE DEF word, letter
        <5> QED BY <3>1, <4>2, <5>1, <5>2
      <4>6. next = IF WantsNext(word) THEN optind + 2 ELSE optind + 1
        BY <3>4, <4>3
      <4> HIDE DEF next
      <4> QED BY <2>1, <2>3, <3>4, <4>3, <4>4, <4>5, <4>6, WordDone
    <3>5. CASE Tail(place) # <<>>
      <4>1. optind' = optind
        BY <2>1, <3>5
      <4>2. Reached' = Reached + 1
        <5>1. Len(place') = Len(place) - 1 /\ Len(place) \in Nat
          BY <2>1, WordFacts
        <5> QED BY <1>1, <2>1, <4>1, <5>1 DEF Reached
      <4>3. ReadOf' = ReadOf \cup {letter}
        <5>1. Reached' - 1 = Reached
          BY <1>1, <4>2
        <5>2. ReadOf' = {word[n] : n \in 2 .. Reached' - 1}
          BY <2>1, <3>5, <4>1 DEF ReadOf
        <5> HIDE DEF word, letter
        <5> QED BY <3>3, <5>1, <5>2
      <4>4. /\ \A k : SoFar(k)' = SoFar(k)
            /\ \A k : Before(k)' <=> Before(k)
            /\ Options' = Options
        BY <2>1, LineStays
      <4>5. ReadSoFar'
        <5>1. Before(optind)
          BY ScanFacts
        <5>2. Before(optind)' /\ SoFar(optind)' = SoFar(optind)
          BY <4>1, <4>4, <5>1
        <5> HIDE DEF letter
        <5> QED BY <3>1, <4>3, <5>2 DEF ReadSoFar
      <4>6. InAWord'
        <5>1. /\ IsOption(word) /\ word # EndOfOptions
              /\ Tail(place) = SubSeq(word, Reached + 1, Len(word))
              /\ nonopt_start # -1 => nonopt_end # -1
          BY WordFacts
        <5>2. Reached + 1 \in 2 .. Len(word) /\ Reached + 1 <= LastOf(word)
          BY <1>1, <1>2, <3>5
        <5>3. ReadOf' \subseteq Letters \ {"h"}
          BY <1>1, <1>3, <3>2, <4>3
        <5>4. line'[optind'] = word
          BY <2>1, <4>1
        <5> HIDE DEF word
        <5> QED BY <2>1, <4>2, <5>1, <5>2, <5>3, <5>4 DEF InAWord
      <4>7. Sorting'
        <5>1. Sorted(argv)
          BY ScanFacts
        <5>2. Sorted(argv)'
          BY <2>1, <4>1, <4>4, <5>1 DEF Sorted, Passed, Block
        <5> QED BY <2>3, <5>2 DEF Sorting
      <4>8. Finished' /\ GoesOn' /\ Dividing' /\ Moving'
        BY <2>1, <2>3 DEF ScanInv, Finished, GoesOn, Dividing, Moving, Ended, Permuting
      <4> QED BY <4>5, <4>6, <4>7, <4>8 DEF ScanInv
    <3> QED BY <3>4, <3>5
  <2> QED BY <1>5, <2>2, <2>3 DEF Take
<1> QED BY <1>4, <1>5

-----------------------------------------------------------------------------
(* The steps of the scan.                                                  *)

(* The argument of the last option is the next word.                       *)
LEMMA NextTaken ==
  ASSUME LineInv, ScanInv, phase = "scan", place # <<>>,
         Reached = LastOf(line[optind]),
         NEW letter \in TakeArgument, Final(line[optind]) = {letter},
         ~ Attached(line[optind]), TakeNext(letter)
  PROVE  ScanInv'
<1> DEFINE word == line[optind]
<1>1. WantsNext(word)
  BY DEF WantsNext
<1>2. letter \in Letters
  BY DEF TakeArgument
<1>3. /\ optind \in 1 .. Argc /\ optind \in Mentions(line, posix)
      /\ LastOf(word) <= Len(word)
  BY WordFacts
<1>4. Argc = Len(line) /\ Argc \in Nat
  BY ScanFacts
<1>5. CASE optind + 1 > Argc
  <2>1. optind = Len(line)
    BY <1>3, <1>4, <1>5
  <2>2. Unacceptable(line, optind)
    BY <1>1, <1>3, <2>1 DEF Unacceptable
  <2>3. Refuse
    BY <1>5 DEF TakeNext
  <2> QED BY <1>3, <2>2, <2>3, RefusedWord
<1>6. CASE ~ (optind + 1 > Argc)
  <2>1. optind < Argc /\ optind + 1 \in optind .. Argc
    BY <1>3, <1>4, <1>6
  <2>2. Word(optind + 1) = line[optind + 1]
    BY <2>1, ScanFacts
  <2>3. ValueFor(line, optind) = line[optind + 1]
    BY <1>1 DEF ValueFor
  <2>4. Take(letter, line[optind + 1], optind + 2, <<>>)
    BY <1>6, <2>2 DEF TakeNext
  <2> QED BY <1>1, <1>2, <2>1, <2>3, <2>4, LastTaken
<1> QED BY <1>5, <1>6

(* One letter of a cluster.                                                *)
LEMMA ShortOptionScan ==
  ASSUME LineInv, ScanInv, ShortOption
  PROVE  ScanInv'
<1> DEFINE word == line[optind]
           letter == Head(place)
<1>1. /\ phase = "scan" /\ place # <<>> /\ letter # "-"
      /\ letter \notin Letters => Refuse
      /\ letter \in Letters /\ letter \notin TakeArgument =>
           Take(letter, <<>>, IF Tail(place) = <<>> THEN optind + 1 ELSE optind, Tail(place))
      /\ letter \in Letters /\ letter \in TakeArgument /\ Tail(place) # <<>> =>
           Take(letter, Tail(place), optind + 1, <<>>)
      /\ letter \in Letters /\ letter \in TakeArgument /\ Tail(place) = <<>> =>
           TakeNext(letter)
  BY DEF ShortOption
<1>2. /\ optind \in Mentions(line, posix) /\ word \in Seq(STRING)
      /\ Reached \in 2 .. Len(word) /\ Reached <= LastOf(word)
      /\ letter = word[Reached]
      /\ Tail(place) = SubSeq(word, Reached + 1, Len(word))
  BY <1>1, WordFacts
<1>3. TakeArgument \subseteq Letters
  BY DEF TakeArgument
<1>4. CASE letter \notin Letters
  <2>1. letter \in Switches(word)
    BY <1>1, <1>2, <1>3, <1>4, AtStop DEF Stops
  <2>2. Unacceptable(line, optind)
    BY <1>4, <2>1 DEF Unacceptable
  <2> QED BY <1>1, <1>2, <1>4, <2>2, RefusedWord
<1>5. CASE letter \in Letters /\ letter \notin TakeArgument
  BY <1>1, <1>5, SwitchTaken DEF Stops
<1>6. CASE letter \in TakeArgument
  <2>1. Reached = LastOf(word)
    BY <1>2, <1>6, AtStop DEF Stops
  <2>2. /\ Final(word) = {letter} /\ ~ EndsLong(word) /\ Remainder(word) = Tail(place)
    <3> HIDE DEF word, letter
    <3>1. LastOf(word) <= Len(word) /\ ~ (LastOf(word) > Len(word))
      BY <1>2, <2>1, LenProperties
    <3>2. ~ EndsLong(word) /\ Remainder(word) = Tail(place)
      BY <1>1, <1>2, <2>1 DEF EndsLong, Remainder
    <3> QED BY <1>2, <2>1, <3>1, <3>2 DEF Final
  <2>3. CASE Tail(place) # <<>>
    <3>1. Attached(word) /\ ~ WantsNext(word) /\ ValueFor(line, optind) = Tail(place)
      BY <2>2, <2>3 DEF Attached, WantsNext, ValueFor, AttachedValue
    <3>2. Take(letter, Tail(place), optind + 1, <<>>)
      BY <1>1, <1>3, <1>6, <2>3
    <3> QED BY <1>1, <1>3, <1>6, <2>1, <2>2, <3>1, <3>2, LastTaken
  <2>4. CASE Tail(place) = <<>>
    <3>1. ~ Attached(word)
      BY <2>2, <2>4 DEF Attached
    <3>2. TakeNext(letter)
      BY <1>1, <1>3, <1>6, <2>4
    <3> QED BY <1>1, <1>6, <2>1, <2>2, <3>1, <3>2, NextTaken
  <2> QED BY <2>3, <2>4
<1> QED BY <1>3, <1>4, <1>5, <1>6

(* A long option: one name, and only one, may begin as it is written.      *)
LEMMA LongOptionScan ==
  ASSUME LineInv, ScanInv, LongOption
  PROVE  ScanInv'
<1> DEFINE word == line[optind]
           text == Tail(place)
           found == Matches(NameOf(text))
<1>1. phase = "scan" /\ place # <<>> /\ Head(place) = "-"
  BY DEF LongOption
<1>2. /\ optind \in Mentions(line, posix) /\ word \in Seq(STRING)
      /\ Reached \in 2 .. Len(word) /\ Reached <= LastOf(word)
      /\ word[Reached] = "-"
      /\ text = SubSeq(word, Reached + 1, Len(word))
  BY <1>1, WordFacts
<1>3. Reached = LastOf(word)
  BY <1>2, AtStop DEF Stops
<1>4. /\ LastOf(word) <= Len(word) /\ EndsLong(word) /\ Remainder(word) = text
      /\ Final(word) = {Long[name] : name \in found}
      /\ Attached(word) <=> HasEqual(text)
      /\ AttachedValue(word) = AfterEqual(text)
  <2> HIDE DEF word, text
  <2>1. LastOf(word) <= Len(word) /\ ~ (LastOf(word) > Len(word))
    BY <1>2, <1>3, LenProperties
  <2>2. EndsLong(word) /\ Remainder(word) = text
    BY <1>2, <1>3, <2>1 DEF EndsLong, Remainder
  <2> QED BY <2>1, <2>2 DEF Final, Attached, AttachedValue
<1>5. found \subseteq Names
  <2>1. text \in Seq(STRING)
    BY <1>1, HeadTailProperties DEF LineInv, LineTypeOK
  <2>2. NameOf(text) \in Seq(STRING)
    <3> HIDE DEF text
    <3>1. HasEqual(text) => 1 \in 1 .. Len(text)
      BY <2>1, LenProperties DEF HasEqual
    <3>2. HasEqual(text) => text[1] \in STRING
      BY <2>1, <3>1, ElementOfSeq
    <3>3. HasEqual(text) => <<text[1]>> \in Seq(STRING)
      BY <3>2
    <3>4. <<>> \in Seq(STRING)
      OBVIOUS
    <3> QED BY <2>1, <3>3, <3>4 DEF NameOf
  <2> QED BY <2>2, LongNames
<1>6. CASE ~ \E name \in found : found = {name}
  <2>1. Refuse
    BY <1>6 DEF LongOption
  <2>2. \A letter \in Letters : Final(word) # {letter}
    <3> SUFFICES ASSUME NEW letter \in Letters, Final(word) = {letter}
                 PROVE  FALSE
      OBVIOUS
    <3> HIDE DEF found, word
    <3>1. PICK name \in found : Long[name] = letter
      BY <1>4
    <3>2. \A other \in found : Long[other] = letter
      BY <1>4
    <3>3. \A other \in found : other = name
      BY <1>5, <3>1, <3>2, LongNames
    <3> QED BY <1>6, <3>1, <3>3
  <2>3. Unacceptable(line, optind)
    BY <1>4, <2>2 DEF Unacceptable
  <2> QED BY <1>1, <1>2, <2>1, <2>3, RefusedWord
<1>7. CASE \E name \in found : found = {name}
  <2>1. PICK name \in found :
          LET letter == Long[name] IN
          IF HasEqual(text)
          THEN IF letter \in TakeArgument
               THEN Take(letter, AfterEqual(text), optind + 1, <<>>) ELSE Refuse
          ELSE IF letter \in TakeArgument THEN TakeNext(letter)
          ELSE Take(letter, <<>>, optind + 1, <<>>)
    BY <1>7 DEF LongOption
  <2> DEFINE letter == Long[name]
  <2>2. letter \in Letters
    BY <1>5, LongNames
  <2>3. Final(word) = {letter}
    <3>1. found = {name}
      BY <1>7
    <3> QED BY <1>4, <3>1
  <2>4. /\ HasEqual(text) /\ letter \in TakeArgument =>
             Take(letter, AfterEqual(text), optind + 1, <<>>)
        /\ HasEqual(text) /\ letter \notin TakeArgument => Refuse
        /\ ~ HasEqual(text) /\ letter \in TakeArgument => TakeNext(letter)
        /\ ~ HasEqual(text) /\ letter \notin TakeArgument =>
             Take(letter, <<>>, optind + 1, <<>>)
    BY <2>1
  <2> HIDE DEF letter, found, text
  <2>5. CASE HasEqual(text) /\ letter \in TakeArgument
    <3>1. Attached(word) /\ ~ WantsNext(word) /\ ValueFor(line, optind) = AfterEqual(text)
      BY <1>4, <2>5 DEF WantsNext, ValueFor
    <3>2. Take(letter, AfterEqual(text), optind + 1, <<>>)
      BY <2>4, <2>5
    <3> QED BY <1>1, <1>3, <2>2, <2>3, <2>5, <3>1, <3>2, LastTaken
  <2>6. CASE HasEqual(text) /\ letter \notin TakeArgument
    <3>1. Unacceptable(line, optind)
      BY <1>4, <2>3, <2>6 DEF Unacceptable
    <3> QED BY <1>1, <1>2, <2>4, <2>6, <3>1, RefusedWord
  <2>7. CASE ~ HasEqual(text) /\ letter \in TakeArgument
    BY <1>1, <1>3, <1>4, <2>3, <2>4, <2>7, NextTaken
  <2>8. CASE ~ HasEqual(text) /\ letter \notin TakeArgument
    <3>1. ~ Attached(word) /\ ~ WantsNext(word)
      BY <1>4, <2>3, <2>8 DEF WantsNext
    <3>2. Take(letter, <<>>, optind + 1, <<>>)
      BY <2>4, <2>8
    <3> QED BY <1>1, <1>3, <2>2, <2>3, <2>8, <3>1, <3>2, LastTaken
  <2> QED BY <2>5, <2>6, <2>7, <2>8
<1> QED BY <1>6, <1>7

(* A word with options is begun; the operands before it end a block.       *)
LEMMA OptionWordScan ==
  ASSUME LineInv, ScanInv, OptionWord
  PROVE  ScanInv'
<1> DEFINE word == line[optind]
<1>1. /\ phase = "scan" /\ place = <<>> /\ optind <= Argc
      /\ IsOption(Word(optind)) /\ Word(optind) # EndOfOptions
      /\ nonopt_end' = BlockEnds /\ place' = Tail(Word(optind))
      /\ UNCHANGED <<line, posix, phase, argv, optind, nonopt_start, perm, given>>
  BY DEF OptionWord, Scanning
<1>2. /\ optind \in 1 .. Argc + 1 /\ Argc \in Nat /\ Argc = Len(line)
      /\ line \in Seq(Seq(STRING)) /\ posix \in BOOLEAN
      /\ Before(optind) /\ Sorted(argv) /\ given = SoFar(optind)
      /\ \A n \in optind .. Argc : Word(n) = line[n]
      /\ \A n \in 1 .. Argc : line[n] \in Seq(STRING)
  BY <1>1, ScanFacts
<1>3. optind \in 1 .. Argc /\ optind \in optind .. Argc
  BY <1>1, <1>2
<1>4. /\ Word(optind) = word /\ word \in Seq(STRING)
      /\ IsOption(word) /\ word # EndOfOptions
  BY <1>1, <1>2, <1>3
<1> HIDE DEF word
<1>5. word # <<>> /\ Len(word) \in Nat /\ Len(word) >= 2
  BY <1>4, EmptySeq, LenProperties DEF IsOption
<1>6. /\ place' = SubSeq(word, 2, Len(word)) /\ Len(place') = Len(word) - 1
      /\ place' # <<>>
  <2>1. place' = Tail(word)
    BY <1>1, <1>4
  <2>2. Tail(word) \in Seq(STRING) /\ Len(Tail(word)) = Len(word) - 1
    BY <1>4, <1>5, HeadTailProperties
  <2>3. Tail(word) = SubSeq(word, 2, Len(word))
    BY <1>4, <1>5, TailIsSubSeq
  <2>4. Len(place') # 0
    BY <1>5, <2>1, <2>2
  <2> QED BY <2>1, <2>2, <2>3, <2>4, EmptySeq
<1>7. Reached' = 2 /\ ReadOf' = {}
  <2>1. line'[optind'] = word
    BY <1>1 DEF word
  <2>2. Reached' = Len(word) - Len(place') + 1
    BY <2>1 DEF Reached
  <2>3. Reached' = 2
    BY <1>5, <1>6, <2>2
  <2> QED BY <2>3 DEF ReadOf
<1>8. /\ \A n : SoFar(n)' = SoFar(n)
      /\ \A n : Before(n)' <=> Before(n)
      /\ Options' = Options
  BY <1>1, LineStays
<1>9. ReadSoFar'
  <2>1. Before(optind)' /\ SoFar(optind)' = SoFar(optind)
    BY <1>1, <1>2, <1>8
  <2>2. given' = [letter \in Letters |->
                    IF letter \in ReadOf' THEN <<>> ELSE SoFar(optind)'[letter]]
    BY <1>1, <1>2, <1>7, <2>1 DEF SoFar
  <2> QED BY <2>1, <2>2 DEF ReadSoFar
<1>10. InAWord'
  <2>1. 2 \in 2 .. Len(word) /\ 2 <= LastOf(word)
    BY <1>4, <1>5, LastOfIs
  <2>2. nonopt_start # -1 => BlockEnds # -1
    BY <1>2 DEF BlockEnds
  <2>3. line'[optind'] = word
    BY <1>1 DEF word
  <2> QED BY <1>1, <1>4, <1>6, <1>7, <2>1, <2>2, <2>3 DEF InAWord
<1>11. Sorting'
  <2>1. Block' = Block
    <3>1. optind # -1
      BY <1>2
    <3> QED BY <1>1, <3>1 DEF Block, BlockEnds
  <2>2. Sorted(argv)'
    BY <1>1, <1>2, <1>8, <2>1 DEF Sorted, Passed
  <2> QED BY <1>1, <2>2 DEF Sorting
<1>12. Finished' /\ GoesOn' /\ Dividing' /\ Moving'
  BY <1>1 DEF ScanInv, Finished, GoesOn, Dividing, Moving, Ended, Permuting
<1> QED BY <1>9, <1>10, <1>11, <1>12 DEF ScanInv

(* A block that reaches up to word n, when all the options are before it.  *)
LEMMA SortedAll ==
  ASSUME NEW a, NEW n \in Nat, NEW len \in Nat, NEW s \in 1 .. n + 1,
         NEW options, options \subseteq 1 .. n,
         SortedTo(a, s .. n, options, n), \A k \in n + 1 .. len : a[k] = k, n <= len
  PROVE  /\ OrderedIn(a, 1 .. s - 1, options)
         /\ OrderedIn(a, s .. len, (1 .. len) \ options)
<1>1. OrderedIn(a, 1 .. s - 1, options)
  <2>1. (1 .. n) \ (s .. n) = 1 .. s - 1
    OBVIOUS
  <2>2. (1 .. n) \cap options = options
    OBVIOUS
  <2> QED BY <2>1, <2>2 DEF SortedTo
<1>2. OrderedIn(a, s .. len, (1 .. len) \ options)
  <2> DEFINE where == s .. n
             what == (1 .. n) \ options
  <2>1. /\ where \in SUBSET Int /\ what \in SUBSET Int
        /\ n + 1 \in Int /\ len \in Int
        /\ \A k \in where : k < n + 1
        /\ \A w \in what : w < n + 1
        /\ OrderedIn(a, where, what)
    BY DEF SortedTo
  <2>2. /\ where \cup (n + 1 .. len) = s .. len
        /\ what \cup (n + 1 .. len) = (1 .. len) \ options
    OBVIOUS
  <2> HIDE DEF where, what
  <2>3. OrderedIn(a, where \cup (n + 1 .. len), what \cup (n + 1 .. len))
    BY <2>1, OrderedTail
  <2> QED BY <2>2, <2>3
<1> QED BY <1>1, <1>2

(* At the word that ends the options, all of them have been read.          *)
LEMMA AllRead ==
  ASSUME LineInv, ScanInv, phase = "scan", place = <<>>, line # <<>>,
         optind = LastWord(line, posix)
  PROVE  /\ ~ Refuses(line, posix) /\ given = Meaning(line, posix)
         /\ Options \subseteq 1 .. optind
<1>1. line \in Seq(Seq(STRING)) /\ posix \in BOOLEAN /\ optind \in Int
      /\ given = SoFar(optind) /\ Acceptable(optind)
  BY ScanFacts DEF Before
<1>2. \A m \in Mentions(line, posix) : m < optind
  BY <1>1, OptionWordsAre
<1>3. \A m \in Options : m \in 1 .. optind
  BY <1>1, OptionWordsAre DEF Options
<1> QED BY <1>1, <1>2, <1>3, SoFarAll

(* The scan is over, and no word has to move.                              *)
LEMMA ParsedScan ==
  ASSUME phase' = "parsed", UNCHANGED <<line, posix, argv, given>>,
         ~ Refuses(line, posix), given = Meaning(line, posix),
         posix => nonopt_start' = -1,
         OrderedIn(argv, 1 .. optind' - 1, Options),
         OrderedIn(argv, optind' .. Argc, (1 .. Argc) \ Options)
  PROVE  ScanInv'
<1>1. Options' = Options /\ Argc' = Argc
  BY LineStays
<1>2. Sorting'
  BY <1>1 DEF Sorting, Passed
<1> QED BY <1>2 DEF ScanInv, ReadSoFar, InAWord, Finished, GoesOn, Dividing, Moving,
             InScan, Ended, Permuting

(* pure_permute_args is called.                                            *)
LEMMA PermuteScan ==
  ASSUME LineInv, ScanInv, phase = "scan", place = <<>>,
         NEW then \in {"operand", "end"}, NEW blockend \in 1 .. Argc,
         NEW end \in 1 .. Argc + 1,
         nonopt_start # -1, nonopt_start < blockend, blockend < end,
         Permute(then, blockend, end), optind' = end,
         UNCHANGED <<line, posix, argv, place, nonopt_start, given>>,
         then = "operand" => end = optind /\ ~ posix /\ ~ IsOption(line[optind]),
         then = "end" => /\ ~ Refuses(line, posix) /\ given = Meaning(line, posix)
                         /\ Options \subseteq 1 .. end - 1,
         SortedTo(argv, nonopt_start .. blockend - 1, Options, end - 1)
  PROVE  ScanInv'
<1>1. /\ phase' = "gcd" /\ nonopt_end' = blockend /\ perm'.then = then
      /\ perm'.opt_end = end /\ perm'.a = blockend - nonopt_start
      /\ perm'.b = end - blockend
  BY DEF Permute
<1>2. /\ \A n : SoFar(n)' = SoFar(n)
      /\ \A n : Before(n)' <=> Before(n)
      /\ Options' = Options
  BY LineStays
<1>3. Argc \in Nat /\ nonopt_start \in Int /\ blockend \in Int /\ end \in Int
      /\ blockend # -1
  BY LineFacts DEF LineInv, LineTypeOK
<1>4. ReadSoFar'
  <2>1. ReadOf' = {}
    BY DEF ReadOf
  <2>2. Before(optind) /\ given = SoFar(optind)
    BY ScanFacts
  <2>3. then = "operand" => Before(optind)' /\ SoFar(optind)' = SoFar(optind)
    BY <1>2, <2>2
  <2>4. SoFar(optind) = [letter \in Letters |-> SoFar(optind)[letter]]
    BY DEF SoFar
  <2>5. InScan' => then = "operand"
    BY <1>1 DEF InScan, Permuting
  <2> QED BY <2>1, <2>2, <2>3, <2>4, <2>5 DEF ReadSoFar
<1>5. InAWord' /\ Moving'
  BY <1>1 DEF InAWord, Moving
<1>6. Finished'
  BY <1>1 DEF Finished, Ended, Permuting
<1>7. GoesOn'
  BY <1>1, <1>2 DEF ScanInv, GoesOn, Permuting
<1>8. Sorting'
  <2>1. Block' = nonopt_start .. blockend - 1 /\ Passed' = 1 .. end - 1
    BY <1>1, <1>3 DEF Block, Passed
  <2>2. Sorted(argv)'
    BY <1>2, <2>1 DEF Sorted, SortedTo
  <2> QED BY <1>1, <2>2 DEF Sorting
<1>9. Dividing'
  <2>1. nnonopts' = perm'.a /\ nopts' = perm'.b /\ perm'.a \in Nat /\ perm'.b \in Nat
    BY <1>1, <1>3 DEF nnonopts, nopts
  <2>2. Common(perm'.a, perm'.b, perm'.a, perm'.b)
    BY <2>1, CommonAtFirst
  <2>3. perm'.j = 0
    BY DEF Permute
  <2> QED BY <2>1, <2>2, <2>3 DEF Dividing
<1> QED BY <1>4, <1>5, <1>6, <1>7, <1>8, <1>9 DEF ScanInv

(* Where the scan is between words.                                        *)
LEMMA BetweenWords ==
  ASSUME LineInv, ScanInv, phase = "scan", place = <<>>
  PROVE  /\ Argc \in Nat /\ Argc = Len(line) /\ optind \in 1 .. Argc + 1
         /\ line \in Seq(Seq(STRING)) /\ posix \in BOOLEAN
         /\ Before(optind)
         /\ \A n \in optind .. Argc : argv[n] = n
         /\ optind <= Argc => Word(optind) = line[optind]
         /\ Block \in SUBSET (1 .. optind - 1)
         /\ SortedTo(argv, Block, Options, optind - 1)
         /\ nonopt_start \in {-1} \cup 1 .. optind - 1
         /\ nonopt_end \in {-1} \cup 1 .. optind - 1
         /\ nonopt_start = -1 => nonopt_end = -1 /\ Block = {}
         /\ nonopt_start # -1 /\ nonopt_end = -1 => Block = nonopt_start .. optind - 1
         /\ nonopt_end # -1 => /\ nonopt_start < nonopt_end
                               /\ Block = nonopt_start .. nonopt_end - 1
         /\ posix => nonopt_start = -1
<1>1. /\ Argc \in Nat /\ Argc = Len(line) /\ optind \in 1 .. Argc + 1
      /\ line \in Seq(Seq(STRING)) /\ posix \in BOOLEAN
      /\ Before(optind) /\ Sorted(argv)
      /\ \A n \in optind .. Argc : argv[n] = n /\ Word(n) = line[n]
  BY ScanFacts
<1>2. optind <= Argc => optind \in optind .. Argc
  BY <1>1
<1>3. SortedTo(argv, Block, Options, optind - 1)
  BY <1>1 DEF Sorted, SortedTo, Passed
<1>4. /\ nonopt_start \in {-1} \cup 1 .. Argc /\ nonopt_end \in {-1} \cup 1 .. Argc
      /\ Blocks
  BY DEF LineInv, LineTypeOK
<1>5. /\ nonopt_start \in {-1} \cup 1 .. optind - 1
      /\ nonopt_end \in {-1} \cup 1 .. optind - 1
      /\ nonopt_start = -1 => nonopt_end = -1
      /\ nonopt_end # -1 => nonopt_start < nonopt_end
  BY <1>1, <1>4 DEF Blocks
<1>6. /\ nonopt_start = -1 => Block = {}
      /\ nonopt_start # -1 /\ nonopt_end = -1 => Block = nonopt_start .. optind - 1
      /\ nonopt_end # -1 => Block = nonopt_start .. nonopt_end - 1
  BY <1>5 DEF Block
<1>7. posix => nonopt_start = -1
  BY DEF ScanInv, GoesOn
<1> QED BY <1>1, <1>2, <1>3, <1>5, <1>6, <1>7, BlockFacts

(* The end of the line.                                                    *)
LEMMA EndOfVectorScan ==
  ASSUME LineInv, ScanInv, EndOfVector
  PROVE  ScanInv'
<1>1. /\ phase = "scan" /\ place = <<>> /\ optind > Argc /\ line # <<>>
      /\ UNCHANGED <<line, posix, argv, place, given>>
      /\ nonopt_end # -1 =>
           Permute("end", nonopt_end, optind) /\ UNCHANGED <<optind, nonopt_start>>
      /\ nonopt_end = -1 =>
           /\ optind' = IF nonopt_start # -1 THEN nonopt_start ELSE optind
           /\ nonopt_start' = -1 /\ phase' = "parsed"
  BY DEF EndOfVector, Scanning
<1>2. /\ optind = Argc + 1 /\ optind = LastWord(line, posix)
      /\ Options \subseteq 1 .. optind - 1
  <2>1. /\ line \in Seq(Seq(STRING)) /\ posix \in BOOLEAN
        /\ Argc \in Nat /\ Argc = Len(line) /\ optind \in 1 .. Argc + 1
        /\ optind <= LastWord(line, posix)
    BY <1>1, BetweenWords DEF Before
  <2>2. LastWord(line, posix) \in 1 .. Argc + 1
    BY <2>1, LastWordIs
  <2>3. \A m \in Options : m \in 1 .. Argc
    BY <2>1, OptionWordsAre DEF Options
  <2>4. optind = Argc + 1 /\ optind - 1 = Argc
    BY <1>1, <2>1
  <2> QED BY <2>1, <2>2, <2>3, <2>4
<1>3. ~ Refuses(line, posix) /\ given = Meaning(line, posix)
  BY <1>1, <1>2, AllRead
<1>4. /\ Argc \in Nat /\ SortedTo(argv, Block, Options, optind - 1)
      /\ \A n \in optind .. Argc : argv[n] = n
      /\ nonopt_start \in {-1} \cup 1 .. optind - 1
      /\ nonopt_end \in {-1} \cup 1 .. optind - 1
      /\ nonopt_start = -1 => nonopt_end = -1 /\ Block = {}
      /\ nonopt_start # -1 /\ nonopt_end = -1 => Block = nonopt_start .. optind - 1
      /\ nonopt_end # -1 => /\ nonopt_start < nonopt_end
                            /\ Block = nonopt_start .. nonopt_end - 1
  BY <1>1, BetweenWords
<1>5. CASE nonopt_end # -1
  <2>1. /\ nonopt_end \in 1 .. Argc /\ optind \in 1 .. Argc + 1 /\ nonopt_end < optind
        /\ nonopt_start # -1 /\ nonopt_start < nonopt_end
    BY <1>2, <1>4, <1>5
  <2>2. /\ Permute("end", nonopt_end, optind) /\ optind' = optind
        /\ UNCHANGED <<line, posix, argv, place, nonopt_start, given>>
    BY <1>1, <1>5
  <2>3. SortedTo(argv, nonopt_start .. nonopt_end - 1, Options, optind - 1)
    BY <1>4, <1>5
  <2>4. "end" \in {"operand", "end"} /\ "end" # "operand"
    OBVIOUS
  <2> QED BY <1>1, <1>2, <1>3, <2>1, <2>2, <2>3, <2>4, PermuteScan
<1>6. CASE nonopt_end = -1
  <2> DEFINE s == IF nonopt_start # -1 THEN nonopt_start ELSE optind
  <2>1. optind' = s /\ nonopt_start' = -1 /\ phase' = "parsed"
    BY <1>1, <1>6
  <2>2. s \in 1 .. Argc + 1 /\ optind - 1 = Argc
    BY <1>2, <1>4
  <2>3. Block = s .. Argc
    <3>1. CASE nonopt_start = -1
      <4>1. s .. Argc = {}
        BY <1>2, <1>4, <3>1
      <4> QED BY <1>4, <3>1, <4>1
    <3>2. CASE nonopt_start # -1
      BY <1>4, <1>6, <2>2, <3>2
    <3> QED BY <3>1, <3>2
  <2> HIDE DEF s
  <2>4. /\ Options \subseteq 1 .. Argc
        /\ SortedTo(argv, s .. Argc, Options, Argc)
    BY <1>2, <1>4, <2>2, <2>3
  <2>5. Argc \in Nat /\ Argc <= Argc /\ \A k \in Argc + 1 .. Argc : argv[k] = k
    BY <1>4
  <2>6. OrderedIn(argv, 1 .. s - 1, Options) /\ OrderedIn(argv, s .. Argc, (1 .. Argc) \ Options)
    BY <2>2, <2>4, <2>5, SortedAll
  <2> QED BY <1>1, <1>3, <2>1, <2>6, ParsedScan
<1> QED BY <1>5, <1>6

(* "--": the options are over, and the operands in front of it move.       *)
LEMMA DoubleDashScan ==
  ASSUME LineInv, ScanInv, DoubleDash
  PROVE  ScanInv'
<1>1. /\ phase = "scan" /\ place = <<>> /\ optind <= Argc
      /\ Word(optind) = EndOfOptions /\ optind' = optind + 1
      /\ UNCHANGED <<line, posix, argv, place, given>>
      /\ BlockEnds # -1 =>
           Permute("end", BlockEnds, optind + 1) /\ UNCHANGED nonopt_start
      /\ BlockEnds = -1 => nonopt_start' = -1 /\ phase' = "parsed"
  BY DEF DoubleDash, Scanning
<1>2. /\ Argc \in Nat /\ Argc = Len(line) /\ optind \in 1 .. Argc
      /\ line \in Seq(Seq(STRING)) /\ posix \in BOOLEAN /\ line[optind] = EndOfOptions
      /\ optind <= LastWord(line, posix) /\ optind \notin Arguments(line)
      /\ SortedTo(argv, Block, Options, optind - 1)
      /\ Block \in SUBSET (1 .. optind - 1)
      /\ \A n \in optind .. Argc : argv[n] = n
      /\ nonopt_start \in {-1} \cup 1 .. optind - 1
      /\ nonopt_end \in {-1} \cup 1 .. optind - 1
      /\ nonopt_start = -1 => nonopt_end = -1 /\ Block = {}
      /\ nonopt_start # -1 /\ nonopt_end = -1 => Block = nonopt_start .. optind - 1
      /\ nonopt_end # -1 => /\ nonopt_start < nonopt_end
                            /\ Block = nonopt_start .. nonopt_end - 1
  BY <1>1, BetweenWords DEF Before
<1>3. optind = LastWord(line, posix) /\ line # <<>>
  BY <1>2, EndsHere, EmptySeq
<1>4. /\ ~ Refuses(line, posix) /\ given = Meaning(line, posix)
      /\ Options \subseteq 1 .. optind
  BY <1>1, <1>3, AllRead
<1>5. optind \in Options
  <2>1. IsOption(EndOfOptions)
    BY DEF EndOfOptions, IsOption
  <2> QED BY <1>2, <1>3, <2>1, OptionWordsAre DEF Options
<1>6. SortedTo(argv, Block, Options, optind)
  <2>1. optind - 1 \in Nat /\ optind - 1 + 1 = optind /\ argv[optind] = optind
    BY <1>2
  <2> QED BY <1>2, <1>5, <2>1, SortedOption
<1>7. CASE BlockEnds # -1
  <2> DEFINE end == optind + 1
  <2>1. /\ nonopt_start # -1 /\ nonopt_start < BlockEnds /\ BlockEnds < end
        /\ BlockEnds \in 1 .. Argc /\ Block = nonopt_start .. BlockEnds - 1
        /\ end \in 1 .. Argc + 1 /\ end - 1 = optind
    BY <1>2, <1>7 DEF BlockEnds
  <2>2. /\ Permute("end", BlockEnds, end) /\ optind' = end
        /\ UNCHANGED <<line, posix, argv, place, nonopt_start, given>>
    BY <1>1, <1>7
  <2> HIDE DEF end
  <2>3. SortedTo(argv, nonopt_start .. BlockEnds - 1, Options, end - 1)
    BY <1>6, <2>1
  <2>4. Options \subseteq 1 .. end - 1
    BY <1>4, <2>1
  <2>5. "end" \in {"operand", "end"} /\ "end" # "operand"
    OBVIOUS
  <2> QED BY <1>1, <1>4, <2>1, <2>2, <2>3, <2>4, <2>5, PermuteScan
<1>8. CASE BlockEnds = -1
  <2> DEFINE s == optind + 1
  <2>1. nonopt_start = -1
    BY <1>2, <1>8 DEF BlockEnds
  <2>2. /\ optind \in Nat /\ s \in 1 .. optind + 1 /\ optind <= Argc
        /\ s .. optind = {} /\ \A k \in s .. Argc : argv[k] = k
    BY <1>2
  <2>3. SortedTo(argv, s .. optind, Options, optind)
    BY <1>2, <1>6, <2>1, <2>2
  <2>4. \A k \in optind + 1 .. Argc : argv[k] = k
    BY <2>2
  <2>5. optind' = s /\ nonopt_start' = -1 /\ phase' = "parsed"
    BY <1>1, <1>8
  <2> HIDE DEF s
  <2>6. OrderedIn(argv, 1 .. s - 1, Options) /\ OrderedIn(argv, s .. Argc, (1 .. Argc) \ Options)
    BY <1>2, <1>4, <2>2, <2>3, <2>4, SortedAll
  <2> QED BY <1>1, <1>4, <2>5, <2>6, ParsedScan
<1> QED BY <1>7, <1>8

(* A word is passed over: the scan goes on behind it.                      *)
LEMMA GoOnPast ==
  ASSUME NEW n \in Nat, posix \in BOOLEAN, ~ posix, line \in Seq(Seq(STRING)),
         n \in 1 .. Len(line), Before(n), ~ IsOption(line[n])
  PROVE  n \notin Options /\ Before(n + 1) /\ SoFar(n + 1) = SoFar(n)
<1>1. /\ n \notin Options /\ n \notin Mentions(line, posix)
      /\ n + 1 \notin Arguments(line) /\ n + 1 <= LastWord(line, posix)
  BY PastOperand DEF Before, Options
<1>2. \A m \in Mentions(line, posix) : m < n + 1 <=> m < n
  <2>1. \A m \in Mentions(line, posix) : m \in Int /\ m # n
    BY <1>1, OptionWordsAre
  <2> QED BY <2>1
<1>3. SoFar(n + 1) = SoFar(n) /\ (Acceptable(n + 1) <=> Acceptable(n))
  <2>1. n \in Int /\ n + 1 \in Int
    OBVIOUS
  <2> QED BY <1>2, <2>1, SoFarPassed
<1> QED BY <1>1, <1>3 DEF Before

(* An operand.                                                             *)
LEMMA OperandScan ==
  ASSUME LineInv, ScanInv, Operand
  PROVE  ScanInv'
<1>1. /\ phase = "scan" /\ place = <<>> /\ optind <= Argc /\ ~ IsOption(Word(optind))
      /\ UNCHANGED <<line, posix, argv, place, given>>
  BY DEF Operand, Scanning
<1>2. /\ Argc \in Nat /\ Argc = Len(line) /\ optind \in 1 .. Argc /\ optind \in Nat
      /\ line \in Seq(Seq(STRING)) /\ posix \in BOOLEAN /\ ~ IsOption(line[optind])
      /\ Before(optind)
      /\ SortedTo(argv, Block, Options, optind - 1)
      /\ Block \in SUBSET (1 .. optind - 1)
      /\ \A n \in optind .. Argc : argv[n] = n
      /\ nonopt_start \in {-1} \cup 1 .. optind - 1
      /\ nonopt_end \in {-1} \cup 1 .. optind - 1
      /\ nonopt_start = -1 => nonopt_end = -1 /\ Block = {}
      /\ nonopt_start # -1 /\ nonopt_end = -1 => Block = nonopt_start .. optind - 1
      /\ nonopt_end # -1 => /\ nonopt_start < nonopt_end
                            /\ Block = nonopt_start .. nonopt_end - 1
      /\ posix => nonopt_start = -1
  BY <1>1, BetweenWords
<1>3. given = SoFar(optind)
  BY <1>1, ScanFacts
<1>4. CASE posix /\ phase' = "parsed" /\ UNCHANGED <<optind, nonopt_start, nonopt_end, perm>>
  <2>1. optind = LastWord(line, posix) /\ line # <<>>
    <3>1. optind <= LastWord(line, posix) /\ optind \notin Arguments(line)
      BY <1>2 DEF Before
    <3>2. optind \in 1 .. Len(line) /\ line # <<>>
      BY <1>2, EmptySeq
    <3> QED BY <1>2, <1>4, <3>1, <3>2, EndsHere
  <2>2. /\ ~ Refuses(line, posix) /\ given = Meaning(line, posix)
        /\ Options \subseteq 1 .. optind
    BY <1>1, <2>1, AllRead
  <2>3. optind \notin Options
    BY <1>2, OptionWordsAre DEF Before, Options
  <2>4. \A m \in Options : m \in 1 .. optind - 1
    BY <1>2, <2>2, <2>3
  <2> DEFINE n == optind - 1
             s == optind
  <2>5. /\ n \in Nat /\ s \in 1 .. n + 1 /\ n <= Argc /\ s .. n = {} /\ s - 1 = n
        /\ \A k \in n + 1 .. Argc : argv[k] = k
    BY <1>2
  <2>6. SortedTo(argv, s .. n, Options, n)
    BY <1>2, <1>4, <2>5
  <2>7. Options \subseteq 1 .. n
    BY <2>4
  <2>8. optind' = s
    BY <1>4
  <2> HIDE DEF n, s
  <2>9. OrderedIn(argv, 1 .. s - 1, Options) /\ OrderedIn(argv, s .. Argc, (1 .. Argc) \ Options)
    BY <1>2, <2>5, <2>6, <2>7, SortedAll
  <2> QED BY <1>1, <1>2, <1>4, <2>2, <2>8, <2>9, ParsedScan
<1>5. CASE /\ ~ posix /\ nonopt_end # -1
           /\ Permute("operand", nonopt_end, optind) /\ UNCHANGED <<optind, nonopt_start>>
  <2>1. /\ nonopt_end \in 1 .. Argc /\ optind \in 1 .. Argc + 1 /\ nonopt_end < optind
        /\ nonopt_start # -1 /\ nonopt_start < nonopt_end
    BY <1>2, <1>5
  <2>2. SortedTo(argv, nonopt_start .. nonopt_end - 1, Options, optind - 1)
    BY <1>2, <1>5
  <2>3. "operand" \in {"operand", "end"} /\ "operand" # "end"
    OBVIOUS
  <2> QED BY <1>1, <1>2, <1>5, <2>1, <2>2, <2>3, PermuteScan
<1>6. CASE /\ ~ posix /\ nonopt_end = -1
           /\ nonopt_start' = (IF nonopt_start = -1 THEN optind ELSE nonopt_start)
           /\ optind' = optind + 1
           /\ UNCHANGED <<phase, nonopt_end, perm>>
  <2>1. /\ optind \notin Options /\ Before(optind + 1)
        /\ SoFar(optind + 1) = SoFar(optind)
    BY <1>2, <1>6, GoOnPast
  <2>2. /\ \A n : SoFar(n)' = SoFar(n)
        /\ \A n : Before(n)' <=> Before(n)
        /\ Options' = Options
    BY <1>1, LineStays
  <2>3. ReadSoFar'
    <3>1. ReadOf' = {}
      BY <1>1 DEF ReadOf
    <3>2. Before(optind)' /\ SoFar(optind)' = SoFar(optind + 1)
      BY <1>6, <2>1, <2>2
    <3>3. given' = SoFar(optind)'
      BY <1>1, <1>3, <2>1, <3>2
    <3>4. SoFar(optind)' = [letter \in Letters |-> SoFar(optind)'[letter]]
      BY <3>2 DEF SoFar
    <3> QED BY <3>1, <3>2, <3>3, <3>4 DEF ReadSoFar
  <2>4. Sorting'
    <3>1. Block' = Block \cup {optind}
      <4>1. nonopt_start' # -1 /\ nonopt_end' = -1
        BY <1>2, <1>6
      <4>2. Block' = nonopt_start' .. optind
        BY <1>2, <1>6, <4>1 DEF Block
      <4>3. CASE nonopt_start = -1
        <5>1. nonopt_start' = optind /\ Block = {} /\ optind .. optind = {optind}
          BY <1>2, <1>6, <4>3
        <5> QED BY <4>2, <5>1
      <4>4. CASE nonopt_start # -1
        <5>1. nonopt_start' = nonopt_start /\ Block = nonopt_start .. optind - 1
          BY <1>2, <1>6, <4>4
        <5>2. nonopt_start .. optind = (nonopt_start .. optind - 1) \cup {optind}
          BY <1>2, <4>4
        <5> QED BY <4>2, <5>1, <5>2
      <4> QED BY <4>3, <4>4
    <3>2. optind - 1 \in Nat /\ optind - 1 + 1 = optind /\ argv[optind] = optind
      BY <1>2
    <3>3. SortedTo(argv, Block \cup {optind}, Options, optind)
      <4> DEFINE n == optind - 1
      <4>1. /\ n \in Nat /\ n + 1 = optind /\ Block \in SUBSET (1 .. n)
            /\ SortedTo(argv, Block, Options, n) /\ n + 1 \notin Options
            /\ argv[n + 1] = n + 1
        BY <1>2, <2>1, <3>2
      <4> HIDE DEF n
      <4>2. SortedTo(argv, Block \cup {n + 1}, Options, n + 1)
        BY <4>1, SortedOperand
      <4> QED BY <4>1, <4>2
    <3>4. Passed' = 1 .. optind
      BY <1>2, <1>6 DEF Passed
    <3>5. Sorted(argv)'
      BY <1>1, <2>2, <3>1, <3>3, <3>4 DEF Sorted, SortedTo
    <3> QED BY <1>1, <1>6, <3>5 DEF Sorting
  <2>5. InAWord' /\ Finished' /\ GoesOn' /\ Dividing' /\ Moving'
    BY <1>1, <1>6 DEF ScanInv, InAWord, Finished, GoesOn, Dividing, Moving, Ended, Permuting
  <2> QED BY <2>3, <2>4, <2>5 DEF ScanInv
<1> QED BY <1>4, <1>5, <1>6 DEF Operand

(* Without any word the program ends.                                      *)
LEMMA NoWordScan ==
  ASSUME LineInv, ScanInv, NoWord
  PROVE  ScanInv'
BY RefusedAt DEF NoWord, Scanning, Refuses

(* While words change places, what was found out stays as it is.           *)
LEMMA ScanWaits ==
  ASSUME ScanInv, Permuting, Permuting', perm'.then = perm.then,
         UNCHANGED <<line, posix, optind, place, nonopt_start, given>>
  PROVE  ReadSoFar' /\ InAWord' /\ Finished' /\ GoesOn'
<1>1. /\ \A n : SoFar(n)' = SoFar(n)
      /\ \A n : Before(n)' <=> Before(n)
      /\ Options' = Options
  BY LineStays
<1>2. (InScan' <=> InScan) /\ (Ended' <=> Ended) /\ phase' # "scan" /\ phase' # "refused"
  BY DEF InScan, Ended, Permuting
<1>3. ReadSoFar'
  <2>1. ReadOf' = ReadOf
    BY DEF ReadOf, Reached
  <2>2. (Before(optind)' <=> Before(optind)) /\ SoFar(optind)' = SoFar(optind)
    BY <1>1
  <2> QED BY <1>2, <2>1, <2>2 DEF ScanInv, ReadSoFar
<1> QED BY <1>1, <1>2, <1>3 DEF ScanInv, InAWord, Finished, GoesOn

(* A step of pure_gcd, and the first position of the first cycle.          *)
LEMMA GcdScan ==
  ASSUME LineInv, ScanInv, Gcd
  PROVE  ScanInv'
<1>1. /\ phase = "gcd"
      /\ UNCHANGED <<line, posix, argv, optind, place, nonopt_start, nonopt_end, given>>
  BY DEF Gcd
<1>2. /\ perm'.then = perm.then /\ perm'.opt_end = perm.opt_end
      /\ perm'.i = perm.i /\ perm'.j = perm.j
      /\ perm.a % perm.b # 0 =>
           perm'.a = perm.b /\ perm'.b = perm.a % perm.b /\ phase' = "gcd"
      /\ perm.a % perm.b = 0 =>
           perm'.b = perm.b /\ perm'.pos = nonopt_end /\ phase' = "cycles"
  BY <1>1 DEF Gcd, LineInv, LineTypeOK
<1>3. /\ perm.a \in Nat /\ perm.b \in Nat /\ perm.b > 0 /\ perm.i = 0
      /\ nonopt_start \in Int
  BY <1>1, CycleFacts DEF LineInv, Cycles
<1>4. /\ nnonopts \in Nat /\ nopts \in Nat /\ nnonopts > 0 /\ nopts > 0
      /\ nonopt_end = nonopt_start + nnonopts
      /\ cyclelen = Rounds(nnonopts, nopts, perm.b)
  BY <1>1, WhereFacts
<1>5. nnonopts' = nnonopts /\ nopts' = nopts /\ Where' = Where
  BY <1>1, <1>2 DEF nnonopts, nopts, Where
<1>6. perm.j = 0 /\ Common(perm.a, perm.b, nnonopts, nopts) /\ Sorted(argv)
  BY <1>1 DEF ScanInv, Dividing, Sorting
<1>7. ReadSoFar' /\ InAWord' /\ Finished' /\ GoesOn'
  BY <1>1, <1>2, ScanWaits DEF Permuting
<1>8. \A old : Sorted(old)' <=> Sorted(old)
  <2>1. Options' = Options
    BY <1>1, LineStays
  <2> QED BY <1>1, <2>1 DEF Sorted, Block, Passed
<1>9. CASE perm.a % perm.b # 0
  <2>1. Common(perm.b, perm.a % perm.b, nnonopts, nopts)
    BY <1>3, <1>4, <1>6, CommonAfterStep
  <2>2. Dividing'
    BY <1>2, <1>5, <1>6, <1>9, <2>1 DEF Dividing
  <2>3. Sorted(argv)'
    BY <1>6, <1>8, <1>1 DEF Sorted
  <2>4. Sorting' /\ Moving'
    BY <1>2, <1>9, <2>3 DEF Sorting, Moving
  <2> QED BY <1>7, <2>2, <2>4 DEF ScanInv
<1>10. CASE perm.a % perm.b = 0
  <2>1. PICK cycle \in [Both(nonopt_start, nnonopts, nopts) -> 0 .. perm.b - 1],
             lap \in [Both(nonopt_start, nnonopts, nopts) ->
                        0 .. Rounds(nnonopts, nopts, perm.b) - 1] :
               Numbers(cycle, lap, nonopt_start, nnonopts, nopts, perm.b)
    BY <1>3, <1>4, <1>6, <1>10, CommonAtLast
  <2>2. cycle \in [Where -> 0 .. perm.b - 1] /\ lap \in [Where -> 0 .. cyclelen - 1]
    BY <1>4, <2>1 DEF Where
  <2>3. nonopt_end \in Where /\ cycle[nonopt_end] = 0 /\ lap[nonopt_end] = 0
    <3>1. nonopt_start + nnonopts + 0 = nonopt_end
      BY <1>3, <1>4
    <3>2. 0 \in 0 .. perm.b - 1 /\ nonopt_end \in Both(nonopt_start, nnonopts, nopts)
      BY <1>3, <1>4 DEF Both
    <3> QED BY <2>1, <3>1, <3>2 DEF Numbers, Where
  <2>4. HalfMoved(argv, cycle, lap)'
    <3>1. nonopt_end + 0 = nonopt_end
      BY <1>3, <1>4
    <3>2. perm'.i = 0 /\ perm'.j = 0 /\ perm'.pos = nonopt_end
      BY <1>2, <1>3, <1>6, <1>10
    <3>3. \A p \in Where : ~ (cycle[p] < 0 \/ (cycle[p] = 0 /\ lap[p] < 0))
      BY <2>2
    <3> QED BY <1>1, <1>5, <2>3, <3>1, <3>2, <3>3 DEF HalfMoved
  <2>5. Moving'
    <3>1. argv \in [1 .. Argc -> 1 .. Argc] /\ Argc' = Argc
      BY <1>1 DEF LineInv, LineTypeOK, Argc
    <3>2. cyclelen' = cyclelen /\ perm'.b = perm.b
      BY <1>1, <1>2, <1>10 DEF cyclelen
    <3>3. Sorted(argv)'
      BY <1>1, <1>6, <1>8 DEF Sorted
    <3>4. HalfMoved(argv, cycle, lap)' /\ argv' = argv
      BY <1>1, <2>4
    <3>5. Numbers(cycle, lap, nonopt_start', nnonopts', nopts', perm'.b)
      BY <1>1, <1>5, <2>1, <3>2
    <3> QED BY <1>5, <2>2, <3>1, <3>2, <3>3, <3>4, <3>5 DEF Moving
  <2>6. Sorting' /\ Dividing'
    BY <1>2, <1>10 DEF Sorting, Dividing
  <2> QED BY <1>7, <2>5, <2>6 DEF ScanInv
<1> QED BY <1>9, <1>10

(* One exchange of pure_permute_args.                                      *)
LEMMA SwapScan ==
  ASSUME LineInv, ScanInv, Swap
  PROVE  ScanInv'
<1>1. /\ phase = "cycles" /\ phase' = "cycles"
      /\ UNCHANGED <<line, posix, optind, place, nonopt_start, nonopt_end, given>>
  BY DEF Swap
<1>2. perm'.then = perm.then /\ perm'.opt_end = perm.opt_end
  BY DEF Swap, LineInv, LineTypeOK
<1>3. PICK old \in [1 .. Argc -> 1 .. Argc],
           cycle \in [Where -> 0 .. perm.b - 1], lap \in [Where -> 0 .. cyclelen - 1] :
        /\ Sorted(old)
        /\ Numbers(cycle, lap, nonopt_start, nnonopts, nopts, perm.b)
        /\ HalfMoved(old, cycle, lap)
  BY <1>1 DEF ScanInv, Moving
<1>4. /\ HalfMoved(old, cycle, lap)'
      /\ Where' = Where /\ cyclelen' = cyclelen /\ perm'.b = perm.b
  BY <1>3, MoveStep
<1>5. ReadSoFar' /\ InAWord' /\ Finished' /\ GoesOn'
  BY <1>1, <1>2, ScanWaits DEF Permuting
<1>6. Moving'
  <2>1. nnonopts' = nnonopts /\ nopts' = nopts /\ Argc' = Argc
    BY <1>1, <1>2 DEF nnonopts, nopts, Argc
  <2>2. Sorted(old)'
    <3>1. Options' = Options
      BY <1>1, LineStays
    <3> QED BY <1>1, <1>3, <3>1 DEF Sorted, Block, Passed
  <2>3. Numbers(cycle, lap, nonopt_start', nnonopts', nopts', perm'.b)
    BY <1>1, <1>3, <1>4, <2>1
  <2> QED BY <1>3, <1>4, <2>1, <2>2, <2>3 DEF Moving
<1>7. Sorting' /\ Dividing'
  BY <1>1 DEF Sorting, Dividing
<1> QED BY <1>5, <1>6, <1>7 DEF ScanInv

(* When all the cycles are done, the blocks have changed places.           *)
LEMMA ExchangeDone ==
  ASSUME LineInv, ScanInv, phase = "cycles", perm.i >= perm.b
  PROVE  SortedTo(argv, optind - nnonopts .. optind - 1, Options, optind - 1)
<1>1. PICK old \in [1 .. Argc -> 1 .. Argc],
           cycle \in [Where -> 0 .. perm.b - 1], lap \in [Where -> 0 .. cyclelen - 1] :
        /\ Sorted(old)
        /\ Numbers(cycle, lap, nonopt_start, nnonopts, nopts, perm.b)
        /\ HalfMoved(old, cycle, lap)
  BY DEF ScanInv, Moving
<1> DEFINE start == nonopt_start
           nn == nnonopts
           no == nopts
<1>2. /\ Where = start .. optind - 1 /\ Where \subseteq 1 .. Argc
      /\ nn \in Nat /\ no \in Nat /\ nn > 0 /\ no > 0
      /\ nonopt_end = start + nn
      /\ start \in Nat /\ start > 0 /\ optind \in Nat /\ Argc \in Nat
      /\ optind = start + nn + no
      /\ perm.b \in Nat /\ perm.i \in Nat
  <2>1. /\ Where = start .. optind - 1 /\ Where \subseteq 1 .. Argc
        /\ nn \in Nat /\ no \in Nat /\ nn > 0 /\ no > 0
        /\ nonopt_end = start + nn
    BY WhereFacts
  <2>2. /\ start \in 1 .. Argc /\ optind \in 1 .. Argc + 1 /\ Argc \in Nat
        /\ perm.b \in Nat /\ perm.i \in Nat /\ perm.opt_end = optind
        /\ nonopt_end \in 1 .. Argc
    BY CycleFacts
  <2>3. no = optind - nonopt_end
    BY <2>2 DEF nopts
  <2> HIDE DEF start, nn, no
  <2>4. optind = start + nn + no
    BY <2>1, <2>2, <2>3
  <2>5. start \in Nat /\ start > 0 /\ optind \in Nat
    BY <2>2
  <2> QED BY <2>1, <2>2, <2>4, <2>5
<1>3. \A p \in Where : argv[After(p)] = old[p]
  <2> SUFFICES ASSUME NEW p \in Where
               PROVE  argv[After(p)] = old[p]
    OBVIOUS
  <2>1. cycle[p] \in 0 .. perm.b - 1
    BY <1>1
  <2>2. cycle[p] < perm.i
    BY <1>2, <2>1
  <2> QED BY <1>1, <2>2 DEF HalfMoved
<1>4. \A p \in Both(start, nn, no) : argv[Follows(p, start, nn, no)] = old[p]
  BY <1>3 DEF Where, After
<1>5. \A n \in 1 .. start - 1 : argv[n] = old[n]
  <2> SUFFICES ASSUME NEW n \in 1 .. start - 1
               PROVE  argv[n] = old[n]
    OBVIOUS
  <2>1. start \in 1 .. Argc
    BY CycleFacts
  <2>2. n \in (1 .. Argc) \ Where
    BY <1>2, <2>1
  <2> QED BY <1>1, <2>2 DEF HalfMoved
<1>6. /\ OrderedIn(old, start .. start + nn - 1, Passed \ Options)
      /\ OrderedIn(old, (1 .. start + nn + no - 1) \ (start .. start + nn - 1),
                   Passed \cap Options)
  <2>1. Block = start .. start + nn - 1
    BY <1>2 DEF Block
  <2>2. Passed = 1 .. start + nn + no - 1
    BY <1>2 DEF Passed
  <2> QED BY <1>1, <2>1, <2>2 DEF Sorted
<1> DEFINE first == Passed \ Options
           rest == Passed \cap Options
<1>7. /\ OrderedIn(argv, start + no .. start + nn + no - 1, first)
      /\ OrderedIn(argv, 1 .. start + no - 1, rest)
  <2> HIDE DEF start, nn, no, first, rest
  <2> QED BY <1>2, <1>4, <1>5, <1>6, BlocksExchanged DEF first, rest
<1>8. /\ start + no = optind - nnonopts /\ start + nn + no - 1 = optind - 1
      /\ 1 .. start + no - 1 = (1 .. optind - 1) \ (optind - nnonopts .. optind - 1)
  BY <1>2
<1> QED BY <1>7, <1>8 DEF SortedTo, Passed

(* Back from pure_permute_args.                                            *)
LEMMA PermutedScan ==
  ASSUME LineInv, ScanInv, Permuted
  PROVE  ScanInv'
<1>1. /\ phase = "cycles" /\ perm.i >= perm.b /\ nonopt_end' = -1
      /\ perm.then = "operand" =>
           optind' = optind + 1 /\ phase' = "scan" /\ nonopt_start' = optind - nnonopts
      /\ perm.then # "operand" =>
           optind' = optind - nnonopts /\ phase' = "parsed" /\ nonopt_start' = -1
      /\ UNCHANGED <<line, posix, argv, place, given>>
  BY DEF Permuted
<1> DEFINE s == optind - nnonopts
           n == optind - 1
<1>2. SortedTo(argv, s .. n, Options, n)
  BY <1>1, ExchangeDone
<1>3. /\ Argc \in Nat /\ nnonopts \in Nat /\ optind \in 1 .. Argc + 1
      /\ s \in 1 .. n + 1 /\ n \in Nat /\ n + 1 = optind /\ n <= Argc
  <2>1. /\ nnonopts \in Nat /\ nopts \in Nat /\ nonopt_end = nonopt_start + nnonopts
        /\ nonopt_start \in 1 .. Argc /\ optind \in 1 .. Argc + 1 /\ Argc \in Nat
        /\ nonopt_end < optind
    BY <1>1, WhereFacts, CycleFacts
  <2> QED BY <2>1
<1>4. \A k \in n + 1 .. Argc : argv[k] = k
  BY <1>1, <1>3 DEF LineInv, Ahead
<1>5. GoesOn /\ ReadSoFar /\ Finished /\ Permuting /\ place = <<>>
  BY <1>1 DEF ScanInv, Permuting, LineInv, Reading
<1>6. CASE perm.then = "operand"
  <2>1. /\ optind \in 1 .. Argc /\ optind \in Nat /\ Argc = Len(line)
        /\ line \in Seq(Seq(STRING)) /\ posix \in BOOLEAN
    BY <1>1, <1>3, <1>6, LineFacts DEF LineInv, LineTypeOK, Cycles, Argc
  <2>2. /\ ~ posix /\ ~ IsOption(line[optind]) /\ Before(optind)
        /\ given = SoFar(optind)
    <3>1. ReadOf = {}
      BY <1>5 DEF ReadOf
    <3>2. given = [letter \in Letters |-> SoFar(optind)[letter]]
      BY <1>5, <1>6, <3>1 DEF ReadSoFar, InScan
    <3>3. given = SoFar(optind)
      BY <3>2 DEF SoFar
    <3> QED BY <1>5, <1>6, <3>3 DEF GoesOn, ReadSoFar, InScan
  <2>3. /\ optind \notin Options /\ Before(optind + 1)
        /\ SoFar(optind + 1) = SoFar(optind)
    BY <2>1, <2>2, GoOnPast
  <2>4. /\ \A k : SoFar(k)' = SoFar(k)
        /\ \A k : Before(k)' <=> Before(k)
        /\ Options' = Options
    BY <1>1, LineStays
  <2>5. /\ optind' = optind + 1 /\ phase' = "scan" /\ nonopt_start' = s
    BY <1>1, <1>6
  <2>6. ReadSoFar'
    <3>1. ReadOf' = {}
      BY <1>1, <1>5 DEF ReadOf
    <3>2. Before(optind)' /\ SoFar(optind)' = SoFar(optind + 1)
      BY <2>3, <2>4, <2>5
    <3>3. given' = SoFar(optind)'
      BY <1>1, <2>2, <2>3, <3>2
    <3>4. SoFar(optind)' = [letter \in Letters |-> SoFar(optind)'[letter]]
      BY <3>2 DEF SoFar
    <3> QED BY <3>1, <3>3, <3>4, <3>2 DEF ReadSoFar
  <2>7. Sorting'
    <3>1. Block' = (s .. n) \cup {n + 1}
      <4>1. Block' = s .. optind' - 1
        <5>1. nonopt_start' # -1
          BY <1>3, <2>5
        <5> QED BY <1>1, <2>5, <5>1 DEF Block
      <4>2. s .. optind' - 1 = (s .. n) \cup {n + 1}
        BY <1>3, <2>5
      <4> QED BY <4>1, <4>2
    <3>2. n + 1 \notin Options /\ argv[n + 1] = n + 1 /\ (s .. n) \in SUBSET (1 .. n)
      BY <1>3, <1>4, <2>1, <2>3
    <3>3. Passed' = 1 .. n + 1
      BY <1>3, <2>5 DEF Passed
    <3> HIDE DEF s, n
    <3>4. SortedTo(argv, (s .. n) \cup {n + 1}, Options, n + 1)
      BY <1>2, <1>3, <3>2, SortedOperand
    <3>5. Sorted(argv)'
      BY <1>1, <2>4, <3>1, <3>3, <3>4 DEF Sorted, SortedTo
    <3> QED BY <2>5, <3>5 DEF Sorting
  <2>8. InAWord' /\ Finished' /\ GoesOn' /\ Dividing' /\ Moving'
    BY <1>1, <1>5, <2>2, <2>5 DEF InAWord, Finished, GoesOn, Dividing, Moving,
       Ended, Permuting
  <2> QED BY <2>6, <2>7, <2>8 DEF ScanInv
<1>7. CASE perm.then # "operand"
  <2>1. /\ ~ Refuses(line, posix) /\ given = Meaning(line, posix)
        /\ Options \subseteq 1 .. n
    <3>1. perm.then = "end"
      BY <1>5, <1>7 DEF GoesOn, LineInv, LineTypeOK
    <3> QED BY <1>5, <3>1 DEF Finished, Ended, GoesOn
  <2>2. optind' = s /\ phase' = "parsed" /\ nonopt_start' = -1
    BY <1>1, <1>7
  <2> HIDE DEF s, n
  <2>3. OrderedIn(argv, 1 .. s - 1, Options) /\ OrderedIn(argv, s .. Argc, (1 .. Argc) \ Options)
    BY <1>2, <1>3, <1>4, <2>1, SortedAll
  <2> QED BY <1>1, <2>1, <2>2, <2>3, ParsedScan
<1> QED BY <1>6, <1>7

(* Every step, and none, keeps the invariant.                              *)
LEMMA ScanStep ==
  ASSUME LineInv, ScanInv, [LineNext]_lineVars
  PROVE  ScanInv'
<1>1. CASE UNCHANGED lineVars
  <2>1. UNCHANGED <<line, posix, phase, argv, optind, place, nonopt_start, nonopt_end,
                    perm, given>>
    BY <1>1 DEF lineVars
  <2> HIDE DEF ScanInv
  <2>2. ScanInv' <=> ScanInv
    BY <2>1 DEF ScanInv, ReadSoFar, InAWord, Finished, GoesOn, Sorting, Dividing, Moving,
       InScan, Ended, Permuting, Reached, ReadOf, Before, Acceptable, SoFar, MentionsOf,
       Latest, ValueAt, Options, Passed, Block, Sorted, Where, After, HalfMoved, Argc,
       nnonopts, nopts, cyclelen
  <2> QED BY <2>2
<1>2. CASE LineNext
  BY <1>2, NoWordScan, EndOfVectorScan, OperandScan, DoubleDashScan, OptionWordScan,
     ShortOptionScan, LongOptionScan, GcdScan, SwapScan, PermutedScan DEF LineNext
<1> QED BY <1>1, <1>2

(* What the scan has found out, and where it has moved the words, agrees   *)
(* at every step with what the line means.                                 *)
THEOREM ScanInvariance == LineSpec => [](LineInv /\ ScanInv)
<1>1. line \in Seq(Seq(STRING)) /\ posix \in BOOLEAN /\ LineInit => LineInv /\ ScanInv
  BY LineInitInv, ScanInitInv
<1>2. LineInv /\ ScanInv /\ [LineNext]_lineVars => (LineInv /\ ScanInv)'
  BY LineStep, ScanStep
<1> QED BY <1>1, <1>2, PTL DEF LineSpec

(* For every line, pure_getopt_internal and main take the options that it  *)
(* asks for, with the values given last, and stop the program for exactly  *)
(* the lines with something they cannot accept.                            *)
THEOREM OptionsAsMeant == LineSpec => []OptionsTaken
<1>1. ScanInv => OptionsTaken
  BY ScanInvShows
<1> QED BY <1>1, ScanInvariance, PTL

(* However the operands and the options are mixed, pure_permute_args keeps *)
(* the operands in one block and in order, and leaves them at the end.     *)
THEOREM OperandsArranged == LineSpec => []Arranged
<1>1. ScanInv => Arranged
  BY ScanInvShows
<1> QED BY <1>1, ScanInvariance, PTL

-----------------------------------------------------------------------------
(* The scan ends.  What is left of it: before the words are done with, the *)
(* words, the letters of the word, and the exchanges that are due.         *)

Shorter == LexProductOrdering(Below, Nat, 5)

Stage ==
  IF phase = "scan" \/ (phase \in {"gcd", "cycles"} /\ perm.then = "operand") THEN 2
  ELSE IF phase \in {"gcd", "cycles"} THEN 1 ELSE 0
Work ==
  CASE phase = "scan" -> IF place = <<>> THEN 3 ELSE 2
    [] phase = "gcd"  -> 1
    [] OTHER          -> 0
Pieces ==
  CASE phase = "scan"   -> Len(place)
    [] phase = "gcd"    -> perm.b
    [] phase = "cycles" -> perm.b - perm.i
    [] OTHER            -> 0
Exchanges ==
  IF phase = "cycles" /\ perm.j < cyclelen THEN cyclelen - perm.j ELSE 0

Left == <<Stage, Argc + 1 - optind, Work, Pieces, Exchanges>>

(* No sequence of steps gets shorter for ever.                             *)
THEOREM ShorterEnds == IsWellFoundedOn(Shorter, [1 .. 5 -> Nat])
<1>1. IsWellFoundedOn(Below, Nat)
  BY NatLessThanWellFounded DEF OpToRel, Below
<1> QED BY <1>1, WFLexProductOrdering DEF Shorter

LEMMA LeftType == LineInv => Left \in [1 .. 5 -> Nat] /\ optind \in Int
<1> SUFFICES ASSUME LineInv
             PROVE  Left \in [1 .. 5 -> Nat] /\ optind \in Int
  OBVIOUS
<1>1. /\ Argc \in Nat /\ optind \in 1 .. Argc + 1 /\ place \in Seq(STRING)
      /\ perm.b \in Nat /\ perm.i \in Nat /\ perm.j \in Nat
  BY LineFacts DEF LineInv, LineTypeOK
<1>2. Stage \in Nat /\ Work \in Nat /\ Argc + 1 - optind \in Nat
  BY <1>1 DEF Stage, Work
<1>3. Pieces \in Nat
  <2>1. phase = "cycles" => perm.i <= perm.b
    BY DEF LineInv, Cycles
  <2>2. Len(place) \in Nat
    BY <1>1, LenProperties
  <2> QED BY <1>1, <2>1, <2>2 DEF Pieces
<1>4. Exchanges \in Nat
  <2>1. CASE phase = "cycles"
    <3>1. /\ nonopt_start \in 1 .. Argc /\ perm.opt_end \in Int
          /\ perm.b > 0
      BY <1>1, <2>1, CycleFacts
    <3>2. cyclelen \in Int
      BY <1>1, <3>1 DEF cyclelen
    <3> QED BY <1>1, <3>2 DEF Exchanges
  <2>2. CASE phase # "cycles"
    BY <2>2 DEF Exchanges
  <2> QED BY <2>1, <2>2
<1>5. optind \in Int
  BY <1>1
<1> QED BY <1>2, <1>3, <1>4, <1>5 DEF Left

LEMMA ShorterBy ==
  ASSUME NEW f \in [1 .. 5 -> Nat], NEW g \in [1 .. 5 -> Nat], NEW j \in 1 .. 5,
         f[j] < g[j], \A i \in 1 .. j - 1 : f[i] = g[i]
  PROVE  <<f, g>> \in Shorter
<1>1. <<f[j], g[j]>> \in Below
  BY DEF Below
<1> QED BY <1>1 DEF Shorter, LexProductOrdering

LEMMA Shortens ==
  ASSUME LineInv, LineInv', line' = line,
         \/ Stage' < Stage
         \/ /\ Stage' = Stage
            /\ \/ optind < optind'
               \/ /\ optind' = optind
                  /\ \/ Work' < Work
                     \/ /\ Work' = Work
                        /\ \/ Pieces' < Pieces
                           \/ Pieces' = Pieces /\ Exchanges' < Exchanges
  PROVE  <<Left', Left>> \in Shorter
<1> DEFINE f == Left'
           g == Left
<1>1. f \in [1 .. 5 -> Nat] /\ g \in [1 .. 5 -> Nat]
  <2>1. LineInv' => (Left \in [1 .. 5 -> Nat] /\ optind \in Int)'
    BY LeftType, PTL
  <2> QED BY <2>1, LeftType
<1>2. /\ f[1] = Stage' /\ f[2] = Argc + 1 - optind' /\ f[3] = Work' /\ f[4] = Pieces'
      /\ f[5] = Exchanges'
      /\ g[1] = Stage /\ g[2] = Argc + 1 - optind /\ g[3] = Work /\ g[4] = Pieces
      /\ g[5] = Exchanges
  <2>1. Argc' = Argc
    BY DEF Argc
  <2> QED BY <2>1 DEF Left
<1>3. optind < optind' => Argc + 1 - optind' < Argc + 1 - optind
  <2>1. Argc \in Nat /\ optind \in 1 .. Argc + 1
    BY LineFacts
  <2>2. LineInv' => (Left \in [1 .. 5 -> Nat] /\ optind \in Int)'
    BY LeftType, PTL
  <2> QED BY <2>1, <2>2
<1> HIDE DEF f, g
<1>4. CASE Stage' < Stage
  <2>1. 1 \in 1 .. 5 /\ f[1] < g[1] /\ \A i \in 1 .. 1 - 1 : f[i] = g[i]
    BY <1>2, <1>4
  <2> QED BY <1>1, <2>1, ShorterBy DEF f, g
<1>5. CASE Stage' = Stage /\ optind < optind'
  <2>1. 2 \in 1 .. 5 /\ f[2] < g[2] /\ \A i \in 1 .. 2 - 1 : f[i] = g[i]
    BY <1>2, <1>3, <1>5
  <2> QED BY <1>1, <2>1, ShorterBy DEF f, g
<1>6. CASE Stage' = Stage /\ optind' = optind /\ Work' < Work
  <2>1. 3 \in 1 .. 5 /\ f[3] < g[3] /\ \A i \in 1 .. 3 - 1 : f[i] = g[i]
    BY <1>2, <1>6
  <2> QED BY <1>1, <2>1, ShorterBy DEF f, g
<1>7. CASE Stage' = Stage /\ optind' = optind /\ Work' = Work /\ Pieces' < Pieces
  <2>1. 4 \in 1 .. 5 /\ f[4] < g[4] /\ \A i \in 1 .. 4 - 1 : f[i] = g[i]
    BY <1>2, <1>7
  <2> QED BY <1>1, <2>1, ShorterBy DEF f, g
<1>8. CASE /\ Stage' = Stage /\ optind' = optind /\ Work' = Work
           /\ Pieces' = Pieces /\ Exchanges' < Exchanges
  <2>1. 5 \in 1 .. 5 /\ f[5] < g[5] /\ \A i \in 1 .. 5 - 1 : f[i] = g[i]
    BY <1>2, <1>8
  <2> QED BY <1>1, <2>1, ShorterBy DEF f, g
<1> QED BY <1>4, <1>5, <1>6, <1>7, <1>8

(* An option is taken, the program ends, or both its letter and its word   *)
(* are done with.                                                          *)
LEMMA TakeShortens ==
  ASSUME LineInv, LineInv', phase = "scan", place # <<>>,
         \/ Refuse
         \/ \E letter, value, next, left :
              /\ Take(letter, value, next, left)
              /\ \/ next > optind
                 \/ next = optind /\ left = Tail(place) /\ left # <<>>
         \/ \E letter : TakeNext(letter)
  PROVE  <<Left', Left>> \in Shorter
<1>1. Stage = 2 /\ Work = 2 /\ Pieces = Len(place)
  BY DEF Stage, Work, Pieces
<1>2. place \in Seq(STRING) /\ optind \in Int
  BY LeftType DEF LineInv, LineTypeOK
<1>3. CASE Refuse
  <2>1. Stage' = 0 /\ line' = line
    BY <1>3 DEF Refuse, Stage
  <2> QED BY <1>1, <2>1, Shortens
<1>4. ASSUME NEW letter, NEW value, NEW next, NEW left, ~ Refuse,
             Take(letter, value, next, left),
             next > optind \/ (next = optind /\ left = Tail(place) /\ left # <<>>)
      PROVE  <<Left', Left>> \in Shorter
  <2>1. /\ optind' = next /\ place' = left /\ line' = line
        /\ phase' = phase \/ phase' = "no memory"
    BY <1>4 DEF Take
  <2>2. CASE phase' = "no memory"
    <3>1. Stage' = 0
      BY <2>2 DEF Stage
    <3>2. Stage' < Stage
      BY <1>1, <3>1
    <3> QED BY <2>1, <3>2, Shortens
  <2>3. CASE phase' = phase /\ next > optind
    <3>1. Stage' = 2 /\ optind < optind'
      BY <1>2, <2>1, <2>3 DEF Stage, LineInv, LineTypeOK
    <3> QED BY <1>1, <2>1, <3>1, Shortens
  <2>4. CASE phase' = phase /\ next = optind /\ left = Tail(place) /\ left # <<>>
    <3>1. Stage' = 2 /\ Work' = 2 /\ Pieces' = Len(Tail(place))
      BY <2>1, <2>4 DEF Stage, Work, Pieces
    <3>2. Len(Tail(place)) < Len(place)
      BY <1>2, HeadTailProperties, LenProperties
    <3> QED BY <1>1, <2>1, <2>4, <3>1, <3>2, Shortens
  <2> QED BY <1>4, <2>1, <2>2, <2>3, <2>4
<1>5. ASSUME NEW letter, TakeNext(letter)
      PROVE  <<Left', Left>> \in Shorter
  <2>1. Refuse \/ Take(letter, Word(optind + 1), optind + 2, <<>>)
    BY <1>5 DEF TakeNext
  <2>2. optind + 2 > optind
    BY <1>2
  <2> QED BY <1>3, <1>4, <2>1, <2>2
<1> QED BY <1>3, <1>4, <1>5

(* Every step of the scan leaves less of it.                               *)
LEMMA StepShortens ==
  ASSUME LineInv, LineNext
  PROVE  <<Left', Left>> \in Shorter
<1>1. LineInv'
  BY LineStep
<1>2. /\ optind \in 1 .. Argc + 1 /\ Argc \in Nat /\ place \in Seq(STRING)
      /\ phase = "scan" /\ place # <<>> => optind <= Argc
      /\ nonopt_start \in {-1} \cup 1 .. Argc
  BY LineFacts DEF LineInv, LineTypeOK, Reading
<1>3. phase = "scan" => Stage = 2 /\ Work = IF place = <<>> THEN 3 ELSE 2
  BY DEF Stage, Work
<1>4. CASE NoWord
  <2>1. Stage' = 0 /\ line' = line /\ Stage = 2
    BY <1>3, <1>4 DEF NoWord, Scanning, Refuse, Stage
  <2>2. Stage' < Stage
    BY <2>1
  <2> QED BY <1>1, <2>1, <2>2, Shortens
<1>5. CASE EndOfVector \/ DoubleDash
  <2>1. /\ phase = "scan" /\ line' = line
        /\ phase' = "parsed" \/ (phase' = "gcd" /\ perm'.then = "end")
    BY <1>5 DEF EndOfVector, DoubleDash, Scanning, Permute
  <2>2. Stage' \in {0, 1}
    BY <2>1 DEF Stage
  <2>3. Stage' < Stage
    BY <1>3, <2>1, <2>2
  <2> QED BY <1>1, <2>1, <2>3, Shortens
<1>6. CASE Operand
  <2>1. /\ phase = "scan" /\ place = <<>> /\ line' = line
        /\ \/ phase' = "parsed"
           \/ phase' = "gcd" /\ perm'.then = "operand" /\ optind' = optind
           \/ phase' = "scan" /\ optind' = optind + 1
    BY <1>6 DEF Operand, Scanning, Permute
  <2>2. CASE phase' = "parsed"
    <3>1. Stage' = 0
      BY <2>2 DEF Stage
    <3>2. Stage' < Stage
      BY <1>3, <2>1, <3>1
    <3> QED BY <1>1, <2>1, <3>2, Shortens
  <2>3. CASE phase' = "gcd" /\ perm'.then = "operand" /\ optind' = optind
    <3>1. Stage' = 2 /\ Work' = 1
      BY <2>3 DEF Stage, Work
    <3>2. Stage' = Stage /\ Work' < Work
      BY <1>3, <2>1, <3>1
    <3> QED BY <1>1, <2>1, <2>3, <3>2, Shortens
  <2>4. CASE phase' = "scan" /\ optind' = optind + 1
    <3>1. Stage' = Stage
      BY <1>3, <2>1, <2>4 DEF Stage
    <3>2. optind < optind'
      BY <1>2, <2>4
    <3> QED BY <1>1, <2>1, <3>1, <3>2, Shortens
  <2> QED BY <2>1, <2>2, <2>3, <2>4
<1>7. CASE OptionWord
  <2>1. /\ phase = "scan" /\ place = <<>> /\ line' = line /\ phase' = phase
        /\ optind' = optind /\ place' = Tail(Word(optind)) /\ optind <= Argc
        /\ IsOption(Word(optind))
    BY <1>7 DEF OptionWord, Scanning
  <2>2. place' # <<>>
    <3>1. Word(optind) \in Seq(STRING)
      BY <1>2, <2>1, LineFacts
    <3>2. Len(Word(optind)) >= 2
      BY <2>1 DEF IsOption
    <3>3. /\ Tail(Word(optind)) \in Seq(STRING)
          /\ Len(Tail(Word(optind))) = Len(Word(optind)) - 1
      BY <3>1, <3>2, HeadTailProperties, EmptySeq
    <3>4. Len(place') # 0
      BY <2>1, <3>1, <3>2, <3>3, LenProperties
    <3> QED BY <2>1, <3>3, <3>4, EmptySeq
  <2>3. Stage' = Stage /\ Work' = 2
    BY <2>1, <2>2 DEF Stage, Work
  <2>4. Work' < Work
    BY <1>3, <2>1, <2>3
  <2> QED BY <1>1, <2>1, <2>3, <2>4, Shortens
<1>8. CASE ShortOption
  <2>1. phase = "scan" /\ place # <<>>
    BY <1>8 DEF ShortOption
  <2>2. optind + 1 > optind
    BY <1>2
  <2> DEFINE letter == Head(place)
  <2>3. /\ letter \notin Letters => Refuse
        /\ letter \in Letters /\ letter \notin TakeArgument =>
             Take(letter, <<>>, IF Tail(place) = <<>> THEN optind + 1 ELSE optind, Tail(place))
        /\ letter \in Letters /\ letter \in TakeArgument /\ Tail(place) # <<>> =>
             Take(letter, Tail(place), optind + 1, <<>>)
        /\ letter \in Letters /\ letter \in TakeArgument /\ Tail(place) = <<>> =>
             TakeNext(letter)
    BY <1>8 DEF ShortOption
  <2> HIDE DEF letter
  <2>4. CASE letter \notin Letters
    BY <1>1, <2>1, <2>3, <2>4, TakeShortens
  <2>5. CASE letter \in Letters /\ letter \notin TakeArgument
    <3>1. CASE Tail(place) = <<>>
      BY <1>1, <2>1, <2>2, <2>3, <2>5, <3>1, TakeShortens
    <3>2. CASE Tail(place) # <<>>
      BY <1>1, <2>1, <2>3, <2>5, <3>2, TakeShortens
    <3> QED BY <3>1, <3>2
  <2>6. CASE letter \in Letters /\ letter \in TakeArgument
    <3>1. CASE Tail(place) = <<>>
      BY <1>1, <2>1, <2>3, <2>6, <3>1, TakeShortens
    <3>2. CASE Tail(place) # <<>>
      BY <1>1, <2>1, <2>2, <2>3, <2>6, <3>2, TakeShortens
    <3> QED BY <3>1, <3>2
  <2> QED BY <2>4, <2>5, <2>6
<1>9. CASE LongOption
  <2>1. phase = "scan" /\ place # <<>>
    BY <1>9 DEF LongOption
  <2>2. optind + 1 > optind
    BY <1>2
  <2>3. \/ Refuse
        \/ \E letter, value : Take(letter, value, optind + 1, <<>>)
        \/ \E letter : TakeNext(letter)
    BY <1>9 DEF LongOption
  <2> QED BY <1>1, <2>1, <2>2, <2>3, TakeShortens
<1>10. CASE Gcd
  <2>1. /\ phase = "gcd" /\ line' = line /\ optind' = optind /\ perm'.then = perm.then
        /\ \/ phase' = "gcd" /\ perm'.b = perm.a % perm.b
           \/ phase' = "cycles"
    BY <1>10 DEF Gcd, LineInv, LineTypeOK
  <2>2. Stage' = Stage /\ Work = 1 /\ Pieces = perm.b
    BY <2>1 DEF Stage, Work, Pieces
  <2>3. CASE phase' = "gcd" /\ perm'.b = perm.a % perm.b
    <3>1. perm.a % perm.b < perm.b
      BY <2>1, CycleFacts
    <3>2. Work' = 1 /\ Pieces' = perm'.b
      BY <2>3 DEF Work, Pieces
    <3> QED BY <1>1, <2>1, <2>2, <2>3, <3>1, <3>2, Shortens
  <2>4. CASE phase' = "cycles"
    <3>1. Work' = 0
      BY <2>4 DEF Work
    <3>2. Work' < Work
      BY <2>2, <3>1
    <3> QED BY <1>1, <2>1, <2>2, <3>2, Shortens
  <2> QED BY <2>1, <2>3, <2>4
<1>11. CASE Swap
  <2>1. /\ phase = "cycles" /\ phase' = "cycles" /\ line' = line /\ optind' = optind
        /\ perm'.then = perm.then /\ perm'.opt_end = perm.opt_end /\ perm'.b = perm.b
        /\ nonopt_start' = nonopt_start
        /\ \/ perm.j + 1 < cyclelen /\ perm'.i = perm.i /\ perm'.j = perm.j + 1
           \/ perm'.i = perm.i + 1
    BY <1>11 DEF Swap, LineInv, LineTypeOK
  <2>2. /\ Stage' = Stage /\ Work' = Work
        /\ Pieces = perm.b - perm.i /\ Pieces' = perm'.b - perm'.i
    BY <2>1 DEF Stage, Work, Pieces
  <2>3. perm.b \in Nat /\ perm.i \in Nat /\ perm.j \in Nat /\ cyclelen \in Int
        /\ cyclelen' = cyclelen
    <3>1. /\ perm.b \in Nat /\ perm.i \in Nat /\ perm.j \in Nat /\ perm.b > 0
          /\ perm.opt_end \in Int /\ nonopt_start \in Int
      BY <2>1, CycleFacts
    <3> QED BY <2>1, <3>1 DEF cyclelen
  <2>4. CASE perm.j + 1 < cyclelen /\ perm'.i = perm.i /\ perm'.j = perm.j + 1
    <3>1. Pieces' = Pieces
      BY <2>1, <2>2, <2>4
    <3>2. Exchanges' < Exchanges
      BY <2>1, <2>3, <2>4 DEF Exchanges
    <3> QED BY <1>1, <2>1, <2>2, <3>1, <3>2, Shortens
  <2>5. CASE perm'.i = perm.i + 1
    <3>1. Pieces' < Pieces
      BY <2>1, <2>2, <2>3, <2>5
    <3> QED BY <1>1, <2>1, <2>2, <3>1, Shortens
  <2> QED BY <2>1, <2>4, <2>5
<1>12. CASE Permuted
  <2>1. /\ phase = "cycles" /\ line' = line
        /\ \/ perm.then = "operand" /\ phase' = "scan" /\ optind' = optind + 1
           \/ phase' = "parsed"
    BY <1>12 DEF Permuted
  <2>2. CASE perm.then = "operand" /\ phase' = "scan" /\ optind' = optind + 1
    <3>1. Stage' = 2 /\ Stage = 2
      BY <2>1, <2>2 DEF Stage
    <3>2. Stage' = Stage /\ optind < optind'
      BY <1>2, <2>2, <3>1
    <3> QED BY <1>1, <2>1, <3>2, Shortens
  <2>3. CASE phase' = "parsed"
    <3>1. Stage' = 0 /\ Stage \in {1, 2}
      BY <2>1, <2>3 DEF Stage
    <3>2. Stage' < Stage
      BY <3>1
    <3> QED BY <1>1, <2>1, <3>2, Shortens
  <2> QED BY <2>1, <2>2, <2>3
<1> QED BY <1>4, <1>5, <1>6, <1>7, <1>8, <1>9, <1>10, <1>11, <1>12 DEF LineNext

(* For every line, each step of the scan leaves less of it: the loops of   *)
(* pure_getopt_internal, pure_permute_args and pure_gcd come to an end.    *)
THEOREM ScanShortens == LineSpec => [][(<<Left', Left>> \in Shorter)]_lineVars
<1>1. LineInv /\ [LineNext]_lineVars => [(<<Left', Left>> \in Shorter)]_lineVars
  BY StepShortens
<1> QED BY <1>1, LineInvariance, PTL DEF LineSpec
===============================================================================
