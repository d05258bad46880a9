-------------------------- MODULE ConnectorsProofs --------------------------
(***************************************************************************)
(* What holds of the answers of the Modbus, SNMP and OPC-UA connectors,    *)
(* for any devices and requests.                                           *)
(***************************************************************************)
EXTENDS Connectors, SequenceTheorems, FiniteSetTheorems, WellFoundedInduction, TLAPS

(* A set of numbers that is not empty has a least one.                     *)
LEMMA LeastNumber ==
  ASSUME NEW T \in SUBSET Nat, T # {}
  PROVE  Min(T) \in T /\ \A y \in T : Min(T) <= y
<1> DEFINE Less == OpToRel(<, Nat)
<1>1. IsWellFoundedOn(Less, Nat)
  BY NatLessThanWellFounded
<1>2. \A x, y \in Nat : y < x => <<y, x>> \in Less
  <2>1. ASSUME NEW x \in Nat, NEW y \in Nat, y < x
        PROVE  <<y, x>> \in Less
    <3>1. <<y, x>> \in Nat \X Nat
      OBVIOUS
    <3>2. <<y, x>>[1] < <<y, x>>[2]
      BY <2>1
    <3> QED BY <3>1, <3>2, Zenon DEF OpToRel
  <2> QED BY <2>1
<1> HIDE DEF Less
<1>3. PICK x \in T : \A y \in T : ~(<<y, x>> \in Less)
  BY <1>1, WFMin
<1>4. ASSUME NEW y \in T
      PROVE  x <= y
  <2>1. ~(y < x)
    BY <1>2, <1>3
  <2> QED BY <2>1
<1> QED BY <1>4 DEF Min

(* Induction up to a number, for a set in the place of a predicate.        *)
LEMMA Induction ==
  ASSUME NEW m \in Nat, NEW S, 0 \in S, \A k \in 0 .. m - 1 : k \in S => k + 1 \in S
  PROVE  \A k \in 0 .. m : k \in S
<1> DEFINE T == {k \in 0 .. m : k \notin S}
<1> SUFFICES ASSUME T # {}
             PROVE  FALSE
  OBVIOUS
<1>1. T \in SUBSET Nat
  OBVIOUS
<1> DEFINE x == Min(T)
<1>2. x \in T /\ \A y \in T : x <= y
  <2> HIDE DEF T
  <2> QED BY <1>1, LeastNumber
<1> HIDE DEF x
<1>3. x \in 0 .. m /\ x # 0 /\ x - 1 \in 0 .. m - 1
  BY <1>2
<1>4. x - 1 \in S
  <2>1. x - 1 \notin T
    BY <1>2, <1>3
  <2> QED BY <1>3, <2>1
<1>5. x - 1 + 1 = x
  BY <1>3
<1> QED BY <1>2, <1>3, <1>4, <1>5

LEMMA GreatestNumber ==
  ASSUME NEW T \in SUBSET Nat, T # {}, NEW m \in Nat, \A x \in T : x <= m
  PROVE  Max(T) \in T /\ \A y \in T : y <= Max(T)
<1> DEFINE U == {u \in Nat : \A x \in T : x <= u}
           u == Min(U)
<1>1. U \in SUBSET Nat /\ U # {}
  OBVIOUS
<1>2. u \in U /\ \A y \in U : u <= y
  <2> HIDE DEF U
  <2> QED BY <1>1, LeastNumber
<1> HIDE DEF u
<1>3. u \in T
  <2> SUFFICES ASSUME u \notin T
               PROVE  FALSE
    OBVIOUS
  <2>1. \A x \in T : x \in Nat /\ x <= u /\ x # u
    BY <1>2
  <2>2. u # 0
    <3>1. PICK x \in T : TRUE
      OBVIOUS
    <3> QED BY <1>2, <2>1, <3>1
  <2>3. u - 1 \in Nat /\ \A x \in T : x <= u - 1
    BY <1>2, <2>1, <2>2
  <2>4. u - 1 \in U
    BY <2>3
  <2> QED BY <1>2, <2>4
<1>4. u \in Nat /\ \A y \in T : u >= y
  BY <1>2
<1> HIDE DEF U
<1> QED BY <1>3, <1>4 DEF Max

-----------------------------------------------------------------------------
(* Bits and bytes                                                          *)

LEMMA DivFacts ==
  ASSUME NEW i \in Nat, NEW b \in Nat \ {0}
  PROVE  /\ i \div b \in Nat /\ i % b \in 0 .. b - 1
         /\ i = (i \div b) * b + (i % b)
<1>1. i \div b \in Int
  OBVIOUS
<1>2. i \div b >= 0
  OBVIOUS
<1>3. i % b \in Int
  OBVIOUS
<1>4. i % b >= 0
  OBVIOUS
<1>5. i % b < b
  OBVIOUS
<1>6. i = b * (i \div b) + (i % b)
  OBVIOUS
<1> DEFINE d == i \div b
           r == i % b
<1>7. d \in Nat /\ r \in 0 .. b - 1
  BY <1>1, <1>2, <1>3, <1>4, <1>5
<1>8. i = b * d + r
  BY <1>6
<1> HIDE DEF d, r
<1>9. i = d * b + r
  BY <1>7, <1>8
<1> QED BY <1>7, <1>9 DEF d, r

LEMMA CeilFacts ==
  ASSUME NEW n \in Nat, NEW b \in Nat \ {0}
  PROVE  /\ CeilDiv(n, b) \in Nat
         /\ n <= CeilDiv(n, b) * b
         /\ \A k \in Nat : k * b < n => k + 1 \in 1 .. CeilDiv(n, b)
<1> DEFINE m == n + b - 1
           d == m \div b
           r == m % b
<1>1. m \in Nat
  OBVIOUS
<1> HIDE DEF m
<1>2. d \in Nat /\ r \in 0 .. b - 1 /\ m = d * b + r
  BY <1>1, DivFacts
<1>3. CeilDiv(n, b) = d
  BY DEF CeilDiv, m
<1> HIDE DEF d, r
<1>4. n <= d * b
  BY <1>2 DEF m
<1>5. ASSUME NEW k \in Nat, k * b < n
      PROVE  k + 1 \in 1 .. d
  <2>1. k * b < d * b
    BY <1>2, <1>4, <1>5
  <2>2. k < d
    BY <1>2, <2>1
  <2> QED BY <1>2, <2>2
<1> QED BY <1>2, <1>3, <1>4, <1>5

Byte == [Places -> {0, 1}]

LEMMA DigitsFacts ==
  ASSUME NEW byte \in Byte
  PROVE  LET d == Digits(byte)
         IN /\ d \in Seq({0, 1}) /\ Len(d) \in 0 .. ByteBits
            /\ \A i \in 1 .. Len(d) : d[i] = byte[i - 1]
            /\ \A i \in Len(d) .. ByteBits - 1 : byte[i] = 0
            /\ Len(d) # 0 => byte[Len(d) - 1] = 1
<1> DEFINE set == {i \in Places : byte[i] = 1}
           n == IF set = {} THEN 0 ELSE Max(set) + 1
           d == Digits(byte)
<1>0. ByteBits \in Nat \ {0} /\ Places = 0 .. ByteBits - 1
  BY DeviceAssumption DEF Places
<1>1. /\ n \in 0 .. ByteBits
      /\ \A i \in n .. ByteBits - 1 : byte[i] = 0
      /\ n # 0 => byte[n - 1] = 1
  <2>1. CASE set = {}
    <3>1. n = 0
      BY <2>1
    <3>2. \A i \in Places : byte[i] = 0
      BY <2>1 DEF Byte
    <3> QED BY <1>0, <3>1, <3>2
  <2>2. CASE set # {}
    <3> DEFINE x == Max(set)
    <3>1. set \in SUBSET Nat /\ ByteBits \in Nat /\ \A i \in set : i <= ByteBits
      BY <1>0
    <3>2. x \in set /\ \A y \in set : y <= x
      <4> HIDE DEF set
      <4> QED BY <2>2, <3>1, GreatestNumber
    <3>3. n = x + 1
      BY <2>2
    <3> HIDE DEF x, n
    <3>4. x \in 0 .. ByteBits - 1 /\ byte[x] = 1 /\ n - 1 = x
      BY <1>0, <3>2, <3>3
    <3>5. ASSUME NEW i \in n .. ByteBits - 1
          PROVE  byte[i] = 0
      <4>1. i \in Places /\ ~(i <= x)
        BY <1>0, <3>3, <3>4
      <4>2. i \notin set
        BY <3>2, <4>1
      <4> QED BY <4>1, <4>2 DEF Byte
    <3> QED BY <1>0, <3>3, <3>4, <3>5
  <2> QED BY <2>1, <2>2
<1>2. d = [i \in 1 .. n |-> byte[i - 1]]
  BY DEF Digits
<1> HIDE DEF d, n
<1>3. \A i \in 1 .. n : i - 1 \in Places
  BY <1>0, <1>1
<1>4. d \in Seq({0, 1}) /\ Len(d) = n /\ \A i \in 1 .. n : d[i] = byte[i - 1]
  <2>1. d \in [1 .. n -> {0, 1}] /\ n \in Nat
    BY <1>1, <1>2, <1>3 DEF Byte
  <2> QED BY <1>2, <2>1
<1> QED BY <1>1, <1>4 DEF d

(* The digits of the bytes are strung together byte by byte.               *)
LEMMA StrungFacts ==
  ASSUME NEW bytes \in Seq(Byte), NEW n \in 0 .. Len(bytes)
  PROVE  \E f : /\ f = [k \in 0 .. n |-> IF k = 0 THEN <<>>
                                          ELSE f[k - 1] \o Digits(bytes[k])]
                /\ Strung(bytes, n) = f[n]
<1> DEFINE Good(m, f) ==
             f = [k \in 0 .. m |-> IF k = 0 THEN <<>> ELSE f[k - 1] \o Digits(bytes[k])]
           S == {m \in 0 .. n : \E f : Good(m, f)}
<1>1. 0 \in S
  <2> DEFINE f == [k \in 0 .. 0 |-> <<>>]
  <2>1. Good(0, f)
    OBVIOUS
  <2> HIDE DEF f, Good
  <2> QED BY <2>1
<1>2. ASSUME NEW m \in 0 .. n - 1, m \in S
      PROVE  m + 1 \in S
  <2>1. PICK f : Good(m, f)
    BY <1>2
  <2> DEFINE g == [k \in 0 .. m + 1 |-> IF k = m + 1 THEN f[m] \o Digits(bytes[m + 1])
                                        ELSE f[k]]
  <2>2. \A k \in 0 .. m : f[k] = IF k = 0 THEN <<>> ELSE f[k - 1] \o Digits(bytes[k])
    BY <2>1
  <2>3. \A k \in 0 .. m : g[k] = f[k]
    OBVIOUS
  <2>4. ASSUME NEW k \in 0 .. m + 1
        PROVE  g[k] = IF k = 0 THEN <<>> ELSE g[k - 1] \o Digits(bytes[k])
    <3>1. CASE k = m + 1
      <4>1. k # 0 /\ k - 1 = m /\ m \in 0 .. m
        BY <3>1
      <4> QED BY <2>3, <3>1, <4>1
    <3>2. CASE k # m + 1
      <4>1. k \in 0 .. m /\ (k # 0 => k - 1 \in 0 .. m)
        BY <3>2
      <4> HIDE DEF g
      <4> QED BY <2>2, <2>3, <4>1
    <3> QED BY <3>1, <3>2
  <2>5. Good(m + 1, g)
    <3>1. g = [k \in 0 .. m + 1 |-> g[k]]
      OBVIOUS
    <3> HIDE DEF g
    <3> QED BY <2>4, <3>1
  <2>6. m + 1 \in 0 .. n
    OBVIOUS
  <2> HIDE DEF Good, g
  <2> QED BY <2>5, <2>6
<1>3. n \in S
  <2>1. n \in Nat /\ n \in 0 .. n
    OBVIOUS
  <2> HIDE DEF S
  <2> QED BY <1>1, <1>2, <2>1, Induction
<1> DEFINE u == CHOOSE f : Good(n, f)
<1>4. Good(n, u)
  <2> HIDE DEF Good
  <2> QED BY <1>3, Zenon
<1>5. Strung(bytes, n) = u[n]
  BY DEF Strung
<1> QED BY <1>4, <1>5

(* The bits c that bytes hold, the lowest place of the first byte first.   *)
At(s, i) == IF i <= Len(s) THEN s[i] ELSE 0

Full(c, k) == \A j \in 1 .. k : c[j * ByteBits] = 1

InOrder(c, k) ==
  \A i \in 1 .. k * ByteBits, j \in 1 .. k :
     c[i] = 1 /\ j * ByteBits < i => c[j * ByteBits] = 1

(* What the digits s of the first k bytes have to do with their bits.      *)
StringInv(c, s, k) ==
  /\ s \in Seq({0, 1}) /\ Len(s) <= k * ByteBits
  /\ Full(c, k) => Len(s) = k * ByteBits /\ \A i \in 1 .. k * ByteBits : s[i] = c[i]
  /\ ~Full(c, k) => Len(s) < k * ByteBits
  /\ Len(s) # 0 => \E i \in 1 .. k * ByteBits : Len(s) <= i /\ c[i] = 1
  /\ (\A i \in 1 .. k * ByteBits : c[i] = At(s, i)) <=> InOrder(c, k)

LEMMA StringStep ==
  ASSUME NEW c \in [Nat -> {0, 1}], NEW k \in Nat, NEW s, StringInv(c, s, k),
         NEW byte \in Byte, \A i \in Places : byte[i] = c[k * ByteBits + i + 1]
  PROVE  StringInv(c, s \o Digits(byte), k + 1)
<1> DEFINE B == ByteBits
           p == k * B
           q == (k + 1) * B
           d == Digits(byte)
           t == s \o d
<1>1. B \in Nat \ {0} /\ p \in Nat /\ q = p + B /\ Places = 0 .. B - 1
  BY DeviceAssumption DEF Places
<1>2. /\ s \in Seq({0, 1}) /\ Len(s) <= p /\ Len(s) \in Nat
      /\ Full(c, k) => Len(s) = p /\ \A i \in 1 .. p : s[i] = c[i]
      /\ ~Full(c, k) => Len(s) < p
      /\ Len(s) # 0 => \E i \in 1 .. p : Len(s) <= i /\ c[i] = 1
      /\ (\A i \in 1 .. p : c[i] = At(s, i)) <=> InOrder(c, k)
  BY DEF StringInv
<1>3. /\ d \in Seq({0, 1}) /\ Len(d) \in 0 .. B
      /\ \A i \in 1 .. Len(d) : d[i] = byte[i - 1]
      /\ \A i \in Len(d) .. B - 1 : byte[i] = 0
      /\ Len(d) # 0 => byte[Len(d) - 1] = 1
  BY DigitsFacts
<1>4. \A i \in 0 .. B - 1 : byte[i] = c[p + i + 1]
  BY <1>1
<1>5. \A j \in 1 .. k : j * B \in 1 .. p
  <2>1. ASSUME NEW j \in 1 .. k
        PROVE  j * B \in 1 .. p
    <3>1. B <= j * B
      BY <1>1
    <3>2. j * B <= k * B
      BY <1>1
    <3> QED BY <1>1, <3>1, <3>2
  <2> QED BY <2>1
<1>6. c[q] = 1 <=> Len(d) = B
  <2>1. q = p + (B - 1) + 1 /\ B - 1 \in 0 .. B - 1
    BY <1>1
  <2>2. c[q] = byte[B - 1]
    BY <1>4, <2>1
  <2>3. CASE Len(d) = B
    <3>1. byte[B - 1] = 1
      BY <1>1, <1>3, <2>3
    <3> QED BY <2>2, <2>3, <3>1
  <2>4. CASE Len(d) # B
    <3>1. B - 1 \in Len(d) .. B - 1
      BY <1>1, <1>3, <2>4
    <3>2. byte[B - 1] = 0
      BY <1>3, <3>1
    <3> QED BY <2>2, <2>4, <3>2
  <2> QED BY <2>3, <2>4
<1>7. Full(c, k + 1) <=> Full(c, k) /\ c[q] = 1
  <2>1. \A j \in 1 .. k + 1 : j \in 1 .. k \/ j = k + 1
    OBVIOUS
  <2>2. \A j \in 1 .. k : j \in 1 .. k + 1
    OBVIOUS
  <2>3. k + 1 \in 1 .. k + 1
    OBVIOUS
  <2> QED BY <2>1, <2>2, <2>3 DEF Full
<1> HIDE DEF B, p, q, d
<1>8. /\ t \in Seq({0, 1}) /\ Len(t) = Len(s) + Len(d)
      /\ \A i \in 1 .. Len(s) + Len(d) :
            t[i] = IF i <= Len(s) THEN s[i] ELSE d[i - Len(s)]
  BY <1>2, <1>3, ConcatProperties
<1> HIDE DEF t
<1>9. \A i \in 1 .. q : i \in 1 .. p \/ (i - p \in 1 .. B /\ i = p + (i - p - 1) + 1)
  BY <1>1
<1>10. \A i \in p + 1 .. q : c[i] = IF i <= p + Len(d) THEN d[i - p] ELSE 0
  <2>1. ASSUME NEW i \in p + 1 .. q
        PROVE  c[i] = IF i <= p + Len(d) THEN d[i - p] ELSE 0
    <3>1. i - p - 1 \in 0 .. B - 1 /\ p + (i - p - 1) + 1 = i
      BY <1>1
    <3>2. c[i] = byte[i - p - 1]
      BY <1>4, <3>1
    <3>3. CASE i <= p + Len(d)
      <4>1. i - p \in 1 .. Len(d) /\ (i - p) - 1 = i - p - 1
        BY <1>1, <1>3, <3>3
      <4> QED BY <1>3, <3>2, <3>3, <4>1
    <3>4. CASE ~(i <= p + Len(d))
      <4>1. i - p - 1 \in Len(d) .. B - 1
        BY <1>1, <1>3, <3>1, <3>4
      <4> QED BY <1>3, <3>2, <3>4, <4>1
    <3> QED BY <3>3, <3>4
  <2> QED BY <2>1
<1>11. /\ Len(t) <= q
       /\ Full(c, k + 1) => Len(t) = q /\ \A i \in 1 .. q : t[i] = c[i]
       /\ ~Full(c, k + 1) => Len(t) < q
  <2>1. Len(t) <= q
    BY <1>1, <1>2, <1>3, <1>8
  <2>2. ASSUME Full(c, k + 1)
        PROVE  Len(t) = q /\ \A i \in 1 .. q : t[i] = c[i]
    <3>1. Full(c, k) /\ Len(s) = p /\ Len(d) = B
      BY <1>2, <1>6, <1>7, <2>2
    <3>2. Len(t) = q
      BY <1>1, <1>8, <3>1
    <3>3. ASSUME NEW i \in 1 .. q
          PROVE  t[i] = c[i]
      <4>1. CASE i <= p
        <5>1. i \in 1 .. p /\ i \in 1 .. Len(s) + Len(d)
          BY <1>1, <3>1, <4>1
        <5> QED BY <1>2, <1>8, <3>1, <4>1, <5>1
      <4>2. CASE ~(i <= p)
        <5>1. i \in p + 1 .. q /\ i <= p + Len(d) /\ i \in 1 .. Len(s) + Len(d)
          BY <1>1, <3>1, <4>2
        <5> QED BY <1>8, <1>10, <3>1, <4>2, <5>1
      <4> QED BY <4>1, <4>2
    <3> QED BY <3>2, <3>3
  <2>3. ASSUME ~Full(c, k + 1)
        PROVE  Len(t) < q
    <3>1. Len(s) < p \/ Len(d) < B
      BY <1>1, <1>2, <1>3, <1>6, <1>7, <2>3
    <3> QED BY <1>1, <1>2, <1>3, <1>8, <3>1
  <2> QED BY <2>1, <2>2, <2>3
<1>12. ASSUME Len(d) = 0
       PROVE  /\ t = s /\ \A i \in p + 1 .. q : c[i] = 0
              /\ InOrder(c, k + 1) <=> InOrder(c, k)
  <2>1. t = s
    BY <1>2, <1>8, <1>12, SeqEqual
  <2>2. \A i \in p + 1 .. q : c[i] = 0
    BY <1>1, <1>10, <1>12
  <2>3. /\ \A i \in 1 .. q : i \in 1 .. p \/ c[i] = 0
        /\ \A i \in 1 .. p : i \in 1 .. q
        /\ \A j \in 1 .. k + 1 : j \in 1 .. k \/ (j = k + 1 /\ \A i \in 1 .. q : ~(j * B < i))
        /\ \A j \in 1 .. k : j \in 1 .. k + 1
    <3>1. \A i \in 1 .. q : i \in 1 .. p \/ i \in p + 1 .. q
      BY <1>1
    <3>2. (k + 1) * B = q
      BY DEF q, B
    <3> QED BY <1>1, <2>2, <3>1, <3>2
  <2>4. k * ByteBits = p /\ (k + 1) * ByteBits = q /\ B = ByteBits
    BY DEF p, q, B
  <2>5. InOrder(c, k) => InOrder(c, k + 1)
    <3> SUFFICES ASSUME InOrder(c, k),
                        NEW i \in 1 .. q, NEW j \in 1 .. k + 1, c[i] = 1, j * B < i
                 PROVE  c[j * B] = 1
      BY <2>4 DEF InOrder
    <3>1. i \in 1 .. p /\ j \in 1 .. k
      BY <2>3
    <3> QED BY <2>4, <3>1 DEF InOrder
  <2>6. InOrder(c, k + 1) => InOrder(c, k)
    <3> SUFFICES ASSUME InOrder(c, k + 1),
                        NEW i \in 1 .. p, NEW j \in 1 .. k, c[i] = 1, j * B < i
                 PROVE  c[j * B] = 1
      BY <2>4 DEF InOrder
    <3>1. i \in 1 .. q /\ j \in 1 .. k + 1
      BY <2>3
    <3> QED BY <2>4, <3>1 DEF InOrder
  <2> QED BY <2>1, <2>2, <2>5, <2>6
<1>13. ASSUME Len(d) # 0
       PROVE  p + Len(d) \in 1 .. q /\ c[p + Len(d)] = 1
  <2>1. p + Len(d) \in p + 1 .. q
    BY <1>1, <1>3, <1>13
  <2>2. c[p + Len(d)] = d[p + Len(d) - p]
    BY <1>1, <1>3, <1>10, <2>1
  <2>3. p + Len(d) - p = Len(d) /\ Len(d) \in 1 .. Len(d)
    BY <1>1, <1>3, <1>13
  <2> QED BY <1>1, <1>3, <1>13, <2>1, <2>2, <2>3
<1>14. Len(t) # 0 => \E i \in 1 .. q : Len(t) <= i /\ c[i] = 1
  <2>1. CASE Len(d) = 0
    <3>1. \A i \in 1 .. p : i \in 1 .. q
      BY <1>1
    <3> QED BY <1>2, <1>12, <2>1, <3>1
  <2>2. CASE Len(d) # 0
    <3>1. Len(t) <= p + Len(d)
      BY <1>1, <1>2, <1>3, <1>8
    <3> QED BY <1>13, <2>2, <3>1
  <2> QED BY <2>1, <2>2
<1>15. (\A i \in 1 .. q : c[i] = At(t, i)) <=> InOrder(c, k + 1)
  <2>1. CASE Len(d) = 0
    <3>1. (\A i \in 1 .. q : c[i] = At(s, i)) <=> \A i \in 1 .. p : c[i] = At(s, i)
      <4>1. \A i \in p + 1 .. q : c[i] = 0 /\ At(s, i) = 0
        <5>1. \A i \in p + 1 .. q : ~(i <= Len(s))
          BY <1>1, <1>2
        <5> QED BY <1>12, <2>1, <5>1 DEF At
      <4>2. \A i \in 1 .. q : i \in 1 .. p \/ i \in p + 1 .. q
        BY <1>1
      <4>3. \A i \in 1 .. p : i \in 1 .. q
        BY <1>1
      <4> QED BY <4>1, <4>2, <4>3
    <3> QED BY <1>2, <1>12, <2>1, <3>1
  <2>2. CASE Len(d) # 0 /\ Full(c, k)
    <3>1. \A i \in 1 .. q : c[i] = At(t, i)
      <4>1. ASSUME NEW i \in 1 .. q
            PROVE  c[i] = At(t, i)
        <5>0. Len(s) = p /\ Len(t) = p + Len(d)
          BY <1>2, <1>8, <2>2
        <5>1. CASE i <= p
          <6>1. i \in 1 .. p /\ i <= Len(t) /\ i \in 1 .. Len(s) + Len(d)
            BY <1>1, <1>3, <5>0, <5>1
          <6> QED BY <1>2, <1>8, <2>2, <5>0, <5>1, <6>1 DEF At
        <5>2. CASE ~(i <= p)
          <6>1. i \in p + 1 .. q
            BY <1>1, <5>2
          <6>2. CASE i <= p + Len(d)
            <7>1. i \in 1 .. Len(s) + Len(d)
              BY <5>0, <6>2
            <7> QED BY <1>8, <1>10, <5>0, <5>2, <6>1, <6>2, <7>1 DEF At
          <6>3. CASE ~(i <= p + Len(d))
            BY <1>10, <5>0, <6>1, <6>3 DEF At
          <6> QED BY <6>2, <6>3
        <5> QED BY <5>1, <5>2
      <4> QED BY <4>1
    <3>2. InOrder(c, k + 1)
      <4> SUFFICES ASSUME NEW i \in 1 .. (k + 1) * ByteBits, NEW j \in 1 .. k + 1,
                          c[i] = 1, j * ByteBits < i
                   PROVE  c[j * ByteBits] = 1
        BY DEF InOrder
      <4>1. j # k + 1
        <5>1. ~((k + 1) * ByteBits < i)
          BY <1>1 DEF q, B
        <5> QED BY <5>1
      <4>2. j \in 1 .. k
        BY <4>1
      <4> QED BY <2>2, <4>2 DEF Full
    <3> QED BY <3>1, <3>2
  <2>3. CASE Len(d) # 0 /\ ~Full(c, k)
    <3>1. ~(\A i \in 1 .. q : c[i] = At(t, i))
      <4>1. ~(p + Len(d) <= Len(t))
        BY <1>1, <1>2, <1>3, <1>8, <2>3
      <4>2. At(t, p + Len(d)) = 0
        BY <4>1 DEF At
      <4> QED BY <1>13, <2>3, <4>2
    <3>2. ~InOrder(c, k + 1)
      <4>1. PICK j \in 1 .. k : c[j * ByteBits] # 1
        BY <2>3 DEF Full
      <4>2. j * ByteBits \in 1 .. p /\ j \in 1 .. k + 1
        BY <1>5 DEF B
      <4>3. p + Len(d) \in 1 .. (k + 1) * ByteBits /\ j * ByteBits < p + Len(d)
        BY <1>1, <1>3, <1>13, <2>3, <4>2 DEF q, B
      <4> QED BY <1>13, <2>3, <4>1, <4>2, <4>3 DEF InOrder
    <3> QED BY <3>1, <3>2
  <2> QED BY <2>1, <2>2, <2>3
<1> QED BY <1>8, <1>11, <1>14, <1>15 DEF StringInv, t, d, q, B

Holds(bytes, table, first, n) ==
  /\ bytes \in Seq(Byte) /\ Len(bytes) = CeilDiv(n, ByteBits)
  /\ \A k \in 1 .. CeilDiv(n, ByteBits) : \A i \in Places :
        bytes[k][i] = IF (k - 1) * ByteBits + i < n
                      THEN table[first + (k - 1) * ByteBits + i] ELSE 0

LEMMA PackedFacts ==
  ASSUME NEW table \in [0 .. Bits - 1 -> {0, 1}], NEW first \in Nat, NEW n \in Nat,
         first + n <= Bits
  PROVE  Holds(Packed(table, first, n), table, first, n)
<1> DEFINE bytes == Packed(table, first, n)
           K == CeilDiv(n, ByteBits)
           byte(k) == [i \in Places |->
              IF (k - 1) * ByteBits + i < n THEN table[first + (k - 1) * ByteBits + i] ELSE 0]
<1>1. ByteBits \in Nat \ {0} /\ Bits \in Nat /\ K \in Nat /\ Places = 0 .. ByteBits - 1
  BY DeviceAssumption, CeilFacts DEF Places
<1>2. bytes = [k \in 1 .. K |-> byte(k)]
  BY DEF Packed
<1>3. ASSUME NEW k \in 1 .. K
      PROVE  byte(k) \in Byte
  <2>1. ASSUME NEW i \in Places, (k - 1) * ByteBits + i < n
        PROVE  table[first + (k - 1) * ByteBits + i] \in {0, 1}
    <3>1. (k - 1) * ByteBits \in Nat
      BY <1>1
    <3>2. first + (k - 1) * ByteBits + i \in 0 .. Bits - 1
      BY <1>1, <2>1, <3>1
    <3> QED BY <3>2
  <2> QED BY <2>1 DEF Byte
<1> HIDE DEF K, bytes, byte
<1>4. bytes \in Seq(Byte) /\ Len(bytes) = K /\ \A k \in 1 .. K : bytes[k] = byte(k)
  <2>1. bytes \in [1 .. K -> Byte]
    BY <1>2, <1>3
  <2> QED BY <1>1, <1>2, <2>1
<1> QED BY <1>4 DEF bytes, K, byte, Holds

LEMMA NoDigits ==
  ASSUME NEW c \in [Nat -> {0, 1}]
  PROVE  StringInv(c, <<>>, 0)
<1>1. 0 * ByteBits = 0
  BY DeviceAssumption
<1>2. <<>> \in Seq({0, 1}) /\ Len(<<>>) = 0
  OBVIOUS
<1>3. Full(c, 0) /\ InOrder(c, 0)
  BY <1>1 DEF Full, InOrder
<1> QED BY <1>1, <1>2, <1>3 DEF StringInv

(* The bits of coils that are read are right if and only if every byte     *)
(* before a set bit has its highest bit set.                               *)
LEMMA CoilsRead ==
  ASSUME NEW table \in [0 .. Bits - 1 -> {0, 1}], NEW first \in Nat, NEW n \in Nat,
         first + n <= Bits
  PROVE  LET cells == [i \in 1 .. n |-> table[first + i - 1]]
         IN (ByteToBits(Packed(table, first, n), n) = cells)
               <=> \A i, k \in 1 .. n :
                      (i <= n /\ cells[i] = 1) /\ k * ByteBits < i
                         => k * ByteBits <= n /\ cells[k * ByteBits] = 1
<1> DEFINE cells == [i \in 1 .. n |-> table[first + i - 1]]
           c == [i \in Nat |-> IF i \in 1 .. n THEN table[first + i - 1] ELSE 0]
           bytes == Packed(table, first, n)
           K == CeilDiv(n, ByteBits)
           B == ByteBits
<1>1. /\ B \in Nat \ {0} /\ Bits \in Nat /\ K \in Nat /\ n <= K * B
      /\ \A k \in Nat : k * B < n => k + 1 \in 1 .. K
      /\ Places = 0 .. B - 1
  BY DeviceAssumption, CeilFacts DEF Places
<1>2. /\ bytes \in Seq(Byte) /\ Len(bytes) = K
      /\ \A k \in 1 .. K : \A i \in Places :
            bytes[k][i] = IF (k - 1) * B + i < n THEN table[first + (k - 1) * B + i] ELSE 0
  <2>1. Holds(bytes, table, first, n)
    BY PackedFacts
  <2> HIDE DEF bytes
  <2> QED BY <2>1 DEF Holds
<1>3. /\ c \in [Nat -> {0, 1}] /\ \A i \in 1 .. n : c[i] = cells[i]
      /\ \A i \in Nat : i > n => c[i] = 0
      /\ \A i \in 1 .. n : c[i] = table[first + i - 1]
  <2>1. \A i \in 1 .. n : table[first + i - 1] \in {0, 1}
    <3>1. \A i \in 1 .. n : first + i - 1 \in 0 .. Bits - 1
      BY <1>1
    <3> QED BY <3>1
  <2>2. \A i \in Nat : c[i] = IF i \in 1 .. n THEN table[first + i - 1] ELSE 0
    OBVIOUS
  <2>3. c \in [Nat -> {0, 1}]
    BY <2>1
  <2>4. \A i \in 1 .. n : cells[i] = table[first + i - 1]
    OBVIOUS
  <2> HIDE DEF c, cells
  <2> QED BY <2>2, <2>3, <2>4
<1> HIDE DEF bytes, K, c, cells
<1>4. ASSUME NEW k \in 0 .. K - 1, NEW i \in Places
      PROVE  bytes[k + 1][i] = c[k * B + i + 1]
  <2> DEFINE p == k * B
  <2>1. p \in Nat /\ k + 1 \in 1 .. K /\ (k + 1) - 1 = k /\ i \in Nat
    BY <1>1
  <2>2. bytes[k + 1][i] = IF p + i < n THEN table[first + p + i] ELSE 0
    BY <1>2, <2>1
  <2> HIDE DEF p
  <2>3. CASE p + i < n
    <3>1. p + i + 1 \in 1 .. n /\ first + (p + i + 1) - 1 = first + p + i
      BY <2>1, <2>3
    <3>2. c[p + i + 1] = table[first + (p + i + 1) - 1]
      BY <1>3, <3>1
    <3> QED BY <2>2, <2>3, <3>1, <3>2 DEF p
  <2>4. CASE ~(p + i < n)
    <3>1. p + i + 1 \in Nat /\ p + i + 1 > n
      BY <2>1, <2>4
    <3> QED BY <1>3, <2>2, <2>4, <3>1 DEF p
  <2> QED BY <2>3, <2>4
<1>5. PICK f : /\ f = [k \in 0 .. K |-> IF k = 0 THEN <<>> ELSE f[k - 1] \o Digits(bytes[k])]
               /\ Strung(bytes, K) = f[K]
  <2>1. K \in 0 .. Len(bytes)
    BY <1>1, <1>2
  <2> QED BY <1>2, <2>1, StrungFacts
<1>6. \A k \in 0 .. K : StringInv(c, f[k], k)
  <2> DEFINE S == {k \in 0 .. K : StringInv(c, f[k], k)}
  <2>1. 0 \in S
    <3>1. f[0] = <<>> /\ 0 \in 0 .. K
      BY <1>1, <1>5
    <3> QED BY <1>3, <3>1, NoDigits
  <2>2. ASSUME NEW k \in 0 .. K - 1, k \in S
        PROVE  k + 1 \in S
    <3>1. k + 1 \in 0 .. K /\ k + 1 \in 1 .. K /\ k + 1 # 0 /\ (k + 1) - 1 = k /\ k \in Nat
      BY <1>1
    <3>2. f[k + 1] = f[k] \o Digits(bytes[k + 1])
      BY <1>5, <3>1
    <3>3. bytes[k + 1] \in Byte
      BY <1>2, <3>1
    <3>4. \A i \in Places : bytes[k + 1][i] = c[k * B + i + 1]
      BY <1>4
    <3>5. StringInv(c, f[k], k)
      BY <2>2
    <3>6. StringInv(c, f[k] \o Digits(bytes[k + 1]), k + 1)
      BY <1>3, <3>1, <3>3, <3>4, <3>5, StringStep
    <3> QED BY <3>1, <3>2, <3>6
  <2>3. \A k \in 0 .. K : k \in S
    <3> HIDE DEF S
    <3> QED BY <1>1, <2>1, <2>2, Induction
  <2> QED BY <2>3
<1> DEFINE s == f[K]
<1>7. /\ s \in Seq({0, 1}) /\ Len(s) \in Nat
      /\ Len(s) # 0 => \E i \in 1 .. K * B : Len(s) <= i /\ c[i] = 1
      /\ (\A i \in 1 .. K * B : c[i] = At(s, i)) <=> InOrder(c, K)
  <2>1. StringInv(c, s, K)
    BY <1>1, <1>6
  <2> HIDE DEF s
  <2> QED BY <2>1 DEF StringInv
<1> HIDE DEF s
<1>8. ByteToBits(bytes, n) = [i \in 1 .. n |-> At(s, i)]
  BY <1>2, <1>5 DEF ByteToBits, At, s
<1>9. (ByteToBits(bytes, n) = cells) <=> \A i \in 1 .. n : c[i] = At(s, i)
  <2>1. cells = [i \in 1 .. n |-> c[i]]
    BY <1>3 DEF cells
  <2> QED BY <1>8, <2>1
<1>10. (\A i \in 1 .. n : c[i] = At(s, i)) <=> \A i \in 1 .. K * B : c[i] = At(s, i)
  <2> DEFINE q == K * B
  <2>0. q \in Nat /\ n <= q
    BY <1>1
  <2>1. Len(s) <= n
    <3>1. \A i \in 1 .. q : c[i] = 1 => i <= n
      BY <1>3, <2>0
    <3> QED BY <1>7, <3>1
  <2> HIDE DEF q
  <2>2. \A i \in 1 .. q : i > n => c[i] = 0 /\ At(s, i) = 0
    BY <1>3, <1>7, <2>0, <2>1 DEF At
  <2>3. (\A i \in 1 .. n : i \in 1 .. q) /\ \A i \in 1 .. q : i > n \/ i \in 1 .. n
    BY <2>0
  <2> QED BY <2>2, <2>3 DEF q
<1> DEFINE Ordered == \A i, k \in 1 .. n :
                         (i <= n /\ cells[i] = 1) /\ k * B < i
                            => k * B <= n /\ cells[k * B] = 1
<1>11. ASSUME InOrder(c, K)
       PROVE  Ordered
  <2> SUFFICES ASSUME NEW i \in 1 .. n, NEW k \in 1 .. n, cells[i] = 1, k * B < i
               PROVE  k * B <= n /\ cells[k * B] = 1
    OBVIOUS
  <2>1. k * B \in 1 .. n /\ k * B < n
    <3>1. k * B \in Nat /\ 1 <= k * B
      BY <1>1
    <3> DEFINE x == k * B
    <3> HIDE DEF x
    <3>2. x \in Nat /\ 1 <= x /\ x < i
      BY <3>1 DEF x
    <3>3. x \in 1 .. n /\ x < n
      BY <3>2
    <3> QED BY <3>3 DEF x
  <2>2. k \in 1 .. K
    <3>1. k + 1 \in 1 .. K /\ k \in Nat /\ 1 <= k /\ K \in Nat
      BY <1>1, <2>1
    <3> QED BY <3>1
  <2>3. i \in 1 .. K * B /\ c[i] = 1
    <3>1. i <= K * B /\ K * B \in Nat
      BY <1>1
    <3> QED BY <1>3, <3>1
  <2>4. c[k * B] = 1
    BY <1>11, <2>2, <2>3 DEF InOrder
  <2> QED BY <1>3, <2>1, <2>4
<1>12. ASSUME Ordered
       PROVE  InOrder(c, K)
  <2> SUFFICES ASSUME NEW i \in 1 .. K * ByteBits, NEW k \in 1 .. K, c[i] = 1, k * ByteBits < i
               PROVE  c[k * ByteBits] = 1
    BY DEF InOrder
  <2>1. i \in 1 .. n
    <3>1. K * ByteBits \in Nat
      BY <1>1
    <3> QED BY <1>3, <3>1
  <2>2. k * B \in 1 .. n /\ k \in 1 .. n
    <3>1. k <= k * B
      BY <1>1
    <3>2. k * B \in Nat
      BY <1>1
    <3> QED BY <2>1, <3>1, <3>2
  <2>3. cells[i] = 1
    BY <1>3, <2>1
  <2>4. cells[k * B] = 1
    BY <1>12, <2>1, <2>2, <2>3
  <2> QED BY <1>3, <2>2, <2>4
<1> HIDE DEF Ordered
<1>13. (ByteToBits(bytes, n) = cells) <=> Ordered
  BY <1>7, <1>9, <1>10, <1>11, <1>12
<1> QED BY <1>13 DEF Ordered, bytes, cells

(* Discrete inputs come as words, the higher byte of which came first.     *)
LEMMA DiscreteRead ==
  ASSUME NEW table \in [0 .. Bits - 1 -> {0, 1}], NEW first \in Nat, NEW n \in Nat,
         first + n <= Bits
  PROVE  LET cells == [i \in 1 .. n |-> table[first + i - 1]]
             words == ToWords(Packed(table, first, n))
         IN /\ Len(words) = CeilDiv(n, ByteBits) \div 2
            /\ \A w \in 1 .. Len(words) : \A i \in 0 .. 2 * ByteBits - 1 :
                  LET place == IF i < ByteBits THEN i + ByteBits ELSE i - ByteBits
                      at == (w - 1) * 2 * ByteBits + place + 1
                  IN (words[w][i] = 1) <=> (at <= n /\ cells[at] = 1)
<1> DEFINE bytes == Packed(table, first, n)
           words == ToWords(bytes)
           K == CeilDiv(n, ByteBits)
           B == ByteBits
<1>1. B \in Nat \ {0} /\ Bits \in Nat /\ K \in Nat /\ Places = 0 .. B - 1
  BY DeviceAssumption, CeilFacts DEF Places
<1>2. /\ bytes \in Seq(Byte) /\ Len(bytes) = K
      /\ \A k \in 1 .. K : \A i \in Places :
            bytes[k][i] = IF (k - 1) * B + i < n THEN table[first + (k - 1) * B + i] ELSE 0
  <2>1. Holds(bytes, table, first, n)
    BY PackedFacts
  <2> HIDE DEF bytes
  <2> QED BY <2>1 DEF Holds
<1>3. K \div 2 \in Nat /\ 2 * (K \div 2) <= K
  BY <1>1
<1>4. words = [w \in 1 .. K \div 2 |-> [i \in 0 .. 2 * B - 1 |->
                 IF i < B THEN bytes[2 * w][i] ELSE bytes[2 * w - 1][i - B]]]
  BY <1>2 DEF ToWords
<1> HIDE DEF bytes, words, K
<1>5. Len(words) = K \div 2
  BY <1>3, <1>4
<1>6. ASSUME NEW w \in 1 .. K \div 2, NEW i \in 0 .. 2 * B - 1
      PROVE  LET place == IF i < B THEN i + B ELSE i - B
                 at == (w - 1) * 2 * B + place + 1
             IN (words[w][i] = 1) <=> (at <= n /\ [j \in 1 .. n |-> table[first + j - 1]][at] = 1)
  <2> DEFINE v == (w - 1) * 2
             p == v * B
             k == IF i < B THEN v + 1 ELSE v
             j == IF i < B THEN i ELSE i - B
             x == k * B
  <2>1. v \in Nat /\ v + 2 \in 1 .. K /\ 2 * w = v + 2 /\ 2 * w - 1 = v + 1
    <3> DEFINE h == K \div 2
    <3>1. h \in Nat /\ 2 * h <= K /\ w \in 1 .. h
      BY <1>3
    <3> HIDE DEF h
    <3>2. v + 2 = 2 * w /\ 2 * w <= 2 * h /\ v \in Nat
      BY <3>1
    <3> HIDE DEF v
    <3> QED BY <1>1, <3>1, <3>2
  <2>2. p \in Nat /\ x \in Nat /\ x = (IF i < B THEN p + B ELSE p)
    BY <1>1, <2>1
  <2>3. words[w][i] = IF i < B THEN bytes[v + 2][i] ELSE bytes[v + 1][i - B]
    BY <1>4, <2>1
  <2>4. words[w][i] = bytes[k + 1][j]
    BY <2>1, <2>3
  <2>5. j \in Places /\ k + 1 \in 1 .. K /\ (k + 1) - 1 = k /\ j \in Nat
    BY <1>1, <2>1
  <2>6. bytes[k + 1][j] = IF x + j < n THEN table[first + x + j] ELSE 0
    <3> HIDE DEF j, v
    <3> QED BY <1>2, <2>5
  <2> DEFINE place == IF i < B THEN i + B ELSE i - B
  <2>7. (w - 1) * 2 * B + place + 1 = x + j + 1
    BY <1>1, <2>2
  <2> DEFINE at == x + j + 1
             cells == [m \in 1 .. n |-> table[first + m - 1]]
  <2> HIDE DEF v, p, k, j, x, place
  <2>8. (bytes[k + 1][j] = 1) <=> (at <= n /\ cells[at] = 1)
    <3>1. CASE x + j < n
      <4>0. x \in Nat /\ j \in Nat
        BY <2>2, <2>5
      <4>1. at \in 1 .. n /\ first + at - 1 = first + x + j
        <5> HIDE DEF cells
        <5> QED BY <3>1, <4>0
      <4>2. cells[at] = table[first + x + j]
        BY <4>1
      <4>3. bytes[k + 1][j] = table[first + x + j] /\ at <= n
        BY <2>6, <3>1, <4>1
      <4> HIDE DEF at, cells
      <4> QED BY <4>2, <4>3
    <3>2. CASE ~(x + j < n)
      <4>1. ~(at <= n)
        BY <2>2, <2>5, <3>2
      <4> QED BY <2>6, <3>2, <4>1
    <3> QED BY <3>1, <3>2
  <2> QED BY <2>4, <2>7, <2>8 DEF place
<1> QED BY <1>5, <1>6 DEF words, bytes, K

LEMMA UnpackedFacts ==
  ASSUME NEW list \in Seq(Int), NEW i \in 0 .. Len(list) - 1
  PROVE  Unpacked(CoilBytes(list), i) = list[i + 1]
<1> DEFINE B == ByteBits
           d == i \div B
           r == i % B
           K == CeilDiv(Len(list), B)
<1>1. B \in Nat \ {0} /\ Places = 0 .. B - 1 /\ i \in Nat /\ Len(list) \in Nat
  BY DeviceAssumption DEF Places
<1>2. d \in Nat /\ r \in 0 .. B - 1 /\ i = d * B + r
  BY <1>1, DivFacts
<1>3. \A k \in Nat : k * B < Len(list) => k + 1 \in 1 .. K
  BY <1>1, CeilFacts
<1>4. Unpacked(CoilBytes(list), i) = CoilBytes(list)[d + 1][r]
  BY DEF Unpacked
<1>5. CoilBytes(list) =
         [k \in 1 .. K |-> [j \in Places |->
             LET at == (k - 1) * B + j + 1 IN IF at <= Len(list) THEN list[at] ELSE 0]]
  BY DEF CoilBytes
<1> DEFINE x == d * B
<1>6. x \in Nat
  BY <1>1, <1>2
<1> HIDE DEF d, r, K
<1>7. d + 1 \in 1 .. K /\ (d + 1) - 1 = d
  <2>1. d * B < Len(list)
    BY <1>2, <1>6
  <2> QED BY <1>2, <1>3, <2>1
<1>8. CoilBytes(list)[d + 1][r] =
         LET at == ((d + 1) - 1) * B + r + 1 IN IF at <= Len(list) THEN list[at] ELSE 0
  BY <1>1, <1>2, <1>5, <1>7
<1>9. ((d + 1) - 1) * B + r + 1 = i + 1
  BY <1>2, <1>6, <1>7
<1>10. i + 1 <= Len(list)
  BY <1>1
<1> QED BY <1>4, <1>8, <1>9, <1>10

-----------------------------------------------------------------------------
(* The Modbus connector                                                    *)

ModbusTypeOK ==
  /\ coils \in [0 .. Bits - 1 -> {0, 1}]
  /\ regs \in [0 .. Words - 1 -> Int]

Single(addr, quantity, slave, op) == Request(op, addr, quantity, slave, <<>>)

(* What is common to the requests whose answer is a result.                *)
LEMMA AddressFacts ==
  ASSUME NEW r, r.addr \in Int, r.quantity \in Int, Valid(r)
  PROVE  r.addr \in Nat /\ r.quantity \in Nat
BY DEF Valid, IsUint16, Uint16

(* Words hold the n cells from first on, an odd last byte left out.        *)
WordsMatch(words, table, first, n) ==
  /\ Len(words) = CeilDiv(n, ByteBits) \div 2
  /\ \A w \in 1 .. Len(words) : \A i \in 0 .. 2 * ByteBits - 1 :
        LET place == IF i < ByteBits THEN i + ByteBits ELSE i - ByteBits
            at == (w - 1) * 2 * ByteBits + place + 1
        IN (words[w][i] = 1)
              <=> (at <= n /\ [j \in 1 .. n |-> table[first + j - 1]][at] = 1)

LEMMA ReadStep ==
  ASSUME ModbusTypeOK,
         NEW addr \in Numbers, NEW quantity \in Numbers, NEW slave, NEW op,
         LET r == Single(addr, quantity, slave, op)
         IN ReadCoils(r) \/ ReadDiscreteInputs(r) \/ ReadRegisters(r)
  PROVE  /\ UNCHANGED modbusVars
         /\ ModbusReadIsExact'
         /\ asked'.op \in Reads
<1> DEFINE r == Single(addr, quantity, slave, op)
<1>1. /\ r.op = op /\ r.addr = addr /\ r.quantity = quantity /\ r.slave = slave
      /\ addr \in Int /\ quantity \in Int
  BY DeviceAssumption DEF Single, Request
<1> HIDE DEF r
<1> SUFFICES ASSUME ReadCoils(r) \/ ReadDiscreteInputs(r) \/ ReadRegisters(r)
             PROVE  UNCHANGED modbusVars /\ ModbusReadIsExact' /\ asked'.op \in Reads
  BY DEF r
<1>2. CASE Refuse(r)
  <2>1. reply'.kind # "result" /\ UNCHANGED modbusVars /\ asked'.op = op
    BY <1>1, <1>2 DEF Refuse, Call, Error, Answered, Same
  <2>2. op \in Reads
    BY <1>1 DEF ReadCoils, ReadDiscreteInputs, ReadRegisters, Reads
  <2> QED BY <2>1, <2>2 DEF ModbusReadIsExact
<1> DEFINE Answer(limit, size, answer) ==
             /\ Valid(r) /\ quantity <= limit /\ quantity >= 1 /\ addr + quantity <= size
             /\ asked' = r /\ reply' = Result(answer)
             /\ UNCHANGED modbusVars
           cells(table) == [i \in 1 .. quantity |-> table[addr + i - 1]]
<1>3. ASSUME NEW limit, NEW size, NEW answer, Read(r, limit, size, answer), ~Refuse(r)
      PROVE  Answer(limit, size, answer)
  BY <1>1, <1>3 DEF Read, Within, Call, Same
<1>4. CASE ReadCoils(r) /\ ~Refuse(r)
  <2> DEFINE bits == ByteToBits(Packed(coils, addr, quantity), quantity)
             ordered == \A i, k \in 1 .. quantity :
                           (i <= quantity /\ cells(coils)[i] = 1) /\ k * ByteBits < i
                              => k * ByteBits <= quantity /\ cells(coils)[k * ByteBits] = 1
  <2>1. op = "read-coil" /\ Read(r, MaxBits, Bits, bits)
    BY <1>1, <1>4 DEF ReadCoils
  <2>2. Answer(MaxBits, Bits, bits)
    BY <1>3, <1>4, <2>1
  <2>3. addr \in Nat /\ quantity \in Nat
    BY <1>1, <2>2, AddressFacts
  <2>4. (bits = cells(coils)) <=> ordered
    BY <2>2, <2>3, CoilsRead DEF ModbusTypeOK
  <2>5. /\ reply'.kind = "result" /\ reply'.value = bits
        /\ asked'.op = "read-coil" /\ asked'.addr = addr /\ asked'.quantity = quantity
        /\ coils' = coils /\ regs' = regs
    BY <1>1, <2>1, <2>2 DEF Result, Answered, modbusVars
  <2> HIDE DEF bits
  <2>6. (reply'.value = [i \in 1 .. asked'.quantity |-> coils'[asked'.addr + i - 1]])
           <=> (\A i, k \in 1 .. asked'.quantity :
                   (/\ i <= asked'.quantity
                    /\ [j \in 1 .. asked'.quantity |-> coils'[asked'.addr + j - 1]][i] = 1)
                   /\ k * ByteBits < i
                   => (/\ k * ByteBits <= asked'.quantity
                       /\ [j \in 1 .. asked'.quantity |-> coils'[asked'.addr + j - 1]]
                             [k * ByteBits] = 1))
    <3> DEFINE held == [j \in 1 .. asked'.quantity |-> coils'[asked'.addr + j - 1]]
    <3>1. held = cells(coils)
      BY <2>5
    <3> HIDE DEF held, cells
    <3>2. (reply'.value = held)
           <=> (\A i, k \in 1 .. quantity : (i <= quantity /\ held[i] = 1) /\ k * ByteBits < i
                   => k * ByteBits <= quantity /\ held[k * ByteBits] = 1)
      BY <2>4, <2>5, <3>1
    <3>3. (reply'.value = held)
           <=> (\A i, k \in 1 .. asked'.quantity : (i <= asked'.quantity /\ held[i] = 1) /\ k * ByteBits < i
                   => k * ByteBits <= asked'.quantity /\ held[k * ByteBits] = 1)
      BY <2>5, <3>2
    <3> QED BY <3>3 DEF held
  <2>7. asked'.op \notin {"read-discrete", "read-input", "read-holding"}
    BY <2>5
  <2>8. ModbusReadIsExact'
    <3> SUFFICES ASSUME reply'.kind = "result"
                 PROVE  (/\ reply'.value = [i \in 1 .. asked'.quantity |-> coils'[asked'.addr + i - 1]])
                          <=> (\A i, k \in 1 .. asked'.quantity :
                                 /\ (/\ i <= asked'.quantity
                                     /\ [j \in 1 .. asked'.quantity |-> coils'[asked'.addr + j - 1]][i] = 1)
                                 /\ k * ByteBits < i
                                 => (/\ k * ByteBits <= asked'.quantity
                                     /\ [j \in 1 .. asked'.quantity |-> coils'[asked'.addr + j - 1]]
                                         [k * ByteBits] = 1))
      BY <2>7, Zenon DEF ModbusReadIsExact
    <3> QED BY <2>6
  <2> QED BY <2>2, <2>5, <2>8 DEF Reads
<1>5. CASE ReadDiscreteInputs(r) /\ ~Refuse(r)
  <2> DEFINE words == ToWords(Packed(coils, addr, quantity))
  <2>1. op = "read-discrete" /\ Read(r, MaxBits, Bits, words)
    BY <1>1, <1>5 DEF ReadDiscreteInputs
  <2>2. Answer(MaxBits, Bits, words)
    BY <1>3, <1>5, <2>1
  <2>3. addr \in Nat /\ quantity \in Nat
    BY <1>1, <2>2, AddressFacts
  <2>4. WordsMatch(words, coils, addr, quantity)
    BY <2>2, <2>3, DiscreteRead DEF ModbusTypeOK, WordsMatch
  <2>5. /\ reply'.kind = "result" /\ reply'.value = words
        /\ asked'.op = "read-discrete" /\ asked'.addr = addr /\ asked'.quantity = quantity
        /\ coils' = coils /\ regs' = regs
    BY <1>1, <2>1, <2>2 DEF Result, Answered, modbusVars
  <2> HIDE DEF words
  <2>6. WordsMatch(reply'.value, coils', asked'.addr, asked'.quantity)
    BY <2>4, <2>5
  <2>9. /\ Len(reply'.value) = CeilDiv(asked'.quantity, ByteBits) \div 2
        /\ \A w \in 1 .. Len(reply'.value) : \A i \in 0 .. 2 * ByteBits - 1 :
              LET place == IF i < ByteBits THEN i + ByteBits ELSE i - ByteBits
                  at == (w - 1) * 2 * ByteBits + place + 1
              IN (reply'.value[w][i] = 1)
                    <=> (/\ at <= asked'.quantity
                         /\ [j \in 1 .. asked'.quantity |-> coils'[asked'.addr + j - 1]][at] = 1)
    BY <2>6, Zenon DEF WordsMatch
  <2>7. asked'.op \notin {"read-coil", "read-input", "read-holding"}
    BY <2>5
  <2>8. ModbusReadIsExact'
    BY <2>7, <2>9, Zenon DEF ModbusReadIsExact
  <2> QED BY <2>2, <2>5, <2>8 DEF Reads
<1>6. CASE ReadRegisters(r) /\ ~Refuse(r)
  <2> DEFINE words == [i \in 1 .. quantity |-> regs[addr + i - 1]]
  <2>1. op \in {"read-input", "read-holding"} /\ Read(r, MaxWords, Words, words)
    BY <1>1, <1>6 DEF ReadRegisters
  <2>2. Answer(MaxWords, Words, words)
    BY <1>3, <1>6, <2>1
  <2>5. /\ reply'.kind = "result" /\ reply'.value = cells(regs)
        /\ asked'.op \in {"read-input", "read-holding"}
        /\ asked'.addr = addr /\ asked'.quantity = quantity
        /\ coils' = coils /\ regs' = regs
    BY <1>1, <2>1, <2>2 DEF Result, Answered, modbusVars
  <2>6. ModbusReadIsExact'
    BY <2>5 DEF ModbusReadIsExact
  <2> QED BY <2>2, <2>5, <2>6 DEF Reads
<1> QED BY <1>2, <1>4, <1>5, <1>6

(* What a write does to a table.                                           *)
Updated(table, addr, values) ==
  [c \in DOMAIN table |-> IF c \in addr .. addr + Len(values) - 1
                          THEN values[c - addr + 1] ELSE table[c]]

WriteOK(r) ==
  LET values == IF r.list = <<>> THEN <<r.quantity>> ELSE r.list
  IN IF r.op \in {"write-coil", "write-multiple-coils"}
     THEN coils' = Updated(coils, r.addr, values) /\ regs' = regs
     ELSE regs' = Updated(regs, r.addr, values) /\ coils' = coils

PanicOK(r) == 2 * Len(r.list) > MaxUint /\ UNCHANGED modbusVars

LEMMA WriteSingleStep ==
  ASSUME ModbusTypeOK,
         NEW addr \in Numbers, NEW quantity \in Numbers, NEW slave, NEW op,
         LET r == Single(addr, quantity, slave, op)
         IN WriteSingleCoil(r) \/ WriteSingleRegister(r)
  PROVE  /\ ModbusTypeOK'
         /\ reply'.kind = "result" => WriteOK(asked')
         /\ reply'.kind # "panic"
         /\ asked'.op \in Writes
<1> DEFINE r == Single(addr, quantity, slave, op)
<1>1. /\ r.op = op /\ r.addr = addr /\ r.quantity = quantity /\ r.slave = slave
      /\ r.list = <<>>
      /\ addr \in Int /\ quantity \in Int
  BY DeviceAssumption DEF Single, Request
<1> HIDE DEF r
<1> SUFFICES ASSUME WriteSingleCoil(r) \/ WriteSingleRegister(r)
             PROVE  /\ ModbusTypeOK'
                    /\ reply'.kind = "result" => WriteOK(asked')
                    /\ reply'.kind # "panic"
                    /\ asked'.op \in Writes
  BY DEF r
<1>2. CASE Refuse(r)
  <2>1. reply'.kind \notin {"result", "panic"} /\ UNCHANGED modbusVars /\ asked'.op = op
    BY <1>1, <1>2 DEF Refuse, Call, Error, Answered, Same
  <2>2. op \in Writes
    BY <1>1 DEF WriteSingleCoil, WriteSingleRegister, Writes
  <2> QED BY <2>1, <2>2 DEF modbusVars, ModbusTypeOK
<1>3. ASSUME Done(r, <<quantity>>)
      PROVE  /\ asked'.op = op /\ (reply'.kind = "result" => asked' = r)
             /\ reply'.kind # "panic"
  BY <1>1, <1>3 DEF Done, Call, Error, Result, Answered
<1>4. CASE WriteSingleCoil(r) /\ ~Refuse(r)
  <2>1. /\ op = "write-coil" /\ Valid(r) /\ quantity <= 1 /\ addr + 1 <= Bits
        /\ coils' = [coils EXCEPT ![addr] = quantity] /\ regs' = regs
        /\ Done(r, <<quantity>>)
    BY <1>1, <1>4 DEF WriteSingleCoil, Within
  <2>2. addr \in Nat /\ quantity \in Nat
    BY <1>1, <2>1, AddressFacts
  <2>3. coils' = Updated(coils, addr, <<quantity>>)
    <3>1. \A c \in 0 .. Bits - 1 : c \in addr .. addr + 1 - 1 <=> c = addr
      BY <2>2
    <3>2. Len(<<quantity>>) = 1 /\ <<quantity>>[addr - addr + 1] = quantity
      BY <2>2
    <3> QED BY <2>1, <2>2, <3>1, <3>2 DEF Updated, ModbusTypeOK
  <2>4. quantity \in {0, 1}
    BY <2>1, <2>2
  <2>5. ModbusTypeOK'
    BY <2>1, <2>4 DEF ModbusTypeOK
  <2> QED BY <1>1, <1>3, <2>1, <2>3, <2>5 DEF WriteOK, Writes
<1>5. CASE WriteSingleRegister(r) /\ ~Refuse(r)
  <2>1. /\ op = "write-register" /\ Valid(r) /\ addr + 1 <= Words
        /\ regs' = [regs EXCEPT ![addr] = quantity] /\ coils' = coils
        /\ Done(r, <<quantity>>)
    BY <1>1, <1>5 DEF WriteSingleRegister, Within
  <2>2. addr \in Nat /\ quantity \in Nat
    BY <1>1, <2>1, AddressFacts
  <2>3. regs' = Updated(regs, addr, <<quantity>>)
    <3>1. \A c \in 0 .. Words - 1 : c \in addr .. addr + 1 - 1 <=> c = addr
      BY <2>2
    <3>2. Len(<<quantity>>) = 1 /\ <<quantity>>[addr - addr + 1] = quantity
      BY <2>2
    <3> QED BY <2>1, <2>2, <3>1, <3>2 DEF Updated, ModbusTypeOK
  <2>5. ModbusTypeOK'
    BY <1>1, <2>1 DEF ModbusTypeOK
  <2> QED BY <1>1, <1>3, <2>1, <2>3, <2>5 DEF WriteOK, Writes
<1> QED BY <1>2, <1>4, <1>5

(* As long as twice the quantity fits into a word there is room for all.   *)
LEMMA RoomFacts ==
  ASSUME NEW quantity \in Nat, MaxUint \in Nat, 2 * quantity <= MaxUint
  PROVE  Room(quantity) = quantity
<1>1. (quantity * 2) % (MaxUint + 1) = quantity * 2
  OBVIOUS
<1>2. (quantity * 2) \div 2 = quantity
  OBVIOUS
<1> QED BY <1>1, <1>2 DEF Room

LEMMA WriteMultipleStep ==
  ASSUME ModbusTypeOK,
         NEW addr \in Numbers, NEW slave, NEW list \in Lists, NEW op,
         NEW quantity \in {-1, Len(list), Len(list) + 1},
         LET r == Request(op, addr, quantity, slave, list)
         IN WriteMultipleCoils(r) \/ WriteMultipleRegisters(r)
  PROVE  /\ ModbusTypeOK'
         /\ reply'.kind = "result" => WriteOK(asked')
         /\ reply'.kind = "panic" => PanicOK(asked')
         /\ asked'.op \in Writes
<1> DEFINE r == Request(op, addr, quantity, slave, list)
<1>1. /\ r.op = op /\ r.addr = addr /\ r.quantity = quantity /\ r.slave = slave
      /\ r.list = list
      /\ addr \in Int /\ list \in Seq(Int) /\ Len(list) \in Nat /\ quantity \in Int
  BY DeviceAssumption DEF Request
<1> HIDE DEF r
<1> SUFFICES ASSUME WriteMultipleCoils(r) \/ WriteMultipleRegisters(r)
             PROVE  /\ ModbusTypeOK'
                    /\ reply'.kind = "result" => WriteOK(asked')
                    /\ reply'.kind = "panic" => PanicOK(asked')
                    /\ asked'.op \in Writes
  BY DEF r
<1>2. op \in Writes
  BY <1>1 DEF WriteMultipleCoils, WriteMultipleRegisters, Writes
<1>3. ASSUME Same, asked'.op = op, reply'.kind # "result"
      PROVE  ModbusTypeOK' /\ asked'.op \in Writes
  BY <1>2, <1>3 DEF Same, modbusVars, ModbusTypeOK
<1>4. CASE Refuse(r)
  <2>1. Same /\ asked'.op = op /\ reply'.kind \notin {"result", "panic"}
    BY <1>1, <1>4 DEF Refuse, Call, Error, Answered
  <2> QED BY <1>3, <2>1
<1>5. CASE WriteMultipleRegisters(r) /\ Call(r, Panic) /\ Same
  <2>1. asked' = r /\ reply'.kind = "panic"
    BY <1>5 DEF Call, Panic, Answered
  <2>2. /\ quantity \in Nat /\ quantity <= MaxUint /\ quantity = Len(list)
        /\ \E i \in DOMAIN list : i > Room(quantity)
    BY <1>1, <1>5, <2>1 DEF WriteMultipleRegisters, IsUint16, Uint16, Call, Refuse, Done, Error, Result,
                            Panic, Answered
  <2>3. 2 * quantity > MaxUint
    <3> SUFFICES ASSUME 2 * quantity <= MaxUint
                 PROVE  FALSE
      BY <2>2, WordAssumption
    <3>1. Room(quantity) = quantity
      BY <2>2, WordAssumption, RoomFacts
    <3> QED BY <1>1, <2>2, <3>1
  <2>4. PanicOK(asked')
    BY <1>1, <1>5, <2>1, <2>2, <2>3 DEF PanicOK, Same
  <2> QED BY <1>1, <1>3, <1>5, <2>1, <2>4
<1>6. ASSUME Done(r, <<quantity>>)
      PROVE  /\ asked'.op = op /\ (reply'.kind = "result" => asked' = r)
             /\ reply'.kind # "panic"
  BY <1>1, <1>6 DEF Done, Call, Error, Result, Answered
<1>7. ASSUME Valid(r), quantity = Len(list), Within(r, quantity, Bits) \/ Within(r, quantity, Words)
      PROVE  /\ addr \in Nat /\ quantity \in Nat \ {0} /\ list # <<>>
             /\ \A c \in Int : c \in addr .. addr + Len(list) - 1
                                 => c - addr \in 0 .. Len(list) - 1 /\ c - addr + 1 \in 1 .. Len(list)
  <2>1. addr \in Nat
    BY <1>1, <1>7, AddressFacts
  <2>2. quantity \in Nat \ {0}
    BY <1>1, <1>7 DEF Within
  <2> QED BY <1>1, <1>7, <2>1, <2>2
<1>8. CASE WriteMultipleCoils(r) /\ ~Refuse(r)
  <2>1. /\ op = "write-multiple-coils" /\ Valid(r) /\ quantity = Len(list)
        /\ \A i \in DOMAIN list : list[i] \in {0, 1}
        /\ Within(r, quantity, Bits)
        /\ coils' = [c \in DOMAIN coils |->
                       IF c \in addr .. addr + quantity - 1
                       THEN Unpacked(CoilBytes(list), c - addr) ELSE coils[c]]
        /\ regs' = regs
        /\ Done(r, <<quantity>>)
    BY <1>1, <1>8 DEF WriteMultipleCoils
  <2>2. /\ addr \in Nat /\ quantity \in Nat \ {0} /\ list # <<>>
        /\ \A c \in Int : c \in addr .. addr + Len(list) - 1
                            => c - addr \in 0 .. Len(list) - 1 /\ c - addr + 1 \in 1 .. Len(list)
    BY <1>7, <2>1
  <2>3. ASSUME NEW c \in DOMAIN coils, c \in addr .. addr + quantity - 1
        PROVE  Unpacked(CoilBytes(list), c - addr) = list[c - addr + 1]
    <3>1. c - addr \in 0 .. Len(list) - 1
      BY <2>1, <2>2, <2>3
    <3> QED BY <1>1, <3>1, UnpackedFacts
  <2>4. coils' = Updated(coils, addr, list)
    BY <2>1, <2>3 DEF Updated
  <2>5. coils' \in [0 .. Bits - 1 -> {0, 1}]
    <3>1. ASSUME NEW c \in 0 .. Bits - 1, c \in addr .. addr + Len(list) - 1
          PROVE  list[c - addr + 1] \in {0, 1}
      BY <1>1, <2>1, <2>2, <3>1
    <3> QED BY <2>4, <3>1 DEF Updated, ModbusTypeOK
  <2>6. ModbusTypeOK'
    BY <2>1, <2>5 DEF ModbusTypeOK
  <2> QED BY <1>1, <1>2, <1>6, <2>1, <2>2, <2>4, <2>6 DEF WriteOK
<1>9. CASE WriteMultipleRegisters(r) /\ ~Refuse(r) /\ ~(Call(r, Panic) /\ Same)
  <2>1. /\ op = "write-multiple-registers" /\ Valid(r) /\ quantity = Len(list)
        /\ Within(r, quantity, Words)
        /\ regs' = [c \in DOMAIN regs |->
                       IF c \in addr .. addr + quantity - 1
                       THEN list[c - addr + 1] ELSE regs[c]]
        /\ coils' = coils
        /\ Done(r, <<quantity>>)
    BY <1>1, <1>9 DEF WriteMultipleRegisters, Valid
  <2>2. /\ addr \in Nat /\ quantity \in Nat \ {0} /\ list # <<>>
        /\ \A c \in Int : c \in addr .. addr + Len(list) - 1
                            => c - addr \in 0 .. Len(list) - 1 /\ c - addr + 1 \in 1 .. Len(list)
    BY <1>7, <2>1
  <2>3. regs' = Updated(regs, addr, list)
    BY <2>1 DEF Updated
  <2>4. regs' \in [0 .. Words - 1 -> Int]
    <3>1. ASSUME NEW c \in 0 .. Words - 1, c \in addr .. addr + Len(list) - 1
          PROVE  list[c - addr + 1] \in Int
      BY <1>1, <2>2, <3>1
    <3> QED BY <2>3, <3>1 DEF Updated, ModbusTypeOK
  <2>5. ModbusTypeOK'
    BY <2>1, <2>4 DEF ModbusTypeOK
  <2> QED BY <1>1, <1>2, <1>6, <2>1, <2>2, <2>3, <2>5 DEF WriteOK
<1> QED BY <1>4, <1>5, <1>8, <1>9

LEMMA ModbusSteps ==
  ASSUME ModbusTypeOK, ModbusNext
  PROVE  /\ ModbusTypeOK'
         /\ ModbusReadIsExact'
         /\ (reply'.kind = "result" /\ asked'.op \in Writes) => WriteOK(asked')
         /\ (reply'.kind = "panic" /\ asked'.op \in Writes) => PanicOK(asked')
         /\ asked'.op \in Reads \cup Writes \cup {"none", "unknown"}
<1>1. Reads \cap Writes = {} /\ "none" \notin Reads \cup Writes /\ "unknown" \notin Reads \cup Writes
  BY DEF Reads, Writes
<1>2. ASSUME UNCHANGED modbusVars, asked'.op \in {"none", "unknown"}
      PROVE  ModbusTypeOK' /\ ModbusReadIsExact' /\ asked'.op \notin Writes
  BY <1>1, <1>2 DEF modbusVars, ModbusTypeOK, ModbusReadIsExact
<1>3. CASE ModbusOpen
  <2>1. UNCHANGED modbusVars /\ asked'.op = "none"
    BY <1>3 DEF ModbusOpen, Open, Idle, Same
  <2> QED BY <1>2, <2>1
<1>4. CASE UnknownMethod /\ Same
  <2>1. UNCHANGED modbusVars /\ asked'.op = "unknown"
    BY <1>4 DEF UnknownMethod, Call, Same
  <2> QED BY <1>2, <2>1
<1>5. ASSUME UNCHANGED modbusVars, ModbusReadIsExact', asked'.op \in Reads
      PROVE  ModbusTypeOK' /\ asked'.op \notin Writes
  BY <1>1, <1>5 DEF modbusVars, ModbusTypeOK
<1>6. ASSUME asked'.op \in Writes
      PROVE  ModbusReadIsExact'
  BY <1>1, <1>6 DEF ModbusReadIsExact
<1>7. CASE CallSingle
  <2>1. PICK addr \in Numbers, quantity \in Numbers, slave \in Slaves,
             op \in Reads \cup {"write-coil", "write-register"} :
             LET r == Single(addr, quantity, slave, op)
             IN \/ ReadCoils(r) \/ ReadDiscreteInputs(r) \/ ReadRegisters(r)
                \/ WriteSingleCoil(r) \/ WriteSingleRegister(r)
    BY <1>7, Zenon DEF CallSingle, Single
  <2> DEFINE r == Single(addr, quantity, slave, op)
  <2>2. CASE ReadCoils(r) \/ ReadDiscreteInputs(r) \/ ReadRegisters(r)
    <3>1. UNCHANGED modbusVars /\ ModbusReadIsExact' /\ asked'.op \in Reads
      BY <2>2, ReadStep
    <3> QED BY <1>5, <3>1
  <2>3. CASE WriteSingleCoil(r) \/ WriteSingleRegister(r)
    <3>1. /\ ModbusTypeOK' /\ (reply'.kind = "result" => WriteOK(asked')) /\ asked'.op \in Writes
          /\ reply'.kind # "panic"
      BY <2>3, WriteSingleStep
    <3> QED BY <1>6, <3>1
  <2> QED BY <2>1, <2>2, <2>3
<1>8. CASE CallMultiple
  <2>1. PICK addr \in Numbers, slave \in Slaves, list \in Lists,
             op \in {"write-multiple-coils", "write-multiple-registers"} :
             \E quantity \in {-1, Len(list), Len(list) + 1} :
                LET r == Request(op, addr, quantity, slave, list)
                IN WriteMultipleCoils(r) \/ WriteMultipleRegisters(r)
    BY <1>8, Zenon DEF CallMultiple
  <2>2. PICK quantity \in {-1, Len(list), Len(list) + 1} :
                LET r == Request(op, addr, quantity, slave, list)
                IN WriteMultipleCoils(r) \/ WriteMultipleRegisters(r)
    BY <2>1
  <2>3. /\ ModbusTypeOK' /\ (reply'.kind = "result" => WriteOK(asked')) /\ asked'.op \in Writes
        /\ reply'.kind = "panic" => PanicOK(asked')
    BY <2>2, WriteMultipleStep
  <2> QED BY <1>6, <2>3
<1> QED BY <1>3, <1>4, <1>7, <1>8 DEF ModbusNext

-----------------------------------------------------------------------------
(* The SNMP connector                                                      *)

(* What the agent holds when it was asked to set r and did.                *)
Fits(r) ==
  /\ r.type = "gauge" => r.value < Limit
  /\ r.type = "string" => r.value # NoText

(* The value stays set until the next request: a process that is closed    *)
(* after its answer changes nothing any more.                              *)
SetIsKept ==
  (reply.kind = "result" /\ asked.op = "set" /\ asked.oid \notin ReadOnly)
    => ((agent[asked.oid] = asked.value) <=> Fits(asked))

SnmpInv ==
  /\ agent \in [Oids -> Int]
  /\ TrapIsAsked
  /\ SetIsKept

SetOK(r) ==
  (agent'[r.oid] = r.value) <=>
     \/ agent[r.oid] = r.value /\ r.oid \in ReadOnly
     \/ /\ r.oid \notin ReadOnly
        /\ r.type = "gauge" => r.value < Limit
        /\ r.type = "string" => r.value # NoText

SnmpOps == {"get", "get-next", "get-bulk", "walk", "set", "send-trap"}

(* What goes over the wire is the value that was asked for, or not.        *)
LEMMA WireFacts ==
  ASSUME NEW type, NEW value \in Given, Settable(type, value)
  PROVE  LET wire == OnWire(type, Parsed(type, value))
         IN /\ wire \in Int
            /\ (wire = value) <=> (/\ type = "gauge" => value < Limit
                                   /\ type = "string" => value # NoText)
<1> DEFINE wire == OnWire(type, Parsed(type, value))
<1>1. /\ Limit \in Nat \ {0} /\ value \in Int /\ Empty = -1 /\ NoText = -2 /\ NoSuch = -3
      /\ value \in Nat \/ value = NoText
  BY AgentAssumption DEF Given, Empty, NoText, NoSuch
<1>2. Parsed(type, value) # NoSuch /\ wire # NoSuch
  BY DEF Settable
<1>3. CASE type = "string"
  <2>1. wire = IF value = NoText THEN Empty ELSE value
    BY <1>3 DEF OnWire, Parsed
  <2> QED BY <1>1, <1>3, <2>1
<1>4. CASE type = "integer"
  <2>1. Parsed(type, value) = value
    BY <1>2, <1>4 DEF Parsed
  <2>2. wire = value
    BY <1>2, <1>4, <2>1 DEF OnWire
  <2> QED BY <1>1, <1>4, <2>2
<1>5. CASE type = "gauge"
  <2>1. Parsed(type, value) = value /\ value # NoText
    BY <1>2, <1>5 DEF Parsed
  <2>2. wire = value % Limit
    BY <1>5, <2>1 DEF OnWire
  <2>3. value \in Nat
    BY <1>1, <2>1
  <2>4. value % Limit \in 0 .. Limit - 1 /\ value = (value \div Limit) * Limit + (value % Limit)
        /\ value \div Limit \in Nat
    BY <1>1, <2>3, DivFacts
  <2>5. value < Limit => value % Limit = value
    <3> DEFINE d == value \div Limit
               r == value % Limit
    <3>1. d \in Nat /\ r \in Nat /\ value = d * Limit + r
      BY <1>1, <2>4
    <3>2. d # 0 => d * Limit >= Limit
      BY <1>1, <3>1
    <3>3. d = 0 => d * Limit = 0
      BY <1>1
    <3> DEFINE p == d * Limit
    <3>4. p \in Nat
      BY <1>1, <3>1
    <3> HIDE DEF d, r, p
    <3>5. value = p + r /\ (d # 0 => p >= Limit) /\ (d = 0 => p = 0)
      BY <3>1, <3>2, <3>3 DEF p
    <3>6. value < Limit => r = value
      BY <1>1, <2>3, <3>1, <3>4, <3>5
    <3> QED BY <3>6 DEF r
  <2>6. ~(value < Limit) => value % Limit # value
    BY <1>1, <2>3, <2>4
  <2>7. wire \in Int
    BY <1>1, <2>2, <2>4
  <2> QED BY <1>5, <2>2, <2>5, <2>6, <2>7
<1>6. CASE type \notin {"string", "integer", "gauge"}
  <2>1. wire = NoSuch
    BY <1>6 DEF OnWire
  <2> QED BY <1>2, <2>1
<1> QED BY <1>3, <1>4, <1>5, <1>6

LEMMA SetStep ==
  ASSUME SnmpInv, NEW oid \in Oids, NEW type, NEW value \in Given, Set(oid, type, value)
  PROVE  /\ SnmpInv'
         /\ (reply'.kind = "result" /\ asked'.op = "set") => SetOK(asked')
         /\ asked'.op = "set"
<1> DEFINE wire == OnWire(type, Parsed(type, value))
           asks == [op |-> "set", oid |-> oid, type |-> type, value |-> value]
<1>1. /\ wire \in Int
      /\ (wire = value) <=> (/\ type = "gauge" => value < Limit
                             /\ type = "string" => value # NoText)
  <2>1. Settable(type, value)
    BY DEF Set
  <2> QED BY <2>1, WireFacts
<1>2. /\ agent' = IF oid \in ReadOnly THEN agent ELSE [agent EXCEPT ![oid] = wire]
      /\ \/ Call(asks, Result(<<[oid |-> oid, value |-> wire]>>))
         \/ Call([op |-> "set"], Error)
      /\ traps' = traps
  BY DEF Set
<1> HIDE DEF wire
<1>3. agent' \in [Oids -> Int] /\ (oid \notin ReadOnly => agent'[oid] = wire)
  BY <1>1, <1>2 DEF SnmpInv
<1>4. asked'.op = "set"
  BY <1>2 DEF Call
<1>5. TrapIsAsked'
  BY <1>4 DEF TrapIsAsked
<1>6. CASE Call(asks, Result(<<[oid |-> oid, value |-> wire]>>))
  <2>1. asked'.oid = oid /\ asked'.type = type /\ asked'.value = value
    BY <1>6 DEF Call
  <2>2. SetOK(asked')
    BY <1>1, <1>2, <1>3, <2>1 DEF SetOK
  <2>3. SetIsKept'
    BY <1>1, <1>3, <2>1 DEF SetIsKept, Fits
  <2> QED BY <1>3, <1>4, <1>5, <2>2, <2>3 DEF SnmpInv
<1>7. CASE Call([op |-> "set"], Error)
  <2>1. reply'.kind # "result"
    BY <1>7 DEF Call, Error, Answered
  <2> QED BY <1>3, <1>4, <1>5, <2>1 DEF SnmpInv, SetIsKept
<1> QED BY <1>2, <1>6, <1>7

LEMMA TrapStep ==
  ASSUME SnmpInv, NEW variables \in SeqOf([oid : Oids, value : {0, 1}], 2), NEW value,
         SendTrap(variables, value)
  PROVE  SnmpInv' /\ asked'.op = "send-trap"
<1>1. /\ traps' = ParsePdu(variables, value) /\ agent' = agent
      /\ asked'.op = "send-trap" /\ asked'.variables = variables /\ asked'.value = value
  BY DEF SendTrap, Call
<1>2. PICK m \in 0 .. 2 : variables \in [1 .. m -> [oid : Oids, value : {0, 1}]]
  BY DEF SeqOf
<1>3. (traps' = variables) <=> \A i \in DOMAIN variables : variables[i].value = value
  <2>1. traps' = [i \in 1 .. m |-> [oid |-> variables[i].oid, value |-> value]]
    BY <1>1, <1>2 DEF ParsePdu
  <2>2. ASSUME NEW i \in 1 .. m
        PROVE  (traps'[i] = variables[i]) <=> (variables[i].value = value)
    <3>1. variables[i] \in [oid : Oids, value : {0, 1}]
      BY <1>2
    <3>2. traps'[i] = [oid |-> variables[i].oid, value |-> value]
      BY <2>1
    <3> QED BY <3>1, <3>2
  <2> QED BY <1>2, <2>1, <2>2
<1>4. TrapIsAsked'
  BY <1>1, <1>3 DEF TrapIsAsked
<1> QED BY <1>1, <1>4 DEF SnmpInv, SetIsKept

LEMMA SnmpSteps ==
  ASSUME SnmpInv, SnmpNext
  PROVE  /\ SnmpInv'
         /\ (reply'.kind = "result" /\ asked'.op = "set") =>
               SetOK(asked') \/ UNCHANGED <<asked, reply, snmpVars>>
         /\ asked'.op \in SnmpOps \cup {"none", "unknown"} \/ UNCHANGED <<asked, reply>>
<1>1. ASSUME UNCHANGED snmpVars, asked'.op \in SnmpOps \cup {"none", "unknown"},
             asked'.op \in {"set", "send-trap"} => reply'.kind # "result"
      PROVE  /\ SnmpInv'
             /\ ~(reply'.kind = "result" /\ asked'.op = "set")
             /\ asked'.op \in SnmpOps \cup {"none", "unknown"}
  BY <1>1 DEF snmpVars, SnmpInv, TrapIsAsked, SetIsKept
<1>2. ASSUME NEW op \in SnmpOps, SnmpRefuse(op)
      PROVE  UNCHANGED snmpVars /\ asked'.op = op /\ reply'.kind # "result"
  BY <1>2 DEF SnmpRefuse, Call, Error, Answered, SnmpSame
<1>3. CASE SnmpOpen
  <2>1. UNCHANGED snmpVars /\ asked'.op = "none"
    BY <1>3 DEF SnmpOpen, Open, Idle, SnmpSame
  <2> QED BY <1>1, <2>1
<1>4. CASE UnknownMethod /\ SnmpSame
  <2>1. UNCHANGED snmpVars /\ asked'.op = "unknown"
    BY <1>4 DEF UnknownMethod, Call, SnmpSame
  <2> QED BY <1>1, <2>1
<1>5. CASE SnmpClose
  <2>1. UNCHANGED <<asked, reply, snmpVars>>
    BY <1>5 DEF SnmpClose, SnmpSame
  <2> QED BY <2>1 DEF snmpVars, SnmpInv, TrapIsAsked, SetIsKept
<1>6. CASE SnmpRead
  <2>1. CASE \E op \in ReadOps : SnmpRefuse(op)
    BY <1>1, <1>2, <2>1 DEF SnmpOps, ReadOps
  <2>2. CASE SnmpSame /\ asked'.op \in ReadOps
    <3>1. asked'.op \in SnmpOps /\ asked'.op \notin {"set", "send-trap"}
      BY <2>2 DEF SnmpOps, ReadOps
    <3> QED BY <1>1, <2>2, <3>1 DEF SnmpSame
  <2>3. \A op, answer : Call([op |-> op], answer) => asked'.op = op
    BY DEF Call
  <2> QED BY <1>6, <2>1, <2>2, <2>3, Zenon DEF SnmpRead
<1>7. CASE SnmpSet
  <2>1. CASE SnmpRefuse("set")
    BY <1>1, <1>2, <2>1 DEF SnmpOps
  <2>2. CASE Call([op |-> "set"], Panic) /\ SnmpSame
    <3>1. UNCHANGED snmpVars /\ asked'.op = "set" /\ reply'.kind # "result"
      BY <2>2 DEF Call, Panic, Answered, SnmpSame
    <3> QED BY <1>1, <3>1 DEF SnmpOps
  <2>3. CASE \E oid \in Oids, type \in BerTypes, value \in Given : Set(oid, type, value)
    <3>1. /\ SnmpInv'
          /\ (reply'.kind = "result" /\ asked'.op = "set") => SetOK(asked')
          /\ asked'.op = "set"
      BY <2>3, SetStep
    <3> QED BY <3>1 DEF SnmpOps
  <2> QED BY <1>7, <2>1, <2>2, <2>3 DEF SnmpSet
<1>8. CASE SnmpTrap
  <2>1. CASE SnmpRefuse("send-trap")
    BY <1>1, <1>2, <2>1 DEF SnmpOps
  <2>2. ASSUME NEW variables \in SeqOf([oid : Oids, value : {0, 1}], 2),
               NEW value \in {NoText, 0, 1}, SendTrap(variables, value)
        PROVE  SnmpInv' /\ asked'.op = "send-trap"
    BY <2>2, TrapStep
  <2> QED BY <1>8, <2>1, <2>2 DEF SnmpTrap, SnmpOps
<1> QED BY <1>3, <1>4, <1>5, <1>6, <1>7, <1>8 DEF SnmpNext

-----------------------------------------------------------------------------
(* The list holds, in some order, what e says of each member of Q.         *)
ArrangedBy(f, list, Q, e) ==
  /\ f \in [1 .. Len(list) -> Q]
  /\ \A i, j \in 1 .. Len(list) : f[i] = f[j] => i = j
  /\ \A q \in Q : \E i \in 1 .. Len(list) : f[i] = q
  /\ \A i \in 1 .. Len(list) : list[i] = e[f[i]]

Arranges(list, Q, e) == \E f : ArrangedBy(f, list, Q, e)

LEMMA ArrangesNone ==
  ASSUME NEW e
  PROVE  Arranges(<<>>, {}, e)
<1>1. ArrangedBy([i \in 1 .. 0 |-> i], <<>>, {}, e)
  BY DEF ArrangedBy
<1> QED BY <1>1 DEF Arranges

LEMMA ArrangesOne ==
  ASSUME NEW q, NEW e
  PROVE  Arranges(<<e[q]>>, {q}, e)
<1> DEFINE f == [i \in 1 .. 1 |-> q]
<1>1. f \in [1 .. 1 -> {q}] /\ f[1] = q /\ Len(<<e[q]>>) = 1 /\ <<e[q]>>[1] = e[q]
  OBVIOUS
<1> HIDE DEF f
<1>2. ArrangedBy(f, <<e[q]>>, {q}, e)
  BY <1>1 DEF ArrangedBy
<1> QED BY <1>2 DEF Arranges

LEMMA ArrangesBoth ==
  ASSUME NEW S, NEW a \in Seq(S), NEW b \in Seq(S), NEW P, NEW Q, NEW e,
         Arranges(a, P, e), Arranges(b, Q, e), P \cap Q = {}
  PROVE  Arranges(a \o b, P \cup Q, e)
<1> DEFINE m == Len(a)
           n == Len(b)
<1>1. /\ m \in Nat /\ n \in Nat /\ Len(a \o b) = m + n
      /\ \A i \in 1 .. m : (a \o b)[i] = a[i]
      /\ \A i \in m + 1 .. m + n : (a \o b)[i] = b[i - m] /\ i - m \in 1 .. n
  OBVIOUS
<1>f. PICK f : ArrangedBy(f, a, P, e)
  BY DEF Arranges
<1>g. PICK g : ArrangedBy(g, b, Q, e)
  BY DEF Arranges
<1>2. /\ f \in [1 .. m -> P]
      /\ \A i, j \in 1 .. m : f[i] = f[j] => i = j
      /\ \A q \in P : \E i \in 1 .. m : f[i] = q
      /\ \A i \in 1 .. m : a[i] = e[f[i]]
  BY <1>f DEF ArrangedBy
<1>3. /\ g \in [1 .. n -> Q]
      /\ \A i, j \in 1 .. n : g[i] = g[j] => i = j
      /\ \A q \in Q : \E i \in 1 .. n : g[i] = q
      /\ \A i \in 1 .. n : b[i] = e[g[i]]
  BY <1>g DEF ArrangedBy
<1> HIDE DEF m, n
<1> DEFINE h == [i \in 1 .. m + n |-> IF i <= m THEN f[i] ELSE g[i - m]]
<1>4. /\ \A i \in 1 .. m : i \in 1 .. m + n /\ h[i] = f[i] /\ h[i] \in P
      /\ \A i \in m + 1 .. m + n : h[i] = g[i - m] /\ h[i] \in Q
      /\ \A i \in 1 .. m + n : i \in 1 .. m \/ i \in m + 1 .. m + n
      /\ \A i \in 1 .. n : i + m \in m + 1 .. m + n /\ i + m - m = i /\ i + m \in 1 .. m + n
  BY <1>1, <1>2, <1>3
<1>5. h \in [1 .. m + n -> P \cup Q]
  BY <1>2, <1>3, <1>4
<1> HIDE DEF h
<1>6. ASSUME NEW i \in 1 .. m + n, NEW j \in 1 .. m + n, h[i] = h[j]
      PROVE  i = j
  <2>1. CASE i \in 1 .. m /\ j \in 1 .. m
    BY <1>2, <1>4, <1>6, <2>1
  <2>2. CASE i \in m + 1 .. m + n /\ j \in m + 1 .. m + n
    <3>1. g[i - m] = g[j - m] /\ i - m \in 1 .. n /\ j - m \in 1 .. n
      BY <1>1, <1>4, <1>6, <2>2
    <3>2. i - m = j - m
      BY <1>3, <3>1
    <3> QED BY <1>1, <3>2
  <2>3. CASE i \in 1 .. m /\ j \in m + 1 .. m + n
    BY <1>4, <1>6, <2>3
  <2>4. CASE j \in 1 .. m /\ i \in m + 1 .. m + n
    BY <1>4, <1>6, <2>4
  <2> QED BY <1>4, <2>1, <2>2, <2>3, <2>4
<1>7. ASSUME NEW q \in P \cup Q
      PROVE  \E i \in 1 .. m + n : h[i] = q
  <2>1. CASE q \in P
    BY <1>2, <1>4, <2>1
  <2>2. CASE q \in Q
    <3>1. PICK i \in 1 .. n : g[i] = q
      BY <1>3, <2>2
    <3> DEFINE j == i + m
    <3>2. j \in 1 .. m + n /\ j \in m + 1 .. m + n /\ j - m = i
      BY <1>1, <1>4
    <3> HIDE DEF j
    <3>3. h[j] = g[j - m]
      BY <1>4, <3>2
    <3> QED BY <3>1, <3>2, <3>3
  <2> QED BY <2>1, <2>2
<1>8. ASSUME NEW i \in 1 .. m + n
      PROVE  (a \o b)[i] = e[h[i]]
  <2>1. CASE i \in 1 .. m
    BY <1>1, <1>2, <1>4, <2>1
  <2>2. CASE i \in m + 1 .. m + n
    BY <1>1, <1>3, <1>4, <2>2
  <2> QED BY <1>4, <2>1, <2>2
<1>9. ArrangedBy(h, a \o b, P \cup Q, e)
  BY <1>1, <1>5, <1>6, <1>7, <1>8 DEF ArrangedBy
<1> QED BY <1>9 DEF Arranges

LEMMA ArrangesRenamed ==
  ASSUME NEW list, NEW P, NEW Q, NEW e, NEW d, NEW g \in [P -> Q],
         Arranges(list, P, e),
         \A p, q \in P : g[p] = g[q] => p = q,
         \A q \in Q : \E p \in P : g[p] = q,
         \A p \in P : e[p] = d[g[p]]
  PROVE  Arranges(list, Q, d)
<1> DEFINE n == Len(list)
<1>f. PICK f : ArrangedBy(f, list, P, e)
  BY DEF Arranges
<1>1. /\ f \in [1 .. n -> P]
      /\ \A i, j \in 1 .. n : f[i] = f[j] => i = j
      /\ \A q \in P : \E i \in 1 .. n : f[i] = q
      /\ \A i \in 1 .. n : list[i] = e[f[i]]
  BY <1>f DEF ArrangedBy
<1> DEFINE h == [i \in 1 .. n |-> g[f[i]]]
<1>2. h \in [1 .. n -> Q] /\ \A i \in 1 .. n : h[i] = g[f[i]] /\ f[i] \in P
  BY <1>1
<1> HIDE DEF h
<1>3. \A i, j \in 1 .. n : h[i] = h[j] => i = j
  BY <1>1, <1>2
<1>4. \A q \in Q : \E i \in 1 .. n : h[i] = q
  BY <1>1, <1>2
<1>5. \A i \in 1 .. n : list[i] = d[h[i]]
  BY <1>1, <1>2
<1>6. ArrangedBy(h, list, Q, d)
  BY <1>2, <1>3, <1>4, <1>5 DEF ArrangedBy
<1> QED BY <1>6 DEF Arranges

LEMMA FlattenFacts ==
  ASSUME NEW S, NEW ss \in Seq(Seq(S)), Len(ss) # 0
  PROVE  \E f : /\ f = [i \in 1 .. Len(ss) |-> IF i = 1 THEN ss[i] ELSE f[i - 1] \o ss[i]]
                /\ FlattenSeq(ss) = f[Len(ss)]
<1> DEFINE n == Len(ss)
           Good(m, f) == f = [i \in 1 .. m |-> IF i = 1 THEN ss[i] ELSE f[i - 1] \o ss[i]]
           T == {m \in 0 .. n - 1 : \E f : Good(m + 1, f)}
<1>n. n \in Nat /\ n # 0 /\ n - 1 \in Nat
  OBVIOUS
<1>1. 0 \in T
  <2> DEFINE f == [i \in 1 .. 1 |-> ss[i]]
  <2>1. Good(0 + 1, f)
    OBVIOUS
  <2> HIDE DEF f, Good
  <2> QED BY <2>1, <1>n
<1>2. ASSUME NEW k \in 0 .. n - 2, k \in T
      PROVE  k + 1 \in T
  <2> DEFINE m == k + 1
  <2>0. m \in Nat /\ m # 0 /\ m \in 0 .. n - 1
    BY <1>n
  <2>1. PICK f : Good(m, f)
    BY <1>2
  <2> HIDE DEF m
  <2> DEFINE g == [i \in 1 .. m + 1 |-> IF i = m + 1 THEN f[m] \o ss[i] ELSE f[i]]
  <2>2. \A i \in 1 .. m : f[i] = IF i = 1 THEN ss[i] ELSE f[i - 1] \o ss[i]
    BY <2>1
  <2>3. \A i \in 1 .. m : g[i] = f[i]
    BY <2>0
  <2>4. ASSUME NEW i \in 1 .. m + 1
        PROVE  g[i] = IF i = 1 THEN ss[i] ELSE g[i - 1] \o ss[i]
    <3>1. CASE i = m + 1
      <4>1. i # 1 /\ i - 1 = m /\ m \in 1 .. m
        BY <2>0, <3>1
      <4> QED BY <2>3, <3>1, <4>1
    <3>2. CASE i # m + 1
      <4>1. i \in 1 .. m /\ (i # 1 => i - 1 \in 1 .. m)
        BY <2>0, <3>2
      <4> HIDE DEF g
      <4> QED BY <2>2, <2>3, <4>1
    <3> QED BY <3>1, <3>2
  <2>5. Good(m + 1, g)
    <3>1. g = [i \in 1 .. m + 1 |-> g[i]]
      OBVIOUS
    <3> HIDE DEF g
    <3> QED BY <2>4, <3>1
  <2> HIDE DEF Good, g
  <2> QED BY <2>0, <2>5 DEF m
<1>3. n - 1 \in T
  <2>1. \A k \in 0 .. (n - 1) - 1 : k \in T => k + 1 \in T
    <3> HIDE DEF T
    <3> QED BY <1>n, <1>2
  <2> HIDE DEF T
  <2>2. \A k \in 0 .. n - 1 : k \in T
    BY <1>n, <1>1, <2>1, Induction
  <2> QED BY <1>n, <2>2
<1> DEFINE u == CHOOSE f : Good(n, f)
<1>4. Good(n, u)
  <2>1. \E f : Good(n, f)
    <3>1. n - 1 + 1 = n
      BY <1>n
    <3> HIDE DEF Good
    <3> QED BY <1>3, <3>1
  <2> HIDE DEF Good
  <2> QED BY <2>1, Zenon
<1>5. FlattenSeq(ss) = u[n]
  BY DEF FlattenSeq
<1> QED BY <1>4, <1>5

FirstOf(Q, n) == UNION {Q[i] : i \in 1 .. n}

LEMMA ArrangesAll ==
  ASSUME NEW S, NEW ss \in Seq(Seq(S)), NEW Q, NEW e,
         \A i \in 1 .. Len(ss) : Arranges(ss[i], Q[i], e),
         \A i, j \in 1 .. Len(ss) : i # j => Q[i] \cap Q[j] = {}
  PROVE  /\ FlattenSeq(ss) \in Seq(S)
         /\ Arranges(FlattenSeq(ss), FirstOf(Q, Len(ss)), e)
<1> DEFINE n == Len(ss)
           All(k) == FirstOf(Q, k)
<1>1. CASE n = 0
  <2>1. ss = <<>> /\ All(n) = {}
    BY <1>1 DEF FirstOf
  <2>2. FlattenSeq(ss) = <<>>
    BY <1>1, <2>1 DEF FlattenSeq
  <2>3. Arranges(<<>>, {}, e)
    BY ArrangesNone
  <2>4. Arranges(FlattenSeq(ss), All(n), e)
    <3> HIDE DEF All
    <3> QED BY <2>1, <2>2, <2>3
  <2> QED BY <2>2, <2>4
<1>2. CASE n # 0
  <2>1. PICK f : /\ f = [i \in 1 .. n |-> IF i = 1 THEN ss[i] ELSE f[i - 1] \o ss[i]]
                 /\ FlattenSeq(ss) = f[n]
    BY <1>2, FlattenFacts
  <2>2. n \in Nat /\ n # 0 /\ n - 1 \in Nat /\ \A i \in 1 .. n : ss[i] \in Seq(S)
    BY <1>2
  <2>3. /\ f[1] = ss[1]
        /\ \A k \in 1 .. n - 1 : f[k + 1] = f[k] \o ss[k + 1]
    <3>1. 1 \in 1 .. n
      BY <2>2
    <3>2. ASSUME NEW k \in 1 .. n - 1
          PROVE  f[k + 1] = f[k] \o ss[k + 1]
      <4> DEFINE j == k + 1
      <4>1. j \in 1 .. n /\ j # 1 /\ j - 1 = k
        BY <2>2
      <4> HIDE DEF j, n
      <4>2. f[j] = IF j = 1 THEN ss[j] ELSE f[j - 1] \o ss[j]
        BY <2>1, <4>1
      <4>3. f[j] = f[k] \o ss[j]
        BY <4>1, <4>2
      <4> QED BY <4>3 DEF j
    <3> HIDE DEF n
    <3> QED BY <2>1, <3>1, <3>2
  <2> HIDE DEF n
  <2> DEFINE T == {k \in 0 .. n - 1 : f[k + 1] \in Seq(S) /\ Arranges(f[k + 1], All(k + 1), e)}
  <2>4. 0 \in T
    <3>1. All(1) = Q[1] /\ 1 \in 1 .. n /\ 0 \in 0 .. n - 1
      BY <2>2 DEF FirstOf
    <3>2. ss[1] \in Seq(S) /\ Arranges(ss[1], Q[1], e)
      BY <2>2, <3>1 DEF n
    <3> HIDE DEF All
    <3> QED BY <2>3, <3>1, <3>2
  <2>5. ASSUME NEW k \in 0 .. n - 2, k \in T
        PROVE  k + 1 \in T
    <3> DEFINE m == k + 1
    <3>1. m \in 1 .. n - 1 /\ m + 1 \in 1 .. n /\ m \in 0 .. n - 1
      BY <2>2
    <3>2. f[m] \in Seq(S) /\ Arranges(f[m], All(m), e)
      BY <2>5
    <3>3. f[m + 1] = f[m] \o ss[m + 1]
      BY <2>3, <3>1
    <3>4. ss[m + 1] \in Seq(S) /\ Arranges(ss[m + 1], Q[m + 1], e)
      BY <2>2, <3>1 DEF n
    <3> HIDE DEF m
    <3>5. All(m) \cap Q[m + 1] = {}
      <4>1. \A i \in 1 .. m : i \in 1 .. n /\ i # m + 1
        BY <2>2, <3>1
      <4> QED BY <3>1, <4>1 DEF n, FirstOf
    <3>6. All(m) \cup Q[m + 1] = All(m + 1)
      <4>1. \A i : i \in 1 .. m + 1 <=> i \in 1 .. m \/ i = m + 1
        BY <3>1
      <4> QED BY <4>1 DEF FirstOf
    <3> HIDE DEF All
    <3>7. f[m + 1] \in Seq(S)
      BY <3>2, <3>3, <3>4
    <3>8. Arranges(f[m + 1], All(m + 1), e)
      <4>1. Arranges(f[m] \o ss[m + 1], All(m) \cup Q[m + 1], e)
        BY <3>2, <3>4, <3>5, ArrangesBoth
      <4> QED BY <3>3, <3>6, <4>1
    <3> QED BY <3>1, <3>7, <3>8 DEF m
  <2>6. n - 1 \in T
    <3>1. \A k \in 0 .. (n - 1) - 1 : k \in T => k + 1 \in T
      <4> HIDE DEF T
      <4> QED BY <2>2, <2>5
    <3> HIDE DEF T
    <3>2. \A k \in 0 .. n - 1 : k \in T
      BY <2>2, <2>4, <3>1, Induction
    <3> QED BY <2>2, <3>2
  <2>7. f[n] \in Seq(S) /\ Arranges(f[n], All(n), e)
    <3>1. n - 1 + 1 = n
      BY <2>2
    <3> HIDE DEF All
    <3> QED BY <2>6, <3>1
  <2> QED BY <2>1, <2>7 DEF n
<1> QED BY <1>1, <1>2

(* Of each value, the list holds as many as Q has members with that value. *)
Positions(list, x) == {i \in DOMAIN list : list[i] = x}
Having(Q, e, x) == {q \in Q : e[q] = x}

LEMMA ArrangedCount ==
  ASSUME NEW S, NEW list \in Seq(S), NEW Q, NEW e, Arranges(list, Q, e), NEW x
  PROVE  Cardinality(Positions(list, x)) = Cardinality(Having(Q, e, x))
<1> DEFINE n == Len(list)
           I == {i \in DOMAIN list : list[i] = x}
           R == {q \in Q : e[q] = x}
<1>f. PICK f : ArrangedBy(f, list, Q, e)
  BY DEF Arranges
<1>1. /\ f \in [1 .. n -> Q]
      /\ \A i, j \in 1 .. n : f[i] = f[j] => i = j
      /\ \A q \in Q : \E i \in 1 .. n : f[i] = q
      /\ \A i \in 1 .. n : list[i] = e[f[i]]
  BY <1>f DEF ArrangedBy
<1>2. n \in Nat /\ DOMAIN list = 1 .. n /\ \A i : i \in I <=> i \in 1 .. n /\ list[i] = x
  OBVIOUS
<1>3. \A q : q \in R <=> q \in Q /\ e[q] = x
  OBVIOUS
<1>4. IsFiniteSet(I)
  <2>1. IsFiniteSet(1 .. n)
    BY <1>2, FS_Interval
  <2>2. I \subseteq 1 .. n
    BY <1>2
  <2> QED BY <2>1, <2>2, FS_Subset
<1> DEFINE g == [i \in I |-> f[i]]
<1> HIDE DEF I, R
<1>5. \A i \in I : i \in 1 .. n /\ g[i] = f[i] /\ g[i] \in R
  <2> SUFFICES ASSUME NEW i \in I
               PROVE  i \in 1 .. n /\ g[i] = f[i] /\ g[i] \in R
    OBVIOUS
  <2>1. i \in 1 .. n /\ list[i] = x /\ f[i] \in Q /\ list[i] = e[f[i]]
    BY <1>1, <1>2
  <2> QED BY <1>3, <2>1
<1>6. g \in [I -> R]
  BY <1>5
<1> HIDE DEF g
<1>7. \A i, j \in I : g[i] = g[j] => i = j
  BY <1>1, <1>5
<1>8. ASSUME NEW q \in R
      PROVE  \E i \in I : g[i] = q
  <2>1. q \in Q /\ e[q] = x
    BY <1>3
  <2>2. PICK i \in 1 .. n : f[i] = q
    BY <1>1, <2>1
  <2>3. i \in I
    BY <1>1, <1>2, <2>1, <2>2
  <2> QED BY <1>5, <2>2, <2>3
<1>9. g \in Bijection(I, R)
  <2>1. g \in Injection(I, R)
    BY <1>6, <1>7 DEF Injection, IsInjective
  <2>2. g \in Surjection(I, R)
    BY <1>6, <1>8 DEF Surjection
  <2> QED BY <2>1, <2>2 DEF Bijection
<1>10. ExistsBijection(I, R)
  BY <1>9 DEF ExistsBijection
<1>11. Cardinality(R) = Cardinality(I)
  BY <1>4, <1>10, FS_Bijection
<1> QED BY <1>11 DEF I, R, Positions, Having

-----------------------------------------------------------------------------
(* Paths                                                                   *)

Leads(refs, n, p) ==
  \A i \in DOMAIN p : p[i] \in References(refs, IF i = 1 THEN n ELSE p[i - 1][3])

AllRefs(refs) == UNION {References(refs, m) : m \in Nodes}

(* The paths of fewer than m references.                                   *)
PathsBelow(refs, n, m) == {p \in Seq(AllRefs(refs)) : Len(p) < m /\ Leads(refs, n, p)}

LEMMA PathsAreBelow ==
  ASSUME NEW refs, NEW n
  PROVE  PathsFrom(refs, n) = PathsBelow(refs, n, MaxLevel + 1)
<1> DEFINE A == AllRefs(refs)
<1>1. MaxLevel \in Nat
  BY ServerAssumption
<1>2. ASSUME NEW p
      PROVE  p \in SeqOf(A, MaxLevel) <=> p \in Seq(A) /\ Len(p) < MaxLevel + 1
  <2> HIDE DEF A
  <2>1. ASSUME p \in SeqOf(A, MaxLevel)
        PROVE  p \in Seq(A) /\ Len(p) < MaxLevel + 1
    <3>1. PICK k \in 0 .. MaxLevel : p \in [1 .. k -> A]
      BY <2>1 DEF SeqOf
    <3>2. p \in Seq(A) /\ Len(p) = k
      BY <1>1, <3>1
    <3> QED BY <1>1, <3>2
  <2>2. ASSUME p \in Seq(A), Len(p) < MaxLevel + 1
        PROVE  p \in SeqOf(A, MaxLevel)
    <3>1. Len(p) \in 0 .. MaxLevel /\ p \in [1 .. Len(p) -> A]
      BY <1>1, <2>2
    <3> QED BY <3>1 DEF SeqOf
  <2> QED BY <2>1, <2>2
<1>3. PathsFrom(refs, n) = {p \in SeqOf(A, MaxLevel) : Leads(refs, n, p)}
  BY DEF PathsFrom, Leads, AllRefs
<1> HIDE DEF A
<1>4. PathsFrom(refs, n) = {p \in Seq(A) : Len(p) < MaxLevel + 1 /\ Leads(refs, n, p)}
  BY <1>2, <1>3
<1> QED BY <1>4 DEF PathsBelow, A

RefsType == [Nodes -> [Kinds -> Seq(Nodes)]]

LEMMA TargetFacts ==
  ASSUME NEW refs \in RefsType, NEW n \in Nodes, NEW r \in References(refs, n)
  PROVE  r[3] \in Nodes /\ r \in AllRefs(refs)
<1>1. PICK kind \in Kinds : r \in {<<kind, i, refs[n][kind][i]>> : i \in DOMAIN refs[n][kind]}
  BY DEF References
<1>2. PICK i \in DOMAIN refs[n][kind] : r = <<kind, i, refs[n][kind][i]>>
  BY <1>1
<1>3. refs[n][kind] \in Seq(Nodes)
  BY DEF RefsType
<1>4. refs[n][kind][i] \in Nodes
  BY <1>2, <1>3
<1> QED BY <1>2, <1>4 DEF AllRefs

LEMMA NoPath ==
  ASSUME NEW refs, NEW n, NEW m \in Nat
  PROVE  /\ PathsBelow(refs, n, 0) = {}
         /\ <<>> \in PathsBelow(refs, n, m + 1)
         /\ End(n, <<>>) = n
<1>1. \A p \in Seq(AllRefs(refs)) : ~(Len(p) < 0)
  OBVIOUS
<1>2. <<>> \in Seq(AllRefs(refs)) /\ Len(<<>>) = 0 /\ DOMAIN <<>> = {} /\ 0 < m + 1
  OBVIOUS
<1>3. Leads(refs, n, <<>>)
  BY <1>2 DEF Leads
<1> QED BY <1>1, <1>2, <1>3 DEF PathsBelow, End

LEMMA PathGrows ==
  ASSUME NEW refs \in RefsType, NEW n \in Nodes, NEW m \in Nat, NEW r \in References(refs, n),
         NEW p \in PathsBelow(refs, r[3], m)
  PROVE  /\ <<r>> \o p \in PathsBelow(refs, n, m + 1)
         /\ <<r>> \o p # <<>>
         /\ (<<r>> \o p)[1] = r
         /\ Tail(<<r>> \o p) = p
         /\ End(n, <<r>> \o p) = End(r[3], p)
<1> DEFINE A == AllRefs(refs)
           q == <<r>> \o p
<1>1. p \in Seq(A) /\ Len(p) < m /\ Leads(refs, r[3], p) /\ r \in A
  BY TargetFacts DEF PathsBelow
<1> HIDE DEF A
<1>2. /\ q \in Seq(A) /\ Len(q) = Len(p) + 1 /\ Len(p) \in Nat /\ q[1] = r
      /\ \A i \in 1 .. Len(p) : q[i + 1] = p[i]
      /\ DOMAIN q = 1 .. Len(p) + 1 /\ DOMAIN p = 1 .. Len(p)
      /\ Tail(q) = p
  BY <1>1
<1> HIDE DEF q
<1>3. q # <<>> /\ Len(q) < m + 1
  BY <1>1, <1>2
<1>4. Leads(refs, n, q)
  <2> SUFFICES ASSUME NEW i \in DOMAIN q
               PROVE  q[i] \in References(refs, IF i = 1 THEN n ELSE q[i - 1][3])
    BY DEF Leads
  <2>1. CASE i = 1
    BY <1>2, <2>1
  <2>2. CASE i # 1
    <3> DEFINE j == i - 1
    <3>1. j \in 1 .. Len(p) /\ j + 1 = i
      BY <1>2, <2>2
    <3>2. q[i] = p[j]
      BY <1>2, <3>1
    <3>3. p[j] \in References(refs, IF j = 1 THEN r[3] ELSE p[j - 1][3])
      BY <1>1, <1>2, <3>1 DEF Leads
    <3>4. q[j] = IF j = 1 THEN r ELSE p[j - 1]
      <4>1. CASE j = 1
        BY <1>2, <4>1
      <4>2. CASE j # 1
        <5> DEFINE k == j - 1
        <5>1. k \in 1 .. Len(p) /\ k + 1 = j
          BY <1>2, <3>1, <4>2
        <5> HIDE DEF j, k
        <5>2. q[k + 1] = p[k]
          BY <1>2, <5>1
        <5> QED BY <4>2, <5>1, <5>2 DEF k
      <4> QED BY <4>1, <4>2
    <3>5. (IF j = 1 THEN r[3] ELSE p[j - 1][3]) = q[j][3]
      BY <3>4
    <3> QED BY <2>2, <3>2, <3>3, <3>5
  <2> QED BY <2>1, <2>2
<1>5. End(n, q) = End(r[3], p)
  <2>1. End(n, q) = q[Len(p) + 1][3]
    BY <1>2, <1>3 DEF End
  <2>2. CASE p = <<>>
    BY <1>2, <2>1, <2>2 DEF End
  <2>3. CASE p # <<>>
    <3>1. Len(p) \in 1 .. Len(p)
      BY <1>1, <2>3
    <3>2. q[Len(p) + 1] = p[Len(p)]
      BY <1>2, <3>1
    <3> QED BY <2>1, <2>3, <3>2 DEF End
  <2> QED BY <2>2, <2>3
<1>6. q \in PathsBelow(refs, n, m + 1)
  BY <1>2, <1>3, <1>4 DEF PathsBelow, A
<1> QED BY <1>2, <1>3, <1>5, <1>6 DEF q

LEMMA PathSplits ==
  ASSUME NEW refs \in RefsType, NEW n \in Nodes, NEW m \in Nat,
         NEW q \in PathsBelow(refs, n, m + 1), q # <<>>
  PROVE  /\ q[1] \in References(refs, n)
         /\ Tail(q) \in PathsBelow(refs, q[1][3], m)
         /\ q = <<q[1]>> \o Tail(q)
<1> DEFINE A == AllRefs(refs)
           p == Tail(q)
<1>1. q \in Seq(A) /\ Len(q) < m + 1 /\ Leads(refs, n, q)
  BY DEF PathsBelow
<1> HIDE DEF A
<1>2. /\ Len(q) \in Nat /\ Len(q) # 0 /\ DOMAIN q = 1 .. Len(q)
      /\ p \in Seq(A) /\ Len(p) = Len(q) - 1 /\ DOMAIN p = 1 .. Len(q) - 1
      /\ \A i \in 1 .. Len(q) - 1 : p[i] = q[i + 1]
      /\ q = <<q[1]>> \o p
  BY <1>1
<1> HIDE DEF p
<1>3. q[1] \in References(refs, n)
  <2>1. 1 \in DOMAIN q
    BY <1>2
  <2>2. q[1] \in References(refs, IF 1 = 1 THEN n ELSE q[1 - 1][3])
    BY <1>1, <2>1 DEF Leads
  <2> QED BY <2>2
<1>4. Leads(refs, q[1][3], p)
  <2> SUFFICES ASSUME NEW i \in DOMAIN p
               PROVE  p[i] \in References(refs, IF i = 1 THEN q[1][3] ELSE p[i - 1][3])
    BY DEF Leads
  <2> DEFINE j == i + 1
  <2>1. j \in 1 .. Len(q) /\ j # 1 /\ j - 1 = i /\ p[i] = q[j]
    BY <1>2
  <2> HIDE DEF j
  <2>2. q[j] \in References(refs, q[i][3])
    BY <1>1, <1>2, <2>1 DEF Leads
  <2>3. q[i] = IF i = 1 THEN q[1] ELSE p[i - 1]
    <3>1. CASE i # 1
      <4> DEFINE k == i - 1
      <4>1. k \in 1 .. Len(q) - 1 /\ k + 1 = i
        BY <1>2, <3>1
      <4> HIDE DEF k
      <4>2. p[k] = q[k + 1]
        BY <1>2, <4>1
      <4> QED BY <3>1, <4>1, <4>2 DEF k
    <3> QED BY <3>1
  <2> QED BY <2>1, <2>2, <2>3
<1>5. p \in PathsBelow(refs, q[1][3], m)
  BY <1>1, <1>2, <1>4 DEF PathsBelow, A
<1> QED BY <1>2, <1>3, <1>5 DEF p

-----------------------------------------------------------------------------
(* Browsing                                                                *)

Targets(refs, n) == [r \in References(refs, n) |-> r[3]]

(* The children of a node are the targets of its references.               *)
LEMMA ChildrenFacts ==
  ASSUME NEW refs \in RefsType, NEW n \in Nodes
  PROVE  /\ Children(refs, n) \in Seq(Nodes)
         /\ Arranges(Children(refs, n), References(refs, n), Targets(refs, n))
<1> DEFINE lists == [k \in DOMAIN RefTypes |-> refs[n][RefTypes[k]]]
           Q == [k \in 1 .. 3 |-> {<<RefTypes[k], i, lists[k][i]>> : i \in DOMAIN lists[k]}]
           e == Targets(refs, n)
<1>1. /\ Len(RefTypes) = 3 /\ DOMAIN RefTypes = 1 .. 3
      /\ \A k, j \in 1 .. 3 : RefTypes[k] = RefTypes[j] => k = j
  BY DEF RefTypes
<1>2. \A kind : kind \in Kinds <=> \E k \in 1 .. 3 : kind = RefTypes[k]
  BY <1>1 DEF Kinds, Range
<1>3. refs \in RefsType
  BY DEF ServerType, RefsType
<1>4. /\ lists \in Seq(Seq(Nodes)) /\ Len(lists) = 3
      /\ \A k \in 1 .. 3 : lists[k] = refs[n][RefTypes[k]] /\ lists[k] \in Seq(Nodes)
  <2>1. \A k \in 1 .. 3 : refs[n][RefTypes[k]] \in Seq(Nodes)
    BY <1>2, <1>3 DEF RefsType
  <2>2. lists = [k \in 1 .. 3 |-> refs[n][RefTypes[k]]]
    BY <1>1
  <2> HIDE DEF lists
  <2> QED BY <2>1, <2>2
<1>5. \A k \in 1 .. 3 : Q[k] = {<<RefTypes[k], i, lists[k][i]>> : i \in DOMAIN lists[k]}
  OBVIOUS
<1> HIDE DEF Q
<1>6. FirstOf(Q, 3) = References(refs, n)
  <2> DEFINE Of(kind, list) == {<<kind, i, list[i]>> : i \in DOMAIN list}
  <2>1. References(refs, n) = UNION {Of(kind, refs[n][kind]) : kind \in Kinds}
    BY DEF References
  <2>2. \A k \in 1 .. 3 : Q[k] = Of(RefTypes[k], lists[k])
    BY <1>5
  <2> HIDE DEF Of, lists
  <2>3. \A k \in 1 .. 3 : Q[k] = Of(RefTypes[k], refs[n][RefTypes[k]])
    BY <1>4, <2>2
  <2> QED BY <1>2, <2>1, <2>3 DEF FirstOf
<1>7. ASSUME NEW k \in 1 .. 3, NEW j \in 1 .. 3, k # j
      PROVE  Q[k] \cap Q[j] = {}
  <2> HIDE DEF lists
  <2>1. ASSUME NEW h \in 1 .. 3, NEW q \in Q[h]
        PROVE  q[1] = RefTypes[h]
    <3>1. PICK i \in DOMAIN lists[h] : q = <<RefTypes[h], i, lists[h][i]>>
      BY <1>5
    <3> QED BY <3>1
  <2> QED BY <1>1, <1>7, <2>1
<1>8. ASSUME NEW k \in 1 .. 3
      PROVE  Arranges(lists[k], Q[k], e)
  <2> DEFINE list == lists[k]
             f == [i \in 1 .. Len(list) |-> <<RefTypes[k], i, list[i]>>]
  <2> HIDE DEF lists
  <2>1. /\ list \in Seq(Nodes) /\ DOMAIN list = 1 .. Len(list)
        /\ Q[k] = {<<RefTypes[k], i, list[i]>> : i \in DOMAIN list}
    BY <1>4, <1>5
  <2> HIDE DEF list
  <2>2. /\ \A i \in 1 .. Len(list) : f[i] = <<RefTypes[k], i, list[i]>> /\ f[i] \in Q[k]
        /\ \A q \in Q[k] : \E i \in 1 .. Len(list) : f[i] = q
    BY <2>1
  <2>3. f \in [1 .. Len(list) -> Q[k]]
    BY <2>2
  <2> HIDE DEF f
  <2>4. \A i, j \in 1 .. Len(list) : f[i] = f[j] => i = j
    <3>1. \A i \in 1 .. Len(list) : f[i][2] = i
      BY <2>2
    <3> QED BY <3>1
  <2>5. ASSUME NEW i \in 1 .. Len(list)
        PROVE  list[i] = e[f[i]]
    <3>1. f[i] \in References(refs, n)
      BY <1>6, <2>2 DEF FirstOf
    <3>2. e[f[i]] = f[i][3]
      BY <3>1 DEF Targets
    <3> QED BY <2>2, <3>2
  <2> HIDE DEF e
  <2>6. ArrangedBy(f, list, Q[k], e)
    BY <2>2, <2>3, <2>4, <2>5 DEF ArrangedBy
  <2> QED BY <2>6 DEF Arranges, list
<1> HIDE DEF lists, e
<1>9. /\ FlattenSeq(lists) \in Seq(Nodes)
      /\ Arranges(FlattenSeq(lists), FirstOf(Q, Len(lists)), e)
  <2>1. \A k \in 1 .. Len(lists) : Arranges(lists[k], Q[k], e)
    BY <1>4, <1>8
  <2>2. \A k, j \in 1 .. Len(lists) : k # j => Q[k] \cap Q[j] = {}
    BY <1>4, <1>7
  <2> QED BY <1>4, <2>1, <2>2, ArrangesAll
<1>10. Children(refs, n) = FlattenSeq(lists)
  BY DEF Children, lists
<1> QED BY <1>4, <1>6, <1>9, <1>10 DEF e

(* What browse finds at a node of a level, when `next` is what it finds    *)
(* one level below.                                                        *)
BrowsedAt(refs, level, next) ==
  [n \in Nodes |->
     IF Cut(level) THEN Browsed(<<>>)
     ELSE IF n \in server.broken THEN BrowseFails
     ELSE LET below == [i \in DOMAIN Children(refs, n) |-> next[Children(refs, n)[i]]]
              own == IF n \in server.variable THEN <<n>> ELSE <<>>
          IN IF \E i \in DOMAIN below : ~below[i].ok THEN BrowseFails
             ELSE Browsed(own \o FlattenSeq([i \in DOMAIN below |-> below[i].nodes]))]

LEMMA BrowseFrom ==
  ASSUME NEW refs, NEW root
  PROVE  \E from : /\ \A level \in 0 .. MaxLevel + 1 :
                         from[level] = BrowsedAt(refs, level, from[level + 1])
                   /\ Browse(refs, root) = from[0][root]
<1> DEFINE M == MaxLevel + 1
           From(k, f) == /\ f = [level \in 0 .. M |-> f[level]]
                         /\ \A level \in M - k .. M : f[level] = BrowsedAt(refs, level, f[level + 1])
           T == {k \in 0 .. M : \E f : From(k, f)}
<1>1. M \in Nat /\ MaxLevel \in Nat /\ M # 0
  BY ServerAssumption
<1>2. 0 \in T
  <2> DEFINE f == [level \in 0 .. M |-> BrowsedAt(refs, M, level)]
  <2>1. \A next : BrowsedAt(refs, M, next) = BrowsedAt(refs, M, M)
    <3>1. Cut(M)
      BY <1>1 DEF Cut
    <3> HIDE DEF M
    <3> QED BY <3>1 DEF BrowsedAt
  <2>2. \A level \in M - 0 .. M : f[level] = BrowsedAt(refs, level, f[level + 1])
    <3>1. \A level \in M - 0 .. M : level = M /\ level \in 0 .. M
      BY <1>1
    <3>2. f[M] = BrowsedAt(refs, M, M)
      BY <1>1
    <3> HIDE DEF f, M
    <3> QED BY <2>1, <3>1, <3>2
  <2>3. f = [level \in 0 .. M |-> f[level]]
    OBVIOUS
  <2>4. From(0, f)
    <3> HIDE DEF f
    <3> QED BY <2>2, <2>3
  <2> HIDE DEF From, f
  <2> QED BY <1>1, <2>4
<1>3. ASSUME NEW k \in 0 .. M - 1, k \in T
      PROVE  k + 1 \in T
  <2>1. PICK f : From(k, f)
    BY <1>3
  <2> DEFINE l == M - (k + 1)
             g == [level \in 0 .. M |-> IF level = l THEN BrowsedAt(refs, l, f[l + 1]) ELSE f[level]]
  <2>2. /\ l \in 0 .. M /\ l < M
        /\ \A level \in M - (k + 1) .. M : level = l \/ level \in M - k .. M
        /\ \A level \in M - k .. M : level # l /\ level \in 0 .. M
        /\ l + 1 \in M - k .. M
    BY <1>1
  <2>3. \A level \in M - k .. M : g[level] = f[level]
    BY <2>2
  <2>4. g[l] = BrowsedAt(refs, l, f[l + 1])
    BY <2>2
  <2>5. g = [level \in 0 .. M |-> g[level]]
    OBVIOUS
  <2> HIDE DEF g, l, M
  <2>6. ASSUME NEW level \in M - k .. M
        PROVE  g[level] = BrowsedAt(refs, level, g[level + 1])
    <3>1. f[level] = BrowsedAt(refs, level, f[level + 1])
      BY <2>1, <2>6
    <3>2. CASE level = M
      <4>1. Cut(level)
        BY <1>1, <3>2 DEF Cut, M
      <4>2. BrowsedAt(refs, level, g[level + 1]) = BrowsedAt(refs, level, f[level + 1])
        BY <4>1 DEF BrowsedAt
      <4> QED BY <2>3, <2>6, <3>1, <4>2
    <3>3. CASE level # M
      <4>1. level + 1 \in M - k .. M
        BY <1>1, <2>6, <3>3
      <4>2. g[level + 1] = f[level + 1]
        BY <2>3, <4>1
      <4> QED BY <2>3, <2>6, <3>1, <4>2
    <3> QED BY <3>2, <3>3
  <2>7. g[l] = BrowsedAt(refs, l, g[l + 1])
    BY <2>2, <2>3, <2>4
  <2>8. From(k + 1, g)
    <3>1. \A level \in M - (k + 1) .. M : g[level] = BrowsedAt(refs, level, g[level + 1])
      BY <2>2, <2>6, <2>7
    <3> QED BY <2>5, <3>1
  <2>9. k + 1 \in 0 .. M
    BY <1>1
  <2> HIDE DEF From
  <2> QED BY <2>8, <2>9
<1>4. M \in T
  <2> HIDE DEF T, M
  <2>1. \A k \in 0 .. M : k \in T
    BY <1>1, <1>2, <1>3, Induction
  <2> QED BY <1>1, <2>1
<1> DEFINE Right(f) == f = [level \in 0 .. MaxLevel + 1 |-> BrowsedAt(refs, level, f[level + 1])]
           from == CHOOSE f : Right(f)
<1>5. Right(from)
  <2>1. PICK f : From(M, f)
    BY <1>4
  <2>2. Right(f)
    <3>1. M - M = 0
      BY <1>1
    <3>2. \A level \in 0 .. M : f[level] = BrowsedAt(refs, level, f[level + 1])
      BY <2>1, <3>1
    <3>3. f = [level \in 0 .. M |-> f[level]]
      BY <2>1
    <3> QED BY <3>2, <3>3
  <2> HIDE DEF Right
  <2> QED BY <2>2, Zenon
<1>6. Browse(refs, root) = from[0][root]
  BY DEF Browse, BrowsedAt
<1>7. \A level \in 0 .. MaxLevel + 1 : from[level] = BrowsedAt(refs, level, from[level + 1])
  <2> HIDE DEF from
  <2> QED BY <1>5
<1> HIDE DEF from
<1> QED BY <1>6, <1>7

Below(refs, n, m) == PathsBelow(refs, n, m)
Shown(refs, n, m) == {p \in Below(refs, n, m) : End(n, p) \in server.variable}
Ends(refs, n, m) == [p \in Below(refs, n, m) |-> End(n, p)]

(* found lists the variables at the ends of the paths of fewer than m      *)
(* references from n, none of which ends in a node that cannot be read.    *)
Told(refs, n, m, found) ==
  found.ok =>
     /\ found.nodes \in Seq(Nodes)
     /\ Arranges(found.nodes, Shown(refs, n, m), Ends(refs, n, m))
     /\ \A p \in Below(refs, n, m) : End(n, p) \notin server.broken

(* The paths from n that begin with the reference r.                       *)
Through(refs, r, m) == {<<r>> \o p : p \in Shown(refs, r[3], m)}

LEMMA ThroughFacts ==
  ASSUME NEW refs \in RefsType, NEW n \in Nodes, NEW m \in Nat,
         NEW r \in References(refs, n)
  PROVE  /\ \A q \in Through(refs, r, m) : q \in Shown(refs, n, m + 1) /\ q # <<>> /\ q[1] = r
         /\ \A q \in Shown(refs, n, m + 1) : q # <<>> /\ q[1] = r => q \in Through(refs, r, m)
         /\ \A list : Arranges(list, Shown(refs, r[3], m), Ends(refs, r[3], m))
                         => Arranges(list, Through(refs, r, m), Ends(refs, n, m + 1))
<1> DEFINE c == r[3]
<1>1. c \in Nodes
  BY TargetFacts
<1>2. ASSUME NEW p \in Below(refs, c, m)
      PROVE  /\ <<r>> \o p \in Below(refs, n, m + 1)
             /\ <<r>> \o p # <<>>
             /\ (<<r>> \o p)[1] = r
             /\ Tail(<<r>> \o p) = p
             /\ End(n, <<r>> \o p) = End(c, p)
  BY <1>1, PathGrows DEF Below
<1>3. ASSUME NEW q \in Through(refs, r, m)
      PROVE  q \in Shown(refs, n, m + 1) /\ q # <<>> /\ q[1] = r
  <2>1. PICK p \in Shown(refs, c, m) : q = <<r>> \o p
    BY DEF Through
  <2>2. p \in Below(refs, c, m) /\ End(c, p) \in server.variable
    BY DEF Shown
  <2> HIDE DEF c
  <2>3. q \in Below(refs, n, m + 1) /\ End(n, q) \in server.variable /\ q # <<>> /\ q[1] = r
    BY <1>2, <2>1, <2>2
  <2> QED BY <2>3 DEF Shown
<1>4. ASSUME NEW q \in Shown(refs, n, m + 1), q # <<>>, q[1] = r
      PROVE  q \in Through(refs, r, m)
  <2>1. q \in Below(refs, n, m + 1) /\ End(n, q) \in server.variable
    BY DEF Shown
  <2>2. Tail(q) \in Below(refs, c, m) /\ q = <<r>> \o Tail(q)
    BY <1>1, <1>4, <2>1, PathSplits DEF Below
  <2>3. End(c, Tail(q)) \in server.variable
    BY <1>2, <2>1, <2>2
  <2> QED BY <2>2, <2>3 DEF Through, Shown
<1>5. ASSUME NEW list, Arranges(list, Shown(refs, c, m), Ends(refs, c, m))
      PROVE  Arranges(list, Through(refs, r, m), Ends(refs, n, m + 1))
  <2> DEFINE P == Shown(refs, c, m)
             g == [p \in P |-> <<r>> \o p]
  <2>1. \A p \in P : p \in Below(refs, c, m) /\ g[p] = <<r>> \o p /\ g[p] \in Through(refs, r, m)
    BY DEF Shown, Through
  <2>2. g \in [P -> Through(refs, r, m)]
    BY <2>1
  <2>3. \A q \in Through(refs, r, m) : \E p \in P : g[p] = q
    BY DEF Through
  <2> HIDE DEF g, P, c
  <2>4. \A p, q \in P : g[p] = g[q] => p = q
    <3>1. \A p \in P : Tail(g[p]) = p
      BY <1>2, <2>1
    <3> QED BY <3>1
  <2>5. ASSUME NEW p \in P
        PROVE  Ends(refs, c, m)[p] = Ends(refs, n, m + 1)[g[p]]
    <3>1. Ends(refs, c, m)[p] = End(c, p)
      BY <2>1 DEF Ends
    <3>2. g[p] \in Below(refs, n, m + 1) /\ End(n, g[p]) = End(c, p)
      BY <1>2, <2>1
    <3>3. Ends(refs, n, m + 1)[g[p]] = End(n, g[p])
      BY <3>2 DEF Ends
    <3> QED BY <3>1, <3>2, <3>3
  <2>6. Arranges(list, P, Ends(refs, c, m))
    BY <1>5 DEF P
  <2> QED BY <2>2, <2>3, <2>4, <2>5, <2>6, ArrangesRenamed
<1> QED BY <1>3, <1>4, <1>5

LEMMA BrowseStep ==
  ASSUME NEW refs \in RefsType, NEW n \in Nodes, NEW m \in Nat, NEW level, ~Cut(level),
         NEW next, \A c \in Nodes : Told(refs, c, m, next[c])
  PROVE  Told(refs, n, m + 1, BrowsedAt(refs, level, next)[n])
<1> DEFINE found == BrowsedAt(refs, level, next)[n]
           C == Children(refs, n)
           below == [i \in DOMAIN C |-> next[C[i]]]
           own == IF n \in server.variable THEN <<n>> ELSE <<>>
           ss == [i \in DOMAIN below |-> below[i].nodes]
           R == References(refs, n)
           e == Ends(refs, n, m + 1)
           rest == {p \in Shown(refs, n, m + 1) : p # <<>>}
<1>1. found = IF n \in server.broken THEN BrowseFails
              ELSE IF \E i \in DOMAIN below : ~below[i].ok THEN BrowseFails
              ELSE Browsed(own \o FlattenSeq(ss))
  BY DEF BrowsedAt
<1> HIDE DEF found
<1> SUFFICES ASSUME found.ok
             PROVE  /\ found.nodes \in Seq(Nodes)
                    /\ Arranges(found.nodes, Shown(refs, n, m + 1), e)
                    /\ \A p \in Below(refs, n, m + 1) : End(n, p) \notin server.broken
  BY DEF Told, found
<1>2. /\ n \notin server.broken
      /\ \A i \in DOMAIN below : below[i].ok
      /\ found.nodes = own \o FlattenSeq(ss)
  <2> HIDE DEF below, own, ss
  <2> QED BY <1>1 DEF BrowseFails, Browsed
<1>3. C \in Seq(Nodes) /\ DOMAIN C = 1 .. Len(C) /\ Len(C) \in Nat
  BY ChildrenFacts
<1>4. PICK f : ArrangedBy(f, C, R, Targets(refs, n))
  BY ChildrenFacts DEF Arranges
<1>5. /\ \A i \in 1 .. Len(C) : f[i] \in R /\ f[i][3] = C[i] /\ C[i] \in Nodes
      /\ \A i, j \in 1 .. Len(C) : f[i] = f[j] => i = j
      /\ \A r \in R : \E i \in 1 .. Len(C) : f[i] = r
  <2>1. \A i \in 1 .. Len(C) : C[i] \in Nodes
    BY <1>3
  <2> HIDE DEF C
  <2>2. \A r \in R : Targets(refs, n)[r] = r[3]
    BY DEF Targets
  <2> HIDE DEF R
  <2> QED BY <1>4, <2>1, <2>2 DEF ArrangedBy
<1> HIDE DEF C
<1>6. ASSUME NEW i \in 1 .. Len(C)
      PROVE  /\ ss[i] \in Seq(Nodes)
             /\ Arranges(ss[i], Through(refs, f[i], m), e)
             /\ \A p \in Below(refs, C[i], m) : End(C[i], p) \notin server.broken
  <2>1. ss[i] = next[C[i]].nodes /\ next[C[i]].ok
    BY <1>2, <1>3
  <2> HIDE DEF ss
  <2>2. /\ ss[i] \in Seq(Nodes)
        /\ Arranges(ss[i], Shown(refs, C[i], m), Ends(refs, C[i], m))
        /\ \A p \in Below(refs, C[i], m) : End(C[i], p) \notin server.broken
    BY <1>5, <2>1 DEF Told
  <2>3. Arranges(ss[i], Through(refs, f[i], m), e)
    BY <1>5, <2>2, ThroughFacts
  <2> QED BY <2>2, <2>3
<1> DEFINE Q == [i \in 1 .. Len(C) |-> Through(refs, f[i], m)]
<1>7. /\ FlattenSeq(ss) \in Seq(Nodes)
      /\ Arranges(FlattenSeq(ss), FirstOf(Q, Len(C)), e)
  <2>1. ss = [i \in 1 .. Len(C) |-> ss[i]]
    BY <1>3
  <2>2. \A i \in 1 .. Len(C) : Q[i] = Through(refs, f[i], m)
    OBVIOUS
  <2> HIDE DEF ss, e, Q
  <2>3. ss \in Seq(Seq(Nodes)) /\ Len(ss) = Len(C)
    BY <1>3, <1>6, <2>1
  <2>4. \A i \in 1 .. Len(ss) : Arranges(ss[i], Q[i], e)
    BY <1>6, <2>2, <2>3
  <2>5. ASSUME NEW i \in 1 .. Len(ss), NEW j \in 1 .. Len(ss), i # j
        PROVE  Q[i] \cap Q[j] = {}
    <3>1. ASSUME NEW h \in 1 .. Len(ss), NEW q \in Q[h]
          PROVE  q[1] = f[h]
      <4>1. f[h] \in R /\ q \in Through(refs, f[h], m)
        BY <1>5, <2>2, <2>3
      <4>2. \A r \in R : \A p \in Through(refs, r, m) : p[1] = r
        BY ThroughFacts
      <4> QED BY <4>1, <4>2
    <3>2. f[i] # f[j]
      BY <1>5, <2>3, <2>5
    <3> QED BY <3>1, <3>2
  <2> QED BY <2>3, <2>4, <2>5, ArrangesAll
<1>8. FirstOf(Q, Len(C)) = rest
  <2>1. \A i \in 1 .. Len(C) : Q[i] = Through(refs, f[i], m)
    OBVIOUS
  <2> HIDE DEF Q
  <2>2. ASSUME NEW q \in FirstOf(Q, Len(C))
        PROVE  q \in rest
    <3>1. PICK i \in 1 .. Len(C) : q \in Through(refs, f[i], m)
      BY <2>1 DEF FirstOf
    <3>2. q \in Shown(refs, n, m + 1) /\ q # <<>>
      BY <1>5, <3>1, ThroughFacts
    <3> QED BY <3>2
  <2>3. ASSUME NEW q \in rest
        PROVE  q \in FirstOf(Q, Len(C))
    <3>1. q \in Shown(refs, n, m + 1) /\ q # <<>> /\ q \in Below(refs, n, m + 1)
      BY DEF Shown
    <3>2. refs \in RefsType
      BY DEF ServerType, RefsType
    <3>3. q[1] \in R
      BY <3>1, <3>2, PathSplits DEF Below
    <3>4. PICK i \in 1 .. Len(C) : f[i] = q[1]
      BY <1>5, <3>3
    <3>5. q \in Through(refs, f[i], m)
      BY <1>5, <3>1, <3>4, ThroughFacts
    <3> QED BY <2>1, <3>5 DEF FirstOf
  <2> HIDE DEF rest
  <2> QED BY <2>2, <2>3
<1>9. <<>> \in Below(refs, n, m + 1) /\ End(n, <<>>) = n /\ e[<<>>] = n
  BY NoPath DEF Below, Ends
<1>10. /\ own \in Seq(Nodes)
       /\ own \o FlattenSeq(ss) \in Seq(Nodes)
       /\ Arranges(own \o FlattenSeq(ss), Shown(refs, n, m + 1), e)
  <2> DEFINE first == IF n \in server.variable THEN {<<>>} ELSE {}
  <2>1. own \in Seq(Nodes)
    OBVIOUS
  <2>2. Arranges(own, first, e)
    <3> HIDE DEF e
    <3>1. CASE n \in server.variable
      <4>1. Arranges(<<e[<<>>]>>, {<<>>}, e)
        BY ArrangesOne
      <4> QED BY <1>9, <3>1, <4>1
    <3>2. CASE n \notin server.variable
      BY <3>2, ArrangesNone
    <3> QED BY <3>1, <3>2
  <2>3. first \cap rest = {} /\ first \cup rest = Shown(refs, n, m + 1)
    BY <1>9 DEF Shown
  <2> HIDE DEF own, first, rest, e, ss
  <2>4. Arranges(own \o FlattenSeq(ss), first \cup rest, e)
    <3>1. Arranges(FlattenSeq(ss), rest, e) /\ FlattenSeq(ss) \in Seq(Nodes)
      BY <1>7, <1>8
    <3> QED BY <2>1, <2>2, <2>3, <3>1, ArrangesBoth
  <2>5. own \o FlattenSeq(ss) \in Seq(Nodes)
    BY <1>7, <2>1
  <2> QED BY <2>1, <2>3, <2>4, <2>5
<1>11. ASSUME NEW q \in Below(refs, n, m + 1)
       PROVE  End(n, q) \notin server.broken
  <2>1. CASE q = <<>>
    BY <1>2, <1>9, <2>1
  <2>2. CASE q # <<>>
    <3>1. refs \in RefsType
      BY DEF ServerType, RefsType
    <3>2. /\ q[1] \in R /\ Tail(q) \in PathsBelow(refs, q[1][3], m)
          /\ q = <<q[1]>> \o Tail(q)
      BY <2>2, <3>1, PathSplits DEF Below
    <3>3. End(n, q) = End(q[1][3], Tail(q))
      <4>1. End(n, <<q[1]>> \o Tail(q)) = End(q[1][3], Tail(q))
        BY <3>1, <3>2, PathGrows
      <4> QED BY <3>2, <4>1
    <3>4. PICK i \in 1 .. Len(C) : f[i] = q[1]
      BY <1>5, <3>2
    <3>5. C[i] = q[1][3]
      BY <1>5, <3>4
    <3> QED BY <1>6, <3>2, <3>3, <3>5 DEF Below
  <2> QED BY <2>1, <2>2
<1> HIDE DEF own, ss, e
<1> QED BY <1>2, <1>10, <1>11

LEMMA BrowseIsTold ==
  ASSUME NEW refs \in RefsType, NEW root \in Nodes
  PROVE  Told(refs, root, MaxLevel + 1, Browse(refs, root))
<1> DEFINE M == MaxLevel + 1
<1>1. M \in Nat /\ MaxLevel \in Nat
  BY ServerAssumption
<1>2. PICK from : /\ \A level \in 0 .. M : from[level] = BrowsedAt(refs, level, from[level + 1])
                  /\ Browse(refs, root) = from[0][root]
  BY BrowseFrom
<1> DEFINE T == {k \in 0 .. M : \A n \in Nodes : Told(refs, n, k, from[M - k][n])}
<1>3. 0 \in T
  <2>1. Cut(M) /\ M \in 0 .. M /\ M - 0 = M /\ 0 \in 0 .. M
    BY <1>1 DEF Cut
  <2> HIDE DEF M
  <2>2. ASSUME NEW n \in Nodes
        PROVE  Told(refs, n, 0, from[M - 0][n])
    <3>1. from[M][n] = Browsed(<<>>)
      <4>1. BrowsedAt(refs, M, from[M + 1]) = [c \in Nodes |-> Browsed(<<>>)]
        BY <2>1 DEF BrowsedAt
      <4>2. from[M] = BrowsedAt(refs, M, from[M + 1])
        BY <1>2, <2>1
      <4> QED BY <4>1, <4>2
    <3>2. Below(refs, n, 0) = {}
      BY NoPath DEF Below
    <3>3. Shown(refs, n, 0) = {}
      BY <3>2 DEF Shown
    <3>4. Arranges(<<>>, {}, Ends(refs, n, 0))
      BY ArrangesNone
    <3>5. from[M - 0][n].nodes = <<>>
      BY <2>1, <3>1 DEF Browsed
    <3>6. <<>> \in Seq(Nodes)
      OBVIOUS
    <3> QED BY <3>2, <3>3, <3>4, <3>5, <3>6 DEF Told
  <2> QED BY <2>1, <2>2
<1>4. ASSUME NEW k \in 0 .. M - 1, k \in T
      PROVE  k + 1 \in T
  <2> DEFINE l == M - (k + 1)
  <2>1. l \in 0 .. M /\ l + 1 = M - k /\ ~Cut(l) /\ k \in Nat /\ k + 1 \in 0 .. M
    BY <1>1 DEF Cut
  <2>2. from[l] = BrowsedAt(refs, l, from[l + 1])
    BY <1>2, <2>1
  <2>3. \A n \in Nodes : Told(refs, n, k, from[l + 1][n])
    BY <1>4, <2>1
  <2> HIDE DEF l
  <2>4. ASSUME NEW n \in Nodes
        PROVE  Told(refs, n, k + 1, from[l][n])
    <3>1. Told(refs, n, k + 1, BrowsedAt(refs, l, from[l + 1])[n])
      BY <2>1, <2>3, BrowseStep
    <3> QED BY <2>2, <3>1
  <2> QED BY <2>1, <2>4 DEF l
<1>5. M \in T
  <2> HIDE DEF T, M
  <2>1. \A k \in 0 .. M : k \in T
    BY <1>1, <1>3, <1>4, Induction
  <2> QED BY <1>1, <2>1
<1>6. Told(refs, root, M, from[0][root])
  <2>1. M - M = 0
    BY <1>1
  <2> HIDE DEF M
  <2> QED BY <1>5, <2>1
<1> QED BY <1>2, <1>6

(* BrowseIsExact as a predicate of what it speaks of.                      *)
Exact(holds, refs, root, list) ==
  LET paths == PathsFrom(refs, root)
      to(n) == {p \in paths : End(root, p) = n}
  IN /\ \A n \in holds.broken : to(n) = {}
     /\ \A n \in Nodes :
           Cardinality({i \in DOMAIN list : list[i] = n})
             = IF n \in holds.variable THEN Cardinality(to(n)) ELSE 0

BrowsedExactly(asks, answer, holds) ==
  (answer.kind = "result" /\ asks.op = "browse") => Exact(holds, asks.given, asks.node, answer.value)

LEMMA BrowseFacts ==
  ASSUME NEW refs \in RefsType, NEW root \in Nodes, Browse(refs, root).ok
  PROVE  Exact(server, refs, root, Browse(refs, root).nodes)
<1> DEFINE M == MaxLevel + 1
           list == Browse(refs, root).nodes
           paths == PathsFrom(refs, root)
           to(n) == {p \in paths : End(root, p) = n}
<1>1. paths = Below(refs, root, M)
  BY PathsAreBelow DEF Below
<1>2. /\ list \in Seq(Nodes)
      /\ Arranges(list, Shown(refs, root, M), Ends(refs, root, M))
      /\ \A p \in Below(refs, root, M) : End(root, p) \notin server.broken
  BY BrowseIsTold DEF Told
<1> HIDE DEF list, paths, M
<1>3. \A n \in server.broken : to(n) = {}
  BY <1>1, <1>2
<1>4. ASSUME NEW n \in Nodes
      PROVE  Cardinality({i \in DOMAIN list : list[i] = n})
               = IF n \in server.variable THEN Cardinality(to(n)) ELSE 0
  <2>1. Cardinality(Positions(list, n)) = Cardinality(Having(Shown(refs, root, M), Ends(refs, root, M), n))
    BY <1>2, ArrangedCount
  <2>5. Positions(list, n) = {i \in DOMAIN list : list[i] = n}
    BY DEF Positions
  <2>2. \A p \in Shown(refs, root, M) : Ends(refs, root, M)[p] = End(root, p)
    BY DEF Shown, Ends
  <2>3. CASE n \in server.variable
    <3>1. Having(Shown(refs, root, M), Ends(refs, root, M), n) = to(n)
      BY <1>1, <2>2, <2>3 DEF Shown, Having
    <3> QED BY <2>1, <2>3, <2>5, <3>1
  <2>4. CASE n \notin server.variable
    <3>1. Having(Shown(refs, root, M), Ends(refs, root, M), n) = {}
      BY <2>2, <2>4 DEF Shown, Having
    <3>2. Cardinality({}) = 0
      BY FS_EmptySet
    <3> QED BY <2>1, <2>4, <2>5, <3>1, <3>2
  <2> QED BY <2>3, <2>4
<1> QED BY <1>3, <1>4 DEF Exact, list, paths

(* What the server gives of its references has their type.                 *)
LEMMA ReturnedFacts ==
  ASSUME server \in ServerType, NEW cut \in Cuts
  PROVE  Returned(cut) \in RefsType
<1>1. ASSUME NEW n \in Nodes, NEW kind \in Kinds
      PROVE  SubSeq(server.refs[n][kind], 1,
                    IF cut[n][kind] < Len(server.refs[n][kind])
                    THEN cut[n][kind] ELSE Len(server.refs[n][kind])) \in Seq(Nodes)
  <2> DEFINE list == server.refs[n][kind]
             m == IF cut[n][kind] < Len(list) THEN cut[n][kind] ELSE Len(list)
  <2>1. list \in Seq(Nodes)
    BY DEF ServerType
  <2>2. cut[n][kind] \in Nat
    BY ServerAssumption
  <2> HIDE DEF list
  <2>3. m \in Nat /\ m <= Len(list)
    BY <2>1, <2>2
  <2> HIDE DEF m
  <2>4. \A i \in 1 .. m : list[i] \in Nodes
    BY <2>1, <2>3
  <2>5. SubSeq(list, 1, m) \in Seq(Nodes)
    BY <2>3, <2>4, SubSeqProperties
  <2> QED BY <2>5 DEF list, m
<1> QED BY <1>1 DEF Returned, RefsType

-----------------------------------------------------------------------------
(* The OPC-UA connector                                                    *)

(* What a node holds after a write that was answered with a good status,   *)
(* until the next request or the next value of the process behind it.      *)
WriteIsKept ==
  (reply.kind = "result" /\ asked.op = "write" /\ reply.value = <<0>>)
    => data[asked.node] = Kept(server.type[asked.node], asked.value)

OpcuaInv ==
  /\ DOMAIN data = Nodes
  /\ WriteIsKept

WriteDone ==
  IF reply'.value = <<0>>
  THEN \A n \in Nodes : data'[n] = IF n = asked'.node THEN Kept(server.type[n], asked'.value)
                                   ELSE data[n]
  ELSE data' = data

OpcuaOps == {"read", "write", "browse"}

LEMMA WriteNodeStep ==
  ASSUME OpcuaInv, NEW n \in Nodes, NEW value \in (0 .. Top + 1) \cup {NotText},
         WriteNode(n, value)
  PROVE  /\ OpcuaInv'
         /\ reply'.kind = "result" => WriteDone
         /\ asked'.op = "write"
<1> DEFINE wire == Converted(GetType(n), value)
<1>1. CASE OpcuaRefuse("write")
  <2>1. UNCHANGED data /\ asked'.op = "write" /\ reply'.kind # "result"
    BY <1>1 DEF OpcuaRefuse, Call, Error, Answered, OpcuaSame, opcuaVars
  <2> QED BY <2>1 DEF OpcuaInv, WriteIsKept
<1>2. CASE ~OpcuaRefuse("write")
  <2>1. /\ wire # Null
        /\ data' = IF n \in server.readOnly THEN data ELSE [data EXCEPT ![n] = wire]
        /\ \/ Call([op |-> "write", node |-> n, value |-> value],
                   Result(<<IF n \in server.readOnly THEN 1 ELSE 0>>))
           \/ Call([op |-> "write"], Error)
    BY <1>2 DEF WriteNode
  <2>2. wire = Kept(server.type[n], value)
    <3>1. NotText = -2 /\ Blank = -1 /\ Null = -3 /\ Top \in Nat
      BY ServerAssumption DEF NotText, Blank, Null
    <3>6. GetType(n) = "other" \/ GetType(n) = server.type[n]
      BY DEF GetType
    <3> USE DEF Kept
    <3> HIDE DEF wire
    <3>2. CASE GetType(n) = "string"
      BY <3>2, <3>6 DEF Converted, wire
    <3>3. CASE GetType(n) = "narrow"
      <4>1. wire = (IF value \in 0 .. Top - 1 THEN value ELSE Null)
        BY <3>3 DEF Converted, wire
      <4> QED BY <2>1, <3>1, <3>3, <3>6, <4>1
    <3>4. CASE GetType(n) = "wide"
      <4>1. wire = (IF value \in 0 .. Top THEN value ELSE Null)
        BY <3>4 DEF Converted, wire
      <4> QED BY <2>1, <3>1, <3>4, <3>6, <4>1
    <3>7. CASE GetType(n) = "rounded"
      <4>1. wire = (IF value \in 0 .. Top THEN Rounded(value) ELSE Null)
        BY <3>7 DEF Converted, wire
      <4> QED BY <2>1, <3>1, <3>6, <3>7, <4>1
    <3>5. CASE GetType(n) \notin {"string", "narrow", "wide", "rounded"}
      BY <2>1, <3>5 DEF Converted, wire
    <3> QED BY <3>2, <3>3, <3>4, <3>5, <3>7
  <2> HIDE DEF wire
  <2>3. DOMAIN data' = Nodes /\ asked'.op = "write"
    BY <2>1 DEF OpcuaInv, Call
  <2>4. CASE Call([op |-> "write"], Error)
    <3>1. reply'.kind # "result"
      BY <2>4 DEF Call, Error, Answered
    <3> QED BY <2>3, <3>1 DEF OpcuaInv, WriteIsKept
  <2>5. CASE Call([op |-> "write", node |-> n, value |-> value],
                  Result(<<IF n \in server.readOnly THEN 1 ELSE 0>>))
    <3>1. /\ asked'.node = n /\ asked'.value = value
          /\ reply'.value = <<IF n \in server.readOnly THEN 1 ELSE 0>>
      BY <2>5 DEF Call, Result, Answered
    <3>2. (reply'.value = <<0>>) <=> n \notin server.readOnly
      BY <3>1
    <3>3. n \notin server.readOnly =>
             \A k \in Nodes : data'[k] = IF k = n THEN wire ELSE data[k]
      BY <2>1 DEF OpcuaInv
    <3>4. WriteDone
      BY <2>1, <2>2, <3>1, <3>2, <3>3 DEF WriteDone
    <3>6. server' = server
      BY <1>2 DEF WriteNode
    <3>5. WriteIsKept'
      BY <2>2, <3>1, <3>2, <3>3, <3>6 DEF WriteIsKept
    <3> QED BY <2>3, <3>4, <3>5 DEF OpcuaInv
  <2> QED BY <2>1, <2>4, <2>5
<1> QED BY <1>1, <1>2

LEMMA OpcuaSteps ==
  ASSUME OpcuaInv, OpcuaNext
  PROVE  /\ OpcuaInv'
         /\ (reply'.kind = "result" /\ asked'.op = "write") =>
               WriteDone \/ UNCHANGED <<asked, reply, data>>
         /\ asked'.op \in OpcuaOps \cup {"none", "unknown"} \/ UNCHANGED <<asked, reply>>
<1>1. ASSUME DOMAIN data' = Nodes, asked'.op \in {"read", "browse", "none", "unknown"}
      PROVE  /\ OpcuaInv'
             /\ asked'.op # "write"
             /\ asked'.op \in OpcuaOps \cup {"none", "unknown"}
  BY <1>1 DEF OpcuaInv, WriteIsKept, OpcuaOps
<1>2. UNCHANGED data => DOMAIN data' = Nodes
  BY DEF OpcuaInv
<1>3. CASE OpcuaOpen
  <2>1. UNCHANGED data /\ asked'.op = "none"
    BY <1>3 DEF OpcuaOpen, Open, Idle, OpcuaSame, opcuaVars
  <2> QED BY <1>1, <1>2, <2>1
<1>4. CASE UnknownMethod /\ OpcuaSame
  <2>1. UNCHANGED data /\ asked'.op = "unknown"
    BY <1>4 DEF UnknownMethod, Call, OpcuaSame, opcuaVars
  <2> QED BY <1>1, <1>2, <2>1
<1>5. CASE OpcuaClose
  <2>1. UNCHANGED <<asked, reply, data, server>>
    BY <1>5 DEF OpcuaClose, OpcuaSame, opcuaVars
  <2> QED BY <1>2, <2>1 DEF OpcuaInv, WriteIsKept
<1>6. ASSUME NEW n \in Nodes, ReadNode(n)
      PROVE  UNCHANGED data /\ asked'.op = "read"
  BY <1>6 DEF ReadNode, OpcuaRefuse, Call, OpcuaSame, opcuaVars
<1>7. ASSUME NEW n \in Nodes, ReadNothing(n)
      PROVE  UNCHANGED data /\ asked'.op = "read"
  BY <1>7 DEF ReadNothing, OpcuaSame, opcuaVars
<1>8. ASSUME NEW n \in Nodes, BrowseNode(n)
      PROVE  UNCHANGED data /\ asked'.op = "browse"
  BY <1>8 DEF BrowseNode, OpcuaRefuse, Call, OpcuaSame, opcuaVars
<1>9. ASSUME NEW n \in Nodes, Produce(n)
      PROVE  DOMAIN data' = Nodes /\ asked'.op = "none"
  BY <1>9 DEF Produce, Idle, OpcuaInv
<1>10. CASE \E n \in Nodes : \/ ReadNode(n)
                             \/ ReadNothing(n)
                             \/ BrowseNode(n)
                             \/ Produce(n)
  BY <1>1, <1>2, <1>6, <1>7, <1>8, <1>9, <1>10
<1>11. CASE \E n \in Nodes, value \in (0 .. Top + 1) \cup {NotText} : WriteNode(n, value)
  BY <1>11, WriteNodeStep DEF OpcuaOps
<1> QED BY <1>3, <1>4, <1>5, <1>10, <1>11, Zenon DEF OpcuaNext

(* What a browse was answered stays exact: what a server holds is known     *)
(* when the first connection to it opens, and does not change.             *)
ServerOK ==
  /\ server = Unseen \/ server \in Servers
  /\ BrowseIsExact

LEMMA ServerSteps ==
  ASSUME ServerOK, up => server \in Servers, OpcuaNext
  PROVE  ServerOK' /\ (up' => server' \in Servers)
<1>1. ASSUME server' = server, up' => up, asked'.op # "browse"
      PROVE  ServerOK' /\ (up' => server' \in Servers)
  BY <1>1 DEF ServerOK, BrowseIsExact
<1>2. CASE OpcuaOpen
  <2>1. asked'.op = "none"
    BY <1>2 DEF OpcuaOpen, Open, Idle
  <2>2. BrowseIsExact'
    BY <2>1 DEF BrowseIsExact
  <2>3. CASE Open(FALSE, FALSE) /\ OpcuaSame
    <3>1. server' = server /\ ~up'
      BY <2>3 DEF Open, OpcuaSame, opcuaVars
    <3> QED BY <2>2, <3>1 DEF ServerOK
  <2>4. CASE IF server = Unseen THEN server' \in Servers ELSE UNCHANGED server
    BY <2>2, <2>4 DEF ServerOK
  <2> QED BY <1>2, <2>3, <2>4 DEF OpcuaOpen
<1>3. CASE OpcuaClose
  <2>1. /\ asked' = asked /\ reply' = reply /\ server' = server /\ ~up'
    BY <1>3 DEF OpcuaClose, OpcuaSame, opcuaVars
  <2>2. BrowseIsExact'
    <3>1. BrowseIsExact = BrowsedExactly(asked, reply, server)
      BY DEF BrowseIsExact, BrowsedExactly, Exact
    <3>2. BrowseIsExact' = BrowsedExactly(asked', reply', server')
      BY DEF BrowseIsExact, BrowsedExactly, Exact
    <3> QED BY <2>1, <3>1, <3>2 DEF ServerOK
  <2> QED BY <2>1, <2>2 DEF ServerOK
<1>4. CASE UnknownMethod /\ OpcuaSame
  <2>1. server' = server /\ up' = up /\ asked'.op = "unknown"
    BY <1>4 DEF UnknownMethod, Call, OpcuaSame, opcuaVars
  <2> QED BY <1>1, <2>1
<1>5. ASSUME NEW n \in Nodes, ReadNode(n)
      PROVE  server' = server /\ up' = up /\ asked'.op = "read"
  BY <1>5 DEF ReadNode, OpcuaRefuse, Call, OpcuaSame, opcuaVars
<1>6. ASSUME NEW n \in Nodes, ReadNothing(n)
      PROVE  server' = server /\ ~up' /\ asked'.op = "read"
  BY <1>6 DEF ReadNothing, OpcuaSame, opcuaVars
<1>7. ASSUME NEW n \in Nodes, NEW value, WriteNode(n, value)
      PROVE  server' = server /\ up' = up /\ asked'.op = "write"
  BY <1>7 DEF WriteNode, OpcuaRefuse, Call, OpcuaSame, opcuaVars
<1>8. ASSUME NEW n \in Nodes, Produce(n)
      PROVE  server' = server /\ up' = up /\ asked'.op = "none"
  BY <1>8 DEF Produce, Idle
<1>9. ASSUME up, NEW n \in Nodes, BrowseNode(n)
      PROVE  ServerOK' /\ (up' => server' \in Servers)
  <2>0. \/ OpcuaRefuse("browse")
        \/ \E cut \in Cuts :
              /\ Browse(Returned(cut), n).ok
              /\ Call([op |-> "browse", node |-> n, given |-> Returned(cut)],
                      Result(Browse(Returned(cut), n).nodes))
              /\ OpcuaSame
    BY <1>9 DEF BrowseNode
  <2>1. server' = server /\ up' = up /\ asked'.op = "browse"
    BY <2>0 DEF OpcuaRefuse, Call, OpcuaSame, opcuaVars
  <2>2. CASE reply'.kind # "result"
    <3>1. BrowseIsExact'
      BY <2>2 DEF BrowseIsExact
    <3> QED BY <2>1, <3>1 DEF ServerOK
  <2>3. CASE reply'.kind = "result"
    <3>1. ~OpcuaRefuse("browse")
      BY <2>3 DEF OpcuaRefuse, Call, Error, Answered
    <3>2. PICK cut \in Cuts :
             /\ Browse(Returned(cut), n).ok
             /\ Call([op |-> "browse", node |-> n, given |-> Returned(cut)],
                     Result(Browse(Returned(cut), n).nodes))
      BY <2>0, <3>1
    <3> DEFINE given == Returned(cut)
    <3>3. given \in RefsType
      BY <1>9, ReturnedFacts, ServerAssumption
    <3> HIDE DEF given
    <3>4. Exact(server, given, n, Browse(given, n).nodes)
      BY <3>2, <3>3, BrowseFacts DEF given
    <3>5. Exact(server', asked'.given, asked'.node, reply'.value)
      <4>1. asked'.given = given /\ asked'.node = n /\ reply'.value = Browse(given, n).nodes
        BY <3>2 DEF Call, Result, Answered, given
      <4> QED BY <2>1, <3>4, <4>1
    <3>6. BrowseIsExact'
      <4>1. BrowseIsExact' = BrowsedExactly(asked', reply', server')
        BY DEF BrowseIsExact, BrowsedExactly, Exact
      <4> QED BY <3>5, <4>1 DEF BrowsedExactly
    <3> QED BY <2>1, <3>6 DEF ServerOK
  <2> QED BY <2>2, <2>3
<1>10. CASE up /\ \E n \in Nodes : \/ ReadNode(n)
                                   \/ ReadNothing(n)
                                   \/ BrowseNode(n)
                                   \/ Produce(n)
  BY <1>1, <1>5, <1>6, <1>8, <1>9, <1>10
<1>11. CASE \E n \in Nodes, value \in (0 .. Top + 1) \cup {NotText} : WriteNode(n, value)
  BY <1>1, <1>7, <1>11
<1> QED BY <1>2, <1>3, <1>4, <1>10, <1>11, Zenon DEF OpcuaNext

-----------------------------------------------------------------------------
(* The connector process                                                   *)

(* A process answers the methods of its own handler.                       *)
OpsOK ==
  /\ program \in {"modbus", "snmp", "opcua"}
  /\ program = "modbus" => asked.op \in Reads \cup Writes \cup {"none", "unknown"}
  /\ program = "snmp" => asked.op \in SnmpOps \cup {"none", "unknown"}
  /\ program = "opcua" => asked.op \in OpcuaOps \cup {"none", "unknown"}

Inv ==
  /\ OpsOK
  /\ ModbusTypeOK
  /\ ModbusReadIsExact
  /\ SnmpInv
  /\ OpcuaInv
  /\ ServerOK
  /\ program = "opcua" /\ up => server \in Servers

LEMMA OpsApart ==
  /\ Reads \cap (SnmpOps \cup OpcuaOps \cup {"none", "unknown"}) = {}
  /\ Writes \cap (SnmpOps \cup OpcuaOps \cup {"none", "unknown"}) = {}
  /\ \A op \in Reads \cup Writes \cup {"none", "unknown"} : op \notin {"set", "send-trap", "write"}
  /\ "write" \notin SnmpOps \cup {"none", "unknown"}
  /\ "set" \notin OpcuaOps \cup {"none", "unknown"}
  /\ "send-trap" \notin OpcuaOps \cup {"none", "unknown"}
  /\ "browse" \notin Reads \cup Writes \cup SnmpOps \cup {"none", "unknown"}
BY DEF Reads, Writes, SnmpOps, OpcuaOps

LEMMA InitInv == Init => Inv
<1> SUFFICES ASSUME Init
             PROVE  Inv
  OBVIOUS
<1>1. asked.op = "none" /\ reply.kind = "error"
  BY DEF Init, HandlerInit, Idle, Error, Answered
<1>2. OpsOK
  BY <1>1 DEF Init, OpsOK
<1>3. ModbusTypeOK
  BY DEF Init, ModbusInit, ModbusTypeOK
<1>4. ModbusReadIsExact /\ TrapIsAsked /\ SetIsKept /\ WriteIsKept /\ BrowseIsExact
  BY <1>1 DEF ModbusReadIsExact, TrapIsAsked, SetIsKept, WriteIsKept, BrowseIsExact
<1>6. server = Unseen /\ ~up
  BY DEF Init, HandlerInit, OpcuaInit
<1>5. agent \in [Oids -> Int] /\ DOMAIN data = Nodes
  BY DEF Init, SnmpInit, OpcuaInit
<1> QED BY <1>2, <1>3, <1>4, <1>5, <1>6 DEF Inv, SnmpInv, OpcuaInv, ServerOK

(* What a step of the process may do, besides keeping the invariant.       *)
StepOK ==
  /\ (reply'.kind = "result" /\ asked'.op \in Writes)
        => WriteOK(asked')
  /\ (reply'.kind = "panic" /\ asked'.op \in Writes)
        => PanicOK(asked')
  /\ (reply'.kind = "result" /\ asked'.op = "set")
        => SetOK(asked') \/ UNCHANGED <<asked, reply, snmpVars>>
  /\ (reply'.kind = "result" /\ asked'.op = "write")
        => WriteDone \/ UNCHANGED <<asked, reply, data>>

LEMMA ModbusCase ==
  ASSUME Inv, ModbusStep
  PROVE  Inv' /\ StepOK
<1>1. /\ program = "modbus" /\ program' = program /\ ModbusNext
      /\ UNCHANGED snmpVars /\ UNCHANGED opcuaVars
  BY DEF ModbusStep
<1>2. /\ ModbusTypeOK' /\ ModbusReadIsExact'
      /\ (reply'.kind = "result" /\ asked'.op \in Writes) => WriteOK(asked')
      /\ (reply'.kind = "panic" /\ asked'.op \in Writes) => PanicOK(asked')
      /\ asked'.op \in Reads \cup Writes \cup {"none", "unknown"}
  BY <1>1, ModbusSteps DEF Inv
<1>3. asked'.op \notin {"set", "send-trap", "write"}
  BY <1>2, OpsApart
<1>4. SnmpInv' /\ OpcuaInv'
  BY <1>1, <1>3 DEF Inv, snmpVars, opcuaVars, SnmpInv, OpcuaInv, TrapIsAsked, SetIsKept,
                    WriteIsKept
<1>5. OpsOK'
  BY <1>1, <1>2 DEF OpsOK
<1>6. ServerOK'
  <2>1. asked'.op # "browse" /\ server' = server
    BY <1>1, <1>2, OpsApart DEF opcuaVars
  <2> QED BY <2>1 DEF Inv, ServerOK, BrowseIsExact
<1>7. program' # "opcua"
  BY <1>1
<1> QED BY <1>2, <1>3, <1>4, <1>5, <1>6, <1>7 DEF Inv, StepOK

LEMMA SnmpCase ==
  ASSUME Inv, SnmpStep
  PROVE  Inv' /\ StepOK
<1>1. /\ program = "snmp" /\ program' = program /\ SnmpNext
      /\ UNCHANGED modbusVars /\ UNCHANGED opcuaVars
  BY DEF SnmpStep
<1>2. /\ SnmpInv'
      /\ (reply'.kind = "result" /\ asked'.op = "set") =>
            SetOK(asked') \/ UNCHANGED <<asked, reply, snmpVars>>
      /\ asked'.op \in SnmpOps \cup {"none", "unknown"} \/ UNCHANGED <<asked, reply>>
  BY <1>1, SnmpSteps DEF Inv
<1>3. asked'.op \in SnmpOps \cup {"none", "unknown"}
  BY <1>1, <1>2 DEF Inv, OpsOK
<1>4. asked'.op \notin Reads \cup Writes /\ asked'.op # "write"
  BY <1>3, OpsApart
<1>5. ModbusTypeOK' /\ ModbusReadIsExact' /\ OpcuaInv'
  BY <1>1, <1>4 DEF Inv, modbusVars, opcuaVars, ModbusTypeOK, ModbusReadIsExact, OpcuaInv,
                    WriteIsKept
<1>6. OpsOK'
  BY <1>1, <1>3 DEF OpsOK
<1>7. ServerOK'
  <2>1. asked'.op # "browse" /\ server' = server
    BY <1>1, <1>3, OpsApart DEF opcuaVars
  <2> QED BY <2>1 DEF Inv, ServerOK, BrowseIsExact
<1>8. program' # "opcua"
  BY <1>1
<1> QED BY <1>2, <1>4, <1>5, <1>6, <1>7, <1>8 DEF Inv, StepOK

LEMMA OpcuaCase ==
  ASSUME Inv, OpcuaStep
  PROVE  Inv' /\ StepOK
<1>1. /\ program = "opcua" /\ program' = program /\ OpcuaNext
      /\ UNCHANGED modbusVars /\ UNCHANGED snmpVars
  BY DEF OpcuaStep
<1>2. /\ OpcuaInv'
      /\ (reply'.kind = "result" /\ asked'.op = "write") =>
            WriteDone \/ UNCHANGED <<asked, reply, data>>
      /\ asked'.op \in OpcuaOps \cup {"none", "unknown"} \/ UNCHANGED <<asked, reply>>
  BY <1>1, OpcuaSteps DEF Inv
<1>3. asked'.op \in OpcuaOps \cup {"none", "unknown"}
  BY <1>1, <1>2 DEF Inv, OpsOK
<1>4. asked'.op \notin Reads \cup Writes /\ asked'.op \notin {"set", "send-trap"}
  BY <1>3, OpsApart
<1>5. ModbusTypeOK' /\ ModbusReadIsExact' /\ SnmpInv'
  BY <1>1, <1>4 DEF Inv, modbusVars, snmpVars, ModbusTypeOK, ModbusReadIsExact, SnmpInv,
                    TrapIsAsked, SetIsKept
<1>6. OpsOK'
  BY <1>1, <1>3 DEF OpsOK
<1>7. ServerOK' /\ (up' => server' \in Servers)
  BY <1>1, ServerSteps DEF Inv
<1> QED BY <1>2, <1>4, <1>5, <1>6, <1>7 DEF Inv, StepOK

(* ModbusReadIsExact as a predicate of what it speaks of.                  *)
ReadIsExact(asks, answer, bits, words) ==
    (answer.kind = "result" /\ asks.op \in Reads) =>
        LET cells(table) == [i \in 1..asks.quantity |-> table[asks.addr + i - 1]]
            bit(i) == i <= asks.quantity /\ cells(bits)[i] = 1
        IN /\ asks.op \in {"read-input", "read-holding"} => answer.value = cells(words)
           /\ asks.op = "read-coil" =>
                 ((answer.value = cells(bits)) <=>
                    \A i, k \in 1..asks.quantity :
                       bit(i) /\ k * ByteBits < i => bit(k * ByteBits))
           /\ asks.op = "read-discrete" =>
                 /\ Len(answer.value) = CeilDiv(asks.quantity, ByteBits) \div 2
                 /\ \A w \in 1..Len(answer.value) : \A i \in 0..2 * ByteBits - 1 :
                       LET place == IF i < ByteBits THEN i + ByteBits ELSE i - ByteBits
                       IN (answer.value[w][i] = 1)
                             <=> bit((w - 1) * 2 * ByteBits + place + 1)

LEMMA NextInv == Inv /\ [Next]_vars => Inv'
<1> SUFFICES ASSUME Inv, [Next]_vars
             PROVE  Inv'
  OBVIOUS
<1>1. CASE Next
  BY <1>1, ModbusCase, SnmpCase, OpcuaCase DEF Next
<1>2. CASE UNCHANGED vars
  <2>1. /\ asked' = asked /\ reply' = reply /\ program' = program
        /\ coils' = coils /\ regs' = regs
        /\ agent' = agent /\ traps' = traps /\ data' = data
        /\ server' = server /\ up' = up
    BY <1>2 DEF vars, handlerVars, modbusVars, snmpVars, opcuaVars
  <2>2. OpsOK' /\ ModbusTypeOK'
    BY <2>1 DEF Inv, OpsOK, ModbusTypeOK
  <2>3. ModbusReadIsExact'
    <3>1. ModbusReadIsExact = ReadIsExact(asked, reply, coils, regs)
      BY DEF ModbusReadIsExact, ReadIsExact
    <3>2. ModbusReadIsExact' = ReadIsExact(asked', reply', coils', regs')
      BY DEF ModbusReadIsExact, ReadIsExact
    <3> QED BY <2>1, <3>1, <3>2 DEF Inv
  <2>4. SnmpInv' /\ OpcuaInv'
    BY <2>1 DEF Inv, SnmpInv, TrapIsAsked, SetIsKept, OpcuaInv, WriteIsKept
  <2>5. BrowseIsExact'
    <3>1. BrowseIsExact = BrowsedExactly(asked, reply, server)
      BY DEF BrowseIsExact, BrowsedExactly, Exact
    <3>2. BrowseIsExact' = BrowsedExactly(asked', reply', server')
      BY DEF BrowseIsExact, BrowsedExactly, Exact
    <3> QED BY <2>1, <3>1, <3>2 DEF Inv, ServerOK
  <2>6. ServerOK' /\ (program' = "opcua" /\ up' => server' \in Servers)
    BY <2>1, <2>5 DEF Inv, ServerOK
  <2> QED BY <2>2, <2>3, <2>4, <2>6 DEF Inv
<1> QED BY <1>1, <1>2

LEMMA InvHolds == Spec => []Inv
BY InitInv, NextInv, PTL DEF Spec

(* What a Modbus read answers is what the device holds, exactly when the   *)
(* bits allow it: parseResultByteToBits and parseResult                    *)
(* (handler.go:84-108, 240-262).                                           *)
THEOREM ModbusReadsRight == Spec => []ModbusReadIsExact
<1>1. Inv => ModbusReadIsExact
  BY DEF Inv
<1> QED BY <1>1, InvHolds, PTL

(* A Modbus write that is answered has changed the cells it names to the   *)
(* values it gives and no other; one that panics had a list too long for   *)
(* 16 bits, and changed nothing (handler.go:295-354, 419-469).             *)
THEOREM ModbusWritesRight == Spec => ModbusWriteIsExact
<1> DEFINE A ==
       /\ (reply'.kind = "panic" /\ asked'.op \in Writes) =>
             2 * Len(asked'.list) > MaxUint /\ UNCHANGED modbusVars
       /\ (reply'.kind = "result" /\ asked'.op \in Writes) =>
          LET values == IF asked'.list = <<>> THEN <<asked'.quantity>> ELSE asked'.list
              updated(table) == [c \in DOMAIN table |->
                                   IF c \in asked'.addr..asked'.addr + Len(values) - 1
                                   THEN values[c - asked'.addr + 1] ELSE table[c]]
          IN IF asked'.op \in {"write-coil", "write-multiple-coils"}
             THEN coils' = updated(coils) /\ regs' = regs
             ELSE regs' = updated(regs) /\ coils' = coils
<1>1. Inv /\ [Next]_vars => [A]_<<handlerVars, modbusVars>>
  <2> SUFFICES ASSUME Inv, Next
               PROVE  A
    BY DEF vars
  <2>1. StepOK
    BY ModbusCase, SnmpCase, OpcuaCase DEF Next
  <2> QED BY <2>1, Zenon DEF StepOK, WriteOK, Updated, PanicOK
<1> QED BY <1>1, InvHolds, PTL DEF Spec, ModbusWriteIsExact

(* An answered snmp-set has set what it was given, but for a refusal of    *)
(* the agent, a gauge that does not fit, and a string without quotes       *)
(* (handler.go:229-236, 424-473).                                          *)
THEOREM SnmpSetsRight == Spec => SnmpSetIsDone
<1> DEFINE A ==
      (reply'.kind = "result" /\ asked'.op = "set") =>
          ((agent'[asked'.oid] = asked'.value) <=>
             \/ agent[asked'.oid] = asked'.value /\ asked'.oid \in ReadOnly
             \/ /\ asked'.oid \notin ReadOnly
                /\ asked'.type = "gauge" => asked'.value < Limit
                /\ asked'.type = "string" => asked'.value # NoText)
<1>1. Inv /\ [Next]_vars => [A]_<<handlerVars, snmpVars>>
  <2> SUFFICES ASSUME Inv, Next, reply'.kind = "result", asked'.op = "set"
               PROVE  SetOK(asked')
    BY DEF vars, SetOK
  <2>1. StepOK
    BY ModbusCase, SnmpCase, OpcuaCase DEF Next
  <2>2. CASE UNCHANGED <<asked, reply, snmpVars>>
    <3>1. SetIsKept
      BY DEF Inv, SnmpInv
    <3> QED BY <2>2, <3>1 DEF snmpVars, SetIsKept, SetOK, Fits
  <2> QED BY <2>1, <2>2 DEF StepOK
<1> QED BY <1>1, InvHolds, PTL DEF Spec, SnmpSetIsDone

(* A trap carries what it was asked to carry exactly when its variables    *)
(* all have the one value of the request (handler.go:369-378).             *)
THEOREM SnmpTrapsRight == Spec => []TrapIsAsked
<1>1. Inv => TrapIsAsked
  BY DEF Inv, SnmpInv
<1> QED BY <1>1, InvHolds, PTL

(* A good status of an OPC-UA write means that the node holds the value or *)
(* what its type can hold of it, and that no other node changed; a bad one *)
(* that none did (handler.go:140-438).                                     *)
THEOREM OpcuaWritesRight == Spec => OpcuaWriteIsDone
<1> DEFINE A ==
      (reply'.kind = "result" /\ asked'.op = "write") =>
          IF reply'.value = <<0>>
          THEN \A n \in Nodes :
                  data'[n] = IF n = asked'.node
                             THEN Kept(server.type[n], asked'.value) ELSE data[n]
          ELSE data' = data
<1>1. Inv /\ [Next]_vars => [A]_<<handlerVars, opcuaVars>>
  <2> SUFFICES ASSUME Inv, Next, reply'.kind = "result", asked'.op = "write"
               PROVE  WriteDone
    BY DEF vars, WriteDone
  <2>1. StepOK
    BY ModbusCase, SnmpCase, OpcuaCase DEF Next
  <2>2. CASE UNCHANGED <<asked, reply, data>>
    <3>1. WriteIsKept
      BY DEF Inv, OpcuaInv
    <3> QED BY <2>2, <3>1 DEF WriteIsKept, WriteDone
  <2> QED BY <2>1, <2>2 DEF StepOK
<1> QED BY <1>1, InvHolds, PTL DEF Spec, OpcuaWriteIsDone

(* browse answers with every variable once for each path of references to  *)
(* it that the server gave, whatever it kept back, and only when the       *)
(* attributes of every node on such a path can be read (browse.go:59-83,   *)
(* 166-205).                                                               *)
THEOREM BrowsesRight == Spec => []BrowseIsExact
<1>1. Inv => BrowseIsExact
  BY DEF Inv, ServerOK
<1> QED BY <1>1, InvHolds, PTL

(* What the handlers answer is what was asked for.                         *)
THEOREM AnswersRight == Spec => []AnswersAreExact
<1>1. ModbusReadIsExact /\ TrapIsAsked /\ BrowseIsExact => AnswersAreExact
  BY DEF AnswersAreExact
<1> QED BY <1>1, ModbusReadsRight, SnmpTrapsRight, BrowsesRight, PTL

(* An answered write of any of the handlers has done what was asked.       *)
THEOREM WritesRight == Spec => WritesAreExact
BY ModbusWritesRight, SnmpSetsRight, OpcuaWritesRight DEF WritesAreExact
=============================================================================
