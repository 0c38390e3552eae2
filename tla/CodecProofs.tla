---------------------------- MODULE CodecProofs -----------------------------
(***************************************************************************)
(* Theorems about Codec for any messages, base and width of a length, pool *)
(* and send budget: whatever the cuts of the stream and the reuse of       *)
(* buffers, what is decoded of the encoder's stream is what was encoded;   *)
(* and whatever bytes a decoder is given, it never asks for fewer than it  *)
(* has, but before an overlong varint.                                     *)
(***************************************************************************)
EXTENDS Codec, SequenceTheorems, WellFoundedInduction, TLAPS

-----------------------------------------------------------------------------
(* Sets of naturals. *)

(* Every set of naturals with a member has a least one. *)
LEMMA LeastNatural ==
    ASSUME NEW T, T \subseteq Nat, T # {}
    PROVE  \E m \in T : \A n \in T : m <= n
<1> DEFINE Below == OpToRel(<, Nat)
<1>1. IsWellFoundedOn(Below, Nat) BY NatLessThanWellFounded
<1>2. \A x, y \in Nat : <<x, y>> \in Below <=> x < y BY DEF OpToRel
<1> HIDE DEF Below
<1>3. PICK m \in T : \A n \in T : ~(<<n, m>> \in Below) BY <1>1, WFMin
<1>4. ASSUME NEW n \in T PROVE m <= n
  <2>1. m \in Nat /\ n \in Nat OBVIOUS
  <2>2. ~(n < m) BY <1>2, <1>3, <2>1, Zenon
  <2> QED BY <2>1, <2>2
<1> QED BY <1>4

(* What holds of 0 and, up to N, of the next number, holds of all numbers up to N. *)
LEMMA UpTo ==
    ASSUME NEW N \in Nat, NEW T, 0 \in T, \A n \in 0 .. N - 1 : n \in T => n + 1 \in T
    PROVE  0 .. N \subseteq T
<1> DEFINE U == (0 .. N) \ T
<1> SUFFICES ASSUME U # {} PROVE FALSE OBVIOUS
<1>1. PICK x \in U : \A y \in U : x <= y
  <2>1. U \subseteq Nat OBVIOUS
  <2> HIDE DEF U
  <2> QED BY <2>1, LeastNatural
<1>2. x - 1 \in 0 .. N - 1 /\ x - 1 < x /\ (x - 1) + 1 = x BY <1>1
<1>3. x - 1 \in T BY <1>1, <1>2
<1> QED BY <1>1, <1>2, <1>3

-----------------------------------------------------------------------------
(* Sequences, place by place. *)

(* What is appended follows. *)
LEMMA Joined ==
    ASSUME NEW S, NEW s \in Seq(S), NEW t \in Seq(S)
    PROVE  /\ s \o t \in Seq(S) /\ Len(s \o t) = Len(s) + Len(t)
           /\ \A i \in 1 .. Len(s) : (s \o t)[i] = s[i]
           /\ \A i \in 1 .. Len(t) : (s \o t)[Len(s) + i] = t[i]
<1>1. PICK m \in Nat, n \in Nat : m = Len(s) /\ n = Len(t) BY LenProperties
<1>2. PICK u : u = s \o t OBVIOUS
<1>3. u \in Seq(S) /\ Len(u) = m + n BY <1>1, <1>2, ConcatProperties
<1>4. \A i \in 1 .. Len(s) + Len(t) : (s \o t)[i] = IF i <= Len(s) THEN s[i] ELSE t[i - Len(s)]
  BY ConcatProperties, Zenon
<1>5. \A i \in 1 .. m + n : u[i] = IF i <= m THEN s[i] ELSE t[i - m] BY <1>1, <1>2, <1>4
<1>6. ASSUME NEW i \in 1 .. m PROVE u[i] = s[i]
  <2>1. i \in 1 .. m + n /\ i <= m OBVIOUS
  <2> QED BY <1>5, <2>1
<1>7. ASSUME NEW i \in 1 .. n PROVE u[m + i] = t[i]
  <2>1. m + i \in 1 .. m + n /\ ~(m + i <= m) /\ (m + i) - m = i OBVIOUS
  <2> QED BY <1>5, <2>1
<1> QED BY <1>1, <1>2, <1>3, <1>6, <1>7

(* And what is put in front precedes. *)
LEMMA Led ==
    ASSUME NEW S, NEW x \in S, NEW s \in Seq(S)
    PROVE  /\ <<x>> \o s \in Seq(S) /\ Len(<<x>> \o s) = Len(s) + 1 /\ (<<x>> \o s)[1] = x
           /\ \A i \in 1 .. Len(s) : (<<x>> \o s)[i + 1] = s[i]
<1>1. PICK h : h = <<x>> OBVIOUS
<1>2. h \in Seq(S) BY <1>1
<1>3. Len(h) = 1 /\ h[1] = x /\ Len(s) \in Nat BY <1>1, LenProperties
<1>4. h \o s \in Seq(S) /\ Len(h \o s) = Len(h) + Len(s) BY <1>2, Joined
<1>5. \A i \in 1 .. Len(h) : (h \o s)[i] = h[i] BY <1>2, Joined
<1>6. \A i \in 1 .. Len(s) : (h \o s)[Len(h) + i] = s[i] BY <1>2, Joined
<1>7. (h \o s)[1] = x BY <1>3, <1>5
<1>8. ASSUME NEW i \in 1 .. Len(s) PROVE (h \o s)[i + 1] = s[i]
  <2>1. Len(h) + i = i + 1 BY <1>3
  <2> QED BY <1>6, <2>1
<1> QED BY <1>1, <1>3, <1>4, <1>7, <1>8

(* A part of a sequence. *)
LEMMA Part ==
    ASSUME NEW S, NEW s \in Seq(S), NEW k \in Nat, NEW n \in Nat, k + n <= Len(s)
    PROVE  /\ SubSeq(s, k + 1, k + n) \in Seq(S) /\ Len(SubSeq(s, k + 1, k + n)) = n
           /\ \A i \in 1 .. n : SubSeq(s, k + 1, k + n)[i] = s[k + i]
<1>1. PICK m \in Nat : m = Len(s) BY LenProperties
<1>2. PICK g : g = [i \in 1 .. n |-> s[k + i]] OBVIOUS
<1>3. ASSUME NEW i \in 1 .. n PROVE s[k + i] \in S
  <2>1. k + i \in 1 .. Len(s) BY <1>1
  <2> QED BY <2>1, ElementOfSeq
<1>4. g \in Seq(S) /\ Len(g) = n BY <1>2, <1>3
<1>5. SubSeq(s, k + 1, k + n) = g
  <2>1. SubSeq(s, k + 1, k + n) = [i \in 1 .. ((k + n) - (k + 1) + 1) |-> s[i + (k + 1) - 1]]
    OBVIOUS
  <2>2. (k + n) - (k + 1) + 1 = n OBVIOUS
  <2>3. \A i \in 1 .. n : i + (k + 1) - 1 = k + i OBVIOUS
  <2> QED BY <1>2, <2>1, <2>2, <2>3
<1> QED BY <1>2, <1>4, <1>5

-----------------------------------------------------------------------------
(* Division. *)

(* Quotient and remainder. *)
LEMMA Division ==
    ASSUME NEW n \in Nat, NEW p \in Nat, p > 0
    PROVE  /\ n = p * (n \div p) + (n % p)
           /\ n \div p \in Nat /\ n % p \in Nat /\ n % p < p
<1>1. n = p * (n \div p) + (n % p) BY Z3
<1>2. n \div p \in Nat BY Z3
<1>3. n % p \in Nat /\ n % p < p BY Z3
<1> QED BY <1>1, <1>2, <1>3

(* They are the only ones. *)
LEMMA DivisionUnique ==
    ASSUME NEW n \in Nat, NEW p \in Nat, p > 0, NEW q \in Nat, NEW r \in Nat, n = q * p + r, r < p
    PROVE  n \div p = q /\ n % p = r
<1>1. n \div p = q BY Z3
<1>2. n % p = r BY Z3
<1> QED BY <1>1, <1>2

(* One digit more: the next digit of n is the last one of what is left of n. *)
LEMMA NextDigit ==
    ASSUME NEW n \in Nat, NEW p \in Nat, p > 0, NEW b \in Nat, b > 0
    PROVE  /\ n \div (b * p) = (n \div p) \div b
           /\ n % (b * p) = (n % p) + ((n \div p) % b) * p
           /\ n \div p = (n \div (b * p)) * b + ((n \div p) % b)
<1>1. PICK q \in Nat, r \in Nat : n = p * q + r /\ r < p /\ q = n \div p /\ r = n % p BY Division
<1>2. PICK h \in Nat, d \in Nat : q = b * h + d /\ d < b /\ h = q \div b /\ d = q % b BY Division
<1>3. n = h * (b * p) + (d * p + r)
  <2>1. p * q = p * (b * h) + p * d BY <1>2
  <2>2. p * (b * h) = h * (b * p) /\ p * d = d * p OBVIOUS
  <2>3. h * (b * p) \in Nat /\ d * p \in Nat OBVIOUS
  <2> QED BY <1>1, <2>1, <2>2, <2>3
<1>4. d * p + r < b * p
  <2>1. (d + 1) * p <= b * p BY <1>2
  <2>2. (d + 1) * p = d * p + p OBVIOUS
  <2>3. d * p \in Nat /\ b * p \in Nat OBVIOUS
  <2> QED BY <1>1, <2>1, <2>2, <2>3
<1>5. PICK t \in Nat, s \in Nat : t = b * p /\ s = d * p + r OBVIOUS
<1>6. n = h * t + s /\ s < t /\ t > 0 BY <1>3, <1>4, <1>5
<1>7. n \div t = h /\ n % t = s BY <1>6, DivisionUnique
<1>8. q = h * b + d BY <1>2
<1>9. n \div (b * p) = h /\ n % (b * p) = d * p + r BY <1>5, <1>7
<1>10. (n \div p) \div b = h /\ (n \div p) % b = d /\ n % p = r BY <1>1, <1>2
<1>11. r + d * p = d * p + r OBVIOUS
<1> QED BY <1>1, <1>8, <1>9, <1>10, <1>11

-----------------------------------------------------------------------------
(* Powers of the base.  The definition is recursive; that there is such a function is shown *)
(* for every beginning of the naturals first.                                               *)
IsPower(g, n) == g = [i \in 0 .. n |-> IF i = 0 THEN 1 ELSE Base * g[i - 1]]

(* It exists on every beginning. *)
LEMMA PowerUpTo ==
    ASSUME NEW N \in Nat
    PROVE  \E g : IsPower(g, N)
<1> DEFINE T == {n \in Nat : \E g : IsPower(g, n)}
<1>1. 0 \in T
  <2> DEFINE g == [i \in 0 .. 0 |-> 1]
  <2>1. IsPower(g, 0) BY DEF IsPower
  <2> QED BY <2>1
<1>2. ASSUME NEW n \in Nat, n \in T PROVE n + 1 \in T
  <2>1. PICK g : IsPower(g, n) BY <1>2
  <2> DEFINE h == [i \in 0 .. n + 1 |-> IF i = n + 1 THEN Base * g[n] ELSE g[i]]
  <2>2. ASSUME NEW i \in 0 .. n + 1 PROVE h[i] = IF i = 0 THEN 1 ELSE Base * h[i - 1]
    <3>1. CASE i = n + 1
      <4>1. i # 0 /\ i - 1 = n /\ n \in 0 .. n + 1 /\ n # n + 1 BY <3>1
      <4>2. h[i - 1] = g[n] BY <4>1
      <4> QED BY <3>1, <4>1, <4>2
    <3>2. CASE i # n + 1
      <4>1. i \in 0 .. n /\ h[i] = g[i] BY <3>2
      <4>2. g[i] = IF i = 0 THEN 1 ELSE Base * g[i - 1] BY <2>1, <4>1 DEF IsPower
      <4>3. i # 0 => i - 1 \in 0 .. n + 1 /\ i - 1 # n + 1 BY <4>1
      <4>4. i # 0 => h[i - 1] = g[i - 1] BY <4>3
      <4> QED BY <4>1, <4>2, <4>4
    <3> QED BY <3>1, <3>2
  <2> HIDE DEF h
  <2>3. IsPower(h, n + 1) BY <2>2 DEF h, IsPower
  <2> QED BY <2>3
<1> HIDE DEF T
<1>3. 0 .. N \subseteq T BY <1>1, <1>2, UpTo
<1>4. N \in T BY <1>3
<1> QED BY <1>4 DEF T

(* Two of them agree where both are defined. *)
LEMMA PowerAgrees ==
    ASSUME NEW m \in Nat, NEW n \in Nat, m <= n, NEW g, NEW h, IsPower(g, m), IsPower(h, n)
    PROVE  \A i \in 0 .. m : g[i] = h[i]
<1> DEFINE T == {i \in Nat : g[i] = h[i]}
<1>1. \A i \in 0 .. m : g[i] = IF i = 0 THEN 1 ELSE Base * g[i - 1] BY DEF IsPower
<1>2. \A i \in 0 .. n : h[i] = IF i = 0 THEN 1 ELSE Base * h[i - 1] BY DEF IsPower
<1>3. 0 \in T BY <1>1, <1>2
<1>4. ASSUME NEW i \in 0 .. m - 1, i \in T PROVE i + 1 \in T
  <2>1. i + 1 \in 0 .. m /\ i + 1 \in 0 .. n /\ i + 1 # 0 /\ (i + 1) - 1 = i OBVIOUS
  <2>2. g[i + 1] = Base * g[i] /\ h[i + 1] = Base * h[i] BY <1>1, <1>2, <2>1
  <2> QED BY <1>4, <2>1, <2>2
<1> HIDE DEF T
<1>5. 0 .. m \subseteq T BY <1>3, <1>4, UpTo
<1> QED BY <1>5 DEF T

(* So Power satisfies its definition. *)
LEMMA PowerDef ==
    Power = [n \in Nat |-> IF n = 0 THEN 1 ELSE Base * Power[n - 1]]
<1> DEFINE part(n) == CHOOSE g : IsPower(g, n)
           p == [n \in Nat |-> part(n)[n]]
<1>1. ASSUME NEW n \in Nat PROVE IsPower(part(n), n) BY PowerUpTo
<1> HIDE DEF part
<1>2. ASSUME NEW n \in Nat PROVE p[n] = IF n = 0 THEN 1 ELSE Base * p[n - 1]
  <2>1. part(n)[n] = IF n = 0 THEN 1 ELSE Base * part(n)[n - 1]
    <3>1. n \in 0 .. n OBVIOUS
    <3>2. \A i \in 0 .. n : part(n)[i] = IF i = 0 THEN 1 ELSE Base * part(n)[i - 1] BY <1>1 DEF IsPower
    <3> QED BY <3>1, <3>2
  <2>2. CASE n = 0 BY <2>1, <2>2
  <2>3. CASE n # 0
    <3>1. n - 1 \in Nat /\ n - 1 <= n /\ n - 1 \in 0 .. n - 1 BY <2>3
    <3>2. IsPower(part(n - 1), n - 1) /\ IsPower(part(n), n) BY <1>1, <3>1
    <3>3. part(n - 1)[n - 1] = part(n)[n - 1] BY <3>1, <3>2, PowerAgrees
    <3> QED BY <2>1, <2>3, <3>1, <3>3
  <2> QED BY <2>2, <2>3
<1> HIDE DEF p
<1>3. p = [n \in Nat |-> IF n = 0 THEN 1 ELSE Base * p[n - 1]] BY <1>2 DEF p
<1> QED BY <1>3 DEF Power

(* Its values. *)
LEMMA Powers ==
    /\ Power[0] = 1
    /\ \A n \in Nat : Power[n] \in Nat /\ Power[n] > 0 /\ Power[n + 1] = Base * Power[n]
<1>1. \A n \in Nat : Power[n] = IF n = 0 THEN 1 ELSE Base * Power[n - 1] BY PowerDef
<1>2. Power[0] = 1 BY <1>1
<1>3. \A n \in Nat : Power[n + 1] = Base * Power[n]
  <2> TAKE n \in Nat
  <2>1. n + 1 \in Nat /\ n + 1 # 0 /\ (n + 1) - 1 = n OBVIOUS
  <2> QED BY <1>1, <2>1
<1>4. ASSUME NEW n \in Nat PROVE Power[n] \in Nat /\ Power[n] > 0
  <2> DEFINE T == {i \in Nat : Power[i] \in Nat /\ Power[i] > 0}
  <2>1. 0 \in T BY <1>2
  <2>2. ASSUME NEW i \in 0 .. n - 1, i \in T PROVE i + 1 \in T
    <3>1. i \in Nat /\ i + 1 \in Nat /\ Power[i + 1] = Base * Power[i] BY <1>3
    <3>2. Base \in Nat /\ Base > 0 BY CodecAssumption
    <3>3. Power[i] \in Nat /\ Power[i] > 0 BY <2>2
    <3>4. PICK x \in Nat : x = Power[i] BY <3>3
    <3>5. Base * x \in Nat /\ Base * x > 0 BY <3>2, <3>3, <3>4
    <3> QED BY <3>1, <3>4, <3>5
  <2> HIDE DEF T
  <2>3. 0 .. n \subseteq T BY <2>1, <2>2, UpTo
  <2>4. n \in T BY <2>3
  <2> QED BY <2>4 DEF T
<1> QED BY <1>2, <1>3, <1>4

-----------------------------------------------------------------------------
(* Lengths read back as they were written. *)

(* The function that ReadU32 recurses with, and the one of ReadVarint. *)
IsU32(v, bytes) ==
    v = [k \in 0 .. LengthDigits |-> IF k = 0 THEN 0 ELSE v[k - 1] * Base + bytes[k + 1].of]
IsVarint(v, bytes, end) ==
    v = [k \in 0 .. end |-> IF k = 0 THEN 0 ELSE v[k - 1] + bytes[k].of * Power[k - 1]]

(* The digits of an u32 after its tag, from the highest on, are read as the number. *)
LEMMA U32Reads ==
    ASSUME NEW n \in Nat, n < U32, NEW bytes,
           \A k \in 1 .. LengthDigits : bytes[k + 1].of = (n \div Power[LengthDigits - k]) % Base
    PROVE  ReadU32(bytes) = n
<1> DEFINE L == LengthDigits
           top(k) == n \div Power[L - k]
           w == [k \in 0 .. L |-> top(k)]
<1>0. L \in Nat /\ L > 0 /\ Base \in Nat /\ Base > 0 BY CodecAssumption
<1>1. top(0) = 0
  <2>1. Power[L] \in Nat /\ Power[L] > 0 /\ L - 0 = L BY <1>0, Powers
  <2>2. PICK p \in Nat : p = Power[L] BY <2>1
  <2>3. n = 0 * p + n /\ n < p BY <2>2 DEF U32
  <2>4. n \div p = 0 BY <2>1, <2>2, <2>3, DivisionUnique
  <2> QED BY <2>1, <2>2, <2>4
<1>2. top(L) = n
  <2>1. Power[L - L] = 1 BY <1>0, Powers
  <2>2. n = n * 1 + 0 OBVIOUS
  <2>3. n \div 1 = n BY <2>2, DivisionUnique
  <2> QED BY <2>1, <2>3
<1>3. ASSUME NEW k \in 1 .. L PROVE top(k) = top(k - 1) * Base + bytes[k + 1].of
  <2>1. L - k \in Nat /\ (L - k) + 1 = L - (k - 1) BY <1>0
  <2>2. PICK p \in Nat : p = Power[L - k] /\ p > 0 BY <2>1, Powers
  <2>3. Power[L - (k - 1)] = Base * p BY <2>1, <2>2, Powers
  <2>4. n \div p = (n \div (Base * p)) * Base + ((n \div p) % Base) BY <1>0, <2>2, NextDigit
  <2>5. bytes[k + 1].of = (n \div p) % Base BY <2>2
  <2> QED BY <2>2, <2>3, <2>4, <2>5
<1> HIDE DEF top
<1>4. IsU32(w, bytes)
  <2>1. ASSUME NEW k \in 0 .. L PROVE w[k] = IF k = 0 THEN 0 ELSE w[k - 1] * Base + bytes[k + 1].of
    <3>1. k # 0 => k \in 1 .. L /\ k - 1 \in 0 .. L BY <1>0
    <3> QED BY <1>1, <1>3, <3>1
  <2> HIDE DEF w
  <2> QED BY <2>1 DEF w, IsU32
<1>5. ASSUME NEW v, IsU32(v, bytes) PROVE v[L] = n
  <2> DEFINE T == {k \in Nat : v[k] = top(k)}
  <2>1. \A k \in 0 .. L : v[k] = IF k = 0 THEN 0 ELSE v[k - 1] * Base + bytes[k + 1].of BY <1>5 DEF IsU32
  <2>2. 0 \in T BY <1>0, <1>1, <2>1
  <2>3. ASSUME NEW k \in 0 .. L - 1, k \in T PROVE k + 1 \in T
    <3>1. k + 1 \in 0 .. L /\ k + 1 \in 1 .. L /\ k + 1 # 0 /\ (k + 1) - 1 = k BY <1>0
    <3>2. v[k + 1] = v[k] * Base + bytes[(k + 1) + 1].of BY <2>1, <3>1
    <3>3. top(k + 1) = top(k) * Base + bytes[(k + 1) + 1].of BY <1>3, <3>1
    <3> QED BY <2>3, <3>1, <3>2, <3>3
  <2> HIDE DEF T
  <2>4. 0 .. L \subseteq T BY <1>0, <2>2, <2>3, UpTo
  <2>5. L \in T BY <1>0, <2>4
  <2> QED BY <1>2, <2>5 DEF T
<1>6. ReadU32(bytes) = (CHOOSE v : IsU32(v, bytes))[L] BY DEF ReadU32, IsU32
<1>7. IsU32(CHOOSE v : IsU32(v, bytes), bytes) BY <1>4
<1> QED BY <1>5, <1>6, <1>7

(* The size of a message is a varint's, with room for the delimiter. *)
LEMMA Sizes ==
    ASSUME NEW m \in Messages
    PROVE  m \in Nat /\ m < Power[VarintMax] /\ VarintMax + m < Power[VarintMax]
<1>1. VarintMax \in Nat /\ m \in Nat /\ VarintMax + m < Power[VarintMax] BY CodecAssumption
<1>2. PICK p \in Nat : p = Power[VarintMax] BY <1>1, Powers
<1>3. m < p BY <1>1, <1>2
<1> QED BY <1>1, <1>2, <1>3

(* A number has a delimiter, whose digits suffice for it. *)
LEMMA Delimiters ==
    ASSUME NEW n \in Nat, n < Power[VarintMax]
    PROVE  DelimiterLen(n) \in 1 .. VarintMax /\ n < Power[DelimiterLen(n)]
<1> DEFINE T == {l \in 1 .. VarintMax : n < Power[l]}
<1>1. VarintMax \in Nat /\ VarintMax > 0 BY CodecAssumption
<1>2. VarintMax \in T BY <1>1
<1>3. PICK l \in T : \A k \in T : l <= k
  <2>1. T \subseteq Nat OBVIOUS
  <2> HIDE DEF T
  <2> QED BY <1>2, <2>1, LeastNatural
<1>4. ASSUME l # 1 PROVE Power[l - 1] <= n
  <2>1. l - 1 \in 1 .. VarintMax /\ ~(l <= l - 1) BY <1>1, <1>4
  <2>2. ~(n < Power[l - 1]) BY <1>3, <2>1
  <2>3. l - 1 \in Nat /\ Power[l - 1] \in Nat BY <2>1, Powers
  <2> QED BY <2>2, <2>3
<1>5. n < Power[l] /\ (l = 1 \/ Power[l - 1] <= n) BY <1>4
<1> HIDE DEF T
<1>6. l \in 1 .. VarintMax BY DEF T
<1> QED BY <1>5, <1>6 DEF DelimiterLen

(* The digits of a varint, from the lowest on, are read as the number. *)
LEMMA VarintReads ==
    ASSUME NEW n \in Nat, NEW end \in Nat, n < Power[end], NEW bytes,
           \A k \in 1 .. end : bytes[k].of = (n \div Power[k - 1]) % Base
    PROVE  ReadVarint(bytes, end) = n
<1> DEFINE low(k) == n % Power[k]
           w == [k \in 0 .. end |-> low(k)]
<1>0. Base \in Nat /\ Base > 0 BY CodecAssumption
<1>1. low(0) = 0
  <2>1. Power[0] = 1 BY Powers
  <2>2. n = n * 1 + 0 OBVIOUS
  <2>3. n % 1 = 0 BY <2>2, DivisionUnique
  <2> QED BY <2>1, <2>3
<1>2. low(end) = n
  <2>1. PICK p \in Nat : p = Power[end] /\ p > 0 BY Powers
  <2>2. n = 0 * p + n /\ n < p BY <2>1
  <2>3. n % p = n BY <2>1, <2>2, DivisionUnique
  <2> QED BY <2>1, <2>3
<1>3. ASSUME NEW k \in 1 .. end PROVE low(k) = low(k - 1) + bytes[k].of * Power[k - 1]
  <2>1. k - 1 \in Nat /\ (k - 1) + 1 = k OBVIOUS
  <2>2. PICK p \in Nat : p = Power[k - 1] /\ p > 0 BY <2>1, Powers
  <2>3. Power[k] = Base * p BY <2>1, <2>2, Powers
  <2>4. n % (Base * p) = (n % p) + ((n \div p) % Base) * p BY <1>0, <2>2, NextDigit
  <2>5. bytes[k].of = (n \div p) % Base BY <2>2
  <2> QED BY <2>2, <2>3, <2>4, <2>5
<1> HIDE DEF low
<1>4. IsVarint(w, bytes, end)
  <2>1. ASSUME NEW k \in 0 .. end PROVE w[k] = IF k = 0 THEN 0 ELSE w[k - 1] + bytes[k].of * Power[k - 1]
    <3>1. k # 0 => k \in 1 .. end /\ k - 1 \in 0 .. end OBVIOUS
    <3> QED BY <1>1, <1>3, <3>1
  <2> HIDE DEF w
  <2> QED BY <2>1 DEF w, IsVarint
<1>5. ASSUME NEW v, IsVarint(v, bytes, end) PROVE v[end] = n
  <2> DEFINE T == {k \in Nat : v[k] = low(k)}
  <2>1. \A k \in 0 .. end : v[k] = IF k = 0 THEN 0 ELSE v[k - 1] + bytes[k].of * Power[k - 1] BY <1>5 DEF IsVarint
  <2>2. 0 \in T BY <1>1, <2>1
  <2>3. ASSUME NEW k \in 0 .. end - 1, k \in T PROVE k + 1 \in T
    <3>1. k + 1 \in 0 .. end /\ k + 1 \in 1 .. end /\ k + 1 # 0 /\ (k + 1) - 1 = k OBVIOUS
    <3>2. v[k + 1] = v[k] + bytes[k + 1].of * Power[k] BY <2>1, <3>1
    <3>3. low(k + 1) = low(k) + bytes[k + 1].of * Power[k] BY <1>3, <3>1
    <3> QED BY <2>3, <3>1, <3>2, <3>3
  <2> HIDE DEF T
  <2>4. 0 .. end \subseteq T BY <2>2, <2>3, UpTo
  <2>5. end \in T BY <2>4
  <2> QED BY <1>2, <2>5 DEF T
<1>6. ReadVarint(bytes, end) = (CHOOSE v : IsVarint(v, bytes, end))[end] BY DEF ReadVarint, IsVarint
<1>7. IsVarint(CHOOSE v : IsVarint(v, bytes, end), bytes, end) BY <1>4
<1> QED BY <1>5, <1>6, <1>7

-----------------------------------------------------------------------------
(* A message on the wire. *)

WireByte == [kind : {"tag", "digit", "more", "body"}, of : Nat, place : Nat]

Frame(m) == Serialize(m, <<>>)

(* A body. *)
LEMMA Bodies ==
    ASSUME NEW m \in Messages
    PROVE  /\ m \in Nat /\ BodySize(m) \in Nat
           /\ Body(m) \in Seq(WireByte) /\ Len(Body(m)) = BodySize(m)
           /\ \A i \in 1 .. BodySize(m) : Body(m)[i] = Byte("body", m, i)
<1>1. m \in Nat BY CodecAssumption
<1>2. PICK z \in Nat : z = BodySize(m) BY <1>1 DEF BodySize
<1>3. \A i \in 1 .. z : Byte("body", m, i) \in WireByte BY <1>1 DEF Byte, WireByte
<1>4. PICK b : b = [i \in 1 .. z |-> Byte("body", m, i)] OBVIOUS
<1>5. b \in Seq(WireByte) /\ Len(b) = z BY <1>3, <1>4
<1>6. b = Body(m) BY <1>2, <1>4 DEF Body
<1> QED BY <1>1, <1>2, <1>4, <1>5, <1>6

(* A digit is below the base. *)
LEMMA Digits ==
    ASSUME NEW n \in Nat, NEW k \in Nat
    PROVE  (n \div Power[k]) % Base \in Nat
<1>1. PICK p \in Nat : p = Power[k] /\ p > 0 BY Powers
<1>2. n \div p \in Nat BY <1>1, Division
<1>3. Base \in Nat /\ Base > 0 BY CodecAssumption
<1>4. (n \div p) % Base \in Nat BY <1>2, <1>3, Division
<1> QED BY <1>1, <1>4

(* The delimiter of a prost message. *)
LEMMA Varints ==
    ASSUME NEW n \in Nat, n < Power[VarintMax]
    PROVE  /\ WriteVarint(n) \in Seq(WireByte) /\ Len(WriteVarint(n)) = DelimiterLen(n)
           /\ \A i \in 1 .. DelimiterLen(n) :
                 /\ WriteVarint(n)[i].kind = IF i < DelimiterLen(n) THEN "more" ELSE "digit"
                 /\ WriteVarint(n)[i].of = (n \div Power[i - 1]) % Base
<1>1. PICK l \in Nat : l = DelimiterLen(n) /\ l > 0 BY Delimiters, CodecAssumption
<1> DEFINE d(i) == (n \div Power[i - 1]) % Base
           byte(i) == IF i < l THEN MoreDigit(d(i)) ELSE Digit(d(i))
<1>2. ASSUME NEW i \in 1 .. l
      PROVE  byte(i) \in WireByte /\ byte(i).kind = (IF i < l THEN "more" ELSE "digit") /\ byte(i).of = d(i)
  <2>1. i - 1 \in Nat OBVIOUS
  <2>2. d(i) \in Nat BY <2>1, Digits
  <2> HIDE DEF d
  <2> QED BY <2>2 DEF MoreDigit, Digit, Byte, WireByte
<1> HIDE DEF byte
<1>3. PICK w : w = [i \in 1 .. l |-> byte(i)] OBVIOUS
<1>4. w \in Seq(WireByte) /\ Len(w) = l BY <1>2, <1>3
<1>5. \A i \in 1 .. l : w[i] = byte(i) BY <1>3
<1>6. w = WriteVarint(n) BY <1>1, <1>3 DEF WriteVarint, byte
<1> QED BY <1>1, <1>2, <1>4, <1>5, <1>6

(* The prefix of a MessagePack message. *)
LEMMA U32s ==
    ASSUME NEW n \in Nat
    PROVE  /\ WriteU32(n) \in Seq(WireByte) /\ Len(WriteU32(n)) = Prefix
           /\ WriteU32(n)[1].kind = "tag"
           /\ \A i \in 1 .. LengthDigits : WriteU32(n)[i + 1].of = (n \div Power[LengthDigits - i]) % Base
<1> DEFINE d(i) == (n \div Power[LengthDigits - i]) % Base
<1>1. PICK L \in Nat : L = LengthDigits /\ L > 0 BY CodecAssumption
<1>2. ASSUME NEW i \in 1 .. L PROVE Digit(d(i)) \in WireByte /\ Digit(d(i)).of = d(i)
  <2>1. LengthDigits - i \in Nat BY <1>1
  <2>2. d(i) \in Nat BY <2>1, Digits
  <2> HIDE DEF d
  <2> QED BY <2>2 DEF Digit, Byte, WireByte
<1> HIDE DEF d
<1>3. PICK w : w = [i \in 1 .. L |-> Digit(d(i))] OBVIOUS
<1>4. w \in Seq(WireByte) /\ Len(w) = L BY <1>2, <1>3
<1>5. PICK x : x = Byte("tag", 0, 0) OBVIOUS
<1>6. x \in WireByte /\ x.kind = "tag" BY <1>5 DEF Byte, WireByte
<1>7. PICK u : u = <<x>> \o w OBVIOUS
<1>8. u \in Seq(WireByte) /\ Len(u) = Len(w) + 1 /\ u[1] = x /\ \A i \in 1 .. Len(w) : u[i + 1] = w[i]
  BY <1>4, <1>6, <1>7, Led
<1>9. \A i \in 1 .. L : u[i + 1] = Digit(d(i)) BY <1>3, <1>4, <1>8
<1>10. u[1].kind = "tag" BY <1>6, <1>8
<1>11. u = WriteU32(n) BY <1>1, <1>3, <1>5, <1>7 DEF WriteU32, d
<1>12. Len(u) = Prefix BY <1>1, <1>4, <1>8 DEF Prefix
<1> QED BY <1>1, <1>2, <1>8, <1>9, <1>10, <1>11, <1>12 DEF d

(* The lead of a frame: the length of the body that follows it. *)
Lead(m) == IF codec = "prost" THEN WriteVarint(BodySize(m)) ELSE WriteU32(BodySize(m))

(* Both codecs write the length, then the body, into an empty buffer. *)
LEMMA FrameIs ==
    ASSUME codec \in Codecs, NEW m \in Messages
    PROVE  Frame(m) = Lead(m) \o Body(m) /\ Lead(m) \in Seq(WireByte)
<1>1. CASE codec = "prost"
  <2>1. BodySize(m) \in Nat /\ BodySize(m) < Power[VarintMax] BY <1>1, Sizes DEF BodySize
  <2>2. Lead(m) = WriteVarint(BodySize(m)) /\ Lead(m) \in Seq(WireByte) BY <1>1, <2>1, Varints DEF Lead
  <2>3. <<>> \o Lead(m) = Lead(m) BY <2>2, ConcatEmptySeq
  <2> QED BY <1>1, <2>2, <2>3 DEF Frame, Serialize, ProstSerialize
<1>2. CASE codec # "prost"
  <2>1. PICK b : b = Body(m) OBVIOUS
  <2>2. PICK z \in Nat : z = BodySize(m) BY Bodies
  <2>3. b \in Seq(WireByte) /\ Len(b) = z BY <2>1, <2>2, Bodies
  <2>4. PICK o : o = WriteU32(0) OBVIOUS
  <2>5. PICK P \in Nat : P = Prefix /\ P > 0 BY CodecAssumption DEF Prefix
  <2>6. o \in Seq(WireByte) /\ Len(o) = P BY <2>4, <2>5, U32s
  <2>7. <<>> \o o = o BY <2>6, ConcatEmptySeq
  <2>8. PICK f : f = o \o b OBVIOUS
  <2>9. f \in Seq(WireByte) /\ Len(f) = P + z BY <2>3, <2>6, <2>8, ConcatProperties
  <2>10. SubSeq(f, P + 1, P + z) = b
    <3>1. PICK c : c = SubSeq(f, P + 1, P + z) OBVIOUS
    <3>2. c \in Seq(WireByte) /\ Len(c) = z /\ \A i \in 1 .. z : c[i] = f[P + i]
      BY <2>9, <3>1, Part
    <3>3. \A i \in 1 .. z : f[P + i] = b[i] BY <2>3, <2>6, <2>8, Joined
    <3>4. c = b BY <2>3, <3>2, <3>3, SeqEqual
    <3> QED BY <3>1, <3>4
  <2>11. (P + z) % U32 = P + z
    <3>1. P + z < U32 BY <1>2, <2>2, <2>5, CodecAssumption DEF BodySize, Prefix, U32
    <3>2. PICK u \in Nat : u = U32 BY CodecAssumption, Powers DEF U32
    <3>3. P + z = 0 * u + (P + z) BY <3>2
    <3>4. (P + z) % u = P + z BY <3>1, <3>2, <3>3, DivisionUnique
    <3> QED BY <3>2, <3>4
  <2>12. MessagePackSerialize(m, <<>>) = WriteU32((Len(f) % U32) - Prefix) \o SubSeq(f, Prefix + 1, Len(f))
    BY <2>1, <2>4, <2>7, <2>8 DEF MessagePackSerialize
  <2>13. (Len(f) % U32) - Prefix = z BY <2>5, <2>9, <2>11
  <2>14. MessagePackSerialize(m, <<>>) = WriteU32(z) \o b BY <2>5, <2>9, <2>10, <2>12, <2>13
  <2>15. Lead(m) = WriteU32(z) /\ Lead(m) \in Seq(WireByte) BY <1>2, <2>2, U32s DEF Lead
  <2> QED BY <1>2, <2>1, <2>14, <2>15 DEF Frame, Serialize
<1> QED BY <1>1, <1>2

(* The bytes of a frame. *)
LEMMA Framings ==
    ASSUME codec \in Codecs, NEW m \in Messages
    PROVE  /\ Frame(m) \in Seq(WireByte)
           /\ Len(Lead(m)) \in Nat \ {0} /\ Len(Frame(m)) = Len(Lead(m)) + BodySize(m)
           /\ \A i \in 1 .. Len(Lead(m)) : Frame(m)[i] = Lead(m)[i]
           /\ \A i \in 1 .. BodySize(m) : Frame(m)[Len(Lead(m)) + i] = Byte("body", m, i)
<1>1. PICK b : b = Body(m) OBVIOUS
<1>2. PICK z \in Nat : z = BodySize(m) BY Bodies
<1>3. b \in Seq(WireByte) /\ Len(b) = z /\ \A i \in 1 .. z : b[i] = Byte("body", m, i) BY <1>1, <1>2, Bodies
<1>4. PICK a : a = Lead(m) OBVIOUS
<1>5. a \in Seq(WireByte) BY <1>4, FrameIs
<1>6. PICK l \in Nat : l = Len(a) BY <1>5, LenProperties
<1>7. l # 0
  <2>1. CASE codec = "prost"
    <3>1. BodySize(m) \in Nat /\ BodySize(m) < Power[VarintMax] BY <2>1, Sizes DEF BodySize
    <3>2. l = DelimiterLen(BodySize(m)) BY <1>4, <1>6, <2>1, <3>1, Varints DEF Lead
    <3>3. l \in 1 .. VarintMax BY <3>1, <3>2, Delimiters
    <3> QED BY <3>3
  <2>2. CASE codec # "prost"
    <3>1. l = Prefix BY <1>2, <1>4, <1>6, <2>2, U32s DEF Lead
    <3> QED BY <3>1, CodecAssumption DEF Prefix
  <2> QED BY <2>1, <2>2
<1>8. PICK f : f = a \o b OBVIOUS
<1>9. f \in Seq(WireByte) /\ Len(f) = l + z BY <1>3, <1>5, <1>6, <1>8, Joined
<1>10. \A i \in 1 .. l : f[i] = a[i] BY <1>3, <1>5, <1>6, <1>8, Joined
<1>11. \A i \in 1 .. z : f[l + i] = b[i] BY <1>3, <1>5, <1>6, <1>8, Joined
<1>12. f = Frame(m) BY <1>1, <1>4, <1>8, FrameIs
<1> QED BY <1>2, <1>3, <1>4, <1>6, <1>7, <1>9, <1>10, <1>11, <1>12

-----------------------------------------------------------------------------
(* The stream: F gives the frame of a message, snt are the messages sent, of which w are     *)
(* written and the next one up to cut, rcv are the bytes given to the decoder and not        *)
(* consumed, and d messages are decoded.                                                     *)

(* off says where in the stream a frame ends and the next one starts. *)
Ends(F, snt, off) ==
    /\ off \in [0 .. Len(snt) -> Nat]
    /\ \A i \in 1 .. Len(snt) : off[i] = off[i - 1] + Len(F[snt[i]])
    /\ \A i, j \in 0 .. Len(snt) : i <= j => off[i] <= off[j]

(* What is written of the stream. *)
Cuts(F, snt, w, cut, d) ==
    /\ w \in 0 .. Len(snt) /\ d \in 0 .. w /\ cut \in Nat
    /\ cut > 0 => w < Len(snt) /\ cut < Len(F[snt[w + 1]])

(* What is in the decoder's buffer is the stream's, from the first frame not decoded on. *)
Arrived(F, snt, rcv, d, off) ==
    \A i \in d + 1 .. Len(snt) : \A p \in 1 .. Len(F[snt[i]]) :
        (off[i - 1] + p) - off[d] <= Len(rcv) => rcv[(off[i - 1] + p) - off[d]] = F[snt[i]][p]

InStream(F, snt, w, cut, rcv, d, off) ==
    /\ Ends(F, snt, off) /\ Cuts(F, snt, w, cut, d)
    /\ Len(rcv) = (off[w] + cut) - off[d]
    /\ Arrived(F, snt, rcv, d, off)

(* What is in the buffer is of the frame f, as far as it goes. *)
Agrees(f, rcv) == \A p \in 1 .. Len(f) : p <= Len(rcv) => rcv[p] = f[p]

(* A frame and its place in the stream, in numbers. *)
LEMMA Places ==
    ASSUME NEW F \in [Messages -> Seq(WireByte)], NEW snt \in Seq(Messages), NEW off, Ends(F, snt, off)
    PROVE  /\ Len(snt) \in Nat
           /\ \A i \in 0 .. Len(snt) : off[i] \in Nat
           /\ \A i \in 1 .. Len(snt) :
                 /\ i - 1 \in 0 .. Len(snt) /\ snt[i] \in Messages /\ F[snt[i]] \in Seq(WireByte)
                 /\ Len(F[snt[i]]) \in Nat /\ off[i] = off[i - 1] + Len(F[snt[i]])
<1>1. Len(snt) \in Nat BY LenProperties
<1>2. \A i \in 0 .. Len(snt) : off[i] \in Nat BY DEF Ends
<1>3. ASSUME NEW i \in 1 .. Len(snt)
      PROVE  /\ i - 1 \in 0 .. Len(snt) /\ snt[i] \in Messages /\ F[snt[i]] \in Seq(WireByte)
             /\ Len(F[snt[i]]) \in Nat /\ off[i] = off[i - 1] + Len(F[snt[i]])
  <2>1. i - 1 \in 0 .. Len(snt) BY <1>1
  <2>2. snt[i] \in Messages BY ElementOfSeq
  <2>3. F[snt[i]] \in Seq(WireByte) BY <2>2
  <2>4. Len(F[snt[i]]) \in Nat BY <2>3, LenProperties
  <2>5. off[i] = off[i - 1] + Len(F[snt[i]]) BY DEF Ends
  <2> QED BY <2>1, <2>2, <2>3, <2>4, <2>5
<1> QED BY <1>1, <1>2, <1>3

(* The decoder has what was written of the frame it is at, and no more than was sent. *)
LEMMA StreamFront ==
    ASSUME NEW F \in [Messages -> Seq(WireByte)], NEW snt \in Seq(Messages), NEW w \in Nat, NEW cut \in Nat,
           NEW rcv \in Seq(WireByte), NEW d \in Nat, NEW off, InStream(F, snt, w, cut, rcv, d, off), Len(rcv) # 0
    PROVE  d + 1 \in 1 .. Len(snt) /\ Agrees(F[snt[d + 1]], rcv)
<1>1. Ends(F, snt, off) /\ Cuts(F, snt, w, cut, d) /\ Arrived(F, snt, rcv, d, off) BY DEF InStream
<1>2. PICK n \in Nat : n = Len(snt) BY LenProperties
<1>3. w \in 0 .. n /\ d \in 0 .. w /\ cut \in Nat /\ (cut > 0 => w < n) BY <1>1, <1>2 DEF Cuts
<1>4. Len(rcv) \in Nat /\ Len(rcv) # 0 BY LenProperties
<1>5. off[w] \in Nat /\ off[d] \in Nat BY <1>1, <1>2, <1>3, Places
<1>6. Len(rcv) = (off[w] + cut) - off[d] BY DEF InStream
<1>7. d < n
  <2>1. CASE d = w BY <1>3, <1>4, <1>5, <1>6, <2>1
  <2>2. CASE d # w BY <1>3, <2>2
  <2> QED BY <2>1, <2>2
<1>8. d + 1 \in 1 .. n /\ d + 1 \in d + 1 .. n BY <1>3, <1>7
<1>9. Len(F[snt[d + 1]]) \in Nat BY <1>1, <1>2, <1>8, Places
<1>10. ASSUME NEW p \in 1 .. Len(F[snt[d + 1]]), p <= Len(rcv) PROVE rcv[p] = F[snt[d + 1]][p]
  <2>1. (d + 1) - 1 = d /\ (off[d] + p) - off[d] = p BY <1>3, <1>5, <1>9
  <2>2. \A q \in 1 .. Len(F[snt[d + 1]]) :
           (off[(d + 1) - 1] + q) - off[d] <= Len(rcv) => rcv[(off[(d + 1) - 1] + q) - off[d]] = F[snt[d + 1]][q]
    BY <1>1, <1>2, <1>8, Zenon DEF Arrived
  <2> QED BY <1>10, <2>1, <2>2
<1> QED BY <1>2, <1>8, <1>10 DEF Agrees

(* The decoder consumes the frame it is at, when it has it. *)
LEMMA StreamDecode ==
    ASSUME NEW F \in [Messages -> Seq(WireByte)], NEW snt \in Seq(Messages), NEW w \in Nat, NEW cut \in Nat,
           NEW rcv \in Seq(WireByte), NEW d \in Nat, NEW off, InStream(F, snt, w, cut, rcv, d, off),
           d + 1 \in 1 .. Len(snt), NEW k \in Nat, k > 0, k = Len(F[snt[d + 1]]), k <= Len(rcv)
    PROVE  /\ SubSeq(rcv, k + 1, Len(rcv)) \in Seq(WireByte)
           /\ InStream(F, snt, w, cut, SubSeq(rcv, k + 1, Len(rcv)), d + 1, off)
<1>1. Ends(F, snt, off) /\ Cuts(F, snt, w, cut, d) /\ Arrived(F, snt, rcv, d, off) BY DEF InStream
<1>2. PICK n \in Nat : n = Len(snt) BY LenProperties
<1>3. w \in 0 .. n /\ d \in 0 .. w /\ cut \in Nat /\ (cut > 0 => w < n /\ cut < Len(F[snt[w + 1]]))
  BY <1>1, <1>2 DEF Cuts
<1>4. PICK r \in Nat : r = Len(rcv) BY LenProperties
<1>5. d \in 0 .. n /\ d + 1 \in 0 .. n /\ (d + 1) - 1 = d BY <1>2, <1>3
<1>6. PICK a \in Nat, b \in Nat, e \in Nat : a = off[w] /\ b = off[d] /\ e = off[d + 1]
  BY <1>1, <1>2, <1>3, <1>5, Places
<1>7. r = (a + cut) - b /\ e = b + k
  <2>1. r = (off[w] + cut) - off[d] BY <1>4 DEF InStream
  <2>2. off[d + 1] = off[(d + 1) - 1] + Len(F[snt[d + 1]]) BY <1>1, Places
  <2> QED BY <1>5, <1>6, <2>1, <2>2
<1>8. d + 1 \in 0 .. w
  <2>1. CASE d = w
    <3>1. k <= r /\ a = b BY <1>4, <1>6, <2>1
    <3>2. cut >= k BY <1>7, <3>1
    <3> QED BY <1>3, <2>1, <3>2
  <2>2. CASE d # w BY <1>3, <2>2
  <2> QED BY <2>1, <2>2
<1>9. PICK s : s = SubSeq(rcv, k + 1, Len(rcv)) OBVIOUS
<1>10. s \in Seq(WireByte) /\ Len(s) = r - k /\ \A i \in 1 .. r - k : s[i] = rcv[k + i]
  <2>1. PICK l \in Nat : l = r - k
    <3>1. k <= r BY <1>4
    <3>2. r - k \in Nat BY <3>1
    <3> QED BY <3>2
  <2>2. k + l = r BY <1>4, <2>1
  <2>3. k + l <= Len(rcv) BY <1>4, <2>2
  <2>4. s = SubSeq(rcv, k + 1, k + l) BY <1>4, <1>9, <2>2
  <2>5. /\ SubSeq(rcv, k + 1, k + l) \in Seq(WireByte) /\ Len(SubSeq(rcv, k + 1, k + l)) = l
        /\ \A i \in 1 .. l : SubSeq(rcv, k + 1, k + l)[i] = rcv[k + i]
    BY <2>3, Part, SMT
  <2> QED BY <2>1, <2>4, <2>5
<1>11. Cuts(F, snt, w, cut, d + 1) BY <1>1, <1>8 DEF Cuts
<1>12. Len(s) = (off[w] + cut) - off[d + 1]
  <2>1. r - k = (a + cut) - e BY <1>7
  <2> QED BY <1>6, <1>10, <2>1
<1>13. Arrived(F, snt, s, d + 1, off)
  <2> SUFFICES ASSUME NEW i \in (d + 1) + 1 .. n, NEW p \in 1 .. Len(F[snt[i]]),
                      (off[i - 1] + p) - off[d + 1] <= Len(s)
               PROVE  s[(off[i - 1] + p) - off[d + 1]] = F[snt[i]][p]
    BY <1>2 DEF Arrived
  <2>1. i \in 1 .. n /\ i \in d + 1 .. n /\ i - 1 \in 0 .. n /\ d + 1 <= i - 1 BY <1>3
  <2>2. PICK c \in Nat : c = off[i - 1] /\ e <= c BY <1>1, <1>2, <1>5, <1>6, <2>1, Places DEF Ends
  <2>3. Len(F[snt[i]]) \in Nat BY <1>1, <1>2, <2>1, Places
  <2>4. PICK l \in Nat : l = p /\ l > 0 BY <2>3
  <2>5. PICK q : q = (c + l) - e OBVIOUS
  <2>6. (c + l) - e <= r - k BY <1>6, <1>10, <2>2, <2>4
  <2>7. q \in 1 .. r - k /\ k + q = (c + l) - b /\ (c + l) - b <= r
    <3>1. e = b + k BY <1>7
    <3>2. e <= c BY <2>2
    <3>3. l > 0 BY <2>4
    <3>4. q <= r - k BY <2>5, <2>6
    <3>5. q \in Nat /\ q > 0 BY <2>5, <3>2, <3>3
    <3>6. k + q = (c + l) - b BY <2>5, <3>1
    <3>7. q \in 1 .. r - k BY <3>4, <3>5
    <3>8. (c + l) - b <= r BY <3>4, <3>5, <3>6
    <3> QED BY <3>6, <3>7, <3>8
  <2>8. s[q] = rcv[k + q] BY <1>10, <2>7
  <2>9. (off[i - 1] + p) - off[d] = k + q /\ (off[i - 1] + p) - off[d] <= Len(rcv)
    BY <1>4, <1>6, <2>2, <2>4, <2>7
  <2>10. rcv[k + q] = F[snt[i]][p]
    <3>1. rcv[(off[i - 1] + p) - off[d]] = F[snt[i]][p] BY <1>1, <1>2, <2>1, <2>9 DEF Arrived
    <3> QED BY <2>9, <3>1
  <2> QED BY <1>6, <2>2, <2>4, <2>5, <2>8, <2>10
<1>14. InStream(F, snt, w, cut, s, d + 1, off) BY <1>1, <1>11, <1>12, <1>13 DEF InStream
<1> QED BY <1>9, <1>10, <1>14

(* What is written ends in the frames of what was sent. *)
LEMMA StreamEnd ==
    ASSUME NEW F \in [Messages -> Seq(WireByte)], NEW snt \in Seq(Messages), NEW w \in Nat, NEW cut \in Nat,
           NEW d, NEW off, Ends(F, snt, off), Cuts(F, snt, w, cut, d)
    PROVE  off[w] + cut <= off[Len(snt)]
<1>1. PICK n \in Nat : n = Len(snt) BY LenProperties
<1>2. w \in 0 .. n /\ n \in 0 .. n BY <1>1 DEF Cuts
<1>3. PICK a \in Nat, z \in Nat : a = off[w] /\ z = off[n] BY <1>1, <1>2, Places
<1>4. CASE cut = 0
  <2>1. a <= z BY <1>1, <1>2, <1>3 DEF Ends
  <2> QED BY <1>1, <1>3, <1>4, <2>1
<1>5. CASE cut # 0
  <2>1. cut > 0 BY <1>5
  <2>2. w < n /\ cut < Len(F[snt[w + 1]]) BY <1>1, <2>1 DEF Cuts
  <2>3. w + 1 \in 1 .. n /\ w + 1 \in 0 .. n /\ (w + 1) - 1 = w BY <1>2, <2>2
  <2>4. PICK l \in Nat : l = Len(F[snt[w + 1]]) BY <1>1, <2>3, Places
  <2>5. off[w + 1] = a + l
    <3>1. off[w + 1] = off[(w + 1) - 1] + Len(F[snt[w + 1]]) BY <1>1, <2>3 DEF Ends
    <3> QED BY <1>3, <2>3, <2>4, <3>1
  <2>6. off[w + 1] <= z BY <1>1, <1>2, <1>3, <2>3 DEF Ends
  <2>7. cut < l BY <2>2, <2>4
  <2>8. a + cut <= z BY <2>5, <2>6, <2>7
  <2> QED BY <1>1, <1>3, <2>8
<1> QED BY <1>4, <1>5

(* A message more is sent. *)
LEMMA StreamEncode ==
    ASSUME NEW F \in [Messages -> Seq(WireByte)], NEW snt \in Seq(Messages), NEW w \in Nat, NEW cut \in Nat,
           NEW rcv \in Seq(WireByte), NEW d \in Nat, NEW off, InStream(F, snt, w, cut, rcv, d, off),
           NEW m \in Messages
    PROVE  \E o : InStream(F, Append(snt, m), w, cut, rcv, d, o)
<1>1. Ends(F, snt, off) /\ Cuts(F, snt, w, cut, d) /\ Arrived(F, snt, rcv, d, off) BY DEF InStream
<1>2. PICK n \in Nat : n = Len(snt) BY LenProperties
<1>3. PICK t : t = Append(snt, m) OBVIOUS
<1>4. t \in Seq(Messages) /\ Len(t) = n + 1 /\ t[n + 1] = m /\ \A i \in 1 .. n : t[i] = snt[i]
  BY <1>2, <1>3, AppendProperties
<1>5. PICK l \in Nat : l = Len(F[m]) BY LenProperties
<1>6. PICK z \in Nat : z = off[n]
  <2>1. n \in 0 .. n OBVIOUS
  <2> QED BY <1>1, <1>2, <2>1, Places
<1>7. PICK o : o = [i \in 0 .. n + 1 |-> IF i = n + 1 THEN z + l ELSE off[i]] OBVIOUS
<1>8. o[n + 1] = z + l /\ \A i \in 0 .. n : o[i] = off[i] BY <1>7
<1>9. \A i \in 0 .. n : off[i] \in Nat /\ off[i] <= z
  <2> TAKE i \in 0 .. n
  <2>1. n \in 0 .. n /\ i <= n OBVIOUS
  <2> QED BY <1>1, <1>2, <1>6, <2>1, Places DEF Ends
<1>10. Ends(F, t, o)
  <2>1. o \in [0 .. n + 1 -> Nat] BY <1>7, <1>9
  <2>2. ASSUME NEW i \in 1 .. n + 1 PROVE o[i] = o[i - 1] + Len(F[t[i]])
    <3>1. CASE i = n + 1
      <4>1. i - 1 = n /\ n \in 0 .. n BY <3>1
      <4> QED BY <1>4, <1>5, <1>6, <1>8, <3>1, <4>1
    <3>2. CASE i # n + 1
      <4>1. i \in 1 .. n /\ i \in 0 .. n /\ i - 1 \in 0 .. n BY <3>2
      <4>2. off[i] = off[i - 1] + Len(F[snt[i]]) BY <1>1, <1>2, <4>1, Places
      <4> QED BY <1>4, <1>8, <4>1, <4>2
    <3> QED BY <3>1, <3>2
  <2>3. ASSUME NEW i \in 0 .. n + 1, NEW j \in 0 .. n + 1, i <= j PROVE o[i] <= o[j]
    <3>1. CASE j = n + 1
      <4>1. CASE i = n + 1 BY <1>8, <3>1, <4>1
      <4>2. CASE i # n + 1
        <5>1. i \in 0 .. n BY <4>2
        <5>2. off[i] \in Nat /\ off[i] <= z BY <1>9, <5>1
        <5>3. off[i] <= z + l BY <5>2
        <5> QED BY <1>8, <3>1, <5>1, <5>3
      <4> QED BY <4>1, <4>2
    <3>2. CASE j # n + 1
      <4>1. i \in 0 .. n /\ j \in 0 .. n BY <2>3, <3>2
      <4>2. off[i] <= off[j] BY <1>1, <1>2, <2>3, <4>1 DEF Ends
      <4> QED BY <1>8, <4>1, <4>2
    <3> QED BY <3>1, <3>2
  <2> QED BY <1>4, <2>1, <2>2, <2>3 DEF Ends
<1>11. w \in 0 .. n /\ d \in 0 .. n /\ (cut > 0 => w < n /\ cut < Len(F[snt[w + 1]]))
  BY <1>1, <1>2 DEF Cuts
<1>12. Cuts(F, t, w, cut, d)
  <2>1. w \in 0 .. Len(t) /\ d \in 0 .. w BY <1>1, <1>4, <1>11 DEF Cuts
  <2>2. ASSUME cut > 0 PROVE w < n + 1 /\ cut < Len(F[t[w + 1]])
    <3>1. w < n /\ w + 1 \in 1 .. n BY <1>11, <2>2
    <3> QED BY <1>4, <1>11, <2>2, <3>1
  <2> QED BY <1>4, <2>1, <2>2 DEF Cuts
<1>13. PICK a \in Nat, b \in Nat : a = off[w] /\ b = off[d] BY <1>9, <1>11
<1>14. Len(rcv) = (a + cut) - b BY <1>13 DEF InStream
<1>15. a + cut <= z BY <1>1, <1>2, <1>6, <1>13, StreamEnd
<1>16. Arrived(F, t, rcv, d, o)
  <2> SUFFICES ASSUME NEW i \in d + 1 .. n + 1, NEW p \in 1 .. Len(F[t[i]]),
                      (o[i - 1] + p) - o[d] <= Len(rcv)
               PROVE  rcv[(o[i - 1] + p) - o[d]] = F[t[i]][p]
    BY <1>4 DEF Arrived
  <2>1. o[d] = b /\ i - 1 \in 0 .. n /\ o[i - 1] = off[i - 1] BY <1>8, <1>11, <1>13
  <2>2. CASE i = n + 1
    <3>1. i - 1 = n /\ t[i] = m BY <1>4, <2>2
    <3>2. PICK q \in Nat : q = p /\ q > 0 BY <1>5, <3>1
    <3>3. (z + q) - b <= (a + cut) - b BY <1>6, <1>14, <2>1, <3>1, <3>2
    <3> QED BY <1>15, <3>2, <3>3
  <2>3. CASE i # n + 1
    <3>1. i \in d + 1 .. n /\ i \in 1 .. n BY <1>11, <2>3
    <3>2. t[i] = snt[i] BY <1>4, <3>1
    <3>3. (off[i - 1] + p) - off[d] <= Len(rcv) BY <1>13, <2>1
    <3>4. rcv[(off[i - 1] + p) - off[d]] = F[snt[i]][p] BY <1>1, <1>2, <3>1, <3>2, <3>3 DEF Arrived
    <3> QED BY <1>13, <2>1, <3>2, <3>4
  <2> QED BY <2>2, <2>3
<1>17. Len(rcv) = (o[w] + cut) - o[d] BY <1>8, <1>11, <1>13, <1>14
<1>18. InStream(F, t, w, cut, rcv, d, o) BY <1>10, <1>12, <1>16, <1>17 DEF InStream
<1> QED BY <1>3, <1>18

(* More of the frame at the front is written, or all of it. *)
LEMMA StreamWrite ==
    ASSUME NEW F \in [Messages -> Seq(WireByte)], NEW snt \in Seq(Messages), NEW w \in Nat, NEW cut \in Nat,
           NEW rcv \in Seq(WireByte), NEW d \in Nat, NEW off, InStream(F, snt, w, cut, rcv, d, off),
           w < Len(snt), NEW l \in Nat, l = Len(F[snt[w + 1]]), NEW k \in Nat, cut + k <= l
    PROVE  LET x == rcv \o SubSeq(F[snt[w + 1]], cut + 1, cut + k)
           IN  /\ x \in Seq(WireByte)
               /\ cut + k < l => InStream(F, snt, w, cut + k, x, d, off)
               /\ cut + k = l => InStream(F, snt, w + 1, 0, x, d, off)
<1>1. Ends(F, snt, off) /\ Cuts(F, snt, w, cut, d) /\ Arrived(F, snt, rcv, d, off) BY DEF InStream
<1>2. PICK n \in Nat : n = Len(snt) /\ w < n BY LenProperties
<1>3. w \in 0 .. n /\ d \in 0 .. w /\ d \in 0 .. n BY <1>1, <1>2 DEF Cuts
<1>4. w + 1 \in 1 .. n /\ w + 1 \in 0 .. n /\ (w + 1) - 1 = w BY <1>2, <1>3
<1>5. PICK f \in Seq(WireByte) : f = F[snt[w + 1]] BY <1>1, <1>2, <1>4, Places
<1>6. PICK a \in Nat, b \in Nat, e \in Nat : a = off[w] /\ b = off[d] /\ e = off[w + 1]
  BY <1>1, <1>2, <1>3, <1>4, Places
<1>7. b <= a /\ e = a + l
  <2>1. off[d] <= off[w] BY <1>1, <1>2, <1>3 DEF Ends
  <2>2. off[w + 1] = off[(w + 1) - 1] + Len(F[snt[w + 1]]) BY <1>1, <1>2, <1>4 DEF Ends
  <2> QED BY <1>4, <1>6, <2>1, <2>2
<1>8. PICK r \in Nat : r = Len(rcv) BY LenProperties
<1>9. r = (a + cut) - b BY <1>6, <1>8 DEF InStream
<1>10. PICK y : y = SubSeq(f, cut + 1, cut + k) OBVIOUS
<1>11. y \in Seq(WireByte) /\ Len(y) = k /\ \A i \in 1 .. k : y[i] = f[cut + i]
  <2>1. cut + k <= Len(f) BY <1>5
  <2> QED BY <1>5, <1>10, <2>1, Part
<1>12. PICK x : x = rcv \o y OBVIOUS
<1>13. x \in Seq(WireByte) /\ Len(x) = Len(rcv) + Len(y) BY <1>11, <1>12, Joined
<1>14. \A i \in 1 .. Len(rcv) : x[i] = rcv[i] BY <1>11, <1>12, Joined
<1>15. \A i \in 1 .. Len(y) : x[Len(rcv) + i] = y[i] BY <1>11, <1>12, Joined
<1>16. Len(x) = r + k BY <1>8, <1>11, <1>13
<1>17. Arrived(F, snt, x, d, off)
  <2> SUFFICES ASSUME NEW i \in d + 1 .. n, NEW p \in 1 .. Len(F[snt[i]]),
                      (off[i - 1] + p) - off[d] <= Len(x)
               PROVE  x[(off[i - 1] + p) - off[d]] = F[snt[i]][p]
    BY <1>2 DEF Arrived
  <2>1. i \in 1 .. n /\ i \in 0 .. n /\ i - 1 \in 0 .. n /\ d <= i - 1 BY <1>3
  <2>2. PICK c \in Nat : c = off[i - 1] BY <1>1, <1>2, <2>1, Places
  <2>3. b <= c BY <1>1, <1>2, <1>3, <1>6, <2>1, <2>2 DEF Ends
  <2>4. PICK g \in Nat : g = Len(F[snt[i]]) /\ off[i] = c + g BY <1>1, <1>2, <2>1, <2>2, Places
  <2>5. PICK v \in Nat : v = p /\ v > 0 /\ v <= g BY <2>4
  <2>6. (c + v) - b <= r + k BY <1>6, <1>16, <2>2, <2>5
  <2>7. PICK q \in Nat : q = (c + v) - b /\ q > 0
    <3>1. (c + v) - b \in Nat /\ (c + v) - b > 0 BY <2>3, <2>5
    <3> QED BY <3>1
  <2>8. (off[i - 1] + p) - off[d] = q BY <1>6, <2>2, <2>5, <2>7
  <2>9. CASE q <= r
    <3>1. rcv[q] = F[snt[i]][p]
      <4>1. (off[i - 1] + p) - off[d] <= Len(rcv) BY <1>8, <2>8, <2>9
      <4>2. rcv[(off[i - 1] + p) - off[d]] = F[snt[i]][p] BY <1>1, <1>2, <4>1 DEF Arrived
      <4> QED BY <2>8, <4>2
    <3>2. q \in 1 .. Len(rcv) BY <1>8, <2>7, <2>9
    <3> QED BY <1>14, <2>8, <3>1, <3>2
  <2>10. CASE ~(q <= r)
    <3>1. c + v > a + cut BY <1>7, <1>9, <2>3, <2>7, <2>10
    <3>2. c + v <= e BY <1>7, <1>9, <2>3, <2>6
    <3>3. i = w + 1
      <4>1. ~(i <= w)
        <5>1. SUFFICES ASSUME i <= w PROVE FALSE OBVIOUS
        <5>2. off[i] <= off[w] BY <1>1, <1>2, <1>3, <2>1, <5>1 DEF Ends
        <5>3. c + g <= a BY <1>6, <2>4, <5>2
        <5> QED BY <2>5, <3>1, <5>3
      <4>2. ~(w + 1 <= i - 1)
        <5>1. SUFFICES ASSUME w + 1 <= i - 1 PROVE FALSE OBVIOUS
        <5>2. off[w + 1] <= off[i - 1] BY <1>1, <1>2, <1>4, <2>1, <5>1 DEF Ends
        <5>3. e <= c BY <1>6, <2>2, <5>2
        <5> QED BY <2>5, <3>2, <5>3
      <4>3. i \in Nat BY <2>1
      <4> QED BY <4>1, <4>2, <4>3
    <3>4. c = a /\ F[snt[i]] = f BY <1>4, <1>5, <1>6, <2>2, <3>3
    <3>5. PICK h \in Nat : v = cut + h /\ h > 0
      <4>1. v > cut BY <3>1, <3>4
      <4>2. v - cut \in Nat /\ v - cut > 0 /\ v = cut + (v - cut) BY <4>1
      <4> QED BY <4>2
    <3>6. q = r + h /\ h <= k BY <1>7, <1>9, <2>6, <2>7, <3>4, <3>5
    <3>7. h \in 1 .. k /\ h \in 1 .. Len(y) BY <1>11, <3>5, <3>6
    <3>8. x[r + h] = y[h] BY <1>8, <1>15, <3>7
    <3>9. y[h] = f[cut + h] BY <1>11, <3>7
    <3> QED BY <2>5, <2>8, <3>4, <3>5, <3>6, <3>8, <3>9
  <2> QED BY <2>9, <2>10
<1>18. ASSUME cut + k < l PROVE InStream(F, snt, w, cut + k, x, d, off)
  <2>1. cut + k < Len(F[snt[w + 1]]) BY <1>18
  <2>2. Cuts(F, snt, w, cut + k, d) BY <1>2, <1>3, <2>1 DEF Cuts
  <2>3. r + k = (a + (cut + k)) - b BY <1>7, <1>9
  <2>4. Len(x) = (off[w] + (cut + k)) - off[d] BY <1>6, <1>16, <2>3
  <2> QED BY <1>1, <1>17, <2>2, <2>4 DEF InStream
<1>19. ASSUME cut + k = l PROVE InStream(F, snt, w + 1, 0, x, d, off)
  <2>1. Cuts(F, snt, w + 1, 0, d) BY <1>2, <1>3, <1>4 DEF Cuts
  <2>2. r + k = (e + 0) - b BY <1>7, <1>9, <1>19
  <2>3. Len(x) = (off[w + 1] + 0) - off[d] BY <1>6, <1>16, <2>2
  <2> QED BY <1>1, <1>17, <2>1, <2>3 DEF InStream
<1> QED BY <1>5, <1>10, <1>12, <1>13, <1>18, <1>19

-----------------------------------------------------------------------------
(* What decode returns when the bytes it has are a frame's, or a beginning of it. *)

(* The bytes that have arrived are those of the frame of m. *)
At(m) == codec \in Codecs /\ received \in Seq(WireByte) /\ Agrees(Frame(m), received)

(* The bytes are read as the message that was sent, or as none. *)
LEMMA ReadOne ==
    ASSUME NEW m \in Messages, NEW found, found = {x \in Known : x = m}, NEW framing
    PROVE  /\ m \in Known => Read(found, framing, <<>>) = Outcome("message", framing + BodySize(m), <<m>>, <<>>)
           /\ m \notin Known => Read(found, framing, <<>>) = Outcome("invalid", 0, <<>>, <<>>)
<1>1. CASE m \in Known
  <2>1. found = {m} BY <1>1
  <2>2. found # {} /\ (CHOOSE x \in found : TRUE) = m BY <2>1
  <2> QED BY <1>1, <2>2 DEF Read
<1>2. CASE m \notin Known
  <2>1. found = {} BY <1>2
  <2> QED BY <1>2, <2>1 DEF Read
<1> QED BY <1>1, <1>2

(* The bodies are told apart: by their size, or by their first byte. *)
LEMMA SameBody ==
    ASSUME NEW m \in Messages, NEW x \in Messages
    PROVE  /\ codec = "prost" /\ Body(x) = Body(m) => x = m
           /\ codec # "prost" /\ Body(x)[1] = Byte("body", m, 1) => x = m
<1>1. ASSUME codec = "prost", Body(x) = Body(m) PROVE x = m
  <2>1. Len(Body(x)) = BodySize(x) /\ Len(Body(m)) = BodySize(m) BY Bodies
  <2> QED BY <1>1, <2>1 DEF BodySize
<1>2. ASSUME codec # "prost", Body(x)[1] = Byte("body", m, 1) PROVE x = m
  <2>1. x \in Nat BY CodecAssumption
  <2>2. BodySize(x) = x + 1 BY <1>2 DEF BodySize
  <2>3. 1 \in 1 .. BodySize(x) BY <2>1, <2>2
  <2>4. Body(x)[1] = Byte("body", x, 1) BY <2>3, Bodies
  <2>5. Byte("body", x, 1).of = Byte("body", m, 1).of BY <1>2, <2>4
  <2> QED BY <2>5 DEF Byte
<1> QED BY <1>1, <1>2

(* ProstDecoder: the delimiter is awaited, then the body, then the body is read. *)
LEMMA ProstDecodes ==
    ASSUME NEW m \in Messages, At(m), codec = "prost"
    PROVE  /\ Len(received) < Len(Frame(m)) => \E n \in Nat : Len(received) < n /\ ProstDecode = Incomplete(n, <<>>)
           /\ Len(received) >= Len(Frame(m)) /\ m \in Known =>
                 ProstDecode = Outcome("message", Len(Frame(m)), <<m>>, <<>>)
           /\ Len(received) >= Len(Frame(m)) /\ m \notin Known => ProstDecode = Outcome("invalid", 0, <<>>, <<>>)
<1>1. m \in Nat /\ m < Power[VarintMax] /\ BodySize(m) = m BY Sizes DEF BodySize
<1>2. PICK l \in Nat : l = DelimiterLen(m) /\ l > 0 /\ l <= VarintMax /\ m < Power[l]
  BY <1>1, Delimiters, CodecAssumption
<1>3. PICK v \in Nat : v = VarintMax BY CodecAssumption
<1>4. PICK r \in Nat : r = Len(received) BY LenProperties DEF At
<1>5. Lead(m) = WriteVarint(m) BY <1>1 DEF Lead
<1>6. Len(Lead(m)) = l BY <1>1, <1>2, <1>5, Varints
<1>7. Len(Frame(m)) = l + m BY <1>1, <1>6, Framings DEF At
<1>8. ASSUME NEW i \in 1 .. l, i <= r
      PROVE  /\ received[i].kind = IF i < l THEN "more" ELSE "digit"
             /\ received[i].of = (m \div Power[i - 1]) % Base
  <2>1. i \in 1 .. l + m BY <1>1
  <2>2. received[i] = Frame(m)[i] BY <1>4, <1>7, <1>8, <2>1 DEF At, Agrees
  <2>3. Frame(m)[i] = WriteVarint(m)[i] BY <1>5, <1>6, Framings DEF At
  <2>4. i \in 1 .. DelimiterLen(m) BY <1>2
  <2>5. /\ WriteVarint(m)[i].kind = IF i < DelimiterLen(m) THEN "more" ELSE "digit"
        /\ WriteVarint(m)[i].of = (m \div Power[i - 1]) % Base
    BY <1>1, <2>4, Varints
  <2> QED BY <1>2, <2>2, <2>3, <2>5
<1>9. CASE r < l
  <2>1. VarintEnds(received) = {}
    <3>1. SUFFICES ASSUME NEW i \in DOMAIN received, received[i].kind = "digit" PROVE FALSE
      BY DEF VarintEnds
    <3>2. i \in 1 .. r BY <1>4, LenProperties DEF At
    <3>3. i \in 1 .. l /\ i <= r /\ i < l BY <1>9, <3>2
    <3>4. received[i].kind = "more" BY <1>8, <3>3
    <3> QED BY <3>1, <3>4
  <2>2. ProstDecode = Incomplete(VarintMax, <<>>) BY <2>1 DEF ProstDecode
  <2>3. r < v /\ r < l + m BY <1>1, <1>2, <1>3, <1>9
  <2>4. \E n \in Nat : Len(received) < n /\ ProstDecode = Incomplete(n, <<>>) BY <1>3, <1>4, <2>2, <2>3
  <2>5. ~(r >= l + m) BY <1>1, <2>3
  <2> QED BY <1>4, <1>7, <2>4, <2>5
<1>10. CASE r >= l
  <2>1. VarintEnds(received) = {l}
    <3>1. \A i \in 1 .. l : i <= r BY <1>10
    <3>2. l \in VarintEnds(received)
      <4>1. l \in DOMAIN received BY <1>2, <1>4, <1>10, LenProperties DEF At
      <4>2. received[l].kind = "digit" BY <1>2, <1>8, <1>10
      <4>3. \A j \in 1 .. l - 1 : received[j].kind = "more" BY <1>8, <3>1
      <4> QED BY <1>2, <4>1, <4>2, <4>3 DEF VarintEnds
    <3>3. ASSUME NEW i \in VarintEnds(received) PROVE i = l
      <4>1. i \in 1 .. r /\ received[i].kind = "digit" /\ \A j \in 1 .. i - 1 : received[j].kind = "more"
        BY <1>4, LenProperties DEF At, VarintEnds
      <4>2. ~(i < l)
        <5>1. SUFFICES ASSUME i < l PROVE FALSE OBVIOUS
        <5>2. received[i].kind = "more" BY <1>8, <4>1, <5>1
        <5> QED BY <4>1, <5>2
      <4>3. ~(l < i)
        <5>1. SUFFICES ASSUME l < i PROVE FALSE OBVIOUS
        <5>2. l \in 1 .. i - 1 /\ l \in 1 .. l /\ l <= r /\ ~(l < l) BY <1>2, <1>10, <4>1, <5>1
        <5>3. received[l].kind = "more" BY <4>1, <5>2
        <5>4. received[l].kind = "digit" BY <1>8, <5>2
        <5> QED BY <5>3, <5>4
      <4> QED BY <4>1, <4>2, <4>3
    <3> QED BY <3>2, <3>3
  <2>2. VarintEnds(received) # {} /\ (CHOOSE i \in VarintEnds(received) : TRUE) = l BY <2>1
  <2>3. ReadVarint(received, l) = m
    <3>1. \A i \in 1 .. l : received[i].of = (m \div Power[i - 1]) % Base BY <1>8, <1>10
    <3> QED BY <1>1, <1>2, <3>1, VarintReads
  <2>4. PICK g \in Nat : g = m + l BY <1>1
  <2>5. (m + l) % Usize = g
    <3>1. v + m < Power[VarintMax] BY <1>3, Sizes
    <3>2. PICK u \in Nat : u = Usize /\ u = Power[VarintMax] BY <1>3, Powers DEF Usize
    <3>3. g = 0 * u + g /\ g < u /\ u > 0 BY <1>1, <1>2, <1>3, <2>4, <3>1, <3>2
    <3>4. g % u = g BY <3>2, <3>3, DivisionUnique
    <3> QED BY <2>4, <3>2, <3>4
  <2> DEFINE found == {x \in Known : l + m <= Len(received) /\ Body(x) = SubSeq(received, l + 1, l + m)}
  <2>6. ProstDecode = IF r < g THEN Incomplete(g, <<>>) ELSE Read(found, l, <<>>)
    BY <1>2, <1>4, <2>2, <2>3, <2>5 DEF ProstDecode
  <2>7. Len(Frame(m)) = g /\ g = l + m BY <1>1, <1>7, <2>4
  <2>8. CASE r < g
    <3>1. ProstDecode = Incomplete(g, <<>>) BY <2>6, <2>8
    <3>2. ~(r >= g) BY <2>8
    <3> QED BY <1>4, <2>7, <2>8, <3>1, <3>2
  <2>9. CASE ~(r < g)
    <3>1. PICK s : s = SubSeq(received, l + 1, l + m) OBVIOUS
    <3>2. l + m <= Len(received) BY <1>1, <1>4, <2>7, <2>9
    <3>3. s \in Seq(WireByte) /\ Len(s) = m /\ \A i \in 1 .. m : s[i] = received[l + i]
      <4>1. received \in Seq(WireByte) BY DEF At
      <4> QED BY <1>1, <3>1, <3>2, <4>1, Part
    <3>4. ASSUME NEW i \in 1 .. m PROVE s[i] = Body(m)[i]
      <4>1. l + i \in 1 .. l + m /\ l + i <= r BY <1>1, <2>7, <2>9
      <4>2. received[l + i] = Frame(m)[l + i] BY <1>4, <1>7, <4>1 DEF At, Agrees
      <4>3. Frame(m)[l + i] = Byte("body", m, i) BY <1>1, <1>6, Framings DEF At
      <4>4. Body(m)[i] = Byte("body", m, i) BY <1>1, Bodies
      <4> QED BY <3>3, <4>2, <4>3, <4>4
    <3>5. Body(m) \in Seq(WireByte) /\ Len(Body(m)) = m BY <1>1, Bodies
    <3>6. s = Body(m) BY <3>3, <3>4, <3>5, SeqEqual
    <3>7. found = {x \in Known : x = m}
      <4>1. Known \subseteq Messages BY CodecAssumption
      <4>2. \A x \in Known : Body(x) = s <=> x = m BY <3>6, <4>1, SameBody
      <4> QED BY <3>1, <3>2, <4>2
    <3>8. ProstDecode = Read({x \in Known : x = m}, l, <<>>) BY <2>6, <2>9, <3>7
    <3>9. l + BodySize(m) = g BY <1>1, <2>7
    <3>10. /\ m \in Known => ProstDecode = Outcome("message", g, <<m>>, <<>>)
           /\ m \notin Known => ProstDecode = Outcome("invalid", 0, <<>>, <<>>)
      BY <3>8, <3>9, ReadOne
    <3> QED BY <1>4, <2>7, <2>9, <3>10
  <2> QED BY <2>8, <2>9
<1> QED BY <1>9, <1>10

(* Of a MessagePackDecoder: it waits, or it has read the length of the frame it is at. *)
LengthRead(m) == state = <<>> \/ (state = <<BodySize(m)>> /\ Len(received) >= Prefix)

(* MessagePackDecoder: the prefix is awaited, then the body, whose length is kept, then the  *)
(* body is read.                                                                             *)
LEMMA MessagePackDecodes ==
    ASSUME NEW m \in Messages, At(m), codec # "prost", LengthRead(m)
    PROVE  /\ Len(received) < Len(Frame(m)) =>
                 \E n \in Nat : /\ Len(received) < n
                                /\ \/ MessagePackDecode = Incomplete(n, <<>>)
                                   \/ MessagePackDecode = Incomplete(n, <<BodySize(m)>>) /\ Len(received) >= Prefix
           /\ Len(received) >= Len(Frame(m)) /\ m \in Known =>
                 MessagePackDecode = Outcome("message", Len(Frame(m)), <<m>>, <<>>)
           /\ Len(received) >= Len(Frame(m)) /\ m \notin Known =>
                 MessagePackDecode = Outcome("invalid", 0, <<>>, <<>>)
<1>1. PICK z \in Nat : z = BodySize(m) /\ z = m + 1 /\ m \in Nat BY CodecAssumption DEF BodySize
<1>2. PICK P \in Nat : P = Prefix /\ P > 0 BY CodecAssumption DEF Prefix
<1>3. PICK r \in Nat : r = Len(received) BY LenProperties DEF At
<1>4. Lead(m) = WriteU32(z) BY <1>1 DEF Lead
<1>5. Len(Lead(m)) = P BY <1>1, <1>2, <1>4, U32s
<1>6. PICK g \in Nat : g = Len(Frame(m)) /\ g = P + z
  <2>1. Len(Frame(m)) = P + z BY <1>1, <1>5, Framings DEF At
  <2> QED BY <2>1
<1>7. PICK u \in Nat : u = U32 /\ z < u /\ z + P < u /\ u > 0
  <2>1. U32 \in Nat BY CodecAssumption, Powers DEF U32
  <2>2. LengthDigits + m + 2 < U32 BY CodecAssumption DEF U32
  <2>3. LengthDigits \in Nat /\ P = 1 + LengthDigits BY <1>2, CodecAssumption DEF Prefix
  <2>4. z + P < U32 BY <1>1, <2>1, <2>2, <2>3
  <2> QED BY <1>2, <2>1, <2>4
<1>8. Framed(z) = g
  <2>1. z + P = 0 * u + (z + P) /\ z + P \in Nat OBVIOUS
  <2>2. (z + P) % u = z + P BY <1>7, <2>1, DivisionUnique
  <2>3. z + P = g BY <1>6
  <2> QED BY <1>2, <1>7, <2>2, <2>3 DEF Framed
<1>9. CASE r < P
  <2>1. state = <<>> BY <1>2, <1>3, <1>9 DEF LengthRead
  <2>2. MessagePackDecode = Incomplete(Prefix, <<>>) BY <1>2, <1>3, <1>9, <2>1 DEF MessagePackDecode
  <2>3. \E n \in Nat : Len(received) < n /\ MessagePackDecode = Incomplete(n, <<>>) BY <1>2, <1>3, <1>9, <2>2
  <2>4. ~(r >= g) BY <1>6, <1>9
  <2> QED BY <1>3, <1>6, <2>3, <2>4
<1>10. CASE ~(r < P)
  <2>1. ASSUME NEW i \in 1 .. P PROVE received[i] = WriteU32(z)[i]
    <3>1. i \in 1 .. Len(Frame(m)) /\ i <= Len(received) BY <1>3, <1>6, <1>10
    <3>2. received[i] = Frame(m)[i] BY <3>1 DEF At, Agrees
    <3>3. Frame(m)[i] = WriteU32(z)[i] BY <1>4, <1>5, Framings DEF At
    <3> QED BY <3>2, <3>3
  <2>2. received[1].kind = "tag"
    <3>1. WriteU32(z)[1].kind = "tag" BY U32s
    <3>2. 1 \in 1 .. P BY <1>2
    <3> QED BY <2>1, <3>1, <3>2
  <2>3. ReadU32(received) = z
    <3>1. ASSUME NEW i \in 1 .. LengthDigits PROVE received[i + 1].of = (z \div Power[LengthDigits - i]) % Base
      <4>1. LengthDigits \in Nat /\ P = 1 + LengthDigits BY <1>2, CodecAssumption DEF Prefix
      <4>2. i + 1 \in 1 .. P BY <4>1
      <4>3. WriteU32(z)[i + 1].of = (z \div Power[LengthDigits - i]) % Base BY U32s
      <4> QED BY <2>1, <4>2, <4>3
    <3>2. z < U32 BY <1>7
    <3> QED BY <3>1, <3>2, U32Reads
  <2>4. (IF state = <<>> THEN ReadU32(received) ELSE state[1]) = z BY <1>1, <2>3 DEF LengthRead
  <2>5. PICK s : s = SubSeq(received, Prefix + 1, Len(received)) OBVIOUS
  <2>6. ~(Len(received) < Prefix) BY <1>2, <1>3, <1>10
  <2>7. MessagePackDecode = IF r < g THEN Incomplete(g, <<z>>)
                            ELSE Read({x \in Known : IsPrefix(Body(x), s)}, Prefix, <<>>)
    BY <1>3, <1>8, <2>2, <2>4, <2>5, <2>6 DEF MessagePackDecode
  <2>8. CASE r < g
    <3>1. MessagePackDecode = Incomplete(g, <<z>>) BY <2>7, <2>8
    <3>2. ~(r >= g) /\ r >= P BY <1>10, <2>8
    <3>3. \E n \in Nat : /\ Len(received) < n /\ Len(received) >= Prefix
                         /\ MessagePackDecode = Incomplete(n, <<BodySize(m)>>)
      BY <1>1, <1>2, <1>3, <2>8, <3>1, <3>2
    <3> QED BY <1>3, <1>6, <3>2, <3>3
  <2>9. CASE ~(r < g)
    <3>1. PICK l \in Nat : l = r - P /\ z <= l
      <4>1. r - P \in Nat /\ z <= r - P BY <1>6, <2>9
      <4> QED BY <4>1
    <3>2. s \in Seq(WireByte) /\ Len(s) = l /\ \A i \in 1 .. l : s[i] = received[P + i]
      <4>1. P + l = r BY <3>1
      <4>2. P + l <= Len(received) BY <1>3, <4>1
      <4>3. s = SubSeq(received, P + 1, P + l) BY <1>2, <1>3, <2>5, <4>1
      <4>4. received \in Seq(WireByte) BY DEF At
      <4>5. PICK rc \in Seq(WireByte) : rc = received BY <4>4
      <4>6. P + l <= Len(rc) /\ s = SubSeq(rc, P + 1, P + l) BY <4>2, <4>3, <4>5
      <4>7. s \in Seq(WireByte) /\ Len(s) = l /\ \A i \in 1 .. l : s[i] = rc[P + i] BY <4>6, Part
      <4> QED BY <4>5, <4>7
    <3>3. ASSUME NEW i \in 1 .. z PROVE s[i] = Byte("body", m, i)
      <4>1. i \in 1 .. l /\ P + i \in 1 .. g /\ P + i <= r BY <1>6, <2>9, <3>1
      <4>2. received[P + i] = Frame(m)[P + i] BY <1>3, <1>6, <4>1 DEF At, Agrees
      <4>3. Frame(m)[P + i] = Byte("body", m, i) BY <1>1, <1>5, Framings DEF At
      <4> QED BY <3>2, <4>1, <4>2, <4>3
    <3>4. ASSUME NEW x \in Known PROVE IsPrefix(Body(x), s) <=> x = m
      <4>1. x \in Messages BY CodecAssumption
      <4>2. PICK h : h = Body(x) OBVIOUS
      <4>3. PICK y \in Nat : y = BodySize(x) /\ y > 0 BY <4>1, CodecAssumption DEF BodySize
      <4>4. h \in Seq(WireByte) /\ Len(h) = y /\ \A i \in 1 .. y : h[i] = Byte("body", x, i)
        BY <4>1, <4>2, <4>3, Bodies
      <4>5. PICK hs : hs = SubSeq(h, 1, y) OBVIOUS
      <4>6. PICK ss : ss = SubSeq(s, 1, y) OBVIOUS
      <4>7. 0 + 1 = 1 /\ 0 + y = y OBVIOUS
      <4>8. hs \in Seq(WireByte) /\ Len(hs) = y /\ \A i \in 1 .. y : hs[i] = h[i]
        <5>1. hs = SubSeq(h, 0 + 1, 0 + y) /\ 0 + y <= Len(h) BY <4>4, <4>5, <4>7
        <5>2. hs \in Seq(WireByte) /\ Len(hs) = y /\ \A i \in 1 .. y : hs[i] = h[0 + i] BY <4>4, <5>1, Part
        <5>3. \A i \in 1 .. y : 0 + i = i OBVIOUS
        <5> QED BY <5>2, <5>3
      <4>9. y <= l => ss \in Seq(WireByte) /\ Len(ss) = y /\ \A i \in 1 .. y : ss[i] = s[i]
        <5>1. SUFFICES ASSUME y <= l PROVE ss \in Seq(WireByte) /\ Len(ss) = y /\ \A i \in 1 .. y : ss[i] = s[i]
          OBVIOUS
        <5>2. ss = SubSeq(s, 0 + 1, 0 + y) /\ 0 + y <= Len(s) BY <3>2, <4>6, <4>7, <5>1
        <5>3. ss \in Seq(WireByte) /\ Len(ss) = y /\ \A i \in 1 .. y : ss[i] = s[0 + i] BY <3>2, <5>2, Part
        <5>4. \A i \in 1 .. y : 0 + i = i OBVIOUS
        <5> QED BY <5>3, <5>4
      <4>10. IsPrefix(h, s) <=> y <= l /\ hs = ss BY <3>2, <4>4, <4>5, <4>6 DEF IsPrefix
      <4>11. ASSUME y <= l, hs = ss PROVE x = m
        <5>1. 1 \in 1 .. y /\ 1 \in 1 .. z BY <1>1, <4>3
        <5>2. h[1] = s[1] BY <4>8, <4>9, <4>11, <5>1
        <5>3. h[1] = Byte("body", m, 1) BY <3>3, <5>1, <5>2
        <5> QED BY <4>1, <4>2, <5>3, SameBody
      <4>12. ASSUME x = m PROVE y <= l /\ hs = ss
        <5>1. y = z BY <1>1, <4>3, <4>12
        <5>2. y <= l BY <3>1, <5>1
        <5>3. \A i \in 1 .. y : hs[i] = ss[i] BY <3>3, <4>4, <4>8, <4>9, <4>12, <5>1, <5>2
        <5>4. hs = ss BY <4>8, <4>9, <5>2, <5>3, SeqEqual
        <5> QED BY <5>2, <5>4
      <4> QED BY <4>2, <4>10, <4>11, <4>12
    <3>5. MessagePackDecode = Read({x \in Known : x = m}, Prefix, <<>>)
      <4>1. {x \in Known : IsPrefix(Body(x), s)} = {x \in Known : x = m} BY <3>4
      <4> QED BY <2>7, <2>9, <4>1
    <3>6. Prefix + BodySize(m) = g BY <1>1, <1>2, <1>6
    <3>7. /\ m \in Known => MessagePackDecode = Outcome("message", g, <<m>>, <<>>)
          /\ m \notin Known => MessagePackDecode = Outcome("invalid", 0, <<>>, <<>>)
      BY <3>5, <3>6, ReadOne
    <3> QED BY <1>3, <1>6, <2>9, <3>7
  <2> QED BY <2>8, <2>9
<1> QED BY <1>9, <1>10

(* decode, of either codec, at the frame of m. *)
LEMMA Decodes ==
    ASSUME NEW m \in Messages, At(m), codec = "prost" => state = <<>>, LengthRead(m),
           NEW o, o = IF codec = "prost" THEN ProstDecode ELSE MessagePackDecode
    PROVE  /\ o.is = "message" => /\ m \in Known /\ o.size = Len(Frame(m)) /\ Len(Frame(m)) <= Len(received)
                                  /\ o.message = <<m>> /\ o.next = <<>>
           /\ o.is = "incomplete" => /\ o.size \in Nat /\ Len(received) < o.size /\ o.message = <<>>
                                     /\ \/ o.next = <<>>
                                        \/ codec # "prost" /\ o.next = <<BodySize(m)>> /\ Len(received) >= Prefix
           /\ o.is = "invalid" => m \notin Known /\ o.message = <<>> /\ o.next = <<>>
<1>1. PICK r \in Nat : r = Len(received) BY LenProperties DEF At
<1>2. PICK g \in Nat : g = Len(Frame(m)) BY Framings, LenProperties DEF At
<1>3. CASE r < g
  <2>1. \E n \in Nat : /\ r < n
                       /\ \/ o = Incomplete(n, <<>>)
                          \/ codec # "prost" /\ o = Incomplete(n, <<BodySize(m)>>) /\ Len(received) >= Prefix
    <3>1. CASE codec = "prost" BY <1>1, <1>2, <1>3, <3>1, ProstDecodes
    <3>2. CASE codec # "prost" BY <1>1, <1>2, <1>3, <3>2, MessagePackDecodes
    <3> QED BY <3>1, <3>2
  <2>2. PICK n \in Nat : /\ r < n
                         /\ \/ o = Incomplete(n, <<>>)
                            \/ codec # "prost" /\ o = Incomplete(n, <<BodySize(m)>>) /\ Len(received) >= Prefix
    BY <2>1
  <2>3. o.is = "incomplete" /\ o.size = n /\ o.message = <<>> BY <2>2 DEF Incomplete, Outcome
  <2>4. o.next = <<>> \/ (codec # "prost" /\ o.next = <<BodySize(m)>> /\ Len(received) >= Prefix)
    BY <2>2 DEF Incomplete, Outcome
  <2> QED BY <1>1, <2>2, <2>3, <2>4
<1>4. CASE ~(r < g)
  <2>1. r >= g BY <1>4
  <2>2. /\ m \in Known => o = Outcome("message", g, <<m>>, <<>>)
        /\ m \notin Known => o = Outcome("invalid", 0, <<>>, <<>>)
    <3>1. CASE codec = "prost" BY <1>1, <1>2, <2>1, <3>1, ProstDecodes
    <3>2. CASE codec # "prost" BY <1>1, <1>2, <2>1, <3>2, MessagePackDecodes
    <3> QED BY <3>1, <3>2
  <2>3. CASE m \in Known
    <3>1. o.is = "message" /\ o.size = g /\ o.message = <<m>> /\ o.next = <<>> BY <2>2, <2>3 DEF Outcome
    <3> QED BY <1>1, <1>2, <2>1, <2>3, <3>1
  <2>4. CASE m \notin Known
    <3>1. o.is = "invalid" /\ o.message = <<>> /\ o.next = <<>> BY <2>2, <2>4 DEF Outcome
    <3> QED BY <2>4, <3>1
  <2> QED BY <2>3, <2>4
<1> QED BY <1>3, <1>4

-----------------------------------------------------------------------------
(* The inductive invariant. *)

Frames == [m \in Messages |-> Frame(m)]

(* Messages that are written; bytes that are, of the next one. *)
Written == Len(sent) - Len(send_buffer)
Cut == IF send_buffer = <<>> THEN 0 ELSE send_buffer[1].cursor

Types ==
    /\ codec \in Codecs /\ pooled \in BOOLEAN
    /\ buffer_pool \in Seq({<<>>}) /\ send_buffer \in Seq([inner : Seq(WireByte), cursor : Nat])
    /\ sent \in Seq(Messages) /\ decoded \in Seq(Messages) /\ received \in Seq(WireByte)
    /\ asked \in Nat /\ failed \in BOOLEAN

(* The queue has the frames of the last messages, of which only the front one is cut. *)
Queue ==
    /\ Len(send_buffer) <= Len(sent)
    /\ \A i \in 1 .. Len(send_buffer) :
          /\ send_buffer[i].inner = Frames[sent[Written + i]]
          /\ i # 1 => send_buffer[i].cursor = 0
          /\ send_buffer[i].cursor < Len(send_buffer[i].inner)

Stream == \E off : InStream(Frames, sent, Written, Cut, received, Len(decoded), off)

(* The decoder keeps nothing, or the length of the message it is at. *)
Decoder ==
    /\ codec = "prost" => state = <<>>
    /\ state # <<>> => /\ Len(decoded) < Len(sent) /\ state = <<BodySize(sent[Len(decoded) + 1])>>
                       /\ Len(received) >= Prefix

History ==
    /\ Len(decoded) <= Len(sent) /\ \A i \in 1 .. Len(decoded) : decoded[i] = sent[i]
    /\ failed => Len(decoded) < Len(sent) /\ sent[Len(decoded) + 1] \notin Known

(* Of the encoder's own stream. *)
OwnInv == Types /\ Queue /\ Stream /\ Decoder /\ History /\ NeverUndercounts

(* Of the bytes of a foreign peer. *)
ForeignInv ==
    /\ codec \in Codecs /\ send_buffer = <<>> /\ received \in Seq(ForeignByte)
    /\ AsksForMore

CodecInv ==
    /\ peer \in {"own", "foreign"}
    /\ peer = "own" => OwnInv
    /\ peer = "foreign" => ForeignInv

(* The frames, as one function. *)
LEMMA FramesAre ==
    ASSUME codec \in Codecs
    PROVE  /\ Frames \in [Messages -> Seq(WireByte)]
           /\ \A m \in Messages : Frames[m] = Frame(m) /\ Len(Frames[m]) \in Nat /\ Len(Frames[m]) > 0
<1>1. ASSUME NEW m \in Messages
      PROVE  Frame(m) \in Seq(WireByte) /\ Len(Frame(m)) \in Nat /\ Len(Frame(m)) > 0
  <2>1. PICK l \in Nat : l = Len(Lead(m)) /\ l > 0 BY Framings
  <2>2. PICK z \in Nat : z = BodySize(m) BY Bodies
  <2>3. Len(Frame(m)) = l + z BY <2>1, <2>2, Framings
  <2>4. Frame(m) \in Seq(WireByte) BY Framings
  <2> QED BY <2>1, <2>2, <2>3, <2>4
<1>2. Frames \in [Messages -> Seq(WireByte)] BY <1>1 DEF Frames
<1>3. \A m \in Messages : Frames[m] = Frame(m) BY DEF Frames
<1> QED BY <1>1, <1>2, <1>3

(* They depend on the codec only. *)
LEMMA FramesStay ==
    ASSUME codec' = codec
    PROVE  Frames' = Frames /\ \A m \in Messages : BodySize(m)' = BodySize(m)
BY DEF Frames, Frame, Serialize, ProstSerialize, MessagePackSerialize, Body, BodySize

(* The next state's stream. *)
LEMMA StreamNext ==
    ASSUME NEW off, InStream(Frames', sent', Written', Cut', received', Len(decoded'), off)
    PROVE  Stream'
BY DEF Stream

(* The invariant in numbers and sequences: what the stream's lemmas ask for. *)
LEMMA Holds ==
    ASSUME OwnInv
    PROVE  /\ Frames \in [Messages -> Seq(WireByte)]
           /\ Len(sent) \in Nat /\ Len(send_buffer) \in Nat /\ Len(decoded) \in Nat /\ Len(received) \in Nat
           /\ Written \in Nat /\ Cut \in Nat /\ Written + Len(send_buffer) = Len(sent)
           /\ \A i \in 1 .. Len(send_buffer) :
                 send_buffer[i].inner \in Seq(WireByte) /\ send_buffer[i].cursor \in Nat
<1>1. Frames \in [Messages -> Seq(WireByte)] BY FramesAre DEF OwnInv, Types
<1>2. Len(sent) \in Nat /\ Len(send_buffer) \in Nat /\ Len(decoded) \in Nat /\ Len(received) \in Nat
  BY LenProperties DEF OwnInv, Types
<1>3. ASSUME NEW i \in 1 .. Len(send_buffer)
      PROVE  send_buffer[i].inner \in Seq(WireByte) /\ send_buffer[i].cursor \in Nat
  <2>1. send_buffer[i] \in [inner : Seq(WireByte), cursor : Nat] BY ElementOfSeq DEF OwnInv, Types
  <2> QED BY <2>1
<1>4. Written \in Nat /\ Written + Len(send_buffer) = Len(sent) BY <1>2 DEF OwnInv, Queue, Written
<1>5. Cut \in Nat
  <2>1. CASE send_buffer = <<>> BY <2>1 DEF Cut
  <2>2. CASE send_buffer # <<>>
    <3>1. Len(send_buffer) # 0 BY <2>2, EmptySeq DEF OwnInv, Types
    <3>2. 1 \in 1 .. Len(send_buffer) BY <1>2, <3>1
    <3> QED BY <1>3, <2>2, <3>2 DEF Cut
  <2> QED BY <2>1, <2>2
<1> QED BY <1>1, <1>2, <1>3, <1>4, <1>5

(* Nothing is sent at first. *)
LEMMA InitHolds == Init => OwnInv
<1> SUFFICES ASSUME Init PROVE OwnInv OBVIOUS
<1>1. /\ codec \in Codecs /\ pooled \in BOOLEAN /\ buffer_pool = <<>> /\ sent = <<>> /\ send_buffer = <<>>
      /\ received = <<>> /\ state = <<>> /\ asked = 0 /\ decoded = <<>> /\ failed = FALSE
  BY DEF Init
<1>2. Len(sent) = 0 /\ Len(send_buffer) = 0 /\ Len(decoded) = 0 /\ Len(received) = 0 BY <1>1, EmptySeq
<1>3. Types
  <2>1. asked \in Nat /\ failed \in BOOLEAN BY <1>1
  <2> QED BY <1>1, <2>1, EmptySeq DEF Types
<1>4. Queue BY <1>2 DEF Queue
<1>5. Stream
  <2>1. PICK F : F = Frames OBVIOUS
  <2>2. PICK off : off = [i \in 0 .. 0 |-> 0] OBVIOUS
  <2>3. Written = 0 /\ Cut = 0 BY <1>1, <1>2 DEF Written, Cut
  <2>4. Ends(F, sent, off) BY <1>2, <2>2 DEF Ends
  <2>5. Cuts(F, sent, 0, 0, 0) BY <1>2 DEF Cuts
  <2>6. Arrived(F, sent, received, 0, off) BY <1>2 DEF Arrived
  <2>7. Len(received) = (off[0] + 0) - off[0] BY <1>2, <2>2
  <2>8. InStream(F, sent, 0, 0, received, 0, off) BY <2>4, <2>5, <2>6, <2>7 DEF InStream
  <2> QED BY <1>2, <2>1, <2>3, <2>8 DEF Stream
<1>6. Decoder BY <1>1 DEF Decoder
<1>7. History BY <1>1, <1>2 DEF History
<1>8. NeverUndercounts BY <1>1 DEF NeverUndercounts
<1> QED BY <1>3, <1>4, <1>5, <1>6, <1>7, <1>8 DEF OwnInv

(* encode: every buffer of the pool is empty, so that a frame is written as in a new one. *)
LEMMA EncodeHolds ==
    ASSUME OwnInv, NEW m \in Messages, Encode(m)
    PROVE  OwnInv'
<1>1. /\ codec' = codec /\ pooled' = pooled /\ received' = received /\ state' = state /\ asked' = asked
      /\ decoded' = decoded /\ failed' = failed /\ sent' = Append(sent, m)
  BY DEF Encode
<1>2. Types /\ Queue /\ Stream /\ Decoder /\ History /\ NeverUndercounts BY DEF OwnInv
<1>3. Frames' = Frames /\ \A x \in Messages : BodySize(x)' = BodySize(x) BY <1>1, FramesStay
<1>4. PICK F \in [Messages -> Seq(WireByte)] : F = Frames BY Holds
<1>5. PICK n \in Nat, k \in Nat, w \in Nat, c \in Nat :
         n = Len(sent) /\ k = Len(send_buffer) /\ w = Written /\ w + k = n /\ c = Cut
  BY Holds
<1>6. PICK b : b = [inner |-> F[m], cursor |-> 0] OBVIOUS
<1>7. send_buffer' = Append(send_buffer, b) /\ buffer_pool' \in Seq({<<>>})
  <2>1. CASE buffer_pool = <<>>
    <3>1. send_buffer' = Append(send_buffer, [inner |-> Serialize(m, <<>>), cursor |-> 0]) BY <2>1 DEF Encode
    <3>2. Serialize(m, <<>>) = F[m] BY <1>4 DEF Frames, Frame
    <3>3. buffer_pool' = <<>> BY <2>1 DEF Encode
    <3> QED BY <1>6, <3>1, <3>2, <3>3, EmptySeq
  <2>2. CASE buffer_pool # <<>>
    <3>1. PICK l \in Nat : l = Len(buffer_pool) BY <1>2, LenProperties DEF Types
    <3>2. l # 0 BY <1>2, <2>2, <3>1, EmptySeq DEF Types
    <3>3. l \in 1 .. Len(buffer_pool) BY <3>1, <3>2
    <3>4. Last(buffer_pool) = <<>>
      <4>1. buffer_pool[l] \in {<<>>} BY <1>2, <3>3, ElementOfSeq DEF Types
      <4> QED BY <3>1, <4>1 DEF Last
    <3>5. send_buffer' = Append(send_buffer, [inner |-> Serialize(m, <<>>), cursor |-> 0])
      BY <2>2, <3>4 DEF Encode
    <3>6. Serialize(m, <<>>) = F[m] BY <1>4 DEF Frames, Frame
    <3>7. buffer_pool' = SubSeq(buffer_pool, 1, l - 1) BY <2>2, <3>1 DEF Encode, Front
    <3>8. PICK pl \in Seq({<<>>}) : pl = buffer_pool BY <1>2 DEF Types
    <3>9. l - 1 \in Nat /\ 0 + 1 = 1 /\ 0 + (l - 1) = l - 1 /\ 0 + (l - 1) <= Len(pl) BY <3>1, <3>2, <3>8
    <3>10. SubSeq(pl, 0 + 1, 0 + (l - 1)) \in Seq({<<>>}) BY <3>9, Part
    <3> QED BY <1>6, <3>5, <3>6, <3>7, <3>8, <3>9, <3>10
  <2> QED BY <2>1, <2>2
<1>8. PICK t : t = sent' OBVIOUS
<1>9. t \in Seq(Messages) /\ Len(t) = n + 1 /\ t[n + 1] = m /\ \A i \in 1 .. n : t[i] = sent[i]
  BY <1>1, <1>2, <1>5, <1>8, AppendProperties DEF Types
<1>10. b \in [inner : Seq(WireByte), cursor : Nat] /\ b.inner = F[m] /\ b.cursor = 0 BY <1>6
<1>11. PICK v : v = send_buffer' OBVIOUS
<1>12. /\ v \in Seq([inner : Seq(WireByte), cursor : Nat]) /\ Len(v) = k + 1 /\ v[k + 1] = b
       /\ \A i \in 1 .. k : v[i] = send_buffer[i]
  BY <1>2, <1>5, <1>7, <1>10, <1>11, AppendProperties DEF Types
<1>13. Types' BY <1>1, <1>2, <1>7, <1>8, <1>9, <1>11, <1>12 DEF Types
<1>14. Written' = w BY <1>5, <1>8, <1>9, <1>11, <1>12 DEF Written
<1>15. Queue'
  <2>1. k + 1 <= n + 1 BY <1>5
  <2>2. ASSUME NEW i \in 1 .. k + 1
        PROVE  v[i].inner = F[t[w + i]] /\ (i # 1 => v[i].cursor = 0) /\ v[i].cursor < Len(v[i].inner)
    <3>1. CASE i = k + 1
      <4>1. w + i = n + 1
        <5>1. w + k = n BY <1>5
        <5> QED BY <3>1, <5>1
      <4>2. v[i] = b /\ t[w + i] = m BY <1>9, <1>12, <3>1, <4>1
      <4>3. Len(F[m]) > 0 BY <1>2, <1>4, FramesAre DEF Types
      <4> QED BY <1>10, <4>2, <4>3
    <3>2. CASE i # k + 1
      <4>1. i \in 1 .. k /\ w + i \in 1 .. n BY <1>5, <3>2
      <4>2. v[i] = send_buffer[i] /\ t[w + i] = sent[w + i] BY <1>9, <1>12, <4>1
      <4>3. /\ send_buffer[i].inner = F[sent[w + i]] /\ (i # 1 => send_buffer[i].cursor = 0)
            /\ send_buffer[i].cursor < Len(send_buffer[i].inner)
        BY <1>2, <1>4, <1>5, <4>1 DEF Queue
      <4> QED BY <4>2, <4>3
    <3> QED BY <3>1, <3>2
  <2> QED BY <1>3, <1>4, <1>8, <1>9, <1>11, <1>12, <1>14, <2>1, <2>2 DEF Queue
<1>16. Cut' = c
  <2>1. v # <<>> BY <1>12, EmptySeq
  <2>2. Cut' = v[1].cursor BY <1>11, <2>1 DEF Cut
  <2>3. CASE send_buffer = <<>>
    <3>1. k = 0 /\ c = 0 BY <1>5, <2>3, EmptySeq DEF Cut
    <3> QED BY <1>10, <1>12, <2>2, <3>1
  <2>4. CASE send_buffer # <<>>
    <3>1. k # 0 BY <1>2, <1>5, <2>4, EmptySeq DEF Types
    <3>2. 1 \in 1 .. k BY <3>1
    <3>3. v[1] = send_buffer[1] BY <1>12, <3>2
    <3> QED BY <1>5, <2>2, <2>4, <3>3 DEF Cut
  <2> QED BY <2>3, <2>4
<1>17. Stream'
  <2>1. PICK off : InStream(F, sent, w, c, received, Len(decoded), off) BY <1>2, <1>4, <1>5 DEF Stream
  <2>2. PICK s \in Seq(Messages), rc \in Seq(WireByte), d \in Nat : s = sent /\ rc = received /\ d = Len(decoded)
    BY <1>2, Holds DEF Types
  <2>3. InStream(F, s, w, c, rc, d, off) BY <2>1, <2>2
  <2>4. PICK o : InStream(F, Append(s, m), w, c, rc, d, o) BY <2>3, StreamEncode
  <2>5. InStream(Frames', sent', Written', Cut', received', Len(decoded'), o)
    BY <1>1, <1>3, <1>4, <1>14, <1>16, <2>2, <2>4
  <2> QED BY <2>5, StreamNext
<1>18. PICK d \in Nat : d = Len(decoded) BY Holds
<1>19. d <= n /\ n + 1 = Len(sent') BY <1>2, <1>5, <1>8, <1>9, <1>18 DEF History
<1>20. d < n => d < n + 1 /\ d + 1 \in 1 .. n /\ sent'[d + 1] = sent[d + 1] /\ sent[d + 1] \in Messages
  <2>1. d < n => d < n + 1 /\ d + 1 \in 1 .. n OBVIOUS
  <2> QED BY <1>2, <1>5, <1>8, <1>9, <2>1, ElementOfSeq DEF Types
<1>21. Decoder'
  <2>1. codec' = "prost" => state' = <<>> BY <1>1, <1>2 DEF Decoder
  <2>2. ASSUME state # <<>>
        PROVE  /\ d < n + 1 /\ Len(received) >= Prefix
               /\ state = <<IF codec' = "prost" THEN sent'[d + 1] ELSE sent'[d + 1] + 1>>
    <3>1. d < n /\ state = <<BodySize(sent[d + 1])>> /\ Len(received) >= Prefix BY <1>2, <1>5, <1>18, <2>2 DEF Decoder
    <3>2. state = <<IF codec' = "prost" THEN sent'[d + 1] ELSE sent'[d + 1] + 1>>
      BY <1>1, <1>20, <3>1 DEF BodySize
    <3> QED BY <1>20, <3>1, <3>2
  <2> QED BY <1>1, <1>18, <1>19, <2>1, <2>2 DEF Decoder, BodySize
<1>22. History'
  <2>1. \A i \in 1 .. d : decoded[i] = sent'[i]
    <3> TAKE i \in 1 .. d
    <3>1. i \in 1 .. n BY <1>19
    <3> QED BY <1>2, <1>8, <1>9, <1>18, <3>1 DEF History
  <2>2. failed => d < n + 1 /\ sent'[d + 1] \notin Known BY <1>2, <1>5, <1>18, <1>20 DEF History
  <2>3. d <= n + 1 BY <1>19
  <2> QED BY <1>1, <1>18, <1>19, <2>1, <2>2, <2>3 DEF History
<1>23. NeverUndercounts' BY <1>1, <1>2 DEF NeverUndercounts
<1> QED BY <1>13, <1>15, <1>17, <1>21, <1>22, <1>23 DEF OwnInv

(* A write: the bytes that arrive are the next of the stream, and a buffer goes back empty. *)
LEMMA WriteHolds ==
    ASSUME OwnInv, send_buffer # <<>>, NEW n \in 1 .. Remaining(Head(send_buffer)), Write(n)
    PROVE  OwnInv'
<1>1. /\ codec' = codec /\ pooled' = pooled /\ sent' = sent /\ state' = state /\ asked' = 0
      /\ decoded' = decoded /\ failed' = failed
  BY DEF Write
<1>2. Types /\ Queue /\ Stream /\ Decoder /\ History BY DEF OwnInv
<1>3. Frames' = Frames /\ \A x \in Messages : BodySize(x)' = BodySize(x) BY <1>1, FramesStay
<1>4. PICK F \in [Messages -> Seq(WireByte)] : F = Frames BY Holds
<1>5. PICK N \in Nat, k \in Nat, w \in Nat, c \in Nat :
         N = Len(sent) /\ k = Len(send_buffer) /\ w = Written /\ w + k = N /\ c = Cut
  BY Holds
<1>6. PICK v \in Seq([inner : Seq(WireByte), cursor : Nat]) : v = send_buffer BY <1>2 DEF Types
<1>7. k = Len(v) /\ k > 0 /\ 1 \in 1 .. k
  <2>1. k # 0 BY <1>5, <1>6, EmptySeq
  <2> QED BY <1>5, <1>6, <2>1
<1>8. Head(send_buffer) = v[1] /\ c = v[1].cursor BY <1>5, <1>6 DEF Cut
<1>9. \A i \in 1 .. k : /\ v[i].inner = F[sent[w + i]] /\ (i # 1 => v[i].cursor = 0)
                        /\ v[i].cursor < Len(v[i].inner)
  BY <1>2, <1>4, <1>5, <1>6 DEF Queue
<1>10. v[1].inner = F[sent[w + 1]] /\ w < N /\ w + 1 \in 1 .. N
  <2>1. w + k = N BY <1>5
  <2>2. w < N /\ w + 1 \in 1 .. N BY <1>7, <2>1
  <2> QED BY <1>7, <1>9, <2>2
<1>11. sent[w + 1] \in Messages /\ F[sent[w + 1]] \in Seq(WireByte)
  <2>1. sent[w + 1] \in Messages BY <1>2, <1>5, <1>10, ElementOfSeq DEF Types
  <2> QED BY <2>1
<1>12. PICK l \in Nat : l = Len(F[sent[w + 1]]) BY <1>11, LenProperties
<1>13. Remaining(Head(send_buffer)) = l - c /\ c < l
  <2>1. v[1].cursor < Len(v[1].inner) BY <1>7, <1>9
  <2> QED BY <1>8, <1>10, <1>12, <2>1 DEF Remaining
<1>14. PICK j \in Nat : j = n /\ j > 0 /\ c + j <= l
  <2>1. n \in 1 .. l - c BY <1>13
  <2>2. n \in Nat /\ n > 0 /\ c + n <= l BY <1>13, <2>1
  <2> QED BY <2>2
<1>15. PICK x : x = received' OBVIOUS
<1>16. x = received \o SubSeq(F[sent[w + 1]], c + 1, c + j) BY <1>8, <1>10, <1>14, <1>15 DEF Write
<1>17. PICK off : InStream(F, sent, w, c, received, Len(decoded), off) BY <1>2, <1>4, <1>5 DEF Stream
<1>18. PICK d \in Nat : d = Len(decoded) BY Holds
<1>19. /\ x \in Seq(WireByte)
       /\ c + j < l => InStream(F, sent, w, c + j, x, d, off)
       /\ c + j = l => InStream(F, sent, w + 1, 0, x, d, off)
  <2>1. PICK s \in Seq(Messages), rc \in Seq(WireByte) : s = sent /\ rc = received BY <1>2 DEF Types
  <2>2. InStream(F, s, w, c, rc, d, off) /\ w < Len(s) /\ l = Len(F[s[w + 1]]) /\ x = rc \o SubSeq(F[s[w + 1]], c + 1, c + j)
    BY <1>5, <1>10, <1>12, <1>16, <1>17, <1>18, <2>1
  <2>3. /\ x \in Seq(WireByte)
        /\ c + j < l => InStream(F, s, w, c + j, x, d, off)
        /\ c + j = l => InStream(F, s, w + 1, 0, x, d, off)
    BY <1>14, <2>2, StreamWrite
  <2> QED BY <2>1, <2>3
<1>20. PICK y : y = send_buffer' OBVIOUS
<1>21. ASSUME c + j = l PROVE Types' /\ Queue' /\ Stream'
  <2>1. Remaining(Head(send_buffer)) <= n BY <1>13, <1>14, <1>21
  <2>2. y = Tail(v) /\ buffer_pool' = Returned(Head(send_buffer)) BY <1>6, <1>20, <2>1 DEF Write
  <2>3. PICK h \in Nat : h = k - 1 /\ h + 1 = k
    <3>1. k - 1 \in Nat /\ (k - 1) + 1 = k BY <1>7
    <3> QED BY <3>1
  <2>4. /\ y \in Seq([inner : Seq(WireByte), cursor : Nat]) /\ Len(y) = h /\ \A i \in 1 .. h : y[i] = v[i + 1]
    <3>1. v # <<>> BY <1>6
    <3>2. Tail(v) \in Seq([inner : Seq(WireByte), cursor : Nat]) /\ Len(Tail(v)) = Len(v) - 1
      BY <3>1, HeadTailProperties
    <3>3. \A i \in 1 .. Len(Tail(v)) : Tail(v)[i] = v[i + 1] BY <3>1, HeadTailProperties
    <3> QED BY <1>7, <2>2, <2>3, <3>2, <3>3
  <2>5. buffer_pool' \in Seq({<<>>})
    <3>1. CASE pooled /\ PoolHasRoom
      <4>1. buffer_pool' = Append(buffer_pool, <<>>) BY <2>2, <3>1 DEF Returned, Reset
      <4>2. <<>> \in {<<>>} OBVIOUS
      <4> QED BY <1>2, <4>1, <4>2, AppendProperties DEF Types
    <3>2. CASE ~(pooled /\ PoolHasRoom) BY <1>2, <2>2, <3>2 DEF Returned, Types
    <3> QED BY <3>1, <3>2
  <2>6. Types'
    <3>1. asked' \in Nat BY <1>1
    <3> QED BY <1>1, <1>2, <1>15, <1>19, <1>20, <2>4, <2>5, <3>1 DEF Types
  <2>7. Written' = w + 1
    <3>1. N - h = w + 1
      <4>1. w + k = N BY <1>5
      <4> QED BY <2>3, <4>1
    <3> QED BY <1>1, <1>5, <1>20, <2>4, <3>1 DEF Written
  <2>8. Cut' = 0
    <3>1. CASE y = <<>> BY <1>20, <3>1 DEF Cut
    <3>2. CASE y # <<>>
      <4>1. h # 0 BY <2>4, <3>2, EmptySeq
      <4>2. 1 \in 1 .. h /\ 1 + 1 \in 1 .. k /\ 1 + 1 # 1 BY <2>3, <4>1
      <4>3. y[1] = v[1 + 1] /\ v[1 + 1].cursor = 0 BY <1>9, <2>4, <4>2
      <4> QED BY <1>20, <3>2, <4>3 DEF Cut
    <3> QED BY <3>1, <3>2
  <2>9. Queue'
    <3>1. h <= N
      <4>1. w + k = N BY <1>5
      <4> QED BY <2>3, <4>1
    <3>2. ASSUME NEW i \in 1 .. h
          PROVE  y[i].inner = F[sent[(w + 1) + i]] /\ y[i].cursor = 0 /\ y[i].cursor < Len(y[i].inner)
      <4>1. i + 1 \in 1 .. k /\ i + 1 # 1 /\ w + (i + 1) = (w + 1) + i BY <2>3
      <4>2. y[i] = v[i + 1] BY <2>4
      <4>3. v[i + 1].inner = F[sent[w + (i + 1)]] /\ v[i + 1].cursor = 0 /\ v[i + 1].cursor < Len(v[i + 1].inner)
        BY <1>9, <4>1
      <4> QED BY <4>1, <4>2, <4>3
    <3> QED BY <1>1, <1>3, <1>4, <1>5, <1>20, <2>4, <2>7, <3>1, <3>2 DEF Queue
  <2>10. InStream(Frames', sent', Written', Cut', received', Len(decoded'), off)
    BY <1>1, <1>3, <1>4, <1>15, <1>18, <1>19, <1>21, <2>7, <2>8
  <2> QED BY <2>6, <2>9, <2>10, StreamNext
<1>22. ASSUME c + j # l PROVE Types' /\ Queue' /\ Stream'
  <2>1. ~(Remaining(Head(send_buffer)) <= n) /\ c + j < l BY <1>13, <1>14, <1>22
  <2>2. y = [v EXCEPT ![1].cursor = @ + j] /\ buffer_pool' = buffer_pool BY <1>6, <1>14, <1>20, <2>1 DEF Write
  <2>3. PICK b : b = [v[1] EXCEPT !.cursor = c + j] OBVIOUS
  <2>4. v[1] \in [inner : Seq(WireByte), cursor : Nat] BY <1>7, ElementOfSeq
  <2>5. b \in [inner : Seq(WireByte), cursor : Nat] /\ b.inner = v[1].inner /\ b.cursor = c + j
    <3>1. PICK e \in [inner : Seq(WireByte), cursor : Nat] : e = v[1] BY <2>4
    <3>2. PICK p \in Nat : p = c + j OBVIOUS
    <3>3. b = [e EXCEPT !.cursor = p] BY <2>3, <3>1, <3>2
    <3>4. b \in [inner : Seq(WireByte), cursor : Nat] /\ b.inner = e.inner /\ b.cursor = p BY <3>1, <3>3
    <3> QED BY <3>1, <3>2, <3>4
  <2>6. y = [v EXCEPT ![1] = b] BY <1>8, <2>2, <2>3
  <2>7. /\ y \in Seq([inner : Seq(WireByte), cursor : Nat]) /\ Len(y) = k /\ y[1] = b
        /\ \A i \in 1 .. k : i # 1 => y[i] = v[i]
    BY <1>7, <2>5, <2>6, ExceptSeq
  <2>8. Types'
    <3>1. asked' \in Nat BY <1>1
    <3> QED BY <1>1, <1>2, <1>15, <1>19, <1>20, <2>2, <2>7, <3>1 DEF Types
  <2>9. Written' = w BY <1>1, <1>5, <1>20, <2>7 DEF Written
  <2>10. Cut' = c + j
    <3>1. y # <<>> BY <1>7, <2>7, EmptySeq
    <3> QED BY <1>20, <2>5, <2>7, <3>1 DEF Cut
  <2>11. Queue'
    <3>1. ASSUME NEW i \in 1 .. k
          PROVE  y[i].inner = F[sent[w + i]] /\ (i # 1 => y[i].cursor = 0) /\ y[i].cursor < Len(y[i].inner)
      <4>1. CASE i = 1
        <5>1. y[i] = b /\ b.inner = F[sent[w + i]] BY <1>10, <2>5, <2>7, <4>1
        <5>2. b.cursor < Len(b.inner) BY <1>10, <1>12, <2>1, <2>5
        <5> QED BY <4>1, <5>1, <5>2
      <4>2. CASE i # 1 BY <1>9, <2>7, <4>2
      <4> QED BY <4>1, <4>2
    <3>2. k <= N BY <1>5
    <3> QED BY <1>1, <1>3, <1>4, <1>5, <1>20, <2>7, <2>9, <3>1, <3>2 DEF Queue
  <2>12. InStream(Frames', sent', Written', Cut', received', Len(decoded'), off)
    BY <1>1, <1>3, <1>4, <1>15, <1>18, <1>19, <2>1, <2>9, <2>10
  <2> QED BY <2>8, <2>11, <2>12, StreamNext
<1>23. Decoder'
  <2>1. Len(received') >= Len(received)
    <3>1. SubSeq(F[sent[w + 1]], c + 1, c + j) \in Seq(WireByte) BY <1>11, <1>12, <1>14, Part
    <3>2. PICK rc \in Seq(WireByte), z \in Seq(WireByte) : rc = received /\ z = SubSeq(F[sent[w + 1]], c + 1, c + j)
      BY <1>2, <3>1 DEF Types
    <3>3. Len(rc \o z) = Len(rc) + Len(z) /\ Len(rc) \in Nat /\ Len(z) \in Nat BY Joined, LenProperties
    <3> QED BY <1>15, <1>16, <3>2, <3>3
  <2>2. Len(received) \in Nat /\ Len(received') \in Nat /\ Prefix \in Nat
    BY <1>15, <1>19, Holds, LenProperties, CodecAssumption DEF Prefix
  <2>3. Len(received) >= Prefix => Len(received') >= Prefix BY <2>1, <2>2
  <2> QED BY <1>1, <1>2, <2>3 DEF Decoder, BodySize
<1>24. History' BY <1>1, <1>2 DEF History
<1>25. NeverUndercounts' BY <1>1 DEF NeverUndercounts
<1> QED BY <1>21, <1>22, <1>23, <1>24, <1>25 DEF OwnInv

(* Before a call of decode: the message it is at, and what decode returns for it. *)
LEMMA DecodingHolds ==
    ASSUME OwnInv, NEW is, Decoding(is),
           NEW o, o = IF codec = "prost" THEN ProstDecode ELSE MessagePackDecode
    PROVE  \E m \in Messages :
              /\ Len(decoded) + 1 \in 1 .. Len(sent) /\ m = sent[Len(decoded) + 1]
              /\ is = "message" => /\ o.size = Len(Frame(m)) /\ Len(Frame(m)) <= Len(received)
                                   /\ o.message = <<m>> /\ o.next = <<>>
              /\ is = "incomplete" => /\ o.size \in Nat /\ Len(received) < o.size /\ o.message = <<>>
                                      /\ \/ o.next = <<>>
                                         \/ codec # "prost" /\ o.next = <<BodySize(m)>> /\ Len(received) >= Prefix
              /\ is = "invalid" => m \notin Known /\ o.message = <<>> /\ o.next = <<>>
<1>1. Types /\ Stream /\ Decoder /\ o.is = is /\ received # <<>> BY DEF OwnInv, Decoding
<1>2. PICK off : InStream(Frames, sent, Written, Cut, received, Len(decoded), off) BY <1>1 DEF Stream
<1>3. PICK F \in [Messages -> Seq(WireByte)], w \in Nat, c \in Nat, d \in Nat :
         F = Frames /\ w = Written /\ c = Cut /\ d = Len(decoded)
  BY Holds
<1>4. PICK s \in Seq(Messages), rc \in Seq(WireByte) : s = sent /\ rc = received BY <1>1 DEF Types
<1>5. Len(rc) # 0 BY <1>1, <1>4, EmptySeq
<1>6. d + 1 \in 1 .. Len(s) /\ Agrees(F[s[d + 1]], rc)
  <2>1. InStream(F, s, w, c, rc, d, off) BY <1>2, <1>3, <1>4
  <2> QED BY <1>5, <2>1, StreamFront
<1>7. PICK m \in Messages : m = s[d + 1] BY <1>6, ElementOfSeq
<1>8. F[m] = Frame(m) BY <1>1, <1>3, FramesAre DEF Types
<1>9. At(m) BY <1>1, <1>4, <1>6, <1>7, <1>8 DEF At, Types
<1>10. codec = "prost" => state = <<>> BY <1>1 DEF Decoder
<1>11. LengthRead(m) BY <1>1, <1>3, <1>4, <1>7 DEF Decoder, LengthRead
<1>12. /\ o.is = "message" => /\ m \in Known /\ o.size = Len(Frame(m)) /\ Len(Frame(m)) <= Len(received)
                              /\ o.message = <<m>> /\ o.next = <<>>
       /\ o.is = "incomplete" => /\ o.size \in Nat /\ Len(received) < o.size /\ o.message = <<>>
                                 /\ \/ o.next = <<>>
                                    \/ codec # "prost" /\ o.next = <<BodySize(m)>> /\ Len(received) >= Prefix
       /\ o.is = "invalid" => m \notin Known /\ o.message = <<>> /\ o.next = <<>>
  BY <1>9, <1>10, <1>11, Decodes
<1>13. Len(decoded) + 1 \in 1 .. Len(sent) /\ m = sent[Len(decoded) + 1] BY <1>3, <1>4, <1>6, <1>7
<1> QED BY <1>1, <1>12, <1>13

(* A message is returned: it is the next that was sent, and its frame is consumed. *)
LEMMA MessageHolds ==
    ASSUME OwnInv, DecodeMessage
    PROVE  OwnInv'
<1> DEFINE o == IF codec = "prost" THEN ProstDecode ELSE MessagePackDecode
<1>1. Decoding("message") /\ failed' = failed /\ Types /\ Queue /\ Stream /\ Decoder /\ History
  BY DEF DecodeMessage, OwnInv
<1>2. /\ codec' = codec /\ pooled' = pooled /\ buffer_pool' = buffer_pool /\ sent' = sent
      /\ send_buffer' = send_buffer /\ ~failed /\ state' = o.next /\ asked' = 0
      /\ decoded' = decoded \o o.message /\ received' = SubSeq(received, o.size + 1, Len(received))
  BY <1>1 DEF Decoding, senderVars
<1>3. PICK m \in Messages :
         /\ Len(decoded) + 1 \in 1 .. Len(sent) /\ m = sent[Len(decoded) + 1]
         /\ o.size = Len(Frame(m)) /\ Len(Frame(m)) <= Len(received) /\ o.message = <<m>> /\ o.next = <<>>
  BY <1>1, DecodingHolds
<1> HIDE DEF o
<1>4. Frames' = Frames BY <1>2, FramesStay
<1>5. PICK F \in [Messages -> Seq(WireByte)], w \in Nat, c \in Nat, d \in Nat, N \in Nat :
         F = Frames /\ w = Written /\ c = Cut /\ d = Len(decoded) /\ N = Len(sent)
  BY Holds
<1>6. PICK k \in Nat : k = Len(Frame(m)) /\ k = Len(F[m]) /\ k > 0 BY <1>1, <1>5, FramesAre DEF Types
<1>7. PICK off : InStream(F, sent, w, c, received, d, off) BY <1>1, <1>5 DEF Stream
<1>8. received' \in Seq(WireByte) /\ InStream(F, sent, w, c, received', d + 1, off)
  <2>1. PICK s \in Seq(Messages), rc \in Seq(WireByte) : s = sent /\ rc = received BY <1>1 DEF Types
  <2>2. /\ InStream(F, s, w, c, rc, d, off) /\ d + 1 \in 1 .. Len(s) /\ k = Len(F[s[d + 1]]) /\ k <= Len(rc)
        /\ received' = SubSeq(rc, k + 1, Len(rc))
    BY <1>2, <1>3, <1>5, <1>6, <1>7, <2>1
  <2>3. /\ SubSeq(rc, k + 1, Len(rc)) \in Seq(WireByte)
        /\ InStream(F, s, w, c, SubSeq(rc, k + 1, Len(rc)), d + 1, off)
    BY <1>6, <2>2, StreamDecode
  <2> QED BY <2>1, <2>2, <2>3
<1>9. PICK t : t = decoded' OBVIOUS
<1>10. t \in Seq(Messages) /\ Len(t) = d + 1 /\ t[d + 1] = m /\ \A i \in 1 .. d : t[i] = decoded[i]
  <2>1. PICK e \in Seq(Messages) : e = decoded BY <1>1 DEF Types
  <2>2. t = Append(e, m)
    <3>1. t = e \o <<m>> BY <1>2, <1>3, <1>9, <2>1
    <3> QED BY <3>1, AppendIsConcat
  <2> QED BY <1>5, <2>1, <2>2, AppendProperties
<1>11. Types'
  <2>1. asked' \in Nat BY <1>2
  <2> QED BY <1>1, <1>2, <1>8, <1>9, <1>10, <2>1 DEF Types
<1>12. Written' = w /\ Cut' = c BY <1>2, <1>5 DEF Written, Cut
<1>13. Queue' BY <1>1, <1>2, <1>4, <1>5, <1>12 DEF Queue
<1>14. Stream'
  <2>1. InStream(Frames', sent', Written', Cut', received', Len(decoded'), off)
    BY <1>2, <1>4, <1>5, <1>8, <1>9, <1>10, <1>12
  <2> QED BY <2>1, StreamNext
<1>15. Decoder' BY <1>2, <1>3 DEF Decoder
<1>16. History'
  <2>1. d + 1 <= N BY <1>3, <1>5
  <2>2. ASSUME NEW i \in 1 .. d + 1 PROVE t[i] = sent[i]
    <3>1. CASE i = d + 1 BY <1>3, <1>5, <1>10, <3>1
    <3>2. CASE i # d + 1
      <4>1. i \in 1 .. d BY <3>2
      <4> QED BY <1>1, <1>5, <1>10, <4>1 DEF History
    <3> QED BY <3>1, <3>2
  <2>3. failed' => FALSE BY <1>1, <1>2
  <2> QED BY <1>2, <1>5, <1>9, <1>10, <2>1, <2>2, <2>3 DEF History
<1>17. NeverUndercounts' BY <1>2 DEF NeverUndercounts
<1> QED BY <1>11, <1>13, <1>14, <1>15, <1>16, <1>17 DEF OwnInv

(* More bytes are asked for, or decoding fails: the stream stays as it is. *)
LEMMA NoMessageHolds ==
    ASSUME OwnInv, DecodeIncomplete \/ DecodeInvalid
    PROVE  OwnInv'
<1> DEFINE o == IF codec = "prost" THEN ProstDecode ELSE MessagePackDecode
<1>1. Types /\ Queue /\ Stream /\ Decoder /\ History BY DEF OwnInv
<1>2. PICK is \in {"incomplete", "invalid"} :
         Decoding(is) /\ (is = "incomplete" => failed' = failed) /\ (is = "invalid" => failed' = TRUE)
  BY DEF DecodeIncomplete, DecodeInvalid
<1>3. Decoding(is) BY <1>2
<1>4. /\ codec' = codec /\ pooled' = pooled /\ buffer_pool' = buffer_pool /\ sent' = sent
      /\ send_buffer' = send_buffer /\ ~failed /\ state' = o.next
      /\ asked' = IF is = "incomplete" THEN o.size ELSE 0
      /\ decoded' = decoded \o o.message /\ received' = received
  BY <1>2, <1>3 DEF Decoding, senderVars
<1>5. PICK m \in Messages :
         /\ Len(decoded) + 1 \in 1 .. Len(sent) /\ m = sent[Len(decoded) + 1]
         /\ is = "incomplete" => /\ o.size \in Nat /\ Len(received) < o.size /\ o.message = <<>>
                                 /\ \/ o.next = <<>>
                                    \/ codec # "prost" /\ o.next = <<BodySize(m)>> /\ Len(received) >= Prefix
         /\ is = "invalid" => m \notin Known /\ o.message = <<>> /\ o.next = <<>>
  BY <1>3, DecodingHolds
<1> HIDE DEF o
<1>6. decoded' = decoded
  <2>1. o.message = <<>> BY <1>2, <1>5
  <2>2. PICK e \in Seq(Messages) : e = decoded BY <1>1 DEF Types
  <2>3. e \o <<>> = e BY ConcatEmptySeq
  <2> QED BY <1>4, <2>1, <2>2, <2>3
<1>7. Frames' = Frames BY <1>4, FramesStay
<1>8. Types'
  <2>1. asked' \in Nat BY <1>2, <1>4, <1>5
  <2>2. failed' \in BOOLEAN BY <1>1, <1>2 DEF Types
  <2> QED BY <1>1, <1>4, <1>6, <2>1, <2>2 DEF Types
<1>9. Written' = Written /\ Cut' = Cut BY <1>4 DEF Written, Cut
<1>10. Queue' BY <1>1, <1>4, <1>7, <1>9 DEF Queue
<1>11. Stream'
  <2>1. PICK off : InStream(Frames, sent, Written, Cut, received, Len(decoded), off) BY <1>1 DEF Stream
  <2>2. InStream(Frames', sent', Written', Cut', received', Len(decoded'), off) BY <1>4, <1>6, <1>7, <1>9, <2>1
  <2> QED BY <2>2, StreamNext
<1>12. PICK d \in Nat, N \in Nat : d = Len(decoded) /\ N = Len(sent) BY Holds
<1>13. d < N /\ m = sent[d + 1] BY <1>5, <1>12
<1>14. Decoder'
  <2>1. codec = "prost" => o.next = <<>> BY <1>2, <1>5
  <2>2. o.next # <<>> => o.next = <<BodySize(m)>> /\ Len(received) >= Prefix BY <1>2, <1>5
  <2>3. o.next # <<>> => o.next = <<IF codec = "prost" THEN sent[d + 1] ELSE sent[d + 1] + 1>>
    BY <1>13, <2>2 DEF BodySize
  <2> QED BY <1>4, <1>6, <1>12, <1>13, <2>1, <2>2, <2>3 DEF Decoder, BodySize
<1>15. History'
  <2>1. failed' => m \notin Known BY <1>2, <1>4, <1>5
  <2> QED BY <1>1, <1>4, <1>6, <1>12, <1>13, <2>1 DEF History
<1>16. NeverUndercounts'
  <2>1. CASE is = "incomplete" BY <1>4, <1>5, <2>1 DEF NeverUndercounts
  <2>2. CASE is # "incomplete" BY <1>4, <2>2 DEF NeverUndercounts
  <2> QED BY <2>1, <2>2
<1> QED BY <1>8, <1>10, <1>11, <1>14, <1>15, <1>16 DEF OwnInv

(* Nothing changes in a step that is none of the codecs'. *)
LEMMA StutterHolds ==
    ASSUME OwnInv, UNCHANGED vars
    PROVE  OwnInv'
<1>1. /\ codec' = codec /\ pooled' = pooled /\ buffer_pool' = buffer_pool /\ sent' = sent
      /\ send_buffer' = send_buffer /\ received' = received /\ state' = state /\ asked' = asked
      /\ decoded' = decoded /\ failed' = failed
  BY DEF vars, senderVars
<1>2. Types /\ Queue /\ Stream /\ Decoder /\ History /\ NeverUndercounts BY DEF OwnInv
<1>3. Frames' = Frames BY <1>1, FramesStay
<1>4. Written' = Written /\ Cut' = Cut BY <1>1 DEF Written, Cut
<1>5. Types' BY <1>1, <1>2 DEF Types
<1>6. Queue' BY <1>1, <1>2, <1>3, <1>4 DEF Queue
<1>7. Stream'
  <2>1. PICK off : InStream(Frames, sent, Written, Cut, received, Len(decoded), off) BY <1>2 DEF Stream
  <2>2. InStream(Frames', sent', Written', Cut', received', Len(decoded'), off) BY <1>1, <1>3, <1>4, <2>1
  <2> QED BY <2>2, StreamNext
<1>8. Decoder' BY <1>1, <1>2 DEF Decoder, BodySize
<1>9. History' /\ NeverUndercounts' BY <1>1, <1>2 DEF History, NeverUndercounts
<1> QED BY <1>5, <1>6, <1>7, <1>8, <1>9 DEF OwnInv

(* What is decoded is a beginning of what was sent. *)
LEMMA HistoryIsPrefix ==
    ASSUME OwnInv
    PROVE  RoundTrip
<1>1. PICK e \in Seq(Messages), s \in Seq(Messages) : e = decoded /\ s = sent BY DEF OwnInv, Types
<1>2. PICK d \in Nat : d = Len(e) BY LenProperties
<1>3. d <= Len(s) /\ \A i \in 1 .. d : e[i] = s[i] BY <1>1, <1>2 DEF OwnInv, History
<1>4. 0 + 1 = 1 /\ 0 + d = d /\ \A i \in 1 .. d : 0 + i = i OBVIOUS
<1>5. PICK x : x = SubSeq(e, 1, d) OBVIOUS
<1>6. PICK y : y = SubSeq(s, 1, d) OBVIOUS
<1>7. x \in Seq(Messages) /\ Len(x) = d /\ \A i \in 1 .. d : x[i] = e[i]
  <2>1. x = SubSeq(e, 0 + 1, 0 + d) /\ 0 + d <= Len(e) BY <1>2, <1>4, <1>5
  <2>2. x \in Seq(Messages) /\ Len(x) = d /\ \A i \in 1 .. d : x[i] = e[0 + i] BY <2>1, Part
  <2> QED BY <1>4, <2>2
<1>8. y \in Seq(Messages) /\ Len(y) = d /\ \A i \in 1 .. d : y[i] = s[i]
  <2>1. y = SubSeq(s, 0 + 1, 0 + d) /\ 0 + d <= Len(s) BY <1>3, <1>4, <1>6
  <2>2. y \in Seq(Messages) /\ Len(y) = d /\ \A i \in 1 .. d : y[i] = s[0 + i] BY <2>1, Part
  <2> QED BY <1>4, <2>2
<1>9. x = y BY <1>3, <1>7, <1>8, SeqEqual
<1>10. IsPrefix(decoded, sent) BY <1>1, <1>2, <1>3, <1>5, <1>6, <1>9 DEF IsPrefix
<1>11. failed => sent[Len(decoded) + 1] \notin Known BY DEF OwnInv, History
<1> QED BY <1>10, <1>11 DEF RoundTrip

-----------------------------------------------------------------------------
(* The bytes of a foreign peer: nothing is known of them but that each is one of its codec. *)

(* They depend on the codec only. *)
LEMMA ForeignStays ==
    ASSUME codec' = codec
    PROVE  ForeignByte' = ForeignByte
BY DEF ForeignByte

(* No length can be read: the bytes end within a varint, or the varint is too long. *)
LEMMA NoLength ==
    ASSUME received \in Seq(ForeignByte), codec = "prost", VarintEnds(received) = {}
    PROVE  Len(received) < VarintMax \/ OverlongVarint(received)
<1>1. PICK r \in Nat : r = Len(received) BY LenProperties
<1>2. PICK v \in Nat : v = VarintMax BY CodecAssumption
<1> SUFFICES ASSUME ~(r < v), NEW j \in 1 .. v, received[j].kind # "more" PROVE FALSE
  BY <1>1, <1>2 DEF OverlongVarint
<1> DEFINE T == {i \in 1 .. v : received[i].kind # "more"}
<1>3. PICK i \in T : \A n \in T : i <= n
  <2>1. T \subseteq Nat /\ T # {} OBVIOUS
  <2> HIDE DEF T
  <2> QED BY <2>1, LeastNatural
<1>4. i \in 1 .. v /\ i \in 1 .. r /\ received[i].kind # "more" OBVIOUS
<1>5. \A n \in 1 .. i - 1 : received[n].kind = "more"
  <2> TAKE n \in 1 .. i - 1
  <2>1. n \in 1 .. v /\ ~(i <= n) BY <1>4
  <2> QED BY <1>3, <2>1
<1> HIDE DEF T
<1>6. received[i].kind = "digit"
  <2>1. received[i] \in ForeignByte BY <1>1, <1>4, ElementOfSeq
  <2>2. \A b \in ForeignByte : b.kind \in {"digit", "more"} BY DEF ForeignByte, Digit, MoreDigit, Byte
  <2> QED BY <1>4, <2>1, <2>2
<1>7. i \in DOMAIN received BY <1>1, <1>4, LenProperties
<1>8. i \in VarintEnds(received) BY <1>2, <1>4, <1>5, <1>6, <1>7 DEF VarintEnds
<1> QED BY <1>8

(* What a decoder asks for: more than it has, but before an overlong varint. *)
LEMMA ForeignAsks ==
    ASSUME received \in Seq(ForeignByte), NEW o, o = IF codec = "prost" THEN ProstDecode ELSE MessagePackDecode,
           o.is = "incomplete"
    PROVE  Len(received) < o.size \/ (codec = "prost" /\ OverlongVarint(received))
<1>1. ASSUME NEW found, NEW framing, NEW next PROVE Read(found, framing, next).is # "incomplete"
  BY DEF Read, Outcome
<1>2. ASSUME NEW n, NEW next PROVE Incomplete(n, next).size = n BY DEF Incomplete, Outcome
<1>3. ASSUME NEW size, NEW message, NEW next PROVE Outcome("invalid", size, message, next).is # "incomplete"
  BY DEF Outcome
<1>4. CASE codec = "prost"
  <2>1. CASE VarintEnds(received) = {}
    <3>1. o = Incomplete(VarintMax, <<>>) BY <1>4, <2>1 DEF ProstDecode
    <3> QED BY <1>2, <1>4, <2>1, <3>1, NoLength
  <2>2. CASE VarintEnds(received) # {}
    <3>1. \E n, found, framing : o = IF Len(received) < n THEN Incomplete(n, <<>>) ELSE Read(found, framing, <<>>)
      BY <1>4, <2>2, Zenon DEF ProstDecode
    <3> QED BY <1>1, <1>2, <3>1
  <2> QED BY <2>1, <2>2
<1>5. CASE codec # "prost"
  <2>1. CASE state = <<>> /\ Len(received) < Prefix
    <3>1. o = Incomplete(Prefix, <<>>) BY <1>5, <2>1 DEF MessagePackDecode
    <3> QED BY <1>2, <2>1, <3>1
  <2>2. CASE state = <<>> /\ ~(Len(received) < Prefix) /\ received[1].kind # "tag"
    <3>1. o = Outcome("invalid", 0, <<>>, <<>>) BY <1>5, <2>2 DEF MessagePackDecode
    <3> QED BY <1>3, <3>1
  <2>3. CASE ~(state = <<>> /\ Len(received) < Prefix) /\ ~(state = <<>> /\ received[1].kind # "tag")
    <3>1. \E n, next, found : o = IF Len(received) < n THEN Incomplete(n, next) ELSE Read(found, Prefix, <<>>)
      BY <1>5, <2>3, Zenon DEF MessagePackDecode
    <3> QED BY <1>1, <1>2, <3>1
  <2> QED BY <2>1, <2>2, <2>3
<1> QED BY <1>4, <1>5

(* decode takes bytes from the front, or none. *)
LEMMA ForeignRest ==
    ASSUME received \in Seq(ForeignByte), NEW o, o = IF codec = "prost" THEN ProstDecode ELSE MessagePackDecode,
           o.is = "message"
    PROVE  SubSeq(received, o.size + 1, Len(received)) \in Seq(ForeignByte)
<1>1. ASSUME NEW found, found \subseteq Known, NEW framing \in Nat, NEW next,
             Read(found, framing, next).is = "message"
      PROVE  Read(found, framing, next).size \in Nat
  <2>1. found # {} BY <1>1 DEF Read, Outcome
  <2>2. PICK m \in Known : Read(found, framing, next).size = framing + BodySize(m)
    BY <1>1, <2>1 DEF Read, Outcome
  <2>3. m \in Nat BY CodecAssumption
  <2>4. BodySize(m) \in Nat BY <2>3 DEF BodySize
  <2> QED BY <2>2, <2>4
<1>2. ASSUME NEW n, NEW next PROVE Incomplete(n, next).is # "message" BY DEF Incomplete, Outcome
<1>3. o.size \in Nat
  <2>1. CASE codec = "prost"
    <3>1. VarintEnds(received) # {} BY <1>2, <2>1 DEF ProstDecode
    <3>2. PICK end \in VarintEnds(received) : end = CHOOSE i \in VarintEnds(received) : TRUE BY <3>1
    <3>3. end \in Nat BY LenProperties DEF VarintEnds
    <3>4. \E n : \E found \in SUBSET Known :
             o = IF Len(received) < n THEN Incomplete(n, <<>>) ELSE Read(found, end, <<>>)
      BY <2>1, <3>1, <3>2 DEF ProstDecode
    <3> QED BY <1>1, <1>2, <3>3, <3>4
  <2>2. CASE codec # "prost"
    <3>1. Prefix \in Nat BY CodecAssumption DEF Prefix
    <3>2. ASSUME NEW size, NEW message, NEW next PROVE Outcome("invalid", size, message, next).is # "message"
      BY DEF Outcome
    <3>3. ~(state = <<>> /\ Len(received) < Prefix) /\ ~(state = <<>> /\ received[1].kind # "tag")
      BY <1>2, <2>2, <3>2 DEF MessagePackDecode
    <3>4. \E n, next : \E found \in SUBSET Known :
             o = IF Len(received) < n THEN Incomplete(n, next) ELSE Read(found, Prefix, <<>>)
      BY <2>2, <3>3 DEF MessagePackDecode
    <3> QED BY <1>1, <1>2, <3>1, <3>4
  <2> QED BY <2>1, <2>2
<1>4. PICK k \in Nat, r \in Nat : k = o.size + 1 /\ r = Len(received) /\ k > 0 BY <1>3, LenProperties
<1>5. ASSUME NEW i \in k .. r PROVE received[i] \in ForeignByte
  <2>1. i \in 1 .. Len(received) BY <1>4
  <2> QED BY <2>1, ElementOfSeq
<1>6. SubSeq(received, k, r) \in Seq(ForeignByte) BY <1>5, SubSeqProperties
<1> QED BY <1>4, <1>6

(* decode, of a foreign peer's bytes. *)
LEMMA ForeignDecodes ==
    ASSUME ForeignInv, peer = "foreign", NEW is, Decoding(is)
    PROVE  ForeignInv'
<1> DEFINE o == IF codec = "prost" THEN ProstDecode ELSE MessagePackDecode
<1>1. /\ codec' = codec /\ send_buffer' = send_buffer /\ peer' = peer
      /\ o.is = is /\ asked' = IF is = "incomplete" THEN o.size ELSE 0
      /\ received' = IF is = "message" THEN SubSeq(received, o.size + 1, Len(received)) ELSE received
  BY DEF Decoding, senderVars
<1>2. codec \in Codecs /\ send_buffer = <<>> /\ received \in Seq(ForeignByte) BY DEF ForeignInv
<1>3. is = "message" => SubSeq(received, o.size + 1, Len(received)) \in Seq(ForeignByte) BY <1>1, <1>2, ForeignRest
<1>4. is = "incomplete" => Len(received) < o.size \/ (codec = "prost" /\ OverlongVarint(received))
  BY <1>1, <1>2, ForeignAsks
<1> HIDE DEF o
<1>5. received' \in Seq(ForeignByte) BY <1>1, <1>2, <1>3
<1>6. received' \in Seq(ForeignByte') BY <1>1, <1>5, ForeignStays
<1>7. AsksForMore'
  <2>1. CASE is = "incomplete"
    <3>1. received' = received /\ asked' = o.size BY <1>1, <2>1
    <3>2. OverlongVarint(received) => OverlongVarint(received') BY <3>1
    <3> QED BY <1>1, <1>4, <2>1, <3>1, <3>2 DEF AsksForMore, OverlongVarint
  <2>2. CASE is # "incomplete" BY <1>1, <2>2 DEF AsksForMore
  <2> QED BY <2>1, <2>2
<1> QED BY <1>1, <1>2, <1>6, <1>7 DEF ForeignInv

(* A byte more. *)
LEMMA ForeignArrives ==
    ASSUME ForeignInv, NEW b \in ForeignByte, Foreign(b)
    PROVE  ForeignInv'
<1>1. codec' = codec /\ send_buffer' = send_buffer /\ received' = Append(received, b) /\ asked' = 0
  BY DEF Foreign, senderVars
<1>2. received' \in Seq(ForeignByte) BY <1>1, AppendProperties DEF ForeignInv
<1>3. received' \in Seq(ForeignByte') BY <1>1, <1>2, ForeignStays
<1>4. AsksForMore' BY <1>1 DEF AsksForMore
<1> QED BY <1>1, <1>3, <1>4 DEF ForeignInv

-----------------------------------------------------------------------------
(* Theorems. *)

(* The invariant holds in every state: encode, writes of any size, the bytes of a foreign    *)
(* peer and decode keep it.                                                                  *)
THEOREM CodecHolds == Spec => []CodecInv
<1>1. Init => CodecInv
  <2> SUFFICES ASSUME Init PROVE CodecInv OBVIOUS
  <2>1. peer \in {"own", "foreign"} BY CodecAssumption DEF Init
  <2>2. codec \in Codecs /\ send_buffer = <<>> /\ received = <<>> /\ asked = 0 BY DEF Init
  <2>3. ForeignInv BY <2>2, EmptySeq DEF ForeignInv, AsksForMore
  <2> QED BY <2>1, <2>3, InitHolds DEF CodecInv
<1>2. CodecInv /\ [Next]_vars => CodecInv'
  <2> SUFFICES ASSUME CodecInv, [Next]_vars PROVE CodecInv' OBVIOUS
  <2>1. peer \in {"own", "foreign"} /\ (peer = "own" => OwnInv) /\ (peer = "foreign" => ForeignInv) BY DEF CodecInv
  <2>2. ASSUME NEW m \in Messages, Encode(m) PROVE CodecInv'
    <3>1. peer = "own" /\ peer' = peer BY <2>2 DEF Encode
    <3> QED BY <2>1, <2>2, <3>1, EncodeHolds DEF CodecInv
  <2>3. ASSUME Transmit PROVE CodecInv'
    <3>1. PICK n \in 1 .. Remaining(Head(send_buffer)) : send_buffer # <<>> /\ Write(n) BY <2>3 DEF Transmit
    <3>2. peer = "own" BY <2>1, <3>1 DEF ForeignInv
    <3>3. peer' = peer BY <3>1 DEF Write
    <3>4. OwnInv' BY <2>1, <3>1, <3>2, WriteHolds
    <3> QED BY <3>2, <3>3, <3>4 DEF CodecInv
  <2>4. ASSUME NEW b \in ForeignByte, Foreign(b) PROVE CodecInv'
    <3>1. peer = "foreign" /\ peer' = peer BY <2>4 DEF Foreign
    <3> QED BY <2>1, <2>4, <3>1, ForeignArrives DEF CodecInv
  <2>5. ASSUME Decode PROVE CodecInv'
    <3>1. PICK is : Decoding(is) BY <2>5 DEF Decode, DecodeMessage, DecodeIncomplete, DecodeInvalid
    <3>2. peer' = peer BY <3>1 DEF Decoding
    <3>3. CASE peer = "own"
      <4>1. OwnInv' BY <2>1, <2>5, <3>3, MessageHolds, NoMessageHolds DEF Decode
      <4> QED BY <3>2, <3>3, <4>1 DEF CodecInv
    <3>4. CASE peer = "foreign"
      <4>1. ForeignInv' BY <2>1, <3>1, <3>4, ForeignDecodes
      <4> QED BY <3>2, <3>4, <4>1 DEF CodecInv
    <3> QED BY <2>1, <3>3, <3>4
  <2>6. CASE UNCHANGED vars
    <3>1. /\ peer' = peer /\ codec' = codec /\ send_buffer' = send_buffer /\ received' = received /\ asked' = asked
      BY <2>6 DEF vars, senderVars
    <3>2. ForeignByte' = ForeignByte BY <3>1, ForeignStays
    <3>3. ForeignInv => ForeignInv' BY <3>1, <3>2 DEF ForeignInv, AsksForMore, OverlongVarint
    <3>4. OwnInv => OwnInv' BY <2>6, StutterHolds
    <3> QED BY <2>1, <3>1, <3>3, <3>4 DEF CodecInv
  <2> QED BY <2>2, <2>3, <2>4, <2>5, <2>6 DEF Next
<1> QED BY <1>1, <1>2, PTL DEF Spec

(* Whatever the messages, the sizes of the writes, the pool and the digits of a length: what *)
(* either decoder returns of the encoder's stream is what encode was given, in order, none   *)
(* lost and none altered, and decoding fails at nothing but a message the receiver's type    *)
(* cannot represent.                                                                         *)
THEOREM DecodedIsSent == Spec => []RoundTrip
<1>1. CodecInv => RoundTrip
  <2>1. CASE peer = "own" BY <2>1, HistoryIsPrefix DEF CodecInv
  <2>2. CASE peer # "own" BY <2>2 DEF RoundTrip
  <2> QED BY <2>1, <2>2
<1> QED BY <1>1, CodecHolds, PTL

(* next_message_size of an IncompleteBuffer is more than the decoder was given, whatever     *)
(* bytes it was given: of its own encoder always, while the delimiter, the prefix or the     *)
(* body is cut; of a foreign peer always too, except that ProstDecoder asks for a whole      *)
(* varint when it has an overlong one.                                                       *)
THEOREM AsksEnough == Spec => []AsksForMore
<1>1. CodecInv => AsksForMore
  <2>1. OwnInv => AsksForMore BY DEF OwnInv, NeverUndercounts, AsksForMore
  <2>2. ForeignInv => AsksForMore BY DEF ForeignInv
  <2> QED BY <2>1, <2>2 DEF CodecInv
<1> QED BY <1>1, CodecHolds, PTL
=============================================================================
