-------------------------- MODULE ConnectionProofs --------------------------
(***************************************************************************)
(* Theorems about Connection for any traffic, buffer sizes, budget and     *)
(* window: the inbound stream is decoded in step, the outbound stream is   *)
(* written whole, and a parked connection has nothing to do.               *)
(***************************************************************************)
EXTENDS Connection, SequenceTheorems, WellFoundedInduction, TLAPS

-----------------------------------------------------------------------------
(* Sets of naturals: a least member, and induction. *)
LEMMA NatLeast ==
    ASSUME NEW T, T \subseteq Nat, T # {}
    PROVE  \E m \in T : \A n \in T : m <= n
<1> DEFINE R == OpToRel(<, Nat)
<1>1. IsWellFoundedOn(R, Nat) BY NatLessThanWellFounded
<1>2. \A x, y \in Nat : <<x, y>> \in R <=> x < y BY DEF OpToRel
<1> HIDE DEF R
<1>3. PICK x \in T : \A y \in T : ~(<<y, x>> \in R) BY <1>1, WFMin
<1>4. ASSUME NEW n \in T PROVE x <= n
  <2>1. x \in Nat /\ n \in Nat OBVIOUS
  <2>2. ~(n < x) BY <1>2, <1>3, <2>1, Zenon
  <2> QED BY <2>1, <2>2
<1> QED BY <1>4

(* A set with 0 that is closed under successor has every natural. *)
LEMMA NatSets ==
    ASSUME NEW T, T \subseteq Nat, 0 \in T, \A n \in T : n + 1 \in T
    PROVE  T = Nat
<1> DEFINE U == Nat \ T
<1> SUFFICES ASSUME U # {} PROVE FALSE OBVIOUS
<1>1. PICK x \in U : \A y \in U : x <= y
  <2>1. U \subseteq Nat OBVIOUS
  <2> HIDE DEF U
  <2> QED BY <2>1, NatLeast
<1>2. x - 1 \in Nat /\ x - 1 < x /\ (x - 1) + 1 = x BY <1>1
<1>3. x - 1 \in T BY <1>1, <1>2
<1> QED BY <1>1, <1>2, <1>3

(* The function FlattenSeq recurses with: the first i of the sequences, joined. *)
IsJoin(g, s, n) == g = [i \in 1 .. n |-> IF i = 1 THEN s[i] ELSE g[i - 1] \o s[i]]
Join(s) == CHOOSE g : IsJoin(g, s, Len(s))

(* FlattenSeq is the last value of that function. *)
LEMMA FlattenIsJoin ==
    ASSUME NEW s
    PROVE  FlattenSeq(s) = IF Len(s) = 0 THEN s ELSE Join(s)[Len(s)]
BY DEF FlattenSeq, Join, IsJoin

(* There is such a function for any sequence and length, though its definition is recursive. *)
LEMMA JoinExists ==
    ASSUME NEW s, NEW n \in Nat
    PROVE  \E g : IsJoin(g, s, n)
<1> DEFINE T == {m \in Nat : \E g : IsJoin(g, s, m)}
<1>1. 0 \in T
  <2> DEFINE g == [i \in 1 .. 0 |-> 0]
  <2>1. 1 .. 0 = {} OBVIOUS
  <2>2. IsJoin(g, s, 0) BY <2>1 DEF IsJoin
  <2> QED BY <2>2
<1>2. ASSUME NEW m \in T PROVE m + 1 \in T
  <2>1. PICK g : IsJoin(g, s, m) OBVIOUS
  <2> DEFINE h == [i \in 1 .. m + 1 |-> IF i = m + 1 THEN (IF i = 1 THEN s[i] ELSE g[m] \o s[i]) ELSE g[i]]
  <2>2. ASSUME NEW i \in 1 .. m + 1 PROVE h[i] = IF i = 1 THEN s[i] ELSE h[i-1] \o s[i]
    <3>1. CASE i = m + 1
      <4>1. CASE i = 1 BY <3>1, <4>1
      <4>2. CASE i # 1
        <5>1. i - 1 \in 1 .. m + 1 /\ i - 1 # m + 1 /\ i - 1 = m BY <3>1, <4>2
        <5>2. h[i - 1] = g[m] BY <5>1
        <5> QED BY <3>1, <4>2, <5>2
      <4> QED BY <4>1, <4>2
    <3>2. CASE i # m + 1
      <4>1. i \in 1 .. m /\ h[i] = g[i] BY <3>2
      <4>2. g[i] = IF i = 1 THEN s[i] ELSE g[i-1] \o s[i] BY <2>1, <4>1 DEF IsJoin
      <4>3. i # 1 => i - 1 \in 1 .. m + 1 /\ i - 1 # m + 1 BY <4>1
      <4>4. i # 1 => h[i - 1] = g[i - 1] BY <4>3
      <4> QED BY <4>1, <4>2, <4>4
    <3> QED BY <3>1, <3>2
  <2> HIDE DEF h
  <2>3. IsJoin(h, s, m + 1) BY <2>2 DEF h, IsJoin
  <2> QED BY <2>3
<1> HIDE DEF T
<1>3. T = Nat
  <2>1. T \subseteq Nat BY DEF T
  <2> QED BY <1>1, <1>2, <2>1, NatSets
<1> QED BY <1>3 DEF T

(* So Join satisfies its own recursive definition. *)
LEMMA JoinDef ==
    ASSUME NEW S, NEW s \in Seq(Seq(S))
    PROVE  IsJoin(Join(s), s, Len(s))
<1>1. Len(s) \in Nat BY LenProperties
<1> QED BY <1>1, JoinExists DEF Join

(* Its first value. *)
LEMMA JoinFirst ==
    ASSUME NEW s, NEW g, NEW n, IsJoin(g, s, n), 1 \in 1 .. n
    PROVE  g[1] = s[1]
BY DEF IsJoin

(* Its next value. *)
LEMMA JoinStep ==
    ASSUME NEW s, NEW g, NEW n \in Nat, IsJoin(g, s, n), NEW i \in 1 .. n, i + 1 \in 1 .. n
    PROVE  g[i + 1] = g[i] \o s[i + 1]
<1>1. \A j \in 1 .. n : g[j] = IF j = 1 THEN s[j] ELSE g[j - 1] \o s[j] BY DEF IsJoin
<1>2. i + 1 # 1 /\ (i + 1) - 1 = i OBVIOUS
<1> QED BY <1>1, <1>2

(* Its values are sequences of the same elements. *)
LEMMA JoinType ==
    ASSUME NEW S, NEW s \in Seq(Seq(S)), NEW i \in 1 .. Len(s)
    PROVE  Join(s)[i] \in Seq(S)
<1> DEFINE g == Join(s)
           N == Len(s)
           T == {m \in Nat : m + 1 \in 1 .. N => g[m + 1] \in Seq(S)}
<1>1. N \in Nat /\ IsJoin(g, s, N) BY JoinDef, LenProperties
<1>2. \A j \in 1 .. N : s[j] \in Seq(S) BY ElementOfSeq
<1> HIDE DEF g, N
<1>3. 0 \in T
  <2>1. ASSUME 1 \in 1 .. N PROVE g[1] \in Seq(S) BY <1>1, <1>2, <2>1, JoinFirst
  <2> QED BY <2>1
<1>4. ASSUME NEW m \in T PROVE m + 1 \in T
  <2>1. ASSUME (m + 1) + 1 \in 1 .. N PROVE g[(m + 1) + 1] \in Seq(S)
    <3>1. m + 1 \in 1 .. N  BY <1>1, <2>1
    <3>2. g[m + 1] \in Seq(S) BY <3>1
    <3>3. g[(m + 1) + 1] = g[m + 1] \o s[(m + 1) + 1] BY <1>1, <2>1, <3>1, JoinStep
    <3> QED BY <1>2, <2>1, <3>2, <3>3, ConcatProperties
  <2> QED BY <2>1
<1>5. T = Nat
  <2>1. T \subseteq Nat OBVIOUS
  <2> HIDE DEF T
  <2> QED BY <1>3, <1>4, <2>1, NatSets
<1>6. i - 1 \in T /\ (i - 1) + 1 = i /\ i \in 1 .. N
  <2>1. i \in 1 .. N BY DEF N
  <2> HIDE DEF T
  <2> QED BY <1>5, <2>1
<1> QED BY <1>6 DEF g

(* FlattenSeq joins sequences to a sequence; of none it makes the empty one. *)
LEMMA FlattenType ==
    ASSUME NEW S, NEW s \in Seq(Seq(S))
    PROVE  FlattenSeq(s) \in Seq(S)
<1>1. CASE Len(s) = 0
  <2>1. s = <<>> BY <1>1, EmptySeq
  <2> QED BY <1>1, <2>1, FlattenIsJoin, EmptySeq
<1>2. CASE Len(s) # 0
  <2>1. Len(s) \in 1 .. Len(s) BY <1>2, LenProperties
  <2> QED BY <1>2, <2>1, FlattenIsJoin, JoinType
<1> QED BY <1>1, <1>2

(* The case that FlattenSeq treats apart. *)
LEMMA FlattenEmpty == FlattenSeq(<<>>) = <<>>
BY FlattenIsJoin

(* One sequence more adds its elements at the end. *)
LEMMA FlattenAppend ==
    ASSUME NEW S, NEW s \in Seq(Seq(S)), NEW x \in Seq(S)
    PROVE  FlattenSeq(Append(s, x)) = FlattenSeq(s) \o x
<1>1. PICK t : t = Append(s, x) OBVIOUS
<1>2. PICK N \in Nat : N = Len(s) BY LenProperties
<1>3. /\ t \in Seq(Seq(S)) /\ Len(t) = N + 1 /\ t[N + 1] = x
      /\ \A i \in 1 .. N : t[i] = s[i]
  BY <1>1, <1>2, AppendProperties
<1>4. PICK g : g = Join(s) /\ IsJoin(g, s, N) BY <1>2, JoinDef
<1>5. PICK h : h = Join(t) /\ IsJoin(h, t, N + 1) BY <1>3, JoinDef
<1>6. \A i \in 1 .. N : h[i] = g[i]
  <2> DEFINE T == {m \in Nat : m + 1 \in 1 .. N => h[m + 1] = g[m + 1]}
  <2>1. 0 \in T
    <3>1. ASSUME 1 \in 1 .. N PROVE h[1] = g[1]
      <4>1. 1 \in 1 .. N + 1 OBVIOUS
      <4>2. g[1] = s[1] /\ h[1] = t[1] BY <1>4, <1>5, <3>1, <4>1, JoinFirst
      <4> QED BY <1>3, <3>1, <4>2
    <3> QED BY <3>1
  <2>2. ASSUME NEW m \in T PROVE m + 1 \in T
    <3>1. ASSUME (m + 1) + 1 \in 1 .. N PROVE h[(m + 1) + 1] = g[(m + 1) + 1]
      <4>1. m + 1 \in 1 .. N  /\ m + 1 \in 1 .. N + 1 /\ (m + 1) + 1 \in 1 .. N + 1 /\ N + 1 \in Nat
        BY <3>1
      <4>2. h[m + 1] = g[m + 1] BY <4>1
      <4>3. g[(m + 1) + 1] = g[m + 1] \o s[(m + 1) + 1] BY <1>4, <3>1, <4>1, JoinStep
      <4>4. h[(m + 1) + 1] = h[m + 1] \o t[(m + 1) + 1] BY <1>5, <4>1, JoinStep
      <4> QED BY <1>3, <3>1, <4>2, <4>3, <4>4
    <3> QED BY <3>1
  <2>3. T = Nat
    <3>1. T \subseteq Nat OBVIOUS
    <3> HIDE DEF T
    <3> QED BY <2>1, <2>2, <3>1, NatSets
  <2> SUFFICES ASSUME NEW i \in 1 .. N PROVE h[i] = g[i] OBVIOUS
  <2>4. i - 1 \in T /\ (i - 1) + 1 = i
    <3> HIDE DEF T
    <3> QED BY <2>3
  <2> QED BY <2>4
<1>7. FlattenSeq(t) = h[N + 1]
  <2>1. N + 1 # 0 OBVIOUS
  <2> QED BY <1>3, <1>5, <2>1, FlattenIsJoin
<1>8. CASE N = 0
  <2>1. s = <<>> BY <1>2, <1>8, EmptySeq
  <2>2. FlattenSeq(s) = <<>> BY <2>1, FlattenEmpty
  <2>3. h[1] = t[1] BY <1>5, <1>8, JoinFirst
  <2>4. FlattenSeq(t) = x BY <1>3, <1>7, <1>8, <2>3
  <2> QED BY <1>1, <2>2, <2>4, ConcatEmptySeq
<1>9. CASE N # 0
  <2>1. N + 1 \in Nat /\ N + 1 \in 1 .. N + 1 /\ N \in 1 .. N + 1 /\ N \in 1 .. N BY <1>9
  <2>2. h[N + 1] = h[N] \o t[N + 1] BY <1>5, <2>1, JoinStep
  <2>3. FlattenSeq(s) = g[N] BY <1>2, <1>4, <1>9, FlattenIsJoin
  <2> QED BY <1>1, <1>3, <1>6, <1>7, <2>1, <2>2, <2>3
<1> QED BY <1>8, <1>9

(* Flattening distributes over concatenation. *)
LEMMA FlattenConcat ==
    ASSUME NEW S, NEW a \in Seq(Seq(S)), NEW b \in Seq(Seq(S))
    PROVE  FlattenSeq(a \o b) = FlattenSeq(a) \o FlattenSeq(b)
<1> DEFINE T == {n \in Nat : \A c \in Seq(Seq(S)) :
                    Len(c) = n => FlattenSeq(a \o c) = FlattenSeq(a) \o FlattenSeq(c)}
<1>1. 0 \in T
  <2> SUFFICES ASSUME NEW c \in Seq(Seq(S)), Len(c) = 0
               PROVE  FlattenSeq(a \o c) = FlattenSeq(a) \o FlattenSeq(c)
    OBVIOUS
  <2>1. c = <<>> /\ FlattenSeq(c) = <<>> BY EmptySeq, FlattenEmpty
  <2>2. FlattenSeq(a) \in Seq(S) BY FlattenType
  <2>3. a \o c = a BY <2>1, ConcatEmptySeq
  <2> QED BY <2>1, <2>2, <2>3, ConcatEmptySeq
<1>2. ASSUME NEW n \in T PROVE n + 1 \in T
  <2>1. ASSUME NEW c \in Seq(Seq(S)), Len(c) = n + 1
        PROVE  FlattenSeq(a \o c) = FlattenSeq(a) \o FlattenSeq(c)
    <3>1. c # <<>> BY <2>1
    <3>2. PICK d \in Seq(Seq(S)), e \in Seq(S) : c = Append(d, e)
      BY <3>1, SequenceEmptyOrAppend
    <3>3. Len(d) = n BY <2>1, <3>2, AppendProperties, LenProperties
    <3>4. FlattenSeq(a \o d) = FlattenSeq(a) \o FlattenSeq(d) BY <3>3
    <3>5. a \o c = Append(a \o d, e) /\ a \o d \in Seq(Seq(S))
      <4>1. c = d \o <<e>> /\ <<e>> \in Seq(Seq(S)) BY <3>2, AppendIsConcat
      <4>2. a \o d \in Seq(Seq(S)) BY ConcatProperties
      <4>3. Append(a \o d, e) = (a \o d) \o <<e>> BY <4>2, AppendIsConcat
      <4>4. (a \o d) \o <<e>> = a \o (d \o <<e>>)
        <5>1. PICK P : P = Seq(S) OBVIOUS
        <5>2. PICK u : u = <<e>> OBVIOUS
        <5>3. a \in Seq(P) /\ d \in Seq(P) /\ u \in Seq(P) BY <4>1, <5>1, <5>2
        <5>4. (a \o d) \o u = a \o (d \o u) BY <5>3, ConcatAssociative, SMTT(60)
        <5> QED BY <5>2, <5>4
      <4> QED BY <4>1, <4>2, <4>3, <4>4
    <3>6. FlattenSeq(a \o c) = FlattenSeq(a \o d) \o e BY <3>5, FlattenAppend
    <3>7. FlattenSeq(c) = FlattenSeq(d) \o e BY <3>2, FlattenAppend
    <3>8. FlattenSeq(a) \in Seq(S) /\ FlattenSeq(d) \in Seq(S) BY FlattenType
    <3>9. (FlattenSeq(a) \o FlattenSeq(d)) \o e = FlattenSeq(a) \o (FlattenSeq(d) \o e)
      <4>1. PICK x : x = FlattenSeq(a) OBVIOUS
      <4>2. PICK y : y = FlattenSeq(d) OBVIOUS
      <4>3. x \in Seq(S) /\ y \in Seq(S) /\ e \in Seq(S) BY <3>8, <4>1, <4>2
      <4> HIDE DEF T
      <4>4. (x \o y) \o e = x \o (y \o e) BY <4>3, ConcatAssociative, SMTT(60)
      <4> QED BY <4>1, <4>2, <4>4
    <3> QED BY <3>4, <3>6, <3>7, <3>9
  <2> QED BY <2>1
<1>3. T = Nat
  <2>1. T \subseteq Nat OBVIOUS
  <2> HIDE DEF T
  <2> QED BY <1>1, <1>2, <2>1, NatSets
<1>4. Len(b) \in T BY <1>3, LenProperties
<1> QED BY <1>4

(* A sequence of buffers cut in two. *)
LEMMA FlattenCut ==
    ASSUME NEW S, NEW s \in Seq(Seq(S)), NEW k \in 0 .. Len(s)
    PROVE  /\ SubSeq(s, 1, k) \in Seq(Seq(S)) /\ SubSeq(s, k + 1, Len(s)) \in Seq(Seq(S))
           /\ Len(SubSeq(s, k + 1, Len(s))) = Len(s) - k
           /\ FlattenSeq(s) = FlattenSeq(SubSeq(s, 1, k)) \o FlattenSeq(SubSeq(s, k + 1, Len(s)))
<1>1. PICK P : P = Seq(S) OBVIOUS
<1>2. PICK N \in Nat : N = Len(s) BY LenProperties
<1>3. s \in Seq(P) /\ \A i \in 1 .. N : s[i] \in P BY <1>1, <1>2, ElementOfSeq
<1>4. PICK a : a = SubSeq(s, 1, k) OBVIOUS
<1>5. PICK b : b = SubSeq(s, k + 1, N) OBVIOUS
<1>6. a \in Seq(P) BY <1>2, <1>3, <1>4, SubSeqProperties
<1>7. b \in Seq(P) /\ Len(b) = N - k
  <2>1. \A i \in k + 1 .. N : s[i] \in P BY <1>2, <1>3
  <2>2. b \in Seq(P) /\ Len(b) = IF k + 1 <= N THEN N - (k + 1) + 1 ELSE 0
    BY <1>2, <1>5, <2>1, SubSeqProperties
  <2> QED BY <1>2, <2>2
<1>8. a \o b = s
  <2>1. 1 \in 1 .. N + 1 /\ k \in 1 - 1 .. N /\ N \in k .. N BY <1>2
  <2>2. SubSeq(s, 1, k) \o SubSeq(s, k + 1, N) = SubSeq(s, 1, N)
    BY <1>2, <1>3, <2>1, ConcatAdjacentSubSeq
  <2>3. SubSeq(s, 1, N) = s BY <1>2, <1>3, SubSeqFull
  <2> QED BY <1>4, <1>5, <2>2, <2>3
<1>9. FlattenSeq(a \o b) = FlattenSeq(a) \o FlattenSeq(b) BY <1>1, <1>6, <1>7, FlattenConcat
<1> QED BY <1>1, <1>2, <1>4, <1>5, <1>6, <1>7, <1>8, <1>9

(* The first k buffers are the first k - 1 and the k-th. *)
LEMMA FlattenFirst ==
    ASSUME NEW S, NEW s \in Seq(Seq(S)), NEW k \in 1 .. Len(s)
    PROVE  /\ FlattenSeq(SubSeq(s, 1, k)) = FlattenSeq(SubSeq(s, 1, k - 1)) \o s[k]
           /\ FlattenSeq(SubSeq(s, 1, k - 1)) \in Seq(S) /\ s[k] \in Seq(S)
           /\ FlattenSeq(SubSeq(s, 1, k)) \in Seq(S)
           /\ Len(FlattenSeq(SubSeq(s, 1, k))) = Len(FlattenSeq(SubSeq(s, 1, k - 1))) + Len(s[k])
<1>1. PICK P : P = Seq(S) OBVIOUS
<1>2. PICK N \in Nat : N = Len(s) BY LenProperties
<1>3. s \in Seq(P) /\ s[k] \in P BY <1>1, ElementOfSeq
<1>4. k \in 1 .. N /\ k - 1 \in 0 .. N /\ k \in 0 .. N /\ 1 \in 1 .. N /\ k \in 1 .. k BY <1>2
<1>5. PICK a : a = SubSeq(s, 1, k - 1) OBVIOUS
<1>6. PICK b : b = SubSeq(s, 1, k) OBVIOUS
<1>7. a \in Seq(P) /\ b \in Seq(P) BY <1>1, <1>2, <1>4, <1>5, <1>6, FlattenCut
<1>8. b = a \o <<s[k]>>
  BY <1>2, <1>3, <1>4, <1>5, <1>6, SubSeqRecursiveSecond
<1>9. b = Append(a, s[k]) BY <1>3, <1>7, <1>8, AppendIsConcat
<1>10. FlattenSeq(b) = FlattenSeq(a) \o s[k] BY <1>1, <1>3, <1>7, <1>9, FlattenAppend
<1>11. FlattenSeq(a) \in Seq(S) /\ FlattenSeq(b) \in Seq(S) /\ s[k] \in Seq(S) BY <1>1, <1>3, <1>7, FlattenType
<1>12. Len(FlattenSeq(b)) = Len(FlattenSeq(a)) + Len(s[k])
  <2>1. PICK x \in Seq(S) : x = FlattenSeq(a) BY <1>11
  <2>2. PICK y \in Seq(S) : y = s[k] BY <1>11
  <2>3. Len(x \o y) = Len(x) + Len(y) BY ConcatProperties
  <2> QED BY <1>10, <2>1, <2>2, <2>3
<1> QED BY <1>5, <1>6, <1>10, <1>11, <1>12

-----------------------------------------------------------------------------
(* The inbound side: peerVars, readVars and pc. *)

Steps == Running \cup {"parked", "closed", "panicked"}

ReadType ==
    /\ pc \in Steps
    /\ traffic \in Traffic /\ eof \in BOOLEAN
    /\ taken \in Nat /\ arrived \in Nat /\ taken <= arrived /\ arrived <= Len(wire)
    /\ receive_buffer \in Seq(Nat)
    /\ unread \in Nat /\ unread <= Len(receive_buffer) /\ unread <= taken
    /\ cursor \in Nat
    /\ dispatched \in Seq(Seq(Nat))

(* Only a decode pass, or what ended it for good, leaves the cursor inside the buffer. *)
CursorReset == pc \notin {"decode", "closed", "panicked"} => cursor = 0

(* A cursor beyond the bytes read comes from a frame that claims too much. *)
OnlyOverPasses ==
    unread < cursor \/ pc = "panicked" => \E i \in DOMAIN wire : wire[i].kind = "over"

ReceiveBounded == Len(receive_buffer) < MaxBuffer + Increment

ReadInv ==
    /\ ReadType /\ CursorReset /\ OnlyOverPasses /\ ReceiveBounded
    /\ BytesInStep /\ DispatchedInOrder

FrameByte == [kind : Kinds, size : Nat \ {0}] \cup {Body}

(* The bytes of the peer. *)
LEMMA WireType ==
    ASSUME traffic \in Traffic
    PROVE  /\ wire \in Seq(FrameByte) /\ WellFramed(wire)
           /\ Len(wire) \in Nat /\ DOMAIN wire = 1 .. Len(wire)
           /\ \A i \in DOMAIN wire : wire[i].size \in Nat
           /\ \A i \in DOMAIN wire : wire[i] # Body => wire[i].kind \in Kinds /\ wire[i].size > 0
<1>1. wire \in Seq(FrameByte) /\ WellFramed(wire)
  BY ConnectionAssumption DEF wire, FrameByte
<1>2. Len(wire) \in Nat /\ DOMAIN wire = 1 .. Len(wire) BY <1>1, LenProperties
<1>3. ASSUME NEW i \in DOMAIN wire PROVE wire[i] \in FrameByte BY <1>1, <1>2, ElementOfSeq
<1>4. \A b \in FrameByte : b.size \in Nat /\ (b # Body => b.kind \in Kinds /\ b.size > 0)
  BY DEF FrameByte, Body
<1> QED BY <1>1, <1>2, <1>3, <1>4

(* Where the cursor is in the peer's stream. *)
Position == taken - unread + cursor

(* The decoder looks at the frame that begins at the cursor's place in the stream. *)
LEMMA FrameAtPosition ==
    ASSUME ReadType, BytesInStep, cursor < unread
    PROVE  /\ Position + 1 \in DOMAIN wire
           /\ receive_buffer[cursor + 1] = Position + 1
           /\ Frame = wire[Position + 1]
<1>1. cursor + 1 \in 1 .. unread BY DEF ReadType
<1>2. receive_buffer[cursor + 1] = Position + 1 BY <1>1 DEF BytesInStep, Position, ReadType
<1>3. Position + 1 \in 1 .. taken BY DEF ReadType, Position
<1>4. Position + 1 \in DOMAIN wire BY <1>3, WireType DEF ReadType
<1>5. Position + 1 # 0 BY <1>3 DEF ReadType
<1> QED BY <1>2, <1>4, <1>5 DEF Frame

(* The buffer after the resize. *)
LEMMA GrownType ==
    ASSUME ReadType, ReceiveBounded
    PROVE  /\ Grown \in Seq(Nat)
           /\ Len(receive_buffer) <= Len(Grown) /\ Len(Grown) < MaxBuffer + Increment
           /\ \A i \in 1 .. Len(receive_buffer) : Grown[i] = receive_buffer[i]
           /\ DOMAIN Grown = 1 .. Len(Grown) /\ Len(Grown) \in Nat
<1> DEFINE zeros == [i \in 1 .. Increment |-> 0]
<1>1. Increment \in Nat /\ MaxBuffer \in Nat /\ Increment > 0 BY ConnectionAssumption
<1>2. receive_buffer \in Seq(Nat) /\ Len(receive_buffer) \in Nat BY LenProperties DEF ReadType
<1>3. zeros \in Seq(Nat) /\ Len(zeros) = Increment
  BY <1>1
<1>4. /\ receive_buffer \o zeros \in Seq(Nat)
      /\ Len(receive_buffer \o zeros) = Len(receive_buffer) + Increment
      /\ \A i \in 1 .. Len(receive_buffer) : (receive_buffer \o zeros)[i] = receive_buffer[i]
  BY <1>1, <1>2, <1>3, ConcatProperties
<1>5. CASE MayGrow /\ Len(receive_buffer) - unread < Increment
  <2>1. Grown = receive_buffer \o zeros BY <1>5 DEF Grown
  <2>2. Len(receive_buffer) < MaxBuffer BY <1>5 DEF MayGrow
  <2>3. Grown \in Seq(Nat) BY <1>4, <2>1
  <2> HIDE DEF zeros
  <2> QED BY <1>1, <1>2, <1>4, <2>1, <2>2, <2>3, LenProperties
<1>6. CASE ~(MayGrow /\ Len(receive_buffer) - unread < Increment)
  <2>1. Grown = receive_buffer BY <1>6 DEF Grown
  <2> QED BY <1>2, <2>1, LenProperties DEF ReceiveBounded
<1> QED BY <1>5, <1>6

(* What the invariant says of the bytes, for steps that leave the stream's place alone. *)
LEMMA SamePlace ==
    ASSUME ReadInv, UNCHANGED <<traffic, dispatched>>,
           taken' - unread' + cursor' = taken - unread + cursor,
           cursor <= unread
    PROVE  DispatchedInOrder'
BY DEF ReadInv, DispatchedInOrder, MessagesBefore, wire

(* A read of n bytes: they extend the stretch of the stream that is unread. *)
LEMMA ReadSomeInv ==
    ASSUME ReadInv, NEW n \in 1 .. Space, ReadSome(n)
    PROVE  ReadInv'
<1> USE DEF ReadInv, peerVars
<1>1. /\ traffic \in Traffic /\ taken \in Nat /\ arrived \in Nat /\ unread \in Nat /\ cursor = 0
      /\ unread <= Len(receive_buffer) /\ unread <= taken /\ n <= arrived - taken /\ n \in Nat
  BY GrownType DEF ReadSome, ReadType, CursorReset, Space
<1>2. /\ Grown \in Seq(Nat) /\ Len(Grown) \in Nat /\ DOMAIN Grown = 1 .. Len(Grown)
      /\ Len(receive_buffer) <= Len(Grown) /\ Len(Grown) < MaxBuffer + Increment
      /\ \A i \in 1 .. Len(receive_buffer) : Grown[i] = receive_buffer[i]
      /\ \A i \in 1 .. Len(Grown) : Grown[i] \in Nat
  BY GrownType, ElementOfSeq
<1>3. unread + n <= Len(Grown) BY <1>1, <1>2 DEF Space
<1>4. /\ pc' = "decode" /\ unread' = unread + n /\ taken' = taken + n /\ cursor' = 0
      /\ UNCHANGED <<traffic, arrived, eof, dispatched>>
  BY DEF ReadSome, Goto
<1>5. receive_buffer' = [i \in 1 .. Len(Grown) |->
                            IF unread < i /\ i <= unread + n THEN taken + (i - unread) ELSE Grown[i]]
  BY <1>2 DEF ReadSome
<1>6. receive_buffer' \in Seq(Nat) /\ Len(receive_buffer') = Len(Grown)
  <2>1. \A i \in 1 .. Len(Grown) :
           (IF unread < i /\ i <= unread + n THEN taken + (i - unread) ELSE Grown[i]) \in Nat
    BY <1>1, <1>2
  <2> QED BY <1>2, <1>5, <2>1
<1>7. ReadType' BY <1>1, <1>2, <1>3, <1>4, <1>6 DEF ReadType, Steps, Running, wire
<1>8. BytesInStep'
  <2> SUFFICES ASSUME NEW i \in 1 .. unread + n PROVE receive_buffer'[i] = taken - unread + i
    BY <1>1, <1>4 DEF BytesInStep
  <2>1. i \in 1 .. Len(Grown) BY <1>1, <1>2, <1>3
  <2>2. CASE unread < i BY <1>1, <1>5, <2>1, <2>2
  <2>3. CASE i <= unread
    <3>1. i \in 1 .. Len(receive_buffer) /\ i \in 1 .. unread BY <1>1, <2>3, LenProperties DEF ReadType
    <3>2. receive_buffer'[i] = receive_buffer[i] BY <1>1, <1>2, <1>5, <2>1, <2>3, <3>1
    <3> QED BY <1>1, <3>1, <3>2 DEF BytesInStep
  <2> QED BY <1>1, <2>2, <2>3
<1>9. DispatchedInOrder' BY <1>1, <1>4, SamePlace
<1>10. CursorReset' /\ OnlyOverPasses' /\ ReceiveBounded'
  BY <1>1, <1>2, <1>4, <1>6 DEF CursorReset, OnlyOverPasses, ReceiveBounded, wire
<1> QED BY <1>7, <1>8, <1>9, <1>10

(* A read without bytes may still have grown the buffer. *)
LEMMA ReadNothingInv ==
    ASSUME ReadInv, ReadNothing, pc' \in {"decode", "reactor", "closed"}
    PROVE  ReadInv'
<1> USE DEF ReadInv, peerVars
<1>1. /\ taken \in Nat /\ unread \in Nat /\ cursor = 0
      /\ unread <= Len(receive_buffer) /\ unread <= taken /\ Len(receive_buffer) \in Nat
  BY LenProperties DEF ReadNothing, ReadType, CursorReset
<1>2. /\ receive_buffer' = Grown /\ cursor' = 0
      /\ UNCHANGED <<traffic, arrived, eof, taken, unread, dispatched>>
  BY DEF ReadNothing
<1>3. ReadType' BY <1>1, <1>2, GrownType DEF ReadType, Steps, Running, wire
<1>4. BytesInStep'
  <2> SUFFICES ASSUME NEW i \in 1 .. unread PROVE Grown[i] = taken - unread + i
    BY <1>2 DEF BytesInStep
  <2>1. i \in 1 .. Len(receive_buffer) BY <1>1
  <2> QED BY <2>1, GrownType DEF BytesInStep
<1>5. DispatchedInOrder' BY <1>1, <1>2, SamePlace
<1>6. CursorReset' /\ OnlyOverPasses' /\ ReceiveBounded'
  BY <1>1, <1>2, GrownType DEF CursorReset, OnlyOverPasses, ReceiveBounded, wire
<1> QED BY <1>3, <1>4, <1>5, <1>6

(* The compaction keeps the stretch from the cursor on. *)
LEMMA EndPassInv ==
    ASSUME ReadInv, EndPass, cursor <= unread
    PROVE  ReadInv'
<1> USE DEF ReadInv, peerVars
<1>1. /\ taken \in Nat /\ unread \in Nat /\ cursor \in Nat
      /\ unread <= Len(receive_buffer) /\ unread <= taken /\ Len(receive_buffer) \in Nat
      /\ DOMAIN receive_buffer = 1 .. Len(receive_buffer)
      /\ \A i \in 1 .. Len(receive_buffer) : receive_buffer[i] \in Nat
  BY LenProperties, ElementOfSeq DEF ReadType
<1>2. /\ unread' = unread - cursor /\ cursor' = 0 /\ pc' = "read"
      /\ receive_buffer' = [i \in 1 .. Len(receive_buffer) |-> Moved(i)]
      /\ UNCHANGED <<traffic, arrived, eof, taken, dispatched>>
  BY <1>1 DEF EndPass, Goto
<1>3. \A i \in 1 .. Len(receive_buffer) : Moved(i) \in Nat BY <1>1 DEF Moved
<1>4. receive_buffer' \in Seq(Nat) /\ Len(receive_buffer') = Len(receive_buffer)
  BY <1>1, <1>2, <1>3
<1>5. ReadType' BY <1>1, <1>2, <1>4 DEF ReadType, Steps, Running, wire
<1>6. BytesInStep'
  <2> SUFFICES ASSUME NEW i \in 1 .. unread - cursor
               PROVE  receive_buffer'[i] = taken - (unread - cursor) + i
    BY <1>2 DEF BytesInStep
  <2>1. i \in 1 .. Len(receive_buffer) /\ i + cursor \in 1 .. unread BY <1>1
  <2>2. receive_buffer'[i] = receive_buffer[i + cursor] BY <1>1, <1>2, <2>1 DEF Moved
  <2>3. receive_buffer[i + cursor] = taken - unread + (i + cursor) BY <2>1 DEF BytesInStep
  <2> QED BY <1>1, <2>1, <2>2, <2>3
<1>7. DispatchedInOrder' BY <1>1, <1>2, SamePlace
<1>8. CursorReset' /\ OnlyOverPasses' /\ ReceiveBounded'
  BY <1>1, <1>2, <1>4 DEF CursorReset, OnlyOverPasses, ReceiveBounded, wire
<1> QED BY <1>5, <1>6, <1>7, <1>8

(* Passing a whole frame passes no other message than its own. *)
LEMMA MessagesPassed ==
    ASSUME traffic \in Traffic, NEW p \in Nat, p + 1 \in DOMAIN wire,
           p + wire[p + 1].size <= Len(wire), wire[p + 1].size > 0
    PROVE  MessagesBefore(p + wire[p + 1].size) =
               MessagesBefore(p) \cup (IF wire[p + 1].kind = "msg" THEN {p + 1} ELSE {})
<1> DEFINE z == wire[p + 1].size
<1>1. z \in Nat /\ z > 0 /\ p + z <= Len(wire) /\ WellFramed(wire) /\ DOMAIN wire = 1 .. Len(wire) /\ Len(wire) \in Nat
  BY WireType
<1>2. ASSUME NEW i \in p + 2 .. p + z PROVE wire[i].kind # "msg"
  <2>1. i \in DOMAIN wire /\ p + 1 < i /\ i < (p + 1) + z BY <1>1
  <2>2. wire[i] = Body BY <1>1, <2>1 DEF WellFramed
  <2> QED BY <2>2 DEF Body
<1> HIDE DEF z
<1>3. \A i \in 1 .. p + z : i \in 1 .. p \/ i = p + 1 \/ i \in p + 2 .. p + z BY <1>1
<1>4. p + 1 \in 1 .. p + z /\ \A i \in 1 .. p : i \in 1 .. p + z BY <1>1
<1>5. MessagesBefore(p + z) = MessagesBefore(p) \cup (IF wire[p + 1].kind = "msg" THEN {p + 1} ELSE {})
  BY <1>2, <1>3, <1>4 DEF MessagesBefore
<1> QED BY <1>5 DEF z

(* A whole message is handed over: the bytes of its frame, after those of earlier frames. *)
LEMMA ReactInv ==
    ASSUME ReadInv, Whole, React(Length), pc' \in {"decode", "closed"}
    PROVE  ReadInv'
<1> USE DEF ReadInv, peerVars
<1>1. /\ taken \in Nat /\ unread \in Nat /\ cursor \in Nat /\ traffic \in Traffic
      /\ unread <= Len(receive_buffer) /\ unread <= taken /\ Len(receive_buffer) \in Nat
      /\ taken <= Len(wire) /\ dispatched \in Seq(Seq(Nat)) /\ Len(wire) \in Nat
      /\ \A i \in 1 .. Len(receive_buffer) : receive_buffer[i] \in Nat
  BY LenProperties, ElementOfSeq, WireType DEF ReadType
<1>2. cursor < unread /\ Frame.size <= unread - cursor /\ Frame.kind = "msg"
  BY DEF Whole, Decoding, AtFrame, Available
<1>3. PICK p \in Nat : p = Position BY <1>1 DEF Position
<1>4. /\ p + 1 \in DOMAIN wire /\ Frame = wire[p + 1] /\ p = taken - unread + cursor
  BY <1>2, <1>3, FrameAtPosition DEF Position
<1>5. PICK z \in Nat : z = Frame.size /\ z > 0
  <2>1. wire[p + 1] # Body BY <1>2, <1>4 DEF Body
  <2> QED BY <1>1, <1>4, <2>1, WireType
<1>6. z <= unread - cursor /\ wire[p + 1].size = z /\ wire[p + 1].kind = "msg" BY <1>2, <1>4, <1>5
<1>7. PICK frame : frame = SubSeq(receive_buffer, cursor + 1, cursor + z) OBVIOUS
<1>8. /\ cursor' = cursor + z /\ dispatched' = Append(dispatched, frame)
      /\ UNCHANGED <<traffic, arrived, eof, taken, receive_buffer, unread>>
  <2>1. Least(cursor + z, unread) = cursor + z BY <1>1, <1>6 DEF Least
  <2> QED BY <1>5, <1>7, <2>1 DEF React, Length
<1>9. /\ frame \in Seq(Nat) /\ Len(frame) = z
      /\ \A i \in 1 .. z : frame[i] = receive_buffer[cursor + i]
  <2>1. \A i \in cursor + 1 .. cursor + z : receive_buffer[i] \in Nat BY <1>1, <1>6
  <2>2. /\ frame \in Seq(Nat) /\ Len(frame) = z
        /\ \A i \in 1 .. z : frame[i] = receive_buffer[(cursor + 1) + i - 1]
    BY <1>1, <1>7, <2>1, SubSeqProperties
  <2> QED BY <1>1, <2>2
<1>10. frame = [i \in 1 .. z |-> (p + 1) + i - 1] /\ frame[1] = p + 1
  <2>1. ASSUME NEW i \in 1 .. z PROVE frame[i] = (p + 1) + i - 1
    <3>1. cursor + i \in 1 .. unread BY <1>1, <1>6
    <3>2. receive_buffer[cursor + i] = taken - unread + (cursor + i) BY <3>1 DEF BytesInStep
    <3> QED BY <1>1, <1>4, <1>9, <3>2
  <2>2. DOMAIN frame = 1 .. z /\ frame = [i \in DOMAIN frame |-> frame[i]] BY <1>9, LenProperties
  <2>3. frame[1] = (p + 1) + 1 - 1 BY <1>5, <2>1
  <2> QED BY <2>1, <2>2, <2>3
<1>11. ReadType'
  <2>1. dispatched' \in Seq(Seq(Nat)) BY <1>1, <1>8, <1>9, AppendProperties
  <2> QED BY <1>1, <1>8, <2>1 DEF ReadType, Steps, Running, wire
<1>12. BytesInStep' BY <1>8 DEF BytesInStep
<1>13. DispatchedInOrder'
  <2>1. PICK N \in Nat : N = Len(dispatched) BY <1>1, LenProperties
  <2>2. /\ DOMAIN dispatched = 1 .. N /\ DOMAIN dispatched' = 1 .. N + 1
        /\ \A k \in 1 .. N : dispatched'[k] = dispatched[k]
        /\ dispatched'[N + 1] = frame
    <3>1. Len(dispatched') = N + 1 /\ dispatched' \in Seq(Seq(Nat))
      BY <1>1, <1>8, <1>9, <2>1, AppendProperties
    <3> QED BY <1>1, <1>8, <1>9, <2>1, <3>1, LenProperties, AppendProperties
  <2>3. /\ {dispatched[k][1] : k \in 1 .. N} = MessagesBefore(p)
        /\ \A k \in 1 .. N : dispatched[k] = [i \in 1 .. wire[dispatched[k][1]].size |-> dispatched[k][1] + i - 1]
        /\ \A j, k \in 1 .. N : j < k => dispatched[j][1] < dispatched[k][1]
    <3>1. cursor <= unread /\ DispatchedInOrder BY <1>1, <1>2
    <3>2. /\ {dispatched[k][1] : k \in DOMAIN dispatched} = MessagesBefore(taken - unread + cursor)
          /\ \A k \in DOMAIN dispatched : dispatched[k] = [i \in 1 .. wire[dispatched[k][1]].size |-> dispatched[k][1] + i - 1]
          /\ \A j, k \in DOMAIN dispatched : j < k => dispatched[j][1] < dispatched[k][1]
      BY <3>1, Zenon DEF DispatchedInOrder
    <3> QED BY <1>4, <2>2, <3>2
  <2>4. MessagesBefore(p + z) = MessagesBefore(p) \cup {p + 1}
    <3>1. p + z <= Len(wire) BY <1>1, <1>4, <1>6
    <3> QED BY <1>1, <1>4, <1>5, <1>6, <3>1, MessagesPassed
  <2>5. /\ taken' - unread' + cursor' = p + z
        /\ MessagesBefore(p + z)' = MessagesBefore(p + z)
    <3>1. taken' - unread' + cursor' = p + z BY <1>1, <1>4, <1>8
    <3>2. wire' = wire BY <1>8 DEF wire
    <3> QED BY <3>1, <3>2 DEF MessagesBefore
  <2>6. {dispatched'[k][1] : k \in DOMAIN dispatched'} = MessagesBefore(p + z)
    <3>1. {dispatched'[k][1] : k \in 1 .. N + 1} = {dispatched[k][1] : k \in 1 .. N} \cup {frame[1]}
      <4>1. 1 .. N + 1 = 1 .. N \cup {N + 1} OBVIOUS
      <4> QED BY <2>2, <4>1
    <3> QED BY <1>10, <2>2, <2>3, <2>4, <3>1
  <2>7. \A k \in 1 .. N : dispatched[k][1] < p + 1
    <3>1. ASSUME NEW k \in 1 .. N PROVE dispatched[k][1] \in 1 .. p BY <2>3 DEF MessagesBefore
    <3> QED BY <3>1
  <2>8. \A k \in DOMAIN dispatched' :
            dispatched'[k] = [i \in 1 .. wire[dispatched'[k][1]].size |-> dispatched'[k][1] + i - 1]
    <3>1. ASSUME NEW k \in 1 .. N
          PROVE dispatched'[k] = [i \in 1 .. wire[dispatched'[k][1]].size |-> dispatched'[k][1] + i - 1]
      BY <2>2, <2>3
    <3>2. dispatched'[N + 1] = [i \in 1 .. wire[dispatched'[N + 1][1]].size |-> dispatched'[N + 1][1] + i - 1]
      BY <1>6, <1>10, <2>2
    <3>3. \A k \in 1 .. N + 1 : k \in 1 .. N \/ k = N + 1 OBVIOUS
    <3> QED BY <2>2, <3>1, <3>2, <3>3
  <2>9. \A j, k \in DOMAIN dispatched' : j < k => dispatched'[j][1] < dispatched'[k][1]
    <3> SUFFICES ASSUME NEW j \in 1 .. N + 1, NEW k \in 1 .. N + 1, j < k
                 PROVE  dispatched'[j][1] < dispatched'[k][1]
      BY <2>2
    <3>1. j \in 1 .. N OBVIOUS
    <3>2. CASE k = N + 1 BY <1>10, <2>2, <2>7, <3>1, <3>2
    <3>3. CASE k # N + 1
      <4>1. k \in 1 .. N BY <3>3
      <4> QED BY <2>2, <2>3, <3>1, <4>1
    <3> QED BY <3>2, <3>3
  <2>10. wire' = wire BY <1>8 DEF wire
  <2>11. {dispatched'[k][1] : k \in DOMAIN dispatched'} = MessagesBefore(taken - unread + cursor)'
    BY <2>5, <2>6
  <2> QED BY <2>8, <2>9, <2>10, <2>11 DEF DispatchedInOrder
<1>14. OnlyOverPasses'
  <2>1. cursor' <= unread' /\ wire' = wire /\ pc' # "panicked" BY <1>1, <1>6, <1>8 DEF wire
  <2> QED BY <1>1, <1>8, <2>1 DEF OnlyOverPasses
<1>15. CursorReset' /\ ReceiveBounded' BY <1>8 DEF CursorReset, ReceiveBounded
<1> QED BY <1>11, <1>12, <1>13, <1>14, <1>15

(* A decoder that claims a byte too many leaves the cursor beyond what was read. *)
LEMMA DecodeOverInv ==
    ASSUME ReadInv, DecodeOver
    PROVE  ReadInv'
<1> USE DEF ReadInv, peerVars
<1>1. /\ unread \in Nat /\ cursor \in Nat /\ cursor < unread /\ unread <= Len(receive_buffer)
      /\ Len(receive_buffer) \in Nat /\ dispatched \in Seq(Seq(Nat))
      /\ \A i \in 1 .. Len(receive_buffer) : receive_buffer[i] \in Nat
  BY LenProperties, ElementOfSeq DEF ReadType, DecodeOver, Decoding, AtFrame
<1>2. /\ pc' = "decode" /\ cursor' = cursor + ((unread - cursor) + 1)
      /\ dispatched' = Append(dispatched, SubSeq(receive_buffer, cursor + 1, Least(cursor + ((unread - cursor) + 1), unread)))
      /\ UNCHANGED <<traffic, arrived, eof, taken, receive_buffer, unread>>
  BY DEF DecodeOver, React, Available, Goto
<1>3. cursor' = unread + 1 /\ Least(cursor + ((unread - cursor) + 1), unread) = unread BY <1>1, <1>2 DEF Least
<1>4. SubSeq(receive_buffer, cursor + 1, unread) \in Seq(Nat)
  <2>1. \A i \in cursor + 1 .. unread : receive_buffer[i] \in Nat BY <1>1
  <2> QED BY <1>1, <2>1, SubSeqProperties
<1>5. dispatched' \in Seq(Seq(Nat)) BY <1>1, <1>2, <1>3, <1>4, AppendProperties
<1>6. \E i \in DOMAIN wire : wire[i].kind = "over"
  <2>1. Frame.kind = "over" BY DEF DecodeOver, Decoding
  <2> QED BY <1>1, <2>1, FrameAtPosition
<1>7. ReadType' BY <1>1, <1>2, <1>3, <1>5 DEF ReadType, Steps, Running, wire
<1>8. BytesInStep' BY <1>2 DEF BytesInStep
<1>9. DispatchedInOrder' BY <1>1, <1>2, <1>3 DEF DispatchedInOrder
<1>10. CursorReset' /\ OnlyOverPasses' /\ ReceiveBounded'
  BY <1>2, <1>6 DEF CursorReset, OnlyOverPasses, ReceiveBounded, wire
<1> QED BY <1>7, <1>8, <1>9, <1>10

(* A frame that is skipped is no message. *)
LEMMA DecodeSkipInv ==
    ASSUME ReadInv, DecodeSkip
    PROVE  ReadInv'
<1> USE DEF ReadInv, peerVars
<1> DEFINE z == Frame.size
<1>1. /\ taken \in Nat /\ unread \in Nat /\ cursor \in Nat /\ traffic \in Traffic
      /\ unread <= taken /\ taken <= Len(wire) /\ Len(wire) \in Nat
  BY WireType DEF ReadType
<1>2. cursor < unread /\ z <= unread - cursor /\ Frame.kind = "skip"
  BY DEF DecodeSkip, CanSkip, Decoding, AtFrame, Available
<1>3. Position + 1 \in DOMAIN wire /\ Frame = wire[Position + 1] BY <1>2, FrameAtPosition
<1>4. z \in Nat /\ z > 0 BY <1>1, <1>2, <1>3, WireType DEF Body
<1>5. /\ pc' = "decode" /\ cursor' = cursor + z
      /\ UNCHANGED <<traffic, arrived, eof, taken, receive_buffer, unread, dispatched>>
  BY DEF DecodeSkip, Goto
<1>6. ReadType' BY <1>1, <1>4, <1>5 DEF ReadType, Steps, Running, wire
<1>7. BytesInStep' BY <1>5 DEF BytesInStep
<1>8. DispatchedInOrder'
  <2>1. PICK p \in Nat : p = Position /\ p = taken - unread + cursor BY <1>1 DEF Position
  <2>2. PICK size \in Nat : size = z /\ size > 0 BY <1>4
  <2> HIDE DEF z
  <2>3. p + size <= Len(wire) /\ cursor <= unread BY <1>1, <1>2, <2>1, <2>2
  <2>4. wire[p + 1].size = size /\ wire[p + 1].kind = "skip" /\ p + 1 \in DOMAIN wire
    BY <1>2, <1>3, <2>1, <2>2 DEF z
  <2>5. MessagesBefore(p + size) = MessagesBefore(p) BY <1>1, <2>2, <2>3, <2>4, MessagesPassed
  <2>6. taken' - unread' + cursor' = p + size BY <1>1, <1>5, <2>1, <2>2
  <2>7. wire' = wire BY <1>5 DEF wire
  <2>8. MessagesBefore(p + size)' = MessagesBefore(p) BY <2>5, <2>7 DEF MessagesBefore
  <2> QED BY <1>5, <2>1, <2>3, <2>6, <2>7, <2>8 DEF DispatchedInOrder
<1>9. CursorReset' /\ OnlyOverPasses' /\ ReceiveBounded'
  BY <1>1, <1>2, <1>4, <1>5 DEF CursorReset, OnlyOverPasses, ReceiveBounded, wire
<1> QED BY <1>6, <1>7, <1>8, <1>9

(* Steps elsewhere: the inbound side stays as it is. *)
LEMMA ReadElsewhere ==
    ASSUME ReadInv, UNCHANGED <<traffic, readVars>>,
           taken <= arrived', arrived' \in Nat, arrived' <= Len(wire), eof' \in BOOLEAN,
           \/ pc' = pc
           \/ pc \notin {"decode", "closed", "panicked"} /\ pc' \in Steps \ {"panicked"}
           \/ pc' = "closed"
           \/ pc' = "panicked" /\ unread < cursor
    PROVE  ReadInv'
<1> USE DEF ReadInv, readVars
<1>1. ReadType' BY DEF ReadType, wire, Steps, Running
<1>2. BytesInStep' /\ ReceiveBounded' BY DEF BytesInStep, ReceiveBounded
<1>3. DispatchedInOrder' BY DEF DispatchedInOrder, MessagesBefore, wire
<1>4. CursorReset' /\ OnlyOverPasses' BY DEF CursorReset, OnlyOverPasses, wire
<1> QED BY <1>1, <1>2, <1>3, <1>4

(* Before the first poll the receive buffer is empty. *)
LEMMA ReadInit == Init => ReadInv
<1> SUFFICES ASSUME Init PROVE ReadInv OBVIOUS
<1>1. /\ pc = "parked" /\ traffic \in Traffic /\ arrived = 0 /\ eof = FALSE /\ taken = 0
      /\ receive_buffer = <<>> /\ unread = 0 /\ cursor = 0 /\ dispatched = <<>>
  BY DEF Init
<1>2. MaxBuffer \in Nat /\ Increment \in Nat /\ Increment > 0 BY ConnectionAssumption
<1>3. Len(wire) \in Nat BY <1>1, WireType
<1>4. ReadType
  <2>1. receive_buffer \in Seq(Nat) /\ Len(receive_buffer) = 0 /\ dispatched \in Seq(Seq(Nat))
    BY <1>1, EmptySeq
  <2>2. eof \in BOOLEAN /\ pc \in Steps BY <1>1 DEF Steps
  <2>3. taken \in Nat /\ arrived \in Nat /\ taken <= arrived /\ arrived <= Len(wire)
    BY <1>1, <1>3
  <2>4. unread \in Nat /\ unread <= Len(receive_buffer) /\ unread <= taken /\ cursor \in Nat
    BY <1>1, <2>1
  <2> QED BY <1>1, <2>1, <2>2, <2>3, <2>4 DEF ReadType
<1>5. CursorReset /\ OnlyOverPasses BY <1>1 DEF CursorReset, OnlyOverPasses
<1>6. ReceiveBounded /\ BytesInStep BY <1>1, <1>2 DEF ReceiveBounded, BytesInStep
<1>7. DispatchedInOrder
  <2>1. DOMAIN dispatched = {} BY <1>1
  <2>2. MessagesBefore(taken - unread + cursor) = {} BY <1>1 DEF MessagesBefore
  <2> QED BY <2>1, <2>2 DEF DispatchedInOrder
<1> QED BY <1>4, <1>5, <1>6, <1>7 DEF ReadInv

(* Every step keeps the inbound side in step. *)
LEMMA ReadNext == ReadInv /\ [Next]_vars => ReadInv'
<1> SUFFICES ASSUME ReadInv, [Next]_vars PROVE ReadInv' OBVIOUS
<1>1. /\ arrived \in Nat /\ taken \in Nat /\ taken <= arrived /\ arrived <= Len(wire)
      /\ eof \in BOOLEAN /\ unread \in Nat /\ cursor \in Nat
      /\ Len(wire) \in Nat /\ pc \in Steps /\ "closed" \in Steps
  BY WireType DEF ReadInv, ReadType, Steps
<1>2. ASSUME UNCHANGED inbound,
             \/ pc' = pc
             \/ pc \notin {"decode", "closed", "panicked"} /\ pc' \in Steps \ {"panicked"}
             \/ pc' = "closed"
             \/ pc' = "panicked" /\ unread < cursor
      PROVE  ReadInv'
  BY <1>1, <1>2, ReadElsewhere DEF inbound, peerVars
<1>3. ASSUME Environment PROVE ReadInv'
  <2>1. CASE PeerSends
    BY <1>1, <2>1, ReadElsewhere DEF PeerSends, Wake
  <2>2. CASE PeerCloses
    BY <1>1, <2>2, ReadElsewhere DEF PeerCloses, Wake
  <2>3. CASE PeerReads BY <1>2, <2>3 DEF PeerReads, Wake
  <2>4. CASE QueueSend BY <1>2, <2>4 DEF QueueSend, Wake
  <2>5. CASE QueueClose BY <1>2, <2>5 DEF QueueClose, Wake
  <2>6. CASE ReactorMakes BY <1>2, <2>6 DEF ReactorMakes, Wake
  <2>7. CASE ReactorExhausts BY <1>2, <2>7 DEF ReactorExhausts, Wake
  <2> QED BY <1>3, <2>1, <2>2, <2>3, <2>4, <2>5, <2>6, <2>7 DEF Environment
<1>4. ASSUME Receive PROVE ReadInv'
  <2>1. CASE ReadFull
    <3>1. cursor = 0 /\ cursor' = 0 /\ pc = "read" /\ pc' = "decode"
      BY <2>1 DEF ReadFull, Goto, ReadInv, CursorReset
    <3> QED BY <1>2, <2>1, <3>1 DEF ReadFull, inbound, readVars, peerVars, Steps, Running
  <2>2. CASE ReadPending BY <2>2, ReadNothingInv DEF ReadPending, PendingOn
  <2>3. CASE ReadEof BY <2>3, ReadNothingInv DEF ReadEof, CloseFor
  <2>4. CASE ReadInterrupted BY <2>4, ReadNothingInv DEF ReadInterrupted, Goto
  <2>5. CASE ReadError BY <2>5, ReadNothingInv DEF ReadError, CloseFor
  <2>6. ASSUME NEW n \in 1 .. Space, ReadSome(n) PROVE ReadInv' BY <2>6, ReadSomeInv
  <2>7. CASE DecodeMessage BY <2>7, ReactInv DEF DecodeMessage, Goto
  <2>8. CASE DecodeDisconnect BY <2>8, ReactInv DEF DecodeDisconnect, CloseFor
  <2>9. CASE DecodeOver BY <2>9, DecodeOverInv
  <2>10. CASE DecodeWait BY <1>1, <2>10, EndPassInv DEF DecodeWait, Incomplete, AtFrame
  <2>11. CASE DecodeTooLong BY <1>2, <2>11 DEF DecodeTooLong, CloseFor
  <2>12. CASE DecodeInvalid BY <1>2, <2>12 DEF DecodeInvalid, CloseFor
  <2>13. CASE DecodeSkipWait BY <1>1, <2>13, EndPassInv DEF DecodeSkipWait, Decoding, AtFrame
  <2>14. CASE DecodeSkip BY <2>14, DecodeSkipInv
  <2>15. CASE DecodeDone BY <1>1, <2>15, EndPassInv DEF DecodeDone
  <2>16. CASE DecodeBeyond BY <1>2, <2>16 DEF DecodeBeyond, Goto
  <2> QED BY <1>4, <2>1, <2>2, <2>3, <2>4, <2>5, <2>6, <2>7, <2>8, <2>9, <2>10, <2>11, <2>12,
             <2>13, <2>14, <2>15, <2>16 DEF Receive
<1> USE DEF Steps, Running
<1>5. CASE StartPoll BY <1>2, <1>5 DEF StartPoll
<1>6. CASE ReactorPoll BY <1>2, <1>6 DEF ReactorPoll, Round, Goto
<1>7. CASE ReactorBreak BY <1>2, <1>7 DEF ReactorBreak, CloseFor
<1>8. ASSUME Serialize PROVE ReadInv'
  <2>1. CASE SerializeFull BY <1>2, <2>1 DEF SerializeFull, Goto
  <2>2. CASE TakeQueued BY <1>2, <2>2 DEF TakeQueued, PollQueue, Push, Goto
  <2>3. CASE QueuePending BY <1>2, <2>3 DEF QueuePending, PollQueue, PendingOn
  <2>4. CASE QueueNone BY <1>2, <2>4 DEF QueueNone, PollQueue, Goto
  <2>5. ASSUME NEW n, QueueMisses(n) PROVE ReadInv' BY <1>2, <2>5 DEF QueueMisses, PollQueue
  <2>6. ASSUME NEW n \in 1 .. Budget, EmitSome(n) PROVE ReadInv'
    BY <1>2, <2>6 DEF EmitSome, Push, Goto
  <2>7. CASE EmitPending BY <1>2, <2>7 DEF EmitPending, PendingOn
  <2>8. CASE EmitNone BY <1>2, <2>8 DEF EmitNone, CloseFor, Goto
  <2> QED BY <1>8, <2>1, <2>2, <2>3, <2>4, <2>5, <2>6, <2>7, <2>8 DEF Serialize
<1>9. ASSUME Write PROVE ReadInv'
  <2>1. CASE Flush BY <1>2, <2>1 DEF Flush, Goto
  <2>2. CASE WritePending BY <1>2, <2>2 DEF WritePending, PendingOn
  <2>3. CASE WriteZero BY <1>2, <2>3 DEF WriteZero, CloseFor
  <2>4. CASE WriteInterrupted BY <1>2, <2>4 DEF WriteInterrupted, Round, Goto
  <2>5. CASE WriteError BY <1>2, <2>5 DEF WriteError, CloseFor
  <2>6. ASSUME NEW n \in 1 .. room, WriteSome(n) PROVE ReadInv'
    BY <1>2, <2>6 DEF WriteSome, AfterWrite, Round, Goto
  <2> QED BY <1>9, <2>1, <2>2, <2>3, <2>4, <2>5, <2>6 DEF Write
<1>10. CASE UNCHANGED vars BY <1>2, <1>10 DEF vars, taskVars, inbound
<1> QED BY <1>3, <1>4, <1>5, <1>6, <1>7, <1>8, <1>9, <1>10 DEF Next, Task

(* The inbound side holds for every traffic and every size of the buffer. *)
THEOREM InboundInvariant == Spec => []ReadInv
BY ReadInit, ReadNext, PTL DEF Spec

(* However reads, resizes and compactions interleave, the unread stretch of the receive *)
(* buffer is the stretch of the stream read last (poll_read_inbound,                    *)
(* read_inbound_messages_and_react).                                                    *)
THEOREM BytesStayInStep == Spec => []BytesInStep
<1>1. ReadInv => BytesInStep BY DEF ReadInv
<1> QED BY <1>1, InboundInvariant, PTL

(* The reactor is given each message frame of the stream once, whole and in order *)
(* (read_inbound_messages_and_react).                                             *)
THEOREM MessagesInOrder == Spec => []DispatchedInOrder
<1>1. ReadInv => DispatchedInOrder BY DEF ReadInv
<1> QED BY <1>1, InboundInvariant, PTL

(* The slice of the compaction runs backwards only behind a decoder that claimed a byte *)
(* beyond those it was given (read_inbound_messages_and_react).                         *)
THEOREM PanicNeedsOver == Spec => []NoPanic
<1>1. ReadInv => NoPanic BY DEF ReadInv, OnlyOverPasses, NoPanic
<1> QED BY <1>1, InboundInvariant, PTL

-----------------------------------------------------------------------------
(* The outbound side: sourceVars, sendVars and room. *)

Byte == [of : Message, byte : Nat]

(* A message there is a size for. *)
Sized == {m \in Message : m.seq \in DOMAIN (IF m.from = "queue" THEN QueueSizes ELSE ReactorSizes)}

Encoded(ms) == [i \in DOMAIN ms |-> Encode(ms[i])]

SourceType ==
    /\ traffic \in Traffic
    /\ q_sent \in Nat /\ q_taken \in Nat /\ q_taken <= q_sent /\ q_sent <= Len(QueueSizes)
    /\ r_made \in Nat /\ r_taken \in Nat /\ r_taken <= r_made /\ r_made <= Len(ReactorSizes)
    /\ queue_open \in BOOLEAN /\ source_open \in BOOLEAN /\ queue_closed \in BOOLEAN
    /\ room \in Nat /\ room <= Window

BufferType ==
    /\ send_buffer \in Seq(Seq(Byte))
    /\ serialized \in Seq(Sized)
    /\ out \in Seq(Byte)

SendBounded == Len(send_buffer) <= MaxQueued

Bytes == BufferType /\ SendBounded /\ SendIntegrity

SendInv == SourceType /\ Bytes

(* The sizes that a traffic gives its outbound messages. *)
LEMMA SizesType ==
    ASSUME traffic \in Traffic
    PROVE  /\ QueueSizes \in Seq(Nat) /\ Len(QueueSizes) \in Nat /\ DOMAIN QueueSizes = 1 .. Len(QueueSizes)
           /\ ReactorSizes \in Seq(Nat) /\ Len(ReactorSizes) \in Nat /\ DOMAIN ReactorSizes = 1 .. Len(ReactorSizes)
<1>1. QueueSizes \in Seq(Nat) /\ ReactorSizes \in Seq(Nat) BY ConnectionAssumption DEF QueueSizes, ReactorSizes
<1> QED BY <1>1, LenProperties

(* An encoded message is a sequence of bytes. *)
LEMMA EncodeType ==
    ASSUME traffic \in Traffic, NEW m \in Sized
    PROVE  Encode(m) \in Seq(Byte)
<1>1. SizeOf(m) \in Nat
  <2>1. m \in Message /\ m.seq \in DOMAIN (IF m.from = "queue" THEN QueueSizes ELSE ReactorSizes) BY DEF Sized
  <2>2. CASE m.from = "queue" BY <2>1, <2>2, SizesType, ElementOfSeq DEF SizeOf
  <2>3. CASE m.from # "queue" BY <2>1, <2>3, SizesType, ElementOfSeq DEF SizeOf
  <2> QED BY <2>2, <2>3
<1>2. PICK z \in Nat : z = SizeOf(m) BY <1>1
<1>3. m \in Message BY DEF Sized
<1>4. \A k \in 1 .. z : [of |-> m, byte |-> k] \in Byte BY <1>3 DEF Byte
<1>5. [k \in 1 .. z |-> [of |-> m, byte |-> k]] \in Seq(Byte) BY <1>4, IsASeq
<1> QED BY <1>2, <1>5 DEF Encode

(* A buffer for each message. *)
LEMMA EncodedType ==
    ASSUME traffic \in Traffic, NEW ms \in Seq(Sized)
    PROVE  Encoded(ms) \in Seq(Seq(Byte)) /\ Len(Encoded(ms)) = Len(ms)
<1>1. PICK N \in Nat : N = Len(ms) /\ DOMAIN ms = 1 .. N BY LenProperties
<1>2. \A i \in 1 .. N : Encode(ms[i]) \in Seq(Byte) BY <1>1, EncodeType, ElementOfSeq
<1>3. Encoded(ms) = [i \in 1 .. N |-> Encode(ms[i])] BY <1>1 DEF Encoded
<1> QED BY <1>1, <1>2, <1>3

(* Messages are encoded one by one. *)
LEMMA EncodedConcat ==
    ASSUME traffic \in Traffic, NEW a \in Seq(Sized), NEW b \in Seq(Sized)
    PROVE  Encoded(a \o b) = Encoded(a) \o Encoded(b)
<1>1. PICK M \in Nat : M = Len(a) /\ DOMAIN a = 1 .. M BY LenProperties
<1>2. PICK N \in Nat : N = Len(b) /\ DOMAIN b = 1 .. N BY LenProperties
<1>3. PICK c : c = a \o b OBVIOUS
<1>4. /\ c \in Seq(Sized) /\ Len(c) = M + N /\ DOMAIN c = 1 .. M + N
      /\ \A i \in 1 .. M + N : c[i] = IF i <= M THEN a[i] ELSE b[i - M]
  BY <1>1, <1>2, <1>3, ConcatProperties, LenProperties
<1>5. PICK ea : ea = Encoded(a) OBVIOUS
<1>6. PICK eb : eb = Encoded(b) OBVIOUS
<1>7. PICK ec : ec = Encoded(c) OBVIOUS
<1>8. /\ ea \in Seq(Seq(Byte)) /\ Len(ea) = M /\ \A i \in 1 .. M : ea[i] = Encode(a[i])
      /\ eb \in Seq(Seq(Byte)) /\ Len(eb) = N /\ \A i \in 1 .. N : eb[i] = Encode(b[i])
      /\ ec \in Seq(Seq(Byte)) /\ Len(ec) = M + N /\ \A i \in 1 .. M + N : ec[i] = Encode(c[i])
  BY <1>1, <1>2, <1>4, <1>5, <1>6, <1>7, EncodedType DEF Encoded
<1>9. PICK P : P = Seq(Byte) OBVIOUS
<1>10. PICK d : d = ea \o eb OBVIOUS
<1>11. /\ d \in Seq(P) /\ Len(d) = M + N
       /\ \A i \in 1 .. M + N : d[i] = IF i <= M THEN ea[i] ELSE eb[i - M]
  BY <1>8, <1>9, <1>10, ConcatProperties
<1>12. ASSUME NEW i \in 1 .. M + N PROVE ec[i] = d[i]
  <2>1. CASE i <= M
    <3>1. i \in 1 .. M BY <2>1
    <3>2. c[i] = a[i] /\ d[i] = ea[i] BY <1>4, <1>11, <2>1
    <3>3. ec[i] = Encode(c[i]) /\ ea[i] = Encode(a[i]) BY <1>8, <3>1
    <3> QED BY <3>2, <3>3
  <2>2. CASE ~(i <= M)
    <3>1. i - M \in 1 .. N BY <2>2
    <3>2. c[i] = b[i - M] /\ d[i] = eb[i - M] BY <1>4, <1>11, <2>2
    <3>3. ec[i] = Encode(c[i]) /\ eb[i - M] = Encode(b[i - M]) BY <1>8, <3>1
    <3> QED BY <3>2, <3>3
  <2> QED BY <2>1, <2>2
<1>13. ec \in Seq(P) BY <1>8, <1>9
<1>14. ec = d BY <1>8, <1>11, <1>12, <1>13, SeqEqual
<1> QED BY <1>3, <1>5, <1>6, <1>7, <1>10, <1>14

(* One writev gathers a beginning of the send buffer. *)
LEMMA SlicesPrefix ==
    ASSUME NEW S, send_buffer \in Seq(Seq(S))
    PROVE  \E l \in 0 .. Len(send_buffer) : Slices = FlattenSeq(SubSeq(send_buffer, 1, l))
<1>1. PICK N \in Nat : N = Len(send_buffer) BY LenProperties
<1> DEFINE I == {i \in 1 .. N : send_buffer[i] = <<>>}
           first == IF I # {} THEN Min(I) ELSE 0
           full == IF first = 0 THEN N ELSE first - 1
<1>2. Slices = FlattenSeq(SubSeq(send_buffer, 1, Least(full, MaxIov)))
  BY <1>1 DEF Slices, SelectInSeq
<1>3. first \in 0 .. N
  <2>1. ASSUME I # {} PROVE Min(I) \in I
    <3>1. I \subseteq Nat OBVIOUS
    <3> HIDE DEF I
    <3>2. \E m \in I : \A n \in I : m <= n BY <2>1, <3>1, NatLeast
    <3> QED BY <3>2 DEF Min
  <2> QED BY <2>1
<1>4. MaxIov \in Nat BY ConnectionAssumption
<1> HIDE DEF first
<1>5. Least(full, MaxIov) \in 0 .. N BY <1>3, <1>4 DEF Least
<1> HIDE DEF full
<1> QED BY <1>1, <1>2, <1>5

(* A part of what is gathered ends inside one of the buffers. *)
LEMMA WrittenUpTo ==
    ASSUME NEW S, send_buffer \in Seq(Seq(S)), NEW n \in Nat \ {0}, n <= Len(Slices)
    PROVE  \E j \in 1 .. Len(send_buffer) : Total(j - 1) < n /\ n <= Total(j)
<1>1. PICK N \in Nat : N = Len(send_buffer) BY LenProperties
<1>2. PICK l \in 0 .. N : Slices = FlattenSeq(SubSeq(send_buffer, 1, l)) BY <1>1, SlicesPrefix
<1>3. n <= Total(l) BY <1>2 DEF Total
<1>4. \A j \in 0 .. N : Total(j) \in Nat
  <2> TAKE j \in 0 .. N
  <2>1. FlattenSeq(SubSeq(send_buffer, 1, j)) \in Seq(S) BY <1>1, FlattenCut, FlattenType
  <2> QED BY <2>1, LenProperties DEF Total
<1>5. Total(0) = 0
  <2>1. SubSeq(send_buffer, 1, 0) = <<>> BY SubSeqEmpty
  <2>2. FlattenSeq(SubSeq(send_buffer, 1, 0)) = <<>> BY <2>1, FlattenEmpty
  <2> QED BY <2>2, EmptySeq DEF Total
<1> DEFINE U == {j \in 0 .. N : n <= Total(j)}
<1>6. PICK j \in U : \A i \in U : j <= i
  <2>1. U \subseteq Nat /\ l \in U BY <1>3
  <2> HIDE DEF U
  <2> QED BY <2>1, NatLeast
<1>7. j # 0 BY <1>5, <1>6
<1>8. j \in 1 .. N /\ j - 1 \in 0 .. N /\ j - 1 < j BY <1>6, <1>7
<1>9. j - 1 \notin U BY <1>6, <1>8
<1>10. Total(j - 1) < n BY <1>4, <1>8, <1>9
<1> QED BY <1>1, <1>6, <1>8, <1>10

(* Taking a part of what is gathered away leaves the rest of the bytes in the buffers, *)
(* of which there are no more than before.                                             *)
LEMMA AdvancedRest ==
    ASSUME NEW S, send_buffer \in Seq(Seq(S)), NEW n \in Nat \ {0}, n <= Len(Slices)
    PROVE  /\ Advanced(n) \in Seq(Seq(S)) /\ Len(Advanced(n)) <= Len(send_buffer)
           /\ SubSeq(Slices, 1, n) \in Seq(S)
           /\ SubSeq(Slices, 1, n) \o FlattenSeq(Advanced(n)) = FlattenSeq(send_buffer)
<1>1. PICK N \in Nat : N = Len(send_buffer) BY LenProperties
<1>2. PICK k \in 1 .. N :
         /\ Total(k - 1) < n /\ n <= Total(k)
         /\ Advanced(n) = Rest(send_buffer[k], Total(k) - n) \o SubSeq(send_buffer, k + 1, N)
  <2> DEFINE K == CHOOSE j \in 1 .. Len(send_buffer) : Total(j - 1) < n /\ n <= Total(j)
  <2>1. K \in 1 .. Len(send_buffer) /\ Total(K - 1) < n /\ n <= Total(K) BY WrittenUpTo
  <2>2. Advanced(n) = Rest(send_buffer[K], Total(K) - n) \o SubSeq(send_buffer, K + 1, Len(send_buffer))
    BY DEF Advanced
  <2> HIDE DEF K
  <2> QED BY <1>1, <2>1, <2>2
<1>3. PICK A : A = FlattenSeq(SubSeq(send_buffer, 1, k - 1)) OBVIOUS
<1>4. PICK x : x = send_buffer[k] OBVIOUS
<1>5. PICK D : D = FlattenSeq(SubSeq(send_buffer, 1, k)) OBVIOUS
<1>6. PICK tail : tail = SubSeq(send_buffer, k + 1, N) OBVIOUS
<1>7. PICK C : C = FlattenSeq(tail) OBVIOUS
<1>8. PICK all : all = FlattenSeq(send_buffer) OBVIOUS
<1>9. /\ A \in Seq(S) /\ x \in Seq(S) /\ D \in Seq(S) /\ D = A \o x /\ Len(D) = Len(A) + Len(x)
      /\ Len(A) < n /\ n <= Len(D) /\ Total(k) = Len(D)
  BY <1>1, <1>2, <1>3, <1>4, <1>5, FlattenFirst DEF Total
<1>10. /\ tail \in Seq(Seq(S)) /\ Len(tail) = N - k /\ all = D \o C /\ C \in Seq(S)
  <2>1. k \in 0 .. Len(send_buffer) BY <1>1
  <2>2. /\ tail \in Seq(Seq(S)) /\ Len(tail) = N - k /\ all = D \o C
    BY <1>1, <1>5, <1>6, <1>7, <1>8, <2>1, FlattenCut
  <2> QED BY <1>7, <2>2, FlattenType
<1>11. SubSeq(Slices, 1, n) = SubSeq(D, 1, n)
  <2>1. PICK l \in 0 .. N : Slices = FlattenSeq(SubSeq(send_buffer, 1, l)) BY <1>1, SlicesPrefix
  <2>2. PICK G : G = FlattenSeq(SubSeq(send_buffer, 1, l)) OBVIOUS
  <2>3. PICK E : E = FlattenSeq(SubSeq(send_buffer, l + 1, N)) OBVIOUS
  <2>4. all = G \o E /\ G \in Seq(S) /\ E \in Seq(S)
    BY <1>1, <1>8, <2>2, <2>3, FlattenCut, FlattenType
  <2>5. n <= Len(G) /\ Len(G) \in Nat BY <2>1, <2>2, <2>4, LenProperties
  <2>6. SubSeq(G \o E, 1, n) = SubSeq(G, 1, n)
    <3>1. 1 \in 1 .. Len(G) /\ n \in 1 .. Len(G) BY <2>5
    <3> QED BY <2>4, <3>1, SubSeqOfConcat1
  <2>7. SubSeq(D \o C, 1, n) = SubSeq(D, 1, n)
    <3>1. 1 \in 1 .. Len(D) /\ n \in 1 .. Len(D) BY <1>9, LenProperties
    <3> QED BY <1>9, <1>10, <3>1, SubSeqOfConcat1
  <2> QED BY <1>10, <2>1, <2>2, <2>4, <2>6, <2>7
<1>12. PICK d \in Nat : d = Len(D) BY <1>9, LenProperties
<1>13. n \in 1 .. d /\ \A i \in 1 .. d : D[i] \in S BY <1>9, <1>12, ElementOfSeq
<1>14. PICK W : W = SubSeq(D, 1, n) OBVIOUS
<1>15. W \in Seq(S)
  <2>1. \A i \in 1 .. n : D[i] \in S BY <1>13
  <2> QED BY <1>14, <2>1, SubSeqProperties
<1>16. CASE d = n
  <2>1. W = D BY <1>9, <1>12, <1>14, <1>16, SubSeqFull
  <2>2. Rest(x, Total(k) - n) = <<>> BY <1>9, <1>12, <1>16 DEF Rest
  <2>3. Advanced(n) = tail
    <3>1. PICK P : P = Seq(S) OBVIOUS
    <3>2. tail \in Seq(P) BY <1>10, <3>1
    <3>3. <<>> \o tail = tail BY <3>2, ConcatEmptySeq
    <3> QED BY <1>2, <1>4, <1>6, <2>2, <3>3
  <2>4. Len(Advanced(n)) <= Len(send_buffer) BY <1>1, <1>10, <2>3
  <2>5. FlattenSeq(Advanced(n)) = C BY <1>7, <2>3
  <2>6. SubSeq(Slices, 1, n) = W BY <1>11, <1>14
  <2> QED BY <1>8, <1>10, <1>15, <2>1, <2>3, <2>4, <2>5, <2>6
<1>17. CASE d # n
  <2>1. PICK y : y = SubSeq(D, n + 1, d) OBVIOUS
  <2>2. y \in Seq(S)
    <3>1. \A i \in n + 1 .. d : D[i] \in S BY <1>13
    <3> QED BY <2>1, <3>1, SubSeqProperties
  <2>3. W \o y = D
    <3>1. 1 \in 1 .. d + 1 /\ n \in 1 - 1 .. d /\ d \in n .. d BY <1>13
    <3>2. SubSeq(D, 1, n) \o SubSeq(D, n + 1, d) = SubSeq(D, 1, d) BY <1>9, <1>12, <3>1, ConcatAdjacentSubSeq
    <3>3. SubSeq(D, 1, d) = D BY <1>9, <1>12, SubSeqFull
    <3> QED BY <1>14, <2>1, <3>2, <3>3
  <2>4. Rest(x, Total(k) - n) = <<y>>
    <3>1. PICK a \in Nat : a = Len(A) BY <1>9, LenProperties
    <3>2. PICK c \in Nat : c = Len(x) BY <1>9, LenProperties
    <3>3. d = a + c /\ a < n /\ d - n # 0 BY <1>9, <1>12, <1>17, <3>1, <3>2
    <3>4. n + 1 \in a + 1 .. a + c /\ d \in a + 1 .. a + c BY <1>13, <1>17, <3>3
    <3>5. SubSeq(A \o x, n + 1, d) = SubSeq(x, (n + 1) - a, d - a)
      <4>1. A \in Seq(S) /\ x \in Seq(S) BY <1>9
      <4>2. n + 1 \in Len(A) + 1 .. Len(A) + Len(x) /\ d \in Len(A) + 1 .. Len(A) + Len(x)
        BY <3>1, <3>2, <3>4
      <4>3. SubSeq(A \o x, n + 1, d) = SubSeq(x, (n + 1) - Len(A), d - Len(A))
        BY <4>1, <4>2, SubSeqOfConcat2, Zenon
      <4> QED BY <3>1, <4>3
    <3>6. (n + 1) - a = c - (d - n) + 1 /\ d - a = c BY <3>3
    <3>7. y = SubSeq(x, c - (d - n) + 1, c) BY <1>9, <2>1, <3>5, <3>6
    <3> QED BY <1>9, <1>12, <3>2, <3>3, <3>7 DEF Rest
  <2>5. PICK r : r = <<y>> OBVIOUS
  <2>6. r \in Seq(Seq(S)) /\ Len(r) = 1 /\ FlattenSeq(r) = y
    <3>1. r = Append(<<>>, y) BY <2>5
    <3>2. FlattenSeq(Append(<<>>, y)) = FlattenSeq(<<>>) \o y BY <2>2, EmptySeq, FlattenAppend
    <3>3. FlattenSeq(r) = y BY <2>2, <3>1, <3>2, FlattenEmpty, ConcatEmptySeq
    <3> QED BY <2>2, <2>5, <3>3
  <2>7. Advanced(n) = r \o tail BY <1>2, <1>4, <1>6, <2>4, <2>5
  <2>8. r \o tail \in Seq(Seq(S)) /\ Len(r \o tail) = 1 + (N - k)
    <3>1. PICK P : P = Seq(S) OBVIOUS
    <3>2. r \in Seq(P) /\ tail \in Seq(P) BY <1>10, <2>6, <3>1
    <3>3. r \o tail \in Seq(P) /\ Len(r \o tail) = Len(r) + Len(tail) BY <3>2, ConcatProperties
    <3> QED BY <1>10, <2>6, <3>1, <3>3
  <2>9. FlattenSeq(r \o tail) = y \o C BY <1>7, <1>10, <2>6, FlattenConcat
  <2>10. (W \o y) \o C = W \o (y \o C)
    <3>1. C \in Seq(S) BY <1>10
    <3> QED BY <1>15, <2>2, <3>1, ConcatAssociative, SMTT(60)
  <2>11. Len(Advanced(n)) <= Len(send_buffer) BY <1>1, <2>7, <2>8
  <2>12. FlattenSeq(Advanced(n)) = y \o C BY <2>7, <2>9
  <2>13. SubSeq(Slices, 1, n) = W BY <1>11, <1>14
  <2> QED BY <1>8, <1>10, <1>15, <2>3, <2>7, <2>8, <2>10, <2>11, <2>12, <2>13
<1> QED BY <1>16, <1>17

(* Encoding a message depends on the traffic only. *)
LEMMA EncodedSame ==
    ASSUME traffic' = traffic, NEW ms
    PROVE  Encoded(ms)' = Encoded(ms) /\ Sized' = Sized
BY DEF Encoded, Encode, SizeOf, QueueSizes, ReactorSizes, Sized

(* A step that touches neither the send buffer nor what was written. *)
LEMMA BytesElsewhere ==
    ASSUME Bytes, UNCHANGED <<traffic, send_buffer, serialized, out>>
    PROVE  Bytes'
<1>1. Sized' = Sized BY EncodedSame
<1>2. Encoded(serialized)' = Encoded(serialized) BY DEF Encoded, Encode, SizeOf, QueueSizes, ReactorSizes
<1> QED BY <1>1, <1>2 DEF Bytes, BufferType, SendBounded, SendIntegrity, Encoded

(* Encoded messages are added at the end, within the budget. *)
LEMMA PushInv ==
    ASSUME Bytes, traffic \in Traffic, NEW ms \in Seq(Sized), Push(ms),
           Len(send_buffer) + Len(ms) <= MaxQueued
    PROVE  Bytes'
<1>1. /\ send_buffer' = send_buffer \o Encoded(ms) /\ serialized' = serialized \o ms
      /\ traffic' = traffic /\ out' = out
  BY DEF Push, Encoded, inbound, peerVars
<1>2. send_buffer \in Seq(Seq(Byte)) /\ serialized \in Seq(Sized) /\ out \in Seq(Byte) BY DEF Bytes, BufferType
<1>3. PICK e : e = Encoded(ms) OBVIOUS
<1>4. e \in Seq(Seq(Byte)) /\ Len(e) = Len(ms) BY <1>3, EncodedType
<1>5. /\ send_buffer \o e \in Seq(Seq(Byte)) /\ Len(send_buffer \o e) = Len(send_buffer) + Len(ms)
      /\ serialized \o ms \in Seq(Sized)
  <2>1. PICK P : P = Seq(Byte) OBVIOUS
  <2>2. send_buffer \in Seq(P) /\ e \in Seq(P) BY <1>2, <1>4, <2>1
  <2>3. send_buffer \o e \in Seq(P) /\ Len(send_buffer \o e) = Len(send_buffer) + Len(e) BY <2>2, ConcatProperties
  <2>4. serialized \o ms \in Seq(Sized) BY <1>2, ConcatProperties
  <2> QED BY <1>4, <2>1, <2>3, <2>4
<1>6. BufferType' /\ SendBounded'
  <2>1. Sized' = Sized /\ Byte' = Byte BY <1>1, EncodedSame DEF Byte, Message
  <2> QED BY <1>1, <1>2, <1>3, <1>5, <2>1 DEF BufferType, SendBounded
<1>7. SendIntegrity'
  <2>1. PICK F : F = FlattenSeq(send_buffer) OBVIOUS
  <2>2. PICK E : E = FlattenSeq(e) OBVIOUS
  <2>3. PICK G : G = FlattenSeq(Encoded(serialized)) OBVIOUS
  <2>4. F \in Seq(Byte) /\ E \in Seq(Byte) BY <1>2, <1>4, <2>1, <2>2, FlattenType
  <2>5. FlattenSeq(send_buffer \o e) = F \o E BY <1>2, <1>4, <2>1, <2>2, FlattenConcat
  <2>6. out \o F = G BY <2>1, <2>3 DEF Bytes, SendIntegrity, Encoded
  <2>7. FlattenSeq(Encoded(serialized \o ms)) = G \o E
    <3>1. Encoded(serialized) \in Seq(Seq(Byte)) BY <1>2, EncodedType
    <3>2. FlattenSeq(Encoded(serialized) \o e) = G \o E BY <1>4, <2>2, <2>3, <3>1, FlattenConcat
    <3> QED BY <1>2, <1>3, <3>2, EncodedConcat
  <2>8. (out \o F) \o E = out \o (F \o E)
    <3>1. out \in Seq(Byte) BY <1>2
    <3> QED BY <2>4, <3>1, ConcatAssociative, SMTT(60)
  <2>9. out' \o FlattenSeq(send_buffer') = FlattenSeq(Encoded(serialized \o ms))
    BY <1>1, <1>3, <2>5, <2>6, <2>7, <2>8
  <2>10. Encoded(serialized)' = Encoded(serialized \o ms)
    BY <1>1 DEF Encoded, Encode, SizeOf, QueueSizes, ReactorSizes
  <2> QED BY <2>9, <2>10 DEF SendIntegrity, Encoded
<1> QED BY <1>6, <1>7 DEF Bytes

(* A write moves bytes from the front of the send buffer to what is written. *)
LEMMA WriteSomeInv ==
    ASSUME Bytes, traffic \in Traffic, room \in Nat, NEW n \in 1 .. room, WriteSome(n)
    PROVE  Bytes'
<1>1. /\ send_buffer' = Advanced(n) /\ out' = out \o SubSeq(Slices, 1, n)
      /\ UNCHANGED <<traffic, serialized>> /\ n <= Least(room, Len(Slices))
  BY DEF WriteSome, inbound, peerVars
<1>2. send_buffer \in Seq(Seq(Byte)) /\ serialized \in Seq(Sized) /\ out \in Seq(Byte) /\ Len(send_buffer) <= MaxQueued
  BY DEF Bytes, BufferType, SendBounded
<1>3. PICK G : G = Slices OBVIOUS
<1>4. Len(G) \in Nat
  <2>1. PICK l \in 0 .. Len(send_buffer) : G = FlattenSeq(SubSeq(send_buffer, 1, l)) BY <1>2, <1>3, SlicesPrefix
  <2>2. G \in Seq(Byte) BY <1>2, <2>1, FlattenCut, FlattenType
  <2> QED BY <2>2, LenProperties
<1>5. n \in Nat \ {0} /\ n <= Len(Slices) BY <1>1, <1>3, <1>4 DEF Least
<1>6. /\ Advanced(n) \in Seq(Seq(Byte)) /\ Len(Advanced(n)) <= Len(send_buffer)
      /\ SubSeq(Slices, 1, n) \in Seq(Byte)
      /\ SubSeq(Slices, 1, n) \o FlattenSeq(Advanced(n)) = FlattenSeq(send_buffer)
  BY <1>2, <1>5, AdvancedRest
<1>7. PICK w : w = SubSeq(Slices, 1, n) OBVIOUS
<1>8. PICK F : F = FlattenSeq(Advanced(n)) OBVIOUS
<1>9. out \o w \in Seq(Byte) /\ F \in Seq(Byte) /\ w \in Seq(Byte)
  BY <1>2, <1>6, <1>7, <1>8, FlattenType, ConcatProperties
<1>10. BufferType' /\ SendBounded'
  <2>1. Sized' = Sized /\ Byte' = Byte BY <1>1, EncodedSame DEF Byte, Message
  <2>2. Len(send_buffer') <= MaxQueued
    <3>1. Len(send_buffer) \in Nat /\ Len(Advanced(n)) \in Nat /\ MaxQueued \in Nat
      BY <1>2, <1>6, LenProperties, ConnectionAssumption
    <3> QED BY <1>1, <1>2, <1>6, <3>1
  <2> QED BY <1>1, <1>2, <1>6, <1>7, <1>9, <2>1, <2>2 DEF BufferType, SendBounded
<1>11. SendIntegrity'
  <2>1. (out \o w) \o F = out \o (w \o F)
    <3>1. out \in Seq(Byte) BY <1>2
    <3> QED BY <1>9, <3>1, ConcatAssociative, SMTT(60)
  <2>2. out \o (w \o F) = FlattenSeq(Encoded(serialized))
    BY <1>6, <1>7, <1>8 DEF Bytes, SendIntegrity, Encoded
  <2>3. Encoded(serialized)' = Encoded(serialized)
    BY <1>1 DEF Encoded, Encode, SizeOf, QueueSizes, ReactorSizes
  <2> QED BY <1>1, <1>7, <1>8, <2>1, <2>2, <2>3 DEF SendIntegrity, Encoded
<1> QED BY <1>10, <1>11 DEF Bytes

(* Before the first poll nothing is serialized. *)
LEMMA SendInit == Init => SendInv
<1> SUFFICES ASSUME Init PROVE SendInv OBVIOUS
<1>1. /\ traffic \in Traffic /\ q_sent = 0 /\ q_taken = 0 /\ r_made = 0 /\ r_taken = 0
      /\ queue_open = TRUE /\ source_open \in BOOLEAN /\ queue_closed = FALSE /\ room = Window
      /\ send_buffer = <<>> /\ serialized = <<>> /\ out = <<>>
  BY DEF Init
<1>2. Window \in Nat /\ MaxQueued \in Nat BY ConnectionAssumption
<1>3. Len(QueueSizes) \in Nat /\ Len(ReactorSizes) \in Nat BY <1>1, SizesType
<1>4. SourceType
  <2>1. queue_open \in BOOLEAN /\ source_open \in BOOLEAN /\ queue_closed \in BOOLEAN BY <1>1
  <2>2. /\ q_sent \in Nat /\ q_taken \in Nat /\ q_taken <= q_sent /\ q_sent <= Len(QueueSizes)
        /\ r_made \in Nat /\ r_taken \in Nat /\ r_taken <= r_made /\ r_made <= Len(ReactorSizes)
        /\ room \in Nat /\ room <= Window
    BY <1>1, <1>2, <1>3
  <2> QED BY <1>1, <2>1, <2>2 DEF SourceType
<1>5. BufferType /\ SendBounded BY <1>1, <1>2, EmptySeq DEF BufferType, SendBounded
<1>6. SendIntegrity
  <2>1. Encoded(serialized) = <<>> BY <1>1 DEF Encoded
  <2>2. <<>> \o <<>> = <<>> BY EmptySeq, ConcatEmptySeq
  <2> QED BY <1>1, <2>1, <2>2, FlattenEmpty DEF SendIntegrity, Encoded
<1> QED BY <1>4, <1>5, <1>6 DEF SendInv, Bytes

(* Every step keeps the outbound side whole. *)
LEMMA SendNext == SendInv /\ [Next]_vars => SendInv'
<1> SUFFICES ASSUME SendInv, [Next]_vars PROVE SendInv' OBVIOUS
<1>1. /\ traffic \in Traffic
      /\ q_sent \in Nat /\ q_taken \in Nat /\ q_taken <= q_sent /\ q_sent <= Len(QueueSizes)
      /\ r_made \in Nat /\ r_taken \in Nat /\ r_taken <= r_made /\ r_made <= Len(ReactorSizes)
      /\ queue_open \in BOOLEAN /\ source_open \in BOOLEAN /\ queue_closed \in BOOLEAN
      /\ room \in Nat /\ room <= Window /\ Bytes
      /\ Len(QueueSizes) \in Nat /\ Len(ReactorSizes) \in Nat
      /\ send_buffer \in Seq(Seq(Byte)) /\ Len(send_buffer) \in Nat
  BY SizesType, LenProperties DEF SendInv, SourceType, Bytes, BufferType
<1>2. MaxQueued \in Nat /\ Window \in Nat BY ConnectionAssumption
(* A step that leaves the bytes alone, and the counts where they are. *)
<1>3. ASSUME UNCHANGED <<traffic, send_buffer, serialized, out>>, SourceType'
      PROVE  SendInv'
  BY <1>1, <1>3, BytesElsewhere DEF SendInv
<1>4. ASSUME UNCHANGED <<traffic, outbound>> PROVE SendInv'
  <2>1. SourceType' BY <1>1, <1>4 DEF SourceType, outbound, sourceVars, sendVars, QueueSizes, ReactorSizes
  <2> QED BY <1>3, <1>4, <2>1 DEF outbound, sendVars
<1>5. ASSUME UNCHANGED <<traffic, sourceVars, q_taken, r_taken, send_buffer, serialized, out, room>>,
             queue_closed' \in BOOLEAN
      PROVE  SendInv'
  <2>1. SourceType' BY <1>1, <1>5 DEF SourceType, sourceVars, QueueSizes, ReactorSizes
  <2> QED BY <1>3, <1>5, <2>1
<1>6. ASSUME Environment PROVE SendInv'
  <2> USE DEF inbound, peerVars, sourceVars, sendVars, outbound
  <2>1. CASE PeerSends BY <1>4, <2>1 DEF PeerSends
  <2>2. CASE PeerCloses BY <1>4, <2>2 DEF PeerCloses
  <2>3. CASE PeerReads
    <3>1. SourceType' BY <1>1, <1>2, <2>3 DEF SourceType, PeerReads, QueueSizes, ReactorSizes
    <3> QED BY <1>3, <2>3, <3>1 DEF PeerReads
  <2>4. CASE QueueSend
    <3>1. SourceType' BY <1>1, <2>4 DEF SourceType, QueueSend, QueueSizes, ReactorSizes
    <3> QED BY <1>3, <2>4, <3>1 DEF QueueSend
  <2>5. CASE QueueClose
    <3>1. SourceType' BY <1>1, <2>5 DEF SourceType, QueueClose, QueueSizes, ReactorSizes
    <3> QED BY <1>3, <2>5, <3>1 DEF QueueClose
  <2>6. CASE ReactorMakes
    <3>1. SourceType' BY <1>1, <2>6 DEF SourceType, ReactorMakes, QueueSizes, ReactorSizes
    <3> QED BY <1>3, <2>6, <3>1 DEF ReactorMakes
  <2>7. CASE ReactorExhausts
    <3>1. SourceType' BY <1>1, <2>7 DEF SourceType, ReactorExhausts, QueueSizes, ReactorSizes
    <3> QED BY <1>3, <2>7, <3>1 DEF ReactorExhausts
  <2> QED BY <1>6, <2>1, <2>2, <2>3, <2>4, <2>5, <2>6, <2>7 DEF Environment
<1>7. ASSUME Receive PROVE SendInv'
  <2>1. ASSUME NEW length, React(length) PROVE SendInv'
    <3>1. /\ UNCHANGED <<traffic, q_sent, q_taken, queue_open, r_taken, source_open, queue_closed,
                         send_buffer, serialized, out, room>>
          /\ r_made' = r_made \/ r_made' = Least(r_made + 1, Len(ReactorSizes))
      BY <2>1 DEF React, peerVars, sendVars
    <3>2. r_made' \in Nat /\ r_made <= r_made' /\ r_made' <= Len(ReactorSizes) BY <1>1, <3>1 DEF Least
    <3>3. SourceType' BY <1>1, <3>1, <3>2 DEF SourceType, QueueSizes, ReactorSizes
    <3> QED BY <1>3, <3>1, <3>3
  <2>2. CASE DecodeMessage \/ DecodeDisconnect \/ DecodeOver
    BY <2>1, <2>2 DEF DecodeMessage, DecodeDisconnect, DecodeOver
  <2> USE DEF inbound, peerVars
  <2>3. CASE ReadFull BY <1>4, <2>3 DEF ReadFull
  <2>4. CASE ReadPending \/ ReadEof \/ ReadInterrupted \/ ReadError
    BY <1>4, <2>4 DEF ReadPending, ReadEof, ReadInterrupted, ReadError, ReadNothing
  <2>5. ASSUME NEW n \in 1 .. Space, ReadSome(n) PROVE SendInv' BY <1>4, <2>5 DEF ReadSome
  <2>6. CASE DecodeWait \/ DecodeSkipWait \/ DecodeDone
    BY <1>4, <2>6 DEF DecodeWait, DecodeSkipWait, DecodeDone, EndPass
  <2>7. CASE DecodeTooLong \/ DecodeInvalid BY <1>4, <2>7 DEF DecodeTooLong, DecodeInvalid
  <2>8. CASE DecodeSkip BY <1>4, <2>8 DEF DecodeSkip
  <2>9. CASE DecodeBeyond BY <1>4, <2>9 DEF DecodeBeyond
  <2> QED BY <1>7, <2>2, <2>3, <2>4, <2>5, <2>6, <2>7, <2>8, <2>9 DEF Receive
<1> USE DEF inbound, peerVars
<1>8. CASE StartPoll BY <1>4, <1>8 DEF StartPoll
<1>9. CASE ReactorPoll BY <1>5, <1>9 DEF ReactorPoll, Round
<1>10. CASE ReactorBreak BY <1>4, <1>10 DEF ReactorBreak
<1>11. ASSUME Serialize PROVE SendInv'
  <2>1. CASE SerializeFull BY <1>4, <2>1 DEF SerializeFull
  <2>2. CASE TakeQueued
    <3>1. PICK m : m = [from |-> "queue", seq |-> q_taken + 1] OBVIOUS
    <3>2. /\ Push(<<m>>) /\ q_taken' = q_taken + 1 /\ r_taken' = r_taken /\ q_taken < q_sent
          /\ Len(send_buffer) < MaxQueued
      BY <1>1, <1>2, <2>2, <3>1 DEF TakeQueued, PollQueue, Full
    <3>3. m \in Sized
      <4>1. q_taken + 1 \in DOMAIN QueueSizes BY <1>1, <3>2, SizesType
      <4> QED BY <1>1, <3>1, <4>1 DEF Sized, Message
    <3>4. <<m>> \in Seq(Sized) /\ Len(<<m>>) = 1 BY <3>3
    <3>5. PICK ms \in Seq(Sized) : ms = <<m>> /\ Len(ms) = 1 BY <3>4
    <3>6. Bytes'
      <4>1. Push(ms) BY <3>2, <3>5
      <4>2. Len(send_buffer) + Len(ms) <= MaxQueued BY <1>1, <1>2, <3>2, <3>5
      <4> QED BY <1>1, <4>1, <4>2, PushInv
    <3>7. SourceType' BY <1>1, <3>2 DEF SourceType, Push, sourceVars, QueueSizes, ReactorSizes
    <3> QED BY <3>6, <3>7 DEF SendInv
  <2>3. CASE QueuePending BY <1>4, <2>3 DEF QueuePending
  <2>4. CASE QueueNone BY <1>5, <2>4 DEF QueueNone
  <2>5. ASSUME NEW n \in 1 .. Len(QueueSizes) - q_sent, QueueMisses(n) PROVE SendInv'
    <3>1. n \in Nat /\ q_sent + n <= Len(QueueSizes) /\ Len(QueueSizes) \in Nat BY <1>1, SizesType
    <3>2. /\ q_sent' = q_sent + n /\ queue_open' = FALSE /\ queue_closed' = TRUE
          /\ UNCHANGED <<traffic, r_made, source_open, q_taken, r_taken, send_buffer, serialized, out, room>>
      BY <2>5 DEF QueueMisses, inbound, peerVars
    <3>3. q_sent' \in Nat /\ q_taken' <= q_sent' /\ q_sent' <= Len(QueueSizes)' BY <1>1, <3>1, <3>2 DEF QueueSizes
    <3>4. SourceType' BY <1>1, <3>2, <3>3 DEF SourceType, QueueSizes, ReactorSizes
    <3> QED BY <1>3, <3>2, <3>4
  <2>6. ASSUME NEW n \in 1 .. Budget, EmitSome(n) PROVE SendInv'
    <3>1. n \in Nat /\ Len(send_buffer) + n <= MaxQueued BY <1>1, <1>2, <2>6 DEF Budget
    <3>2. PICK ms : ms = [i \in 1 .. n |-> [from |-> "reactor", seq |-> r_taken + i]] OBVIOUS
    <3>3. Push(ms) /\ r_taken' = r_taken + n /\ q_taken' = q_taken /\ n <= r_made - r_taken
      BY <2>6, <3>2 DEF EmitSome
    <3>4. ASSUME NEW i \in 1 .. n PROVE [from |-> "reactor", seq |-> r_taken + i] \in Sized
      <4>1. r_taken + i \in DOMAIN ReactorSizes /\ r_taken + i \in Nat BY <1>1, <3>1, <3>3, SizesType
      <4> QED BY <4>1 DEF Sized, Message
    <3>5. ms \in Seq(Sized) /\ Len(ms) = n BY <3>1, <3>2, <3>4
    <3>6. Bytes' BY <1>1, <3>1, <3>3, <3>5, PushInv
    <3>7. SourceType' BY <1>1, <3>1, <3>3 DEF SourceType, Push, sourceVars, QueueSizes, ReactorSizes
    <3> QED BY <3>6, <3>7 DEF SendInv
  <2>7. CASE EmitPending BY <1>4, <2>7 DEF EmitPending
  <2>8. CASE EmitNone BY <1>4, <2>8 DEF EmitNone
  <2> QED BY <1>11, <2>1, <2>2, <2>3, <2>4, <2>5, <2>6, <2>7, <2>8 DEF Serialize
<1>12. ASSUME Write PROVE SendInv'
  <2>1. CASE Flush BY <1>4, <2>1 DEF Flush
  <2>2. CASE WritePending BY <1>4, <2>2 DEF WritePending
  <2>3. CASE WriteZero BY <1>4, <2>3 DEF WriteZero
  <2>4. CASE WriteInterrupted BY <1>5, <2>4 DEF WriteInterrupted, Round
  <2>5. CASE WriteError BY <1>4, <2>5 DEF WriteError
  <2>6. ASSUME NEW n \in 1 .. room, WriteSome(n) PROVE SendInv'
    <3>1. Bytes' BY <1>1, <2>6, WriteSomeInv
    <3>2. SourceType'
      <4>1. room' \in Nat /\ room' <= Window BY <1>1, <1>2, <2>6 DEF WriteSome
      <4>2. UNCHANGED <<traffic, sourceVars, q_taken, r_taken>> /\ queue_closed' = FALSE
        BY <2>6 DEF WriteSome, AfterWrite, Round
      <4> QED BY <1>1, <4>1, <4>2 DEF SourceType, sourceVars, QueueSizes, ReactorSizes
    <3> QED BY <3>1, <3>2 DEF SendInv
  <2> QED BY <1>12, <2>1, <2>2, <2>3, <2>4, <2>5, <2>6 DEF Write
<1>13. CASE UNCHANGED vars BY <1>4, <1>13 DEF vars, outbound
<1> QED BY <1>6, <1>7, <1>8, <1>9, <1>10, <1>11, <1>12, <1>13 DEF Next, Task

(* The outbound side holds for every traffic, budget, gather width and window. *)
THEOREM OutboundInvariant == Spec => []SendInv
BY SendInit, SendNext, PTL DEF Spec

(* What was written, and what waits, are the encodings of the messages in the order they *)
(* were serialized (poll_writev_buffers, advance_send_buffers).                           *)
THEOREM NothingTorn == Spec => []SendIntegrity
<1>1. SendInv => SendIntegrity BY DEF SendInv, Bytes
<1> QED BY <1>1, OutboundInvariant, PTL

(* Neither buffer outgrows its bound, whatever arrives and whatever the two sources add *)
(* (poll_read_inbound, poll_serialize_outbound_messages).                               *)
THEOREM BuffersBounded == Spec => []BufferBound
<1>1. ReadInv /\ SendInv => BufferBound
  BY DEF ReadInv, ReceiveBounded, SendInv, Bytes, SendBounded, BufferBound
<1> QED BY <1>1, InboundInvariant, OutboundInvariant, PTL

-----------------------------------------------------------------------------
(* Who will wake the task. *)

(* While the task goes on to its other sources, or is parked, and has not been woken: the *)
(* stream had nothing when it was asked, and will wake the task.                          *)
ReadWatched ==
    pc \in {"reactor", "serialize", "emit", "write", "parked"} /\ ~notified =>
        "read" \in wakes /\ arrived = taken /\ ~eof

(* The same for the queue, from the step after it was asked, unless the poll ends with *)
(* something to write.  A queue without senders is asked no more.                      *)
QueueWatched ==
    (pc = "emit" \/ (pc \in {"write", "parked"} /\ send_buffer = <<>>)) /\ ~notified =>
        /\ q_taken = q_sent
        /\ queue_closed \/ (queue_open /\ "queue" \in wakes)

(* And for the reactor.  Both sources exhausted would have closed the connection. *)
ReactorWatched ==
    pc \in {"write", "parked"} /\ send_buffer = <<>> /\ ~notified =>
        /\ r_taken = r_made
        /\ source_open => "reactor" \in wakes
        /\ ~queue_closed \/ source_open

(* A task parked with something to write waits for the peer. *)
WriteWatched ==
    pc = "parked" /\ send_buffer # <<>> /\ ~notified => room = 0 /\ "write" \in wakes

(* Each round of serialization starts with the queue not found closed; it stays closed. *)
RoundStarts ==
    /\ pc = "serialize" => ~queue_closed
    /\ pc \in {"emit", "write", "parked"} /\ queue_closed => ~queue_open

WatchInv == ReadWatched /\ QueueWatched /\ ReactorWatched /\ WriteWatched /\ RoundStarts

(* Before the first poll the task is scheduled. *)
LEMMA WatchInit == Init => WatchInv
BY DEF Init, WatchInv, ReadWatched, QueueWatched, ReactorWatched, WriteWatched, RoundStarts

(* Every step keeps the sources watched that the task relies on. *)
LEMMA WatchNext == SendInv /\ WatchInv /\ [Next]_vars => WatchInv'
<1> SUFFICES ASSUME SendInv, WatchInv, [Next]_vars PROVE WatchInv' OBVIOUS
<1> USE DEF WatchInv, ReadWatched, QueueWatched, ReactorWatched, WriteWatched, RoundStarts
<1>1. /\ send_buffer \in Seq(Seq(Byte)) /\ Len(send_buffer) \in Nat /\ MaxQueued \in Nat \ {0}
      /\ traffic \in Traffic
  BY LenProperties, ConnectionAssumption DEF SendInv, SourceType, Bytes, BufferType
(* The steps that leave the task where none of its sources is watched. *)
<1>2. ASSUME pc' \in {"read", "decode", "closed", "panicked"} PROVE WatchInv' BY <1>2
<1>3. ASSUME Environment PROVE WatchInv'
  <2> USE DEF inbound, peerVars, readVars, sourceVars, sendVars, outbound, Wake
  <2>1. CASE PeerSends BY <2>1 DEF PeerSends
  <2>2. CASE PeerCloses BY <2>2 DEF PeerCloses
  <2>3. CASE PeerReads BY <2>3 DEF PeerReads
  <2>4. CASE QueueSend BY <2>4 DEF QueueSend
  <2>5. CASE QueueClose BY <2>5 DEF QueueClose
  <2>6. CASE ReactorMakes BY <2>6 DEF ReactorMakes
  <2>7. CASE ReactorExhausts BY <2>7 DEF ReactorExhausts
  <2> QED BY <1>3, <2>1, <2>2, <2>3, <2>4, <2>5, <2>6, <2>7 DEF Environment
<1>4. CASE StartPoll BY <1>2, <1>4 DEF StartPoll
<1>5. ASSUME Receive PROVE WatchInv'
  <2>1. CASE ReadPending
    <3>1. pc' = "reactor" /\ "read" \in wakes' /\ UNCHANGED <<arrived, taken, eof>> /\ arrived = taken /\ ~eof
      BY <2>1 DEF ReadPending, PendingOn, ReadNothing, peerVars
    <3> QED BY <3>1
  <2>2. CASE ReadFull \/ ReadEof \/ ReadInterrupted \/ ReadError
    BY <1>2, <2>2 DEF ReadFull, ReadEof, ReadInterrupted, ReadError, Goto, CloseFor
  <2>3. ASSUME NEW n \in 1 .. Space, ReadSome(n) PROVE WatchInv' BY <1>2, <2>3 DEF ReadSome, Goto
  <2>4. CASE DecodeMessage \/ DecodeDisconnect \/ DecodeOver
    BY <1>2, <2>4 DEF DecodeMessage, DecodeDisconnect, DecodeOver, Goto, CloseFor
  <2>5. CASE DecodeWait \/ DecodeSkipWait \/ DecodeDone
    BY <1>2, <2>5 DEF DecodeWait, DecodeSkipWait, DecodeDone, EndPass, Goto
  <2>6. CASE DecodeTooLong \/ DecodeInvalid \/ DecodeSkip \/ DecodeBeyond
    BY <1>2, <2>6 DEF DecodeTooLong, DecodeInvalid, DecodeSkip, DecodeBeyond, Goto, CloseFor
  <2> QED BY <1>5, <2>1, <2>2, <2>3, <2>4, <2>5, <2>6 DEF Receive
<1> USE DEF inbound, peerVars, readVars
<1>6. CASE ReactorPoll BY <1>6 DEF ReactorPoll, Round, Goto
<1>7. CASE ReactorBreak BY <1>2, <1>7 DEF ReactorBreak, CloseFor
<1>8. ASSUME Serialize PROVE WatchInv'
  <2>1. CASE SerializeFull
    <3>1. send_buffer # <<>> BY <1>1, <2>1, EmptySeq DEF SerializeFull, Full
    <3> QED BY <2>1, <3>1 DEF SerializeFull, Goto, outbound, sendVars
  <2>2. CASE TakeQueued BY <2>2 DEF TakeQueued, PollQueue, Push, Goto
  <2> USE DEF outbound, sourceVars, sendVars
  <2>3. CASE QueuePending BY <2>3 DEF QueuePending, PollQueue, PendingOn
  <2>4. CASE QueueNone BY <2>4 DEF QueueNone, PollQueue, Goto
  <2>5. ASSUME NEW n, QueueMisses(n) PROVE WatchInv' BY <2>5 DEF QueueMisses, PollQueue
  <2>6. ASSUME NEW n \in 1 .. Budget, EmitSome(n) PROVE WatchInv'
    <3>1. n \in Nat /\ n > 0 BY <1>1, <2>6 DEF Budget
    <3>2. PICK ms : ms = [i \in 1 .. n |-> [from |-> "reactor", seq |-> r_taken + i]] OBVIOUS
    <3>3. PICK e : e = [i \in DOMAIN ms |-> Encode(ms[i])] OBVIOUS
    <3>4. send_buffer' = send_buffer \o e BY <2>6, <3>2, <3>3 DEF EmitSome, Push
    <3>5. Len(e) = n BY <3>1, <3>2, <3>3
    <3>6. send_buffer' # <<>>
      <4>1. Len(send_buffer \o e) = Len(send_buffer) + n BY <1>1, <3>1, <3>2, <3>3, <3>5
      <4> QED BY <1>1, <3>1, <3>4, <4>1, EmptySeq
    <3>7. /\ pc = "emit" /\ pc' = "write"
          /\ UNCHANGED <<notified, wakes, arrived, taken, eof, queue_closed, q_taken, q_sent, queue_open>>
      BY <2>6 DEF EmitSome, Push, Goto
    <3> QED BY <3>6, <3>7
  <2>7. CASE EmitPending BY <2>7 DEF EmitPending, PendingOn
  <2>8. CASE EmitNone
    <3>1. CASE queue_closed BY <1>2, <2>8, <3>1 DEF EmitNone, CloseFor
    <3>2. CASE ~queue_closed BY <2>8, <3>2 DEF EmitNone, Goto
    <3> QED BY <3>1, <3>2
  <2> QED BY <1>8, <2>1, <2>2, <2>3, <2>4, <2>5, <2>6, <2>7, <2>8 DEF Serialize
<1>9. ASSUME Write PROVE WatchInv'
  <2> USE DEF outbound, sourceVars, sendVars
  <2>1. CASE Flush BY <2>1 DEF Flush, Goto
  <2>2. CASE WritePending BY <2>2 DEF WritePending, PendingOn
  <2>3. CASE WriteZero \/ WriteError BY <1>2, <2>3 DEF WriteZero, WriteError, CloseFor
  <2>4. CASE WriteInterrupted BY <2>4 DEF WriteInterrupted, Round, Goto
  <2>5. ASSUME NEW n \in 1 .. room, WriteSome(n) PROVE WatchInv'
    BY <2>5 DEF WriteSome, AfterWrite, Round, Goto
  <2> QED BY <1>9, <2>1, <2>2, <2>3, <2>4, <2>5 DEF Write
<1>10. CASE UNCHANGED vars
  BY <1>10 DEF vars, taskVars, sourceVars, sendVars
<1> QED BY <1>3, <1>4, <1>5, <1>6, <1>7, <1>8, <1>9, <1>10 DEF Next, Task

(* A parked connection that has not been woken has nothing it could do: whatever the *)
(* environment does next that would let it move finds the task's waker registered    *)
(* (poll, poll_receive, poll_serialize_outbound_messages, poll_writev_buffers).      *)
THEOREM ParksOnlyWhenIdle == Spec => []NothingForgotten
<1>1. Init => SendInv /\ WatchInv BY SendInit, WatchInit
<1>2. SendInv /\ WatchInv /\ [Next]_vars => SendInv' /\ WatchInv' BY SendNext, WatchNext
<1>3. WatchInv => NothingForgotten
  BY DEF WatchInv, ReadWatched, QueueWatched, ReactorWatched, WriteWatched, RoundStarts, NothingForgotten
<1> QED BY <1>1, <1>2, <1>3, PTL DEF Spec
=============================================================================
