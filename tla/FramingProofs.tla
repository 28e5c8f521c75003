--------------------------- MODULE FramingProofs ---------------------------
(***************************************************************************)
(* Framing for every base, limit, buffer and number of messages: recv      *)
(* always has room, and what is handled is what was sent.                  *)
(***************************************************************************)
EXTENDS Framing, SequenceTheorems, TLAPS

-----------------------------------------------------------------------------
(* Sequences and frames.                                                       *)

LEMMA Cutting ==
    ASSUME NEW s \in Seq(Nat), NEW k \in 0 .. Len(s)
    PROVE  /\ SubSeq(s, 1, k) \in Seq(Nat) /\ SubSeq(s, k + 1, Len(s)) \in Seq(Nat)
           /\ Len(SubSeq(s, 1, k)) = k /\ Len(SubSeq(s, k + 1, Len(s))) = Len(s) - k
           /\ \A i \in 1 .. k : SubSeq(s, 1, k)[i] = s[i]
           /\ \A i \in 1 .. Len(s) - k : SubSeq(s, k + 1, Len(s))[i] = s[k + i]
           /\ SubSeq(s, 1, k) \o SubSeq(s, k + 1, Len(s)) = s
<1>1. Len(s) \in Nat /\ \A i \in 1 .. Len(s) : s[i] \in Nat
  BY LenProperties, ElementOfSeq
<1>2. \A i \in 1 .. k : s[i] \in Nat
  BY <1>1
<1>3. \A i \in k + 1 .. Len(s) : s[i] \in Nat
  BY <1>1
<1> DEFINE a == SubSeq(s, 1, k)  b == SubSeq(s, k + 1, Len(s))
<1>4. /\ a \in Seq(Nat) /\ Len(a) = (IF 1 <= k THEN k - 1 + 1 ELSE 0)
      /\ \A i \in 1 .. k - 1 + 1 : a[i] = s[1 + i - 1]
  <2>1. k \in Int
    OBVIOUS
  <2>2. QED
    BY <1>2, <2>1, SubSeqProperties
<1>5. /\ b \in Seq(Nat) /\ Len(b) = (IF k + 1 <= Len(s) THEN Len(s) - (k + 1) + 1 ELSE 0)
      /\ \A i \in 1 .. Len(s) - (k + 1) + 1 : b[i] = s[k + 1 + i - 1]
  <2>1. k + 1 \in Int /\ Len(s) \in Int
    BY <1>1
  <2>2. QED
    BY <1>3, <2>1, SubSeqProperties
<1> HIDE DEF a, b
<1>6. Len(a) = k /\ Len(b) = Len(s) - k
  BY <1>1, <1>4, <1>5
<1>7. (\A i \in 1 .. k : a[i] = s[i]) /\ (\A i \in 1 .. Len(s) - k : b[i] = s[k + i])
  BY <1>1, <1>4, <1>5
<1>8. a \o b = s
  <2>1. /\ a \o b \in Seq(Nat) /\ Len(a \o b) = Len(a) + Len(b)
        /\ \A i \in 1 .. Len(a) + Len(b) : (a \o b)[i] = IF i <= Len(a) THEN a[i] ELSE b[i - Len(a)]
    BY <1>4, <1>5, ConcatProperties
  <2>2. Len(a \o b) = Len(s)
    BY <1>1, <1>6, <2>1
  <2>3. \A i \in 1 .. Len(a \o b) : (a \o b)[i] = s[i]
    <3>1. TAKE i \in 1 .. Len(a \o b)
    <3>2. CASE i <= k
      BY <1>1, <1>6, <1>7, <2>1, <2>2, <3>2
    <3>3. CASE i > k
      <4>1. i - k \in 1 .. Len(s) - k
        BY <1>1, <2>2, <3>3
      <4>2. b[i - k] = s[k + (i - k)] /\ k + (i - k) = i
        BY <1>1, <1>7, <4>1
      <4>3. QED
        BY <1>1, <1>6, <2>1, <2>2, <3>3, <4>2, SMTT(40)
    <3>4. QED
      BY <3>2, <3>3
  <2>4. QED
    BY <2>1, <2>2, <2>3, SeqEqual
<1>9. QED
  BY <1>4, <1>5, <1>6, <1>7, <1>8 DEF a, b

LEMMA FitsOK ==
    ASSUME NEW s \in Seq(Nat), wire \in Seq(Nat), Len(wire) <= Room
    PROVE  Fits(s) \in 0 .. Len(s)
<1>1. Len(s) \in Nat /\ Len(wire) \in Nat /\ Room \in Nat
  BY LenProperties, FramingConstants
<1>2. QED
  BY <1>1 DEF Fits, Least

\* The length that is decoded is the one that was encoded.
LEMMA LengthEncoded ==
    ASSUME NEW n \in Nat
    PROVE  n % Base \in Nat /\ n \div Base \in Nat /\ (n % Base) + Base * (n \div Base) = n
<1>1. Base \in Nat \ {0}
  BY FramingConstants
<1>2. QED
  BY <1>1

\* What may be sent, and what it looks like as a frame.
Sendable == {body \in Seq(Nat) : Valid(body)}

LEMMA BodiesSendable ==
    ASSUME NEW body \in Bodies
    PROVE  body \in Sendable
<1>1. PICK n \in 1 .. MaxFrame : body \in [1 .. n -> Byte]
  BY DEF Bodies
<1>2. MaxFrame \in Nat /\ Base \in Nat
  BY FramingConstants
<1>3. n \in Nat /\ Byte \subseteq Nat
  BY <1>2 DEF Byte
<1>4. \A i \in 1 .. n : body[i] \in Nat
  BY <1>1, <1>3
<1>5. body = [i \in 1 .. n |-> body[i]]
  BY <1>1
<1>6. body \in Seq(Nat)
  BY <1>3, <1>4, <1>5
<1>7. QED
  BY <1>6 DEF Bodies, Sendable

LEMMA FrameOf ==
    ASSUME NEW body \in Sendable
    PROVE  /\ body \in Seq(Nat) /\ Len(body) \in 1 .. MaxFrame /\ MaxFrame \in Nat
           /\ Frame(body) \in Seq(Nat) /\ Len(Frame(body)) = 2 + Len(body)
           /\ Frame(body)[1] + Base * Frame(body)[2] = Len(body)
           /\ \A k \in 1 .. Len(body) : Frame(body)[2 + k] = body[k]
<1>1. body \in Seq(Nat) /\ Len(body) \in 1 .. MaxFrame /\ MaxFrame \in Nat /\ Len(body) \in Nat
  BY FramingConstants DEF Sendable, Valid
<1> DEFINE lo == Len(body) % Base  hi == Len(body) \div Base  h == <<lo, hi>>
<1>2. lo \in Nat /\ hi \in Nat /\ lo + Base * hi = Len(body)
  BY <1>1, LengthEncoded
<1> HIDE DEF lo, hi
<1>3. h \in Seq(Nat) /\ Len(h) = 2 /\ h[1] = lo /\ h[2] = hi
  BY <1>2
<1> HIDE DEF h
<1>4. Frame(body) = h \o body
  BY DEF Frame, h, lo, hi
<1>5. /\ h \o body \in Seq(Nat) /\ Len(h \o body) = Len(h) + Len(body)
      /\ \A i \in 1 .. Len(h) + Len(body) : (h \o body)[i] = IF i <= Len(h) THEN h[i] ELSE body[i - Len(h)]
  BY <1>1, <1>3, ConcatProperties
<1>6. (h \o body)[1] = lo /\ (h \o body)[2] = hi
  BY <1>1, <1>3, <1>5
<1>7. ASSUME NEW k \in 1 .. Len(body)
      PROVE  (h \o body)[2 + k] = body[k]
  <2>1. 2 + k \in 1 .. Len(h) + Len(body) /\ ~(2 + k <= Len(h)) /\ 2 + k - Len(h) = k
    BY <1>1, <1>3
  <2>2. (h \o body)[2 + k] = body[2 + k - Len(h)]
    BY <1>5, <2>1
  <2>3. QED
    BY <2>1, <2>2
<1>8. QED
  BY <1>1, <1>2, <1>3, <1>4, <1>5, <1>6, <1>7

-----------------------------------------------------------------------------
(* The messages sent lie one behind the other in the stream; a pipe carries    *)
(* them from one on, as far as it reaches.                                     *)

Msgs == [body : Sendable, upto : Nat]
Upto(s, i) == IF i = 0 THEN 0 ELSE s[i].upto

Adjacent(s) ==
    /\ \A i \in 1 .. Len(s) : Upto(s, i) = Upto(s, i - 1) + 2 + Len(s[i].body)
    /\ \A i, j \in 0 .. Len(s) : i < j => Upto(s, i) < Upto(s, j)

\* p is the stream from the end of message h on.
Carries(p, s, h) ==
    /\ Len(p) <= Upto(s, Len(s)) - Upto(s, h)
    /\ \A i \in h + 1 .. Len(s) : \A k \in 1 .. 2 + Len(s[i].body) :
         Upto(s, i - 1) - Upto(s, h) + k <= Len(p)
           => p[Upto(s, i - 1) - Upto(s, h) + k] = Frame(s[i].body)[k]

LEMMA UptoOK ==
    ASSUME NEW s \in Seq(Msgs), NEW i \in 0 .. Len(s)
    PROVE  Upto(s, i) \in Nat
<1>1. CASE i = 0
  BY <1>1 DEF Upto
<1>2. CASE i # 0
  <2>1. Len(s) \in Nat
    BY LenProperties
  <2>2. i \in 1 .. Len(s)
    BY <1>2, <2>1
  <2>3. s[i] \in Msgs
    BY <2>2, ElementOfSeq
  <2>4. QED
    BY <1>2, <2>3 DEF Upto, Msgs
<1>3. QED
  BY <1>1, <1>2

LEMMA BodyOK ==
    ASSUME NEW s \in Seq(Msgs), NEW i \in 1 .. Len(s)
    PROVE  s[i].body \in Sendable /\ Len(s[i].body) \in Nat /\ Len(s[i].body) >= 1
<1>1. s[i] \in Msgs
  BY ElementOfSeq
<1>2. s[i].body \in Sendable
  BY <1>1 DEF Msgs
<1>3. Len(s[i].body) \in 1 .. MaxFrame /\ MaxFrame \in Nat
  BY <1>2, FrameOf
<1>4. QED
  BY <1>2, <1>3

LEMMA CarriesPrefix ==
    ASSUME NEW p \in Seq(Nat), NEW q \in Seq(Nat), NEW s \in Seq(Msgs), NEW h \in 0 .. Len(s),
           Adjacent(s), Carries(p \o q, s, h)
    PROVE  Carries(p, s, h)
<1>1. Len(p) \in Nat /\ Len(q) \in Nat /\ Len(s) \in Nat
  BY LenProperties
<1>2. /\ Len(p \o q) = Len(p) + Len(q)
      /\ \A i \in 1 .. Len(p) + Len(q) : (p \o q)[i] = IF i <= Len(p) THEN p[i] ELSE q[i - Len(p)]
  BY ConcatProperties
<1>3. Upto(s, h) \in Nat /\ Upto(s, Len(s)) \in Nat
  BY <1>1, UptoOK
<1>4. Len(p) <= Upto(s, Len(s)) - Upto(s, h)
  BY <1>1, <1>2, <1>3 DEF Carries
<1>5. ASSUME NEW i \in h + 1 .. Len(s), NEW k \in 1 .. 2 + Len(s[i].body),
             Upto(s, i - 1) - Upto(s, h) + k <= Len(p)
      PROVE  p[Upto(s, i - 1) - Upto(s, h) + k] = Frame(s[i].body)[k]
  <2>1. i \in 1 .. Len(s) /\ i - 1 \in 0 .. Len(s) /\ (h < i - 1 \/ h = i - 1)
    BY <1>1
  <2>2. Upto(s, i - 1) \in Nat /\ Len(s[i].body) \in Nat
    BY <2>1, UptoOK, BodyOK
  <2>3. Upto(s, h) <= Upto(s, i - 1)
    <3>1. CASE h = i - 1
      BY <1>3, <3>1
    <3>2. CASE h < i - 1
      <4>1. Upto(s, h) < Upto(s, i - 1)
        BY <2>1, <3>2 DEF Adjacent
      <4>2. QED
        BY <1>3, <2>2, <4>1
    <3>3. QED
      BY <2>1, <3>1, <3>2
  <2> DEFINE at == Upto(s, i - 1) - Upto(s, h) + k
  <2>4. at \in 1 .. Len(p) /\ at <= Len(p \o q)
    BY <1>1, <1>2, <1>3, <1>5, <2>2, <2>3, SMTT(40)
  <2>5. (p \o q)[at] = Frame(s[i].body)[k]
    BY <2>4 DEF Carries
  <2> HIDE DEF at
  <2>6. (p \o q)[at] = p[at]
    BY <1>1, <1>2, <2>4
  <2>7. QED
    BY <2>5, <2>6 DEF at
<1>6. QED
  BY <1>4, <1>5 DEF Carries

\* One more message is sent, whether it gets into the pipe or not.
Noted(s, body) == Append(s, [body |-> body, upto |-> Upto(s, Len(s)) + Len(Frame(body))])

LEMMA NotedOK ==
    ASSUME NEW s \in Seq(Msgs), Adjacent(s), NEW body \in Sendable
    PROVE  /\ Noted(s, body) \in Seq(Msgs) /\ Len(Noted(s, body)) = Len(s) + 1
           /\ \A i \in 1 .. Len(s) : Noted(s, body)[i] = s[i]
           /\ \A i \in 0 .. Len(s) : Upto(Noted(s, body), i) = Upto(s, i)
           /\ Noted(s, body)[Len(s) + 1].body = body
           /\ Upto(Noted(s, body), Len(s) + 1) = Upto(s, Len(s)) + 2 + Len(body)
           /\ Adjacent(Noted(s, body))
<1>1. Len(s) \in Nat /\ Upto(s, Len(s)) \in Nat
  <2>1. Len(s) \in Nat
    BY LenProperties
  <2>2. QED
    BY <2>1, UptoOK
<1>2. Len(body) \in Nat /\ Len(body) >= 1 /\ Len(Frame(body)) = 2 + Len(body)
  BY FrameOf
<1> DEFINE m == [body |-> body, upto |-> Upto(s, Len(s)) + Len(Frame(body))]
           t == Noted(s, body)
<1>3. m \in Msgs /\ m.body = body /\ m.upto = Upto(s, Len(s)) + 2 + Len(body)
  BY <1>1, <1>2 DEF Msgs
<1>4. t = Append(s, m)
  BY DEF Noted
<1> HIDE DEF m, t
<1>5. /\ t \in Seq(Msgs) /\ Len(t) = Len(s) + 1
      /\ \A i \in 1 .. Len(s) : t[i] = s[i]
      /\ t[Len(s) + 1] = m
  BY <1>3, <1>4, AppendProperties
<1>6. \A i \in 0 .. Len(s) : Upto(t, i) = Upto(s, i)
  BY <1>1, <1>5 DEF Upto
<1>7. Upto(t, Len(s) + 1) = Upto(s, Len(s)) + 2 + Len(body)
  BY <1>1, <1>3, <1>5 DEF Upto
<1>8. \A i \in 0 .. Len(s) : Upto(s, i) \in Nat
  BY UptoOK
<1>9. ASSUME NEW i \in 1 .. Len(t)
      PROVE  Upto(t, i) = Upto(t, i - 1) + 2 + Len(t[i].body)
  <2>1. CASE i = Len(s) + 1
    <3>1. i - 1 = Len(s) /\ Len(s) \in 0 .. Len(s)
      BY <1>1, <2>1
    <3>2. QED
      BY <1>3, <1>5, <1>6, <1>7, <2>1, <3>1
  <2>2. CASE i # Len(s) + 1
    <3>1. i \in 1 .. Len(s) /\ i \in 0 .. Len(s) /\ i - 1 \in 0 .. Len(s)
      BY <1>1, <1>5, <2>2
    <3>2. QED
      BY <1>5, <1>6, <3>1 DEF Adjacent
  <2>3. QED
    BY <2>1, <2>2
<1>10. ASSUME NEW i \in 0 .. Len(t), NEW j \in 0 .. Len(t), i < j
       PROVE  Upto(t, i) < Upto(t, j)
  <2>1. i \in 0 .. Len(s)
    BY <1>1, <1>5, <1>10
  <2>2. Upto(s, i) <= Upto(s, Len(s)) /\ Upto(s, i) \in Nat
    <3>1. i < Len(s) \/ i = Len(s)
      BY <1>1, <2>1
    <3>2. Len(s) \in 0 .. Len(s)
      BY <1>1
    <3>3. QED
      BY <1>1, <1>8, <2>1, <3>1, <3>2 DEF Adjacent
  <2>3. CASE j = Len(s) + 1
    BY <1>1, <1>2, <1>6, <1>7, <2>1, <2>2, <2>3
  <2>4. CASE j # Len(s) + 1
    <3>1. j \in 0 .. Len(s)
      BY <1>1, <1>5, <2>4
    <3>2. QED
      BY <1>6, <1>10, <2>1, <3>1 DEF Adjacent
  <2>5. QED
    BY <2>3, <2>4
<1>11. Adjacent(t)
  BY <1>9, <1>10 DEF Adjacent
<1>12. QED
  BY <1>3, <1>5, <1>6, <1>7, <1>11 DEF t

LEMMA CarriesNoted ==
    ASSUME NEW p \in Seq(Nat), NEW s \in Seq(Msgs), NEW h \in 0 .. Len(s), NEW body \in Sendable,
           Adjacent(s), Carries(p, s, h)
    PROVE  Carries(p, Noted(s, body), h)
<1> DEFINE t == Noted(s, body)
<1>1. Len(p) \in Nat /\ Len(s) \in Nat /\ Len(body) \in Nat
  BY LenProperties, FrameOf
<1>2. /\ Len(t) = Len(s) + 1
      /\ \A i \in 1 .. Len(s) : t[i] = s[i]
      /\ \A i \in 0 .. Len(s) : Upto(t, i) = Upto(s, i)
      /\ Upto(t, Len(s) + 1) = Upto(s, Len(s)) + 2 + Len(body)
  BY NotedOK
<1>3. Upto(s, h) \in Nat /\ Upto(s, Len(s)) \in Nat /\ Upto(t, h) = Upto(s, h) /\ Len(s) \in 0 .. Len(s)
  <2>1. Len(s) \in 0 .. Len(s)
    BY <1>1
  <2>2. QED
    BY <1>2, <2>1, UptoOK
<1> HIDE DEF t
<1>4. Len(p) <= Upto(s, Len(s)) - Upto(s, h)
  BY DEF Carries
<1>5. Len(p) <= Upto(t, Len(t)) - Upto(t, h)
  BY <1>1, <1>2, <1>3, <1>4
<1>6. ASSUME NEW i \in h + 1 .. Len(t), NEW k \in 1 .. 2 + Len(t[i].body),
             Upto(t, i - 1) - Upto(t, h) + k <= Len(p)
      PROVE  p[Upto(t, i - 1) - Upto(t, h) + k] = Frame(t[i].body)[k]
  <2>1. i \in 1 .. Len(s) + 1 /\ i - 1 \in 0 .. Len(s)
    BY <1>1, <1>2
  <2>2. Upto(t, i - 1) = Upto(s, i - 1)
    BY <1>2, <2>1
  <2>3. i # Len(s) + 1
    <3>1. SUFFICES ASSUME i = Len(s) + 1 PROVE FALSE
      OBVIOUS
    <3>2. i - 1 = Len(s)
      BY <1>1, <3>1
    <3>3. Upto(s, Len(s)) - Upto(s, h) + k <= Len(p)
      BY <1>3, <1>6, <2>2, <3>2
    <3>4. k \in Int /\ k >= 1
      OBVIOUS
    <3>5. QED
      BY <1>1, <1>3, <1>4, <3>3, <3>4
  <2>4. i \in h + 1 .. Len(s) /\ t[i] = s[i]
    BY <1>1, <1>2, <2>1, <2>3
  <2>5. QED
    BY <1>3, <1>6, <2>2, <2>4 DEF Carries
<1>7. QED
  BY <1>5, <1>6 DEF Carries, t

\* A message gets into the pipe, behind all that is there.
LEMMA CarriesSent ==
    ASSUME NEW p \in Seq(Nat), NEW s \in Seq(Msgs), NEW h \in 0 .. Len(s), NEW body \in Sendable,
           Adjacent(s), Carries(p, s, h), Len(p) = Upto(s, Len(s)) - Upto(s, h)
    PROVE  /\ Carries(p \o Frame(body), Noted(s, body), h)
           /\ Len(p \o Frame(body)) = Upto(Noted(s, body), Len(Noted(s, body))) - Upto(Noted(s, body), h)
<1> DEFINE t == Noted(s, body)  f == Frame(body)
<1>1. Len(p) \in Nat /\ Len(s) \in Nat /\ Len(body) \in Nat /\ Len(f) = 2 + Len(body) /\ f \in Seq(Nat)
  BY LenProperties, FrameOf
<1> HIDE DEF f
<1>2. /\ Len(t) = Len(s) + 1
      /\ \A i \in 1 .. Len(s) : t[i] = s[i]
      /\ \A i \in 0 .. Len(s) : Upto(t, i) = Upto(s, i)
      /\ t[Len(s) + 1].body = body
      /\ Upto(t, Len(s) + 1) = Upto(s, Len(s)) + 2 + Len(body)
  BY NotedOK
<1>3. Upto(s, h) \in Nat /\ Upto(s, Len(s)) \in Nat /\ Upto(t, h) = Upto(s, h) /\ Len(s) \in 0 .. Len(s)
  <2>1. Len(s) \in 0 .. Len(s)
    BY <1>1
  <2>2. QED
    BY <1>2, <2>1, UptoOK
<1>4. /\ Len(p \o f) = Len(p) + Len(f)
      /\ \A i \in 1 .. Len(p) + Len(f) : (p \o f)[i] = IF i <= Len(p) THEN p[i] ELSE f[i - Len(p)]
  <2>1. f \in Seq(Nat)
    BY <1>1
  <2>2. QED
    BY <2>1, ConcatProperties
<1>5. Carries(p, t, h)
  BY CarriesNoted
<1> HIDE DEF t
<1>6. Len(p \o f) = Upto(t, Len(t)) - Upto(t, h)
  BY <1>1, <1>2, <1>3, <1>4
<1>7. ASSUME NEW i \in h + 1 .. Len(t), NEW k \in 1 .. 2 + Len(t[i].body),
             Upto(t, i - 1) - Upto(t, h) + k <= Len(p \o f)
      PROVE  (p \o f)[Upto(t, i - 1) - Upto(t, h) + k] = Frame(t[i].body)[k]
  <2> DEFINE at == Upto(t, i - 1) - Upto(t, h) + k
  <2>1. i \in 1 .. Len(s) + 1 /\ i - 1 \in 0 .. Len(s) /\ h \in 0 .. Len(s)
    BY <1>1, <1>2
  <2>2. Upto(t, i - 1) = Upto(s, i - 1) /\ Upto(s, i - 1) \in Nat
    BY <1>2, <2>1, UptoOK
  <2>3. Upto(s, h) <= Upto(s, i - 1)
    <3>1. CASE h = i - 1
      BY <1>3, <3>1
    <3>2. CASE h # i - 1
      <4>1. h < i - 1
        BY <1>1, <2>1, <3>2
      <4>2. Upto(s, h) < Upto(s, i - 1)
        BY <2>1, <4>1 DEF Adjacent
      <4>3. QED
        BY <1>3, <2>2, <4>2
    <3>3. QED
      BY <3>1, <3>2
  <2>4. CASE i = Len(s) + 1
    <3>1. i - 1 = Len(s) /\ t[i].body = body
      BY <1>1, <1>2, <2>4
    <3>2. at = Len(p) + k /\ k \in 1 .. 2 + Len(body)
      BY <1>3, <2>2, <3>1
    <3>3. at \in 1 .. Len(p) + Len(f) /\ ~(at <= Len(p)) /\ at - Len(p) = k
      BY <1>1, <3>2, SMTT(40)
    <3> HIDE DEF at
    <3>4. (p \o f)[at] = f[at - Len(p)]
      BY <1>4, <3>3
    <3>5. (p \o f)[at] = f[k]
      BY <3>3, <3>4
    <3>6. QED
      BY <3>1, <3>5 DEF at, f
  <2>5. CASE i # Len(s) + 1
    <3>1. i \in 1 .. Len(s) /\ i \in 0 .. Len(s) /\ t[i] = s[i]
      <4>1. Len(s) \in Nat
        BY LenProperties
      <4>2. i \in 1 .. Len(s) /\ i \in 0 .. Len(s)
        BY <2>1, <2>5, <4>1
      <4>3. QED
        BY <1>2, <4>2
    <3>2. Upto(s, i) = Upto(s, i - 1) + 2 + Len(s[i].body) /\ Len(s[i].body) \in Nat
      BY <3>1, BodyOK DEF Adjacent
    <3>3. Upto(s, i) <= Upto(s, Len(s)) /\ Upto(s, i) \in Nat
      <4>1. i < Len(s) \/ i = Len(s)
        BY <1>1, <3>1
      <4>2. Upto(s, i) \in Nat
        BY <3>1, UptoOK
      <4>3. CASE i < Len(s)
        <5>1. Upto(s, i) < Upto(s, Len(s))
          BY <1>3, <3>1, <4>3 DEF Adjacent
        <5>2. QED
          BY <1>3, <4>2, <5>1
      <4>4. CASE i = Len(s)
        BY <1>3, <4>2, <4>4
      <4>5. QED
        BY <4>1, <4>3, <4>4
    <3>4. k \in 1 .. 2 + Len(s[i].body) /\ k \in Int /\ at = Upto(s, i - 1) - Upto(s, h) + k
      BY <1>3, <2>2, <3>1
    <3> HIDE DEF at
    <3>5. at \in 1 .. Len(p)
      <4>1. at \in Int /\ at >= 1
        BY <1>3, <2>2, <2>3, <3>4, SMTT(40)
      <4>2. k <= 2 + Len(s[i].body) /\ Upto(s, i) \in Int
        BY <3>2, <3>3, <3>4
      <4>3. Upto(s, i - 1) + k <= Upto(s, i)
        <5> DEFINE u == Upto(s, i - 1)  v == Upto(s, i)  l == Len(s[i].body)
        <5>1. u \in Nat /\ l \in Nat /\ v = u + 2 + l /\ k \in Int /\ k <= 2 + l
          BY <2>2, <3>2, <3>4, <4>2
        <5> HIDE DEF u, v, l
        <5>2. u + k <= v
          BY <5>1
        <5>3. QED
          BY <5>2 DEF u, v
      <4>4. at <= Upto(s, i) - Upto(s, h)
        BY <1>3, <2>2, <3>4, <4>2, <4>3, SMTT(40)
      <4>5. at <= Len(p)
        BY <1>1, <1>3, <3>3, <4>1, <4>4
      <4>6. QED
        BY <1>1, <4>1, <4>5
    <3>6. p[at] = Frame(t[i].body)[k]
      BY <1>5, <3>5 DEF Carries, at
    <3>7. (p \o f)[at] = p[at]
      BY <1>1, <1>4, <3>5
    <3>8. QED
      BY <3>6, <3>7 DEF at
  <2>6. QED
    BY <2>4, <2>5
<1>8. Len(p \o f) <= Upto(t, Len(t)) - Upto(t, h)
  BY <1>1, <1>4, <1>6
<1>9. Carries(p \o f, t, h)
  BY <1>7, <1>8 DEF Carries
<1>10. QED
  BY <1>6, <1>9 DEF t, f

\* What is at the head of the pipe is the next message.
LEMMA NextFrame ==
    ASSUME NEW p \in Seq(Nat), NEW s \in Seq(Msgs), NEW h \in 0 .. Len(s),
           Adjacent(s), Carries(p, s, h), Len(p) >= 2
    PROVE  /\ h + 1 \in 1 .. Len(s)
           /\ Upto(s, h + 1) = Upto(s, h) + 2 + Len(s[h + 1].body)
           /\ FrameLen(p) = Len(s[h + 1].body)
           /\ \A k \in 1 .. 2 + Len(s[h + 1].body) : k <= Len(p) => p[k] = Frame(s[h + 1].body)[k]
<1>1. Len(p) \in Nat /\ Len(s) \in Nat
  BY LenProperties
<1>2. Upto(s, h) \in Nat
  BY UptoOK
<1>3. h + 1 \in 1 .. Len(s) /\ (h + 1) - 1 = h /\ h + 1 \in h + 1 .. Len(s)
  <2>1. SUFFICES ASSUME h = Len(s) PROVE FALSE
    BY <1>1
  <2>2. Len(p) <= Upto(s, Len(s)) - Upto(s, h)
    BY DEF Carries
  <2>3. Len(p) <= 0
    BY <1>2, <2>1, <2>2
  <2>4. QED
    BY <1>1, <2>3
<1> DEFINE body == s[h + 1].body
<1>4. body \in Sendable /\ Len(body) \in Nat /\ Len(body) >= 1
  BY <1>3, BodyOK
<1>5. Upto(s, h + 1) = Upto(s, h) + 2 + Len(body)
  BY <1>3 DEF Adjacent
<1>6. ASSUME NEW k \in 1 .. 2 + Len(body), k <= Len(p)
      PROVE  p[k] = Frame(body)[k]
  <2>1. Upto(s, (h + 1) - 1) - Upto(s, h) + k = k
    BY <1>2, <1>3
  <2>2. Upto(s, (h + 1) - 1) - Upto(s, h) + k <= Len(p)
    BY <1>6, <2>1
  <2>3. p[Upto(s, (h + 1) - 1) - Upto(s, h) + k] = Frame(body)[k]
    BY <1>3, <2>2 DEF Carries
  <2>4. QED
    BY <2>1, <2>3
<1> HIDE DEF body
<1>7. FrameLen(p) = Len(body)
  <2>1. 1 \in 1 .. 2 + Len(body) /\ 2 \in 1 .. 2 + Len(body) /\ 1 <= Len(p) /\ 2 <= Len(p)
    BY <1>1, <1>4
  <2>2. p[1] = Frame(body)[1] /\ p[2] = Frame(body)[2]
    BY <1>6, <2>1
  <2>3. Frame(body)[1] + Base * Frame(body)[2] = Len(body)
    BY <1>4, FrameOf
  <2>4. QED
    BY <2>2, <2>3 DEF FrameLen
<1>8. QED
  BY <1>3, <1>5, <1>6, <1>7 DEF body

LEMMA AfterOK ==
    ASSUME NEW p \in Seq(Nat), NEW n \in Nat, FrameLen(p) = n, Len(p) >= 2 + n
    PROVE  /\ After(p) = SubSeq(p, (2 + n) + 1, Len(p))
           /\ After(p) \in Seq(Nat) /\ Len(After(p)) = Len(p) - (2 + n)
           /\ p = SubSeq(p, 1, 2 + n) \o After(p)
           /\ SubSeq(p, 1, 2 + n) \in Seq(Nat) /\ Len(SubSeq(p, 1, 2 + n)) = 2 + n
<1>1. Len(p) \in Nat
  BY LenProperties
<1>2. 2 + n \in 0 .. Len(p) /\ 3 + n = (2 + n) + 1
  BY <1>1
<1>3. After(p) = SubSeq(p, (2 + n) + 1, Len(p))
  BY <1>2 DEF After
<1>4. QED
  BY <1>2, <1>3, Cutting, ZenonT(60)

LEMMA Piece ==
    ASSUME NEW s \in Seq(Nat), NEW m \in 1 .. Len(s), NEW n \in m .. Len(s)
    PROVE  /\ SubSeq(s, m, n) \in Seq(Nat) /\ Len(SubSeq(s, m, n)) = n - m + 1
           /\ \A i \in 1 .. n - m + 1 : SubSeq(s, m, n)[i] = s[m + i - 1]
<1>1. Len(s) \in Nat
  BY LenProperties
<1>2. m \in Int /\ n \in Int /\ m <= n
  BY <1>1
<1>3. \A i \in m .. n : s[i] \in Nat
  <2>1. TAKE i \in m .. n
  <2>2. i \in 1 .. Len(s)
    BY <1>1
  <2>3. QED
    BY <2>2, ElementOfSeq
<1>4. QED
  BY <1>2, <1>3, SubSeqProperties

LEMMA BodyDecoded ==
    ASSUME NEW p \in Seq(Nat), NEW body \in Sendable, FrameLen(p) = Len(body), Len(p) >= 2 + Len(body),
           \A k \in 1 .. 2 + Len(body) : p[k] = Frame(body)[k]
    PROVE  Body(p) = body
<1> DEFINE n == Len(body)
<1>1. /\ body \in Seq(Nat) /\ n \in Nat /\ n >= 1
      /\ \A k \in 1 .. n : Frame(body)[2 + k] = body[k]
  <2>1. n \in 1 .. MaxFrame /\ MaxFrame \in Nat
    BY FrameOf
  <2>2. QED
    BY <2>1, FrameOf, SMTT(40)
<1>2. Len(p) \in Nat
  BY LenProperties
<1> HIDE DEF n
<1> DEFINE from == 3  to == 2 + n  b == SubSeq(p, from, to)
<1>3. Body(p) = b
  BY DEF Body, n
<1>4. from \in 1 .. Len(p) /\ to \in from .. Len(p) /\ to - from + 1 = n /\ \A i \in 1 .. n : from + i - 1 = 2 + i
  BY <1>1, <1>2 DEF n
<1> HIDE DEF from, to
<1>5. /\ b \in Seq(Nat) /\ Len(b) = to - from + 1
      /\ \A i \in 1 .. to - from + 1 : b[i] = p[from + i - 1]
  BY <1>4, Piece
<1> HIDE DEF b
<1>6. Len(b) = n /\ \A i \in 1 .. n : b[i] = p[2 + i]
  BY <1>4, <1>5
<1>7. ASSUME NEW i \in 1 .. n
      PROVE  b[i] = body[i]
  <2>1. 2 + i \in 1 .. 2 + n
    BY <1>1
  <2>2. b[i] = p[2 + i]
    BY <1>6
  <2>3. p[2 + i] = Frame(body)[2 + i]
    BY <2>1 DEF n
  <2>4. QED
    BY <1>1, <2>2, <2>3
<1>8. b = body
  <2>1. Len(b) = Len(body) /\ \A i \in 1 .. Len(b) : b[i] = body[i]
    BY <1>6, <1>7 DEF n
  <2>2. QED
    BY <1>1, <1>5, <2>1, SeqEqual
<1>9. QED
  BY <1>3, <1>8

\* Without its first message, the pipe carries the stream from the next one on.
LEMMA CarriesAfter ==
    ASSUME NEW c \in Seq(Nat), NEW p \in Seq(Nat), NEW s \in Seq(Msgs), NEW h \in 0 .. Len(s),
           h + 1 \in 1 .. Len(s), Adjacent(s), Carries(c \o p, s, h),
           Len(c) = 2 + Len(s[h + 1].body)
    PROVE  /\ Carries(p, s, h + 1)
           /\ Len(p) = Len(c \o p) - (Upto(s, h + 1) - Upto(s, h))
<1> DEFINE n == Len(c)  m == Len(p)
<1>1. n \in Nat /\ m \in Nat /\ Len(s) \in Nat
  BY LenProperties
<1>2. /\ Len(c \o p) = n + m
      /\ \A i \in 1 .. n + m : (c \o p)[i] = IF i <= n THEN c[i] ELSE p[i - n]
  BY ConcatProperties
<1>3. /\ Upto(s, h) \in Nat /\ Upto(s, h + 1) \in Nat /\ Upto(s, Len(s)) \in Nat
      /\ (h + 1) - 1 = h /\ h + 1 \in 0 .. Len(s)
  <2>1. h + 1 \in 0 .. Len(s) /\ Len(s) \in 0 .. Len(s)
    BY <1>1
  <2>2. QED
    BY <1>1, <2>1, UptoOK
<1>4. Upto(s, h + 1) = Upto(s, h) + n
  <2>1. Upto(s, h + 1) = Upto(s, (h + 1) - 1) + 2 + Len(s[h + 1].body)
    BY DEF Adjacent
  <2> DEFINE l == Len(s[h + 1].body)  u == Upto(s, h)  v == Upto(s, h + 1)
  <2>2. l \in Nat /\ n = 2 + l /\ u \in Nat
    BY <1>3, BodyOK
  <2>3. v = u + 2 + l
    BY <1>3, <2>1
  <2> HIDE DEF l, u, v, n
  <2>4. v = u + n
    BY <2>2, <2>3
  <2>5. QED
    BY <2>4 DEF u, v
<1> DEFINE u == Upto(s, h)  v == Upto(s, h + 1)  e == Upto(s, Len(s))  all == c \o p
<1>5. /\ u \in Nat /\ v \in Nat /\ e \in Nat /\ v = u + n /\ Len(all) = n + m
      /\ Len(all) <= e - u
  BY <1>2, <1>3, <1>4 DEF Carries
<1> HIDE DEF u, v, e, all, n, m
<1>6. m = Len(all) - (v - u)
  BY <1>1, <1>5
<1>7. m <= e - v
  BY <1>1, <1>5
<1>8. ASSUME NEW i \in h + 1 + 1 .. Len(s), NEW k \in 1 .. 2 + Len(s[i].body),
             Upto(s, i - 1) - Upto(s, h + 1) + k <= Len(p)
      PROVE  p[Upto(s, i - 1) - Upto(s, h + 1) + k] = Frame(s[i].body)[k]
  <2>1. i \in h + 1 .. Len(s) /\ i - 1 \in 0 .. Len(s) /\ i \in 1 .. Len(s)
    BY <1>1
  <2>2. Upto(s, i - 1) \in Nat /\ Len(s[i].body) \in Nat
    BY <2>1, UptoOK, BodyOK
  <2>3. Upto(s, h + 1) <= Upto(s, i - 1)
    <3>1. CASE h + 1 = i - 1
      BY <1>3, <3>1
    <3>2. CASE h + 1 # i - 1
      <4>1. h + 1 < i - 1
        BY <1>1, <2>1, <3>2
      <4>2. Upto(s, h + 1) < Upto(s, i - 1)
        BY <1>3, <2>1, <4>1 DEF Adjacent
      <4>3. QED
        BY <1>3, <2>2, <4>2
    <3>3. QED
      BY <3>1, <3>2
  <2> DEFINE w == Upto(s, i - 1)  at == w - v + k  from == w - u + k
  <2>4. k \in Int /\ k >= 1 /\ w \in Nat /\ v <= w /\ w - v + k <= m
    BY <1>8, <2>2, <2>3 DEF v, m
  <2>5. from <= Len(all) => all[from] = Frame(s[i].body)[k]
    BY <2>1 DEF Carries, u, all
  <2> HIDE DEF w
  <2>6. at \in Int /\ at >= 1 /\ at <= m
    BY <1>1, <1>5, <2>4
  <2>7. from = n + at
    BY <1>1, <1>5, <2>4
  <2> HIDE DEF at, from
  <2>8. at \in 1 .. m /\ from = n + at
    BY <1>1, <2>6, <2>7
  <2>9. from \in 1 .. n + m /\ ~(from <= n) /\ from - n = at /\ from <= Len(all)
    <3>1. Len(all) = n + m
      BY <1>5
    <3>2. QED
      BY <1>1, <2>8, <3>1
  <2>10. all[from] = p[from - n]
    BY <1>2, <2>9 DEF all
  <2>11. p[at] = Frame(s[i].body)[k]
    BY <2>5, <2>9, <2>10
  <2>12. QED
    BY <2>11 DEF at, w, v
<1>9. Carries(p, s, h + 1)
  BY <1>7, <1>8 DEF Carries, e, v, m
<1>10. QED
  BY <1>6, <1>9 DEF all, u, v, m

-----------------------------------------------------------------------------
(* The buffers.                                                                *)

\* The bytes are kept in sequences, a buffer that is passed by is empty, and a receiver
\* that waits for more has no frame it could decode.
BuffersOK ==
    /\ dir \in {"up", "down", "web"}
    /\ out \in Seq(Nat) /\ held \in Seq(Nat) /\ wire \in Seq(Nat) /\ in \in Seq(Nat)
    /\ Len(in) <= InBuf
    /\ dir # "web" => Len(wire) <= Room
    /\ bridged \in BOOLEAN /\ dropped \in BOOLEAN
    /\ bridged => held = << >>
    /\ ~bridged => dir = "web" /\ wire = << >>
    /\ link \in {"open", "broken", "closed"} /\ (link # "open" => out = << >>)
    /\ reading = "recv" => ~BadLen(in) /\ ~Complete(in)

\* The messages: each lies behind the one before it.
SentOK ==
    /\ sent \in Seq(Msgs) /\ Adjacent(sent)
    /\ handled \in Seq(Seq(Nat))

\* Where a sender writes, the bytes it had are divided between the network and its buffer.
LEMMA WriteOK ==
    ASSUME BuffersOK, NEW bytes \in Seq(Nat), dir # "web", Write(bytes)
    PROVE  /\ out' \in Seq(Nat) /\ wire' \in Seq(Nat) /\ Len(wire') <= Room
           /\ \E part \in Seq(Nat) : wire' = wire \o part /\ part \o out' = bytes
<1> DEFINE k == Fits(bytes)  a == SubSeq(bytes, 1, k)
<1>1. wire \in Seq(Nat) /\ Len(wire) <= Room
  BY DEF BuffersOK
<1>2. k \in 0 .. Len(bytes)
  BY <1>1, FitsOK
<1>3. k <= Room - Len(wire) /\ Room \in Nat /\ Len(wire) \in Nat /\ Len(bytes) \in Nat /\ k \in Nat
  <2>1. Room \in Nat /\ Len(wire) \in Nat /\ Len(bytes) \in Nat
    BY <1>1, LenProperties, FramingConstants
  <2>2. QED
    BY <1>2, <2>1 DEF Fits, Least
<1>4. wire' = wire \o a /\ out' = SubSeq(bytes, k + 1, Len(bytes))
  BY DEF Write
<1> HIDE DEF k
<1>5. a \in Seq(Nat) /\ out' \in Seq(Nat) /\ Len(a) = k /\ a \o out' = bytes
  BY <1>2, <1>4, Cutting
<1> HIDE DEF a
<1>6. wire' \in Seq(Nat) /\ Len(wire') = Len(wire) + Len(a)
  BY <1>1, <1>4, <1>5, ConcatProperties
<1>7. Len(wire') <= Room
  BY <1>3, <1>5, <1>6
<1>8. QED
  BY <1>4, <1>5, <1>6, <1>7

LEMMA SendFits ==
    ASSUME BuffersOK, NEW body \in Sendable
    PROVE  Frame(body) \in Seq(Nat) /\ out \o Frame(body) \in Seq(Nat)
<1>1. out \in Seq(Nat) /\ Frame(body) \in Seq(Nat)
  BY FrameOf DEF BuffersOK
<1>2. QED
  BY <1>1, ConcatProperties

LEMMA ServerSendsOK ==
    ASSUME BuffersOK, NEW body \in Sendable, ServerSends(body)
    PROVE  BuffersOK'
<1>1. dir = "down" /\ link # "closed" /\ UNCHANGED <<dir, held, bridged, in, reading, link>>
  BY DEF ServerSends
<1>2. bridged /\ held = << >>
  BY <1>1 DEF BuffersOK
<1>3. CASE link = "open" /\ Write(out \o Frame(body)) /\ UNCHANGED dropped
  <2>1. out \o Frame(body) \in Seq(Nat)
    BY SendFits
  <2>2. out' \in Seq(Nat) /\ wire' \in Seq(Nat) /\ Len(wire') <= Room
    BY <1>1, <1>3, <2>1, WriteOK
  <2>3. QED
    BY <1>1, <1>2, <1>3, <2>2 DEF BuffersOK, BadLen, Complete, FrameLen
<1>4. CASE out' = << >> /\ UNCHANGED wire /\ dropped' \in BOOLEAN
  BY <1>1, <1>2, <1>4 DEF BuffersOK, BadLen, Complete, FrameLen
<1>5. QED
  BY <1>3, <1>4 DEF ServerSends, BuffersOK

LEMMA ClientSendsOK ==
    ASSUME BuffersOK, NEW body \in Sendable, ClientSends(body)
    PROVE  BuffersOK'
<1>1. dir = "up" /\ link = "open" /\ UNCHANGED <<dir, held, bridged, in, reading, link, dropped>> /\ Write(Frame(body))
  BY DEF ClientSends
<1>2. bridged /\ held = << >>
  BY <1>1 DEF BuffersOK
<1>3. out' \in Seq(Nat) /\ wire' \in Seq(Nat) /\ Len(wire') <= Room
  BY <1>1, SendFits, WriteOK
<1>4. QED
  BY <1>1, <1>2, <1>3 DEF BuffersOK, BadLen, Complete, FrameLen

LEMMA FlushOK ==
    ASSUME BuffersOK, Flush
    PROVE  BuffersOK'
<1>1. dir # "web" /\ link = "open" /\ UNCHANGED <<dir, held, bridged, in, reading, link, dropped>> /\ Write(out)
  BY DEF Flush
<1>2. bridged /\ held = << >> /\ out \in Seq(Nat)
  BY <1>1 DEF BuffersOK
<1>3. out' \in Seq(Nat) /\ wire' \in Seq(Nat) /\ Len(wire') <= Room
  BY <1>1, <1>2, WriteOK
<1>4. QED
  BY <1>1, <1>2, <1>3 DEF BuffersOK, BadLen, Complete, FrameLen

LEMMA BrowserSendsOK ==
    ASSUME BuffersOK, NEW body \in Sendable, BrowserSends(body)
    PROVE  BuffersOK'
<1>1. out' \in Seq(Nat)
  BY SendFits DEF BrowserSends
<1>2. QED
  BY <1>1 DEF BrowserSends, BuffersOK, BadLen, Complete, FrameLen

LEMMA SendFailsOK ==
    ASSUME BuffersOK, SendFails
    PROVE  BuffersOK'
BY DEF SendFails, BuffersOK, BadLen, Complete, FrameLen

LEMMA BridgeConnectsOK ==
    ASSUME BuffersOK, BridgeConnects
    PROVE  BuffersOK'
BY DEF BridgeConnects, BuffersOK, BadLen, Complete, FrameLen

LEMMA BridgeTakesOK ==
    ASSUME BuffersOK, BridgeTakes
    PROVE  BuffersOK'
<1>1. PICK k \in 1 .. Len(out) :
        /\ out' = SubSeq(out, k + 1, Len(out))
        /\ IF bridged THEN wire' = wire \o SubSeq(out, 1, k) /\ UNCHANGED held
                      ELSE held' = held \o SubSeq(out, 1, k) /\ UNCHANGED wire
  BY DEF BridgeTakes
<1>2. dir = "web" /\ link = "open" /\ UNCHANGED <<dir, bridged, in, reading, link, dropped>>
  BY DEF BridgeTakes
<1> DEFINE a == SubSeq(out, 1, k)
<1>3. a \in Seq(Nat) /\ out' \in Seq(Nat)
  <2>1. out \in Seq(Nat) /\ k \in 0 .. Len(out)
    BY DEF BuffersOK
  <2>2. QED
    BY <1>1, <2>1, Cutting
<1> HIDE DEF a
<1>4. wire \o a \in Seq(Nat) /\ held \o a \in Seq(Nat)
  <2>1. wire \in Seq(Nat) /\ held \in Seq(Nat)
    BY DEF BuffersOK
  <2>2. QED
    BY <1>3, <2>1, ConcatProperties
<1>5. CASE bridged
  <2>1. wire' = wire \o a /\ UNCHANGED held
    BY <1>1, <1>5 DEF a
  <2>2. QED
    BY <1>2, <1>3, <1>4, <1>5, <2>1 DEF BuffersOK, BadLen, Complete, FrameLen
<1>6. CASE ~bridged
  <2>1. held' = held \o a /\ UNCHANGED wire
    BY <1>1, <1>6 DEF a
  <2>2. QED
    BY <1>2, <1>3, <1>4, <1>6, <2>1 DEF BuffersOK, BadLen, Complete, FrameLen
<1>7. QED
  BY <1>5, <1>6

LEMMA CloseOK ==
    ASSUME BuffersOK, Close
    PROVE  BuffersOK' /\ \E part \in Seq(Nat), rest \in Seq(Nat) : wire' = wire \o part /\ part \o rest = out
<1>1. link' = "closed" /\ out' = << >> /\ held' = << >> /\ UNCHANGED <<dir, bridged, in, reading, dropped>>
  BY DEF Close
<1>2. out \in Seq(Nat) /\ wire \in Seq(Nat) /\ << >> \in Seq(Nat)
  BY DEF BuffersOK
<1>3. CASE link = "open" /\ dir = "down"
  <2> DEFINE k == Fits(out)  a == SubSeq(out, 1, k)  b == SubSeq(out, k + 1, Len(out))
  <2>1. wire' = wire \o a
    BY <1>3 DEF Close
  <2>2. Len(wire) <= Room
    BY <1>3 DEF BuffersOK
  <2>3. k \in 0 .. Len(out)
    BY <1>2, <2>2, FitsOK
  <2>4. k <= Room - Len(wire) /\ Room \in Nat /\ Len(wire) \in Nat /\ k \in Nat
    <3>1. Room \in Nat /\ Len(wire) \in Nat /\ Len(out) \in Nat
      BY <1>2, LenProperties, FramingConstants
    <3>2. QED
      BY <2>3, <3>1 DEF Fits, Least
  <2> HIDE DEF k
  <2>5. a \in Seq(Nat) /\ b \in Seq(Nat) /\ Len(a) = k /\ a \o b = out
    BY <1>2, <2>3, Cutting
  <2> HIDE DEF a, b
  <2>6. wire' \in Seq(Nat) /\ Len(wire') = Len(wire) + Len(a)
    BY <1>2, <2>1, <2>5, ConcatProperties
  <2>7. Len(wire') <= Room
    BY <2>4, <2>5, <2>6
  <2>8. BuffersOK'
    BY <1>1, <1>2, <1>3, <2>6, <2>7 DEF BuffersOK, BadLen, Complete, FrameLen
  <2>9. QED
    BY <2>1, <2>5, <2>8
<1>4. CASE ~(link = "open" /\ dir = "down")
  <2>1. wire' = wire
    BY <1>4 DEF Close
  <2>2. BuffersOK'
    BY <1>1, <1>2, <2>1 DEF BuffersOK, BadLen, Complete, FrameLen
  <2>3. wire' = wire \o << >> /\ << >> \o out = out
    BY <1>2, <2>1, ConcatEmptySeq
  <2>4. QED
    BY <1>2, <2>2, <2>3
<1>5. QED
  BY <1>3, <1>4

LEMMA ReceiveOK ==
    ASSUME BuffersOK, Receive
    PROVE  /\ BuffersOK'
           /\ \E part \in Seq(Nat) : in' = in \o part /\ part \o wire' = wire
<1>1. PICK k \in 1 .. Least(Len(wire), InBuf - Len(in)) :
        in' = in \o SubSeq(wire, 1, k) /\ wire' = SubSeq(wire, k + 1, Len(wire))
  BY DEF Receive
<1>2. reading' = "decode" /\ UNCHANGED <<dir, out, held, bridged, link, dropped>>
  BY DEF Receive
<1>3. in \in Seq(Nat) /\ wire \in Seq(Nat)
  BY DEF BuffersOK
<1>4. Len(wire) \in Nat /\ Len(in) \in Nat /\ InBuf \in Nat /\ Room \in Nat
  BY <1>3, LenProperties, FramingConstants
<1>5. k \in 0 .. Len(wire) /\ k >= 1 /\ Len(in) + k <= InBuf
  BY <1>4 DEF Least
<1> DEFINE a == SubSeq(wire, 1, k)
<1>6. a \in Seq(Nat) /\ wire' \in Seq(Nat) /\ Len(a) = k /\ Len(wire') = Len(wire) - k /\ a \o wire' = wire
  BY <1>1, <1>3, <1>5, Cutting
<1>7. in' = in \o a
  BY <1>1
<1> HIDE DEF a
<1>8. in' \in Seq(Nat) /\ Len(in') = Len(in) + Len(a)
  BY <1>3, <1>6, <1>7, ConcatProperties
<1>9. Len(in') <= InBuf
  BY <1>4, <1>5, <1>6, <1>8
<1>10. (dir # "web" => Len(wire') <= Room) /\ (~bridged => wire' = << >>)
  <2>1. dir # "web" => Len(wire) <= Room
    BY DEF BuffersOK
  <2>2. wire # << >>
    BY <1>4, <1>5
  <2>3. bridged
    BY <2>2 DEF BuffersOK
  <2>4. QED
    BY <1>4, <1>5, <1>6, <2>1, <2>3
<1>11. BuffersOK'
  BY <1>2, <1>6, <1>8, <1>9, <1>10 DEF BuffersOK
<1>12. QED
  BY <1>6, <1>7, <1>11

LEMMA EndsOK ==
    ASSUME BuffersOK, Ends
    PROVE  BuffersOK'
BY DEF Ends, BuffersOK

LEMMA CompleteOK ==
    ASSUME BuffersOK, Complete(in)
    PROVE  /\ FrameLen(in) \in Nat /\ FrameLen(in) >= 1 /\ FrameLen(in) <= MaxFrame
           /\ Len(in) \in Nat /\ Len(in) >= 2 /\ Len(in) >= 2 + FrameLen(in)
           /\ After(in) \in Seq(Nat) /\ Len(After(in)) <= InBuf
           /\ Body(in) \in Seq(Nat)
<1>1. in \in Seq(Nat) /\ Len(in) <= InBuf /\ Len(in) >= 2 /\ Len(in) >= 2 + FrameLen(in) /\ FrameLen(in) \in 1 .. MaxFrame
  BY DEF BuffersOK, Complete, BadLen
<1>2. Len(in) \in Nat /\ MaxFrame \in Nat /\ InBuf \in Nat
  BY <1>1, LenProperties, FramingConstants
<1> DEFINE n == FrameLen(in)
<1>3. n \in Nat /\ n >= 1 /\ n <= MaxFrame /\ FrameLen(in) = n /\ Len(in) >= 2 + n
  BY <1>1, <1>2
<1> HIDE DEF n
<1>4. After(in) \in Seq(Nat) /\ Len(After(in)) = Len(in) - (2 + n)
  BY <1>1, <1>3, AfterOK
<1>5. Len(After(in)) <= InBuf
  BY <1>1, <1>2, <1>3, <1>4
<1>6. Body(in) \in Seq(Nat)
  <2>1. 3 \in 1 .. Len(in) /\ 2 + n \in 3 .. Len(in)
    BY <1>2, <1>3
  <2>2. SubSeq(in, 3, 2 + n) \in Seq(Nat)
    BY <1>1, <2>1, Piece
  <2>3. QED
    BY <1>3, <2>2 DEF Body
<1>7. QED
  BY <1>1, <1>2, <1>3, <1>4, <1>5, <1>6

LEMMA DecodeOK ==
    ASSUME BuffersOK, Decode
    PROVE  BuffersOK'
<1>1. UNCHANGED <<dir, out, held, bridged, wire, link, dropped>>
  BY DEF Decode
<1>2. CASE reading' = "refused" /\ UNCHANGED in
  BY <1>1, <1>2 DEF BuffersOK
<1>3. CASE Complete(in) /\ in' = After(in) /\ reading' \in {"decode", "closed"}
  <2>1. in' \in Seq(Nat) /\ Len(in') <= InBuf
    BY <1>3, CompleteOK
  <2>2. QED
    BY <1>1, <1>3, <2>1 DEF BuffersOK
<1>4. CASE ~BadLen(in) /\ ~Complete(in) /\ reading' = "recv" /\ UNCHANGED in
  BY <1>1, <1>4 DEF BuffersOK, BadLen, Complete, FrameLen
<1>5. QED
  BY <1>2, <1>3, <1>4 DEF Decode

LEMMA BuffersKept ==
    ASSUME BuffersOK, [Next]_vars
    PROVE  BuffersOK'
<1>1. ASSUME NEW body \in Bodies, ServerSends(body) \/ ClientSends(body) \/ BrowserSends(body)
      PROVE  BuffersOK'
  BY <1>1, BodiesSendable, ServerSendsOK, ClientSendsOK, BrowserSendsOK
<1>2. CASE Flush \/ SendFails \/ Close
  BY <1>2, FlushOK, SendFailsOK, CloseOK
<1>3. CASE BridgeTakes \/ BridgeConnects
  BY <1>3, BridgeTakesOK, BridgeConnectsOK
<1>4. CASE Receive \/ Ends \/ Decode
  BY <1>4, ReceiveOK, EndsOK, DecodeOK
<1>5. CASE UNCHANGED vars
  BY <1>5 DEF vars, BuffersOK, BadLen, Complete, FrameLen
<1>6. QED
  BY <1>1, <1>2, <1>3, <1>4, <1>5 DEF Next, Sends

LEMMA BuffersAtFirst ==
    ASSUME Init
    PROVE  BuffersOK
<1>1. dir \in {"up", "down", "web"} /\ InBuf \in Nat /\ Room \in Nat
  BY FramingConstants DEF Init
<1>2. << >> \in Seq(Nat) /\ Len(<< >>) = 0
  BY EmptySeq
<1>3. bridged \in BOOLEAN /\ (~bridged => dir = "web")
  BY DEF Init
<1>4. /\ out = << >> /\ held = << >> /\ wire = << >> /\ in = << >>
      /\ reading = "decode" /\ link = "open" /\ dropped = FALSE
  BY DEF Init
<1>5. Len(in) <= InBuf /\ Len(wire) <= Room
  BY <1>1, <1>2, <1>4
<1>6. out \in Seq(Nat) /\ held \in Seq(Nat) /\ wire \in Seq(Nat) /\ in \in Seq(Nat) /\ dropped \in BOOLEAN
  BY <1>2, <1>4
<1>7. link \in {"open", "broken", "closed"} /\ reading # "recv"
  BY <1>4
<1>8. QED
  BY <1>1, <1>3, <1>4, <1>5, <1>6, <1>7, Zenon DEF BuffersOK

\* A receiver that calls recv has room for at least one byte.
LEMMA BuffersHaveRoom ==
    ASSUME BuffersOK
    PROVE  RoomToRead
<1>1. SUFFICES ASSUME reading = "recv" PROVE Len(in) < InBuf
  BY DEF RoomToRead
<1>2. in \in Seq(Nat) /\ ~BadLen(in) /\ ~Complete(in)
  BY <1>1 DEF BuffersOK
<1>3. Len(in) \in Nat /\ InBuf \in Nat /\ MaxFrame \in Nat /\ MaxFrame >= 1 /\ InBuf >= MaxFrame + 2
  BY <1>2, LenProperties, FramingConstants
<1>4. CASE Len(in) < 2
  BY <1>3, <1>4
<1>5. CASE Len(in) >= 2
  <2>1. FrameLen(in) \in 1 .. MaxFrame /\ ~(Len(in) >= 2 + FrameLen(in))
    BY <1>2, <1>5 DEF BadLen, Complete
  <2>2. QED
    BY <1>3, <2>1
<1>6. QED
  BY <1>3, <1>4, <1>5

\* The receive buffer is never full when recv is called (main.c:633, client.c:32), for every
\* limit of frames and every buffer that holds one.
THEOREM AlwaysRoomToRead == Spec => []RoomToRead
<1>1. Init => BuffersOK
  BY BuffersAtFirst
<1>2. BuffersOK /\ [Next]_vars => BuffersOK'
  BY BuffersKept
<1>3. BuffersOK => RoomToRead
  BY BuffersHaveRoom
<1>4. QED
  BY <1>1, <1>2, <1>3, PTL DEF Spec

-----------------------------------------------------------------------------
(* The stream.                                                                 *)

\* All that is on its way, first byte first.
Pipe == in \o (wire \o (held \o out))

\* What is on its way continues what was handled with what was sent, to the end unless the
\* connection was given up.
Promised ==
    ~dropped =>
      /\ reading # "refused"
      /\ Len(handled) \in 0 .. Len(sent)
      /\ \A i \in 1 .. Len(handled) : handled[i] = sent[i].body
      /\ Carries(Pipe, sent, Len(handled))
      /\ link = "open" => Len(Pipe) = Upto(sent, Len(sent)) - Upto(sent, Len(handled))

LEMMA Joined ==
    ASSUME NEW s \in Seq(Nat), NEW t \in Seq(Nat)
    PROVE  s \o t \in Seq(Nat)
BY ConcatProperties

LEMMA PipeOK ==
    ASSUME BuffersOK
    PROVE  Pipe \in Seq(Nat) /\ held \o out \in Seq(Nat) /\ wire \o (held \o out) \in Seq(Nat)
<1>1. in \in Seq(Nat) /\ wire \in Seq(Nat) /\ held \in Seq(Nat) /\ out \in Seq(Nat)
  BY DEF BuffersOK
<1>2. held \o out \in Seq(Nat)
  BY <1>1, Joined
<1>3. wire \o (held \o out) \in Seq(Nat)
  BY <1>1, <1>2, Joined
<1>4. QED
  BY <1>1, <1>2, <1>3, Joined DEF Pipe

LEMMA Assoc ==
    ASSUME NEW a \in Seq(Nat), NEW b \in Seq(Nat), NEW c \in Seq(Nat)
    PROVE  (a \o b) \o c = a \o (b \o c)
BY ConcatAssociative

\* Concatenation by another name, of which only the following is known.
Join(a, b) == a \o b

LEMMA JoinOK ==
    /\ \A a, b \in Seq(Nat) : Join(a, b) \in Seq(Nat)
    /\ \A a, b, c \in Seq(Nat) : Join(Join(a, b), c) = Join(a, Join(b, c))
BY Joined, Assoc DEF Join

LEMMA JoinedFive ==
    ASSUME NEW a \in Seq(Nat), NEW b \in Seq(Nat), NEW c \in Seq(Nat), NEW d \in Seq(Nat), NEW e \in Seq(Nat)
    PROVE  Join(Join(a, Join(b, Join(c, d))), e) = Join(a, Join(b, Join(c, Join(d, e))))
<1>1. Join(c, d) \in Seq(Nat)
  BY JoinOK
<1>2. Join(b, Join(c, d)) \in Seq(Nat)
  BY <1>1, JoinOK
<1>3. Join(Join(a, Join(b, Join(c, d))), e) = Join(a, Join(Join(b, Join(c, d)), e))
  BY <1>2, JoinOK
<1>4. Join(Join(b, Join(c, d)), e) = Join(b, Join(Join(c, d), e))
  BY <1>1, JoinOK
<1>5. QED
  BY <1>3, <1>4, JoinOK

LEMMA PipeAppended ==
    ASSUME BuffersOK, NEW f \in Seq(Nat)
    PROVE  Pipe \o f = in \o (wire \o (held \o (out \o f)))
<1>1. in \in Seq(Nat) /\ wire \in Seq(Nat) /\ held \in Seq(Nat) /\ out \in Seq(Nat)
  BY DEF BuffersOK
<1>2. Join(Join(in, Join(wire, Join(held, out))), f) = Join(in, Join(wire, Join(held, Join(out, f))))
  BY <1>1, JoinedFive
<1>3. QED
  BY <1>2 DEF Join, Pipe

LEMMA NoteIsNoted ==
    ASSUME SentOK, NEW body \in Sendable, Note(body)
    PROVE  sent' = Noted(sent, body)
<1>1. Sent = Upto(sent, Len(sent))
  <2>1. sent \in Seq(Msgs)
    BY DEF SentOK
  <2>2. CASE sent = << >>
    <3>1. Len(sent) = 0
      BY <2>2, EmptySeq
    <3>2. QED
      BY <2>2, <3>1 DEF Sent, Upto
  <2>3. CASE sent # << >>
    <3>1. Len(sent) # 0
      BY <2>1, <2>3, EmptySeq
    <3>2. QED
      BY <2>3, <3>1 DEF Sent, Upto
  <2>4. QED
    BY <2>2, <2>3
<1>2. QED
  BY <1>1 DEF Note, Noted

\* Steps that leave the stream alone, those that send, those that lose the end of it.
LEMMA PromisedSame ==
    ASSUME BuffersOK, SentOK, Promised, Pipe' = Pipe,
           reading' = "refused" => reading = "refused", UNCHANGED <<sent, handled, dropped>>, link' = "open" => link = "open"
    PROVE  SentOK' /\ Promised'
BY DEF SentOK, Promised

LEMMA PromisedSent ==
    ASSUME BuffersOK, SentOK, Promised, NEW body \in Sendable, Note(body), link = "open",
           Pipe' = Pipe \o Frame(body), UNCHANGED <<reading, handled, dropped>>
    PROVE  SentOK' /\ Promised'
<1>1. sent' = Noted(sent, body)
  BY NoteIsNoted
<1>2. sent \in Seq(Msgs) /\ Adjacent(sent)
  BY DEF SentOK
<1>3. /\ sent' \in Seq(Msgs) /\ Len(sent') = Len(sent) + 1 /\ Adjacent(sent')
      /\ \A i \in 1 .. Len(sent) : sent'[i] = sent[i]
  BY <1>1, <1>2, NotedOK
<1>4. SentOK'
  BY <1>3 DEF SentOK
<1>5. SUFFICES ASSUME ~dropped PROVE Promised'
  BY <1>4 DEF Promised
<1>6. /\ reading # "refused" /\ Len(handled) \in 0 .. Len(sent)
      /\ \A i \in 1 .. Len(handled) : handled[i] = sent[i].body
      /\ Carries(Pipe, sent, Len(handled))
      /\ Len(Pipe) = Upto(sent, Len(sent)) - Upto(sent, Len(handled))
  BY <1>5 DEF Promised
<1>7. Pipe \in Seq(Nat)
  BY PipeOK
<1>8. /\ Carries(Pipe', sent', Len(handled))
      /\ Len(Pipe') = Upto(sent', Len(sent')) - Upto(sent', Len(handled))
  BY <1>1, <1>2, <1>6, <1>7, CarriesSent
<1>9. Len(sent) \in Nat /\ Len(handled) \in 0 .. Len(sent')
  BY <1>2, <1>3, <1>6, LenProperties
<1>10. \A i \in 1 .. Len(handled) : handled[i] = sent'[i].body
  BY <1>3, <1>6, <1>9
<1>11. QED
  BY <1>6, <1>8, <1>9, <1>10 DEF Promised

LEMMA PromisedLost ==
    ASSUME BuffersOK, SentOK, Promised, link' # "open", reading' = reading, UNCHANGED <<sent, handled, dropped>>,
           NEW rest \in Seq(Nat), Pipe' \in Seq(Nat), Pipe = Pipe' \o rest
    PROVE  SentOK' /\ Promised'
<1>1. SentOK'
  BY DEF SentOK
<1>2. SUFFICES ASSUME ~dropped PROVE Promised'
  BY <1>1 DEF Promised
<1>3. Carries(Pipe' \o rest, sent, Len(handled)) /\ Len(handled) \in 0 .. Len(sent)
  BY <1>2 DEF Promised
<1>4. Carries(Pipe', sent, Len(handled))
  BY <1>3, CarriesPrefix DEF SentOK
<1>5. QED
  BY <1>2, <1>4 DEF Promised

-----------------------------------------------------------------------------
(* Every step keeps the promise.                                               *)

LEMMA ServerSendsPromised ==
    ASSUME BuffersOK, SentOK, Promised, NEW body \in Sendable, ServerSends(body)
    PROVE  SentOK' /\ Promised'
<1>1. dir = "down" /\ link # "closed" /\ UNCHANGED <<dir, held, bridged, in, reading, link, handled>>
  BY DEF ServerSends
<1>2. held = << >> /\ out \in Seq(Nat) /\ wire \in Seq(Nat) /\ in \in Seq(Nat) /\ Frame(body) \in Seq(Nat)
  BY <1>1, FrameOf DEF BuffersOK
<1>3. CASE dropped' = TRUE /\ UNCHANGED sent
  BY <1>1, <1>3 DEF Promised, SentOK
<1>4. CASE link = "open" /\ Write(out \o Frame(body)) /\ Note(body) /\ UNCHANGED dropped
  <2>1. out \o Frame(body) \in Seq(Nat)
    BY SendFits
  <2>2. PICK part \in Seq(Nat) : wire' = wire \o part /\ part \o out' = out \o Frame(body)
    BY <1>1, <1>4, <2>1, WriteOK
  <2>3. out' \in Seq(Nat)
    BY <1>1, <1>4, <2>1, WriteOK
  <2>4. held' \o out' = out' /\ held \o (out \o Frame(body)) = out \o Frame(body)
    BY <1>1, <1>2, <2>1, <2>3, ConcatEmptySeq
  <2>5. wire' \o out' = wire \o (out \o Frame(body))
    <3>1. (wire \o part) \o out' = wire \o (part \o out')
      BY <1>2, <2>3, Assoc, ZenonT(60)
    <3>2. QED
      BY <2>2, <3>1
  <2>6. Pipe' = in \o (wire \o (held \o (out \o Frame(body))))
    BY <1>1, <2>4, <2>5 DEF Pipe
  <2>7. Pipe \o Frame(body) = in \o (wire \o (held \o (out \o Frame(body))))
    BY <1>2, PipeAppended
  <2>8. QED
    BY <1>1, <1>4, <2>6, <2>7, PromisedSent
<1>5. CASE link # "open" /\ out' = << >> /\ UNCHANGED wire /\ Note(body) /\ UNCHANGED dropped
  <2>1. Pipe' = Pipe
    BY <1>1, <1>5 DEF Pipe, BuffersOK
  <2>2. sent' = Noted(sent, body)
    BY <1>5, NoteIsNoted
  <2>3. sent \in Seq(Msgs) /\ Adjacent(sent)
    BY DEF SentOK
  <2>4. /\ sent' \in Seq(Msgs) /\ Len(sent') = Len(sent) + 1 /\ Adjacent(sent')
        /\ \A i \in 1 .. Len(sent) : sent'[i] = sent[i]
    BY <2>2, <2>3, NotedOK
  <2>5. SentOK'
    BY <1>1, <2>4 DEF SentOK
  <2>6. SUFFICES ASSUME ~dropped PROVE Promised'
    BY <1>5, <2>5 DEF Promised
  <2>7. /\ reading # "refused" /\ Len(handled) \in 0 .. Len(sent)
        /\ \A i \in 1 .. Len(handled) : handled[i] = sent[i].body
        /\ Carries(Pipe, sent, Len(handled))
    BY <2>6 DEF Promised
  <2>8. Carries(Pipe, sent', Len(handled))
    BY <2>2, <2>3, <2>7, PipeOK, CarriesNoted
  <2>9. Len(sent) \in Nat /\ Len(handled) \in 0 .. Len(sent')
    BY <2>3, <2>4, <2>7, LenProperties
  <2>10. \A i \in 1 .. Len(handled) : handled[i] = sent'[i].body
    BY <2>4, <2>7, <2>9
  <2>11. QED
    BY <1>1, <1>5, <2>1, <2>7, <2>8, <2>9, <2>10 DEF Promised
<1>6. QED
  BY <1>3, <1>4, <1>5 DEF ServerSends

LEMMA ClientSendsPromised ==
    ASSUME BuffersOK, SentOK, Promised, NEW body \in Sendable, ClientSends(body)
    PROVE  SentOK' /\ Promised'
<1>1. /\ dir = "up" /\ link = "open" /\ out = << >> /\ Write(Frame(body)) /\ Note(body)
      /\ UNCHANGED <<dir, held, bridged, in, reading, link, dropped, handled>>
  BY DEF ClientSends
<1> DEFINE f == Frame(body)
<1>2. held = << >> /\ wire \in Seq(Nat) /\ in \in Seq(Nat) /\ f \in Seq(Nat) /\ << >> \in Seq(Nat)
  BY <1>1, FrameOf, EmptySeq DEF BuffersOK
<1>3. PICK part \in Seq(Nat) : wire' = wire \o part /\ part \o out' = f
  BY <1>1, <1>2, WriteOK
<1>4. out' \in Seq(Nat)
  BY <1>1, <1>2, WriteOK
<1> HIDE DEF f
<1>5. held' \o out' = out' /\ out \o f = f /\ held \o (out \o f) = f
  <2>1. held' = << >> /\ out = << >> /\ held = << >>
    BY <1>1, <1>2
  <2>2. << >> \o out' = out' /\ << >> \o f = f
    BY <1>2, <1>4, ConcatEmptySeq
  <2>3. QED
    BY <2>1, <2>2
<1>6. wire' \o out' = wire \o f
  <2>1. (wire \o part) \o out' = wire \o (part \o out')
    BY <1>2, <1>4, Assoc, ZenonT(60)
  <2>2. QED
    BY <1>3, <2>1
<1>7. Pipe' = in \o (wire \o (held \o (out \o f)))
  BY <1>1, <1>5, <1>6 DEF Pipe
<1>8. Pipe \o f = in \o (wire \o (held \o (out \o f)))
  BY <1>2, PipeAppended
<1>9. QED
  BY <1>1, <1>7, <1>8, PromisedSent DEF f

LEMMA BrowserSendsPromised ==
    ASSUME BuffersOK, SentOK, Promised, NEW body \in Sendable, BrowserSends(body)
    PROVE  SentOK' /\ Promised'
<1>1. /\ link = "open" /\ Note(body) /\ out' = out \o Frame(body)
      /\ UNCHANGED <<dir, held, bridged, wire, in, reading, link, dropped, handled>>
  BY DEF BrowserSends
<1>2. out \in Seq(Nat) /\ wire \in Seq(Nat) /\ in \in Seq(Nat) /\ held \in Seq(Nat) /\ Frame(body) \in Seq(Nat)
  BY FrameOf DEF BuffersOK
<1>3. Pipe' = in \o (wire \o (held \o (out \o Frame(body))))
  BY <1>1 DEF Pipe
<1>4. Pipe \o Frame(body) = in \o (wire \o (held \o (out \o Frame(body))))
  BY <1>2, PipeAppended
<1>5. QED
  BY <1>1, <1>3, <1>4, PromisedSent

LEMMA FlushPromised ==
    ASSUME BuffersOK, SentOK, Promised, Flush
    PROVE  SentOK' /\ Promised'
<1>1. /\ dir # "web" /\ link = "open" /\ Write(out)
      /\ UNCHANGED <<dir, held, bridged, in, reading, link, dropped, sent, handled>>
  BY DEF Flush
<1>2. held = << >> /\ out \in Seq(Nat) /\ wire \in Seq(Nat)
  BY <1>1 DEF BuffersOK
<1>3. PICK part \in Seq(Nat) : wire' = wire \o part /\ part \o out' = out
  BY <1>1, <1>2, WriteOK
<1>4. out' \in Seq(Nat)
  BY <1>1, <1>2, WriteOK
<1>5. held' \o out' = out' /\ held \o out = out
  BY <1>1, <1>2, <1>4, ConcatEmptySeq
<1>6. wire' \o out' = wire \o out
  <2>1. (wire \o part) \o out' = wire \o (part \o out')
    BY <1>2, <1>4, Assoc
  <2>2. QED
    BY <1>3, <2>1
<1>7. Pipe' = Pipe
  BY <1>1, <1>5, <1>6 DEF Pipe
<1>8. QED
  BY <1>1, <1>7, PromisedSame

LEMMA BridgeTakesPromised ==
    ASSUME BuffersOK, SentOK, Promised, BridgeTakes
    PROVE  SentOK' /\ Promised'
<1>1. link = "open" /\ UNCHANGED <<dir, bridged, in, reading, link, dropped, sent, handled>>
  BY DEF BridgeTakes
<1>2. PICK k \in 1 .. Len(out) :
        /\ out' = SubSeq(out, k + 1, Len(out))
        /\ IF bridged THEN wire' = wire \o SubSeq(out, 1, k) /\ UNCHANGED held
                      ELSE held' = held \o SubSeq(out, 1, k) /\ UNCHANGED wire
  BY DEF BridgeTakes
<1> DEFINE a == SubSeq(out, 1, k)
<1>3. wire \in Seq(Nat) /\ held \in Seq(Nat) /\ out \in Seq(Nat)
  BY DEF BuffersOK
<1>4. a \in Seq(Nat) /\ out' \in Seq(Nat) /\ a \o out' = out
  <2>1. k \in 0 .. Len(out)
    OBVIOUS
  <2>2. QED
    BY <1>2, <1>3, <2>1, Cutting
<1>5. IF bridged THEN wire' = wire \o a /\ UNCHANGED held ELSE held' = held \o a /\ UNCHANGED wire
  BY <1>2
<1> HIDE DEF a
<1>6. ASSUME bridged PROVE Pipe' = Pipe
  <2>1. held = << >> /\ held' = << >> /\ wire' = wire \o a
    BY <1>5, <1>6 DEF BuffersOK
  <2>2. held' \o out' = out' /\ held \o out = out
    BY <1>3, <1>4, <2>1, ConcatEmptySeq
  <2>3. (wire \o a) \o out' = wire \o (a \o out')
    BY <1>3, <1>4, Assoc, ZenonT(60)
  <2>4. wire' \o (held' \o out') = wire \o (held \o out)
    BY <1>4, <2>1, <2>2, <2>3
  <2>5. QED
    BY <1>1, <2>4 DEF Pipe
<1>7. ASSUME ~bridged PROVE Pipe' = Pipe
  <2>1. held' = held \o a /\ wire' = wire
    BY <1>5, <1>7
  <2>2. (held \o a) \o out' = held \o (a \o out')
    BY <1>3, <1>4, Assoc, ZenonT(60)
  <2>3. held' \o out' = held \o out
    BY <1>4, <2>1, <2>2
  <2>4. QED
    BY <1>1, <2>1, <2>3 DEF Pipe
<1>8. Pipe' = Pipe
  BY <1>6, <1>7
<1>9. QED
  BY <1>1, <1>8, PromisedSame

LEMMA BridgeConnectsPromised ==
    ASSUME BuffersOK, SentOK, Promised, BridgeConnects
    PROVE  SentOK' /\ Promised'
<1>1. /\ ~bridged /\ link = "open" /\ wire' = held /\ held' = << >>
      /\ UNCHANGED <<dir, out, in, reading, link, dropped, sent, handled>>
  BY DEF BridgeConnects
<1>2. wire = << >> /\ out \in Seq(Nat) /\ held \o out \in Seq(Nat)
  BY <1>1, PipeOK DEF BuffersOK
<1>3. << >> \o out = out /\ << >> \o (held \o out) = held \o out
  BY <1>2, ConcatEmptySeq
<1>4. wire' \o (held' \o out') = wire \o (held \o out)
  BY <1>1, <1>2, <1>3
<1>5. Pipe' = Pipe
  BY <1>1, <1>4 DEF Pipe
<1>6. QED
  BY <1>1, <1>5, PromisedSame

\* What is left when nothing behind the network is.
LEMMA PipeCut ==
    ASSUME BuffersOK', held' = << >>, out' = << >>
    PROVE  Pipe' = in' \o wire'
<1>1. wire' \in Seq(Nat) /\ << >> \in Seq(Nat)
  BY EmptySeq DEF BuffersOK
<1>2. << >> \o << >> = << >> /\ wire' \o << >> = wire'
  BY <1>1, ConcatEmptySeq
<1>3. QED
  BY <1>2 DEF Pipe

LEMMA SendFailsPromised ==
    ASSUME BuffersOK, SentOK, Promised, SendFails
    PROVE  SentOK' /\ Promised'
<1>1. /\ dir # "web" /\ link' = "broken" /\ out' = << >>
      /\ UNCHANGED <<dir, held, bridged, wire, in, reading, dropped, sent, handled>>
  BY DEF SendFails
<1>2. held = << >> /\ in \in Seq(Nat) /\ wire \in Seq(Nat) /\ out \in Seq(Nat)
  BY <1>1 DEF BuffersOK
<1>3. Pipe' = in \o wire
  BY <1>1, <1>2, SendFailsOK, PipeCut
<1>4. held \o out = out
  BY <1>2, ConcatEmptySeq
<1>5. (in \o wire) \o out = in \o (wire \o out) /\ in \o wire \in Seq(Nat)
  BY <1>2, Assoc, Joined
<1>6. Pipe = Pipe' \o out
  BY <1>3, <1>4, <1>5 DEF Pipe
<1>7. QED
  BY <1>1, <1>2, <1>3, <1>5, <1>6, PromisedLost

LEMMA ClosePromised ==
    ASSUME BuffersOK, SentOK, Promised, Close
    PROVE  SentOK' /\ Promised'
<1>1. link' = "closed" /\ out' = << >> /\ held' = << >> /\ UNCHANGED <<dir, bridged, in, reading, dropped, sent, handled>>
  BY DEF Close
<1>2. in \in Seq(Nat) /\ wire \in Seq(Nat) /\ held \o out \in Seq(Nat) /\ out \in Seq(Nat)
  BY PipeOK DEF BuffersOK
<1>3. Pipe' = in \o wire' /\ wire' \in Seq(Nat)
  BY <1>1, CloseOK, PipeCut DEF BuffersOK
<1>4. Pipe' \in Seq(Nat)
  BY <1>2, <1>3, Joined
<1>5. CASE link = "open" /\ dir = "down"
  <2>1. held = << >>
    BY <1>5 DEF BuffersOK
  <2>2. PICK part \in Seq(Nat), rest \in Seq(Nat) : wire' = wire \o part /\ part \o rest = out
    BY CloseOK
  <2>3. held \o out = out
    BY <1>2, <2>1, ConcatEmptySeq
  <2>4. (wire \o part) \o rest = wire \o (part \o rest)
    BY <1>2, Assoc, ZenonT(60)
  <2>5. wire' \o rest = wire \o (held \o out)
    BY <2>2, <2>3, <2>4
  <2>6. in \in Seq(Nat) /\ wire' \in Seq(Nat) /\ rest \in Seq(Nat)
    BY <1>2, <1>3, <2>2
  <2>7. Join(Join(in, wire'), rest) = Join(in, Join(wire', rest))
    BY <2>6, JoinOK
  <2>8. (in \o wire') \o rest = in \o (wire' \o rest)
    BY <2>7 DEF Join
  <2>9. Pipe = Pipe' \o rest
    BY <1>3, <2>5, <2>8 DEF Pipe
  <2>10. QED
    BY <1>1, <1>4, <2>2, <2>9, PromisedLost
<1>6. CASE ~(link = "open" /\ dir = "down")
  <2>1. wire' = wire
    BY <1>6 DEF Close
  <2> DEFINE rest == held \o out
  <2>2. rest \in Seq(Nat) /\ Pipe = in \o (wire \o rest)
    BY <1>2 DEF Pipe
  <2> HIDE DEF rest
  <2>3. (in \o wire) \o rest = in \o (wire \o rest)
    BY <1>2, <2>2, Assoc
  <2>4. Pipe = Pipe' \o rest
    BY <1>3, <2>1, <2>2, <2>3
  <2>5. QED
    BY <1>1, <1>4, <2>2, <2>4, PromisedLost
<1>7. QED
  BY <1>5, <1>6

LEMMA ReceivePromised ==
    ASSUME BuffersOK, SentOK, Promised, Receive
    PROVE  SentOK' /\ Promised'
<1>1. reading' = "decode" /\ UNCHANGED <<dir, out, held, bridged, link, dropped, sent, handled>>
  BY DEF Receive
<1>2. PICK part \in Seq(Nat) : in' = in \o part /\ part \o wire' = wire
  BY ReceiveOK
<1> DEFINE late == held \o out
<1>3. in \in Seq(Nat) /\ wire' \in Seq(Nat) /\ late \in Seq(Nat)
  BY ReceiveOK, PipeOK DEF BuffersOK
<1>4. Pipe = in \o (wire \o late) /\ Pipe' = in' \o (wire' \o late)
  BY <1>1 DEF Pipe
<1> HIDE DEF late
<1>5. wire' \o late \in Seq(Nat)
  BY <1>3, Joined
<1>6. (part \o wire') \o late = part \o (wire' \o late)
  BY <1>3, Assoc
<1> DEFINE rest == wire' \o late
<1>7. rest \in Seq(Nat) /\ wire \o late = part \o rest /\ Pipe = in \o (part \o rest) /\ Pipe' = (in \o part) \o rest
  BY <1>2, <1>4, <1>5, <1>6
<1> HIDE DEF rest
<1>8. (in \o part) \o rest = in \o (part \o rest)
  BY <1>3, <1>7, Assoc
<1>9. Pipe' = Pipe
  BY <1>7, <1>8
<1>10. QED
  BY <1>1, <1>9, PromisedSame

LEMMA EndsPromised ==
    ASSUME BuffersOK, SentOK, Promised, Ends
    PROVE  SentOK' /\ Promised'
<1>1. reading' = "closed" /\ UNCHANGED <<dir, out, held, bridged, wire, in, link, dropped, sent, handled>>
  BY DEF Ends
<1>2. Pipe' = Pipe
  BY <1>1 DEF Pipe
<1>3. QED
  BY <1>1, <1>2, PromisedSame

\* What the receiver decodes first is the next message, and it is well formed.
LEMMA InPromised ==
    ASSUME BuffersOK, SentOK, Promised, ~dropped, Len(in) >= 2
    PROVE  /\ Len(handled) + 1 \in 1 .. Len(sent)
           /\ FrameLen(in) = Len(sent[Len(handled) + 1].body)
           /\ ~BadLen(in)
           /\ Complete(in) => Body(in) = sent[Len(handled) + 1].body /\ Valid(Body(in))
<1> DEFINE late == wire \o (held \o out)  h == Len(handled)  body == sent[h + 1].body
<1>1. in \in Seq(Nat) /\ late \in Seq(Nat)
  BY PipeOK DEF BuffersOK
<1>2. Carries(in \o late, sent, h) /\ h \in 0 .. Len(sent)
  BY DEF Promised, Pipe
<1>3. sent \in Seq(Msgs) /\ Adjacent(sent)
  BY DEF SentOK
<1> HIDE DEF late
<1>4. Carries(in, sent, h)
  BY <1>1, <1>2, <1>3, CarriesPrefix
<1>5. /\ h + 1 \in 1 .. Len(sent) /\ FrameLen(in) = Len(body)
      /\ \A k \in 1 .. 2 + Len(body) : k <= Len(in) => in[k] = Frame(body)[k]
  BY <1>1, <1>2, <1>3, <1>4, NextFrame
<1>6. body \in Sendable /\ Len(body) \in Nat
  BY <1>3, <1>5, BodyOK
<1> HIDE DEF body, h
<1>7. ~BadLen(in)
  BY <1>5, <1>6, FrameOf DEF BadLen
<1>8. ASSUME Complete(in) PROVE Body(in) = body
  <2>1. Len(in) >= 2 + Len(body) /\ Len(in) \in Nat
    BY <1>1, <1>5, <1>8, LenProperties DEF Complete
  <2>2. \A k \in 1 .. 2 + Len(body) : in[k] = Frame(body)[k]
    BY <1>5, <1>6, <2>1
  <2>3. QED
    BY <1>1, <1>5, <1>6, <2>1, <2>2, BodyDecoded
<1>9. Valid(body)
  BY <1>6 DEF Sendable
<1>10. QED
  BY <1>5, <1>7, <1>8, <1>9 DEF body, h

LEMMA DecodePromised ==
    ASSUME BuffersOK, SentOK, Promised, Decode
    PROVE  SentOK' /\ Promised'
<1>1. UNCHANGED <<dir, out, held, bridged, wire, link, dropped, sent>>
  BY DEF Decode
<1>2. CASE BadLen(in) \/ (Complete(in) /\ ~Valid(Body(in)))
  <2>1. UNCHANGED handled
    BY <1>2 DEF Decode
  <2>2. Len(in) >= 2
    BY <1>2 DEF BadLen, Complete
  <2>3. dropped
    BY <1>2, <2>2, InPromised DEF BuffersOK
  <2>4. QED
    BY <1>1, <2>1, <2>3 DEF SentOK, Promised
<1>3. CASE ~BadLen(in) /\ ~Complete(in)
  <2>1. reading' = "recv" /\ UNCHANGED <<in, handled>>
    BY <1>3 DEF Decode
  <2>2. Pipe' = Pipe
    BY <1>1, <2>1 DEF Pipe
  <2>3. QED
    BY <1>1, <2>1, <2>2, PromisedSame
<1>4. CASE Complete(in) /\ Valid(Body(in)) /\ ~BadLen(in)
  <2>1. handled' = Append(handled, Body(in)) /\ in' = After(in) /\ reading' # "refused"
    BY <1>4 DEF Decode
  <2>2. Body(in) \in Seq(Nat) /\ handled \in Seq(Seq(Nat)) /\ sent \in Seq(Msgs) /\ Adjacent(sent)
    BY <1>4, CompleteOK DEF SentOK
  <2>3. /\ handled' \in Seq(Seq(Nat)) /\ Len(handled') = Len(handled) + 1
        /\ \A i \in 1 .. Len(handled) : handled'[i] = handled[i]
        /\ handled'[Len(handled) + 1] = Body(in)
    BY <2>1, <2>2, AppendProperties
  <2>4. SentOK'
    BY <1>1, <2>2, <2>3 DEF SentOK
  <2>5. SUFFICES ASSUME ~dropped PROVE Promised'
    BY <1>1, <2>4 DEF Promised
  <2> DEFINE h == Len(handled)  n == FrameLen(in)  c == SubSeq(in, 1, 2 + n)  late == wire \o (held \o out)
  <2>6. /\ h \in 0 .. Len(sent) /\ \A i \in 1 .. h : handled[i] = sent[i].body
        /\ Carries(Pipe, sent, h)
        /\ link = "open" => Len(Pipe) = Upto(sent, Len(sent)) - Upto(sent, h)
    BY <2>5 DEF Promised
  <2>7. n \in Nat /\ Len(in) >= 2 /\ Len(in) >= 2 + n /\ in \in Seq(Nat)
    BY <1>4, CompleteOK DEF BuffersOK
  <2>8. h + 1 \in 1 .. Len(sent) /\ n = Len(sent[h + 1].body) /\ Body(in) = sent[h + 1].body
    BY <1>4, <2>5, <2>7, InPromised
  <2>9. /\ After(in) \in Seq(Nat) /\ in = c \o After(in)
        /\ c \in Seq(Nat) /\ Len(c) = 2 + n
    BY <2>7, AfterOK
  <2> HIDE DEF n, c
  <2>10. late \in Seq(Nat) /\ Pipe = in \o late /\ Pipe' = After(in) \o late
    BY <1>1, <2>1, PipeOK DEF Pipe
  <2> HIDE DEF late
  <2>11. (c \o After(in)) \o late = c \o (After(in) \o late) /\ After(in) \o late \in Seq(Nat)
    BY <2>9, <2>10, Assoc, Joined
  <2>12. Pipe = c \o Pipe' /\ Pipe' \in Seq(Nat)
    BY <2>9, <2>10, <2>11
  <2>13. /\ Carries(Pipe', sent, h + 1)
         /\ Len(Pipe') = Len(c \o Pipe') - (Upto(sent, h + 1) - Upto(sent, h))
    <3>1. Carries(c \o Pipe', sent, h) /\ Len(c) = 2 + Len(sent[h + 1].body)
      BY <2>6, <2>8, <2>9, <2>12
    <3>2. QED
      BY <2>2, <2>6, <2>8, <2>9, <2>12, <3>1, CarriesAfter
  <2>14. link = "open" => Len(Pipe') = Upto(sent, Len(sent)) - Upto(sent, h + 1)
    <3> DEFINE u == Upto(sent, h)  v == Upto(sent, h + 1)  w == Upto(sent, Len(sent))
    <3>1. u \in Nat /\ v \in Nat /\ w \in Nat
      <4>1. Len(sent) \in Nat
        BY <2>2, LenProperties
      <4>2. h \in 0 .. Len(sent) /\ h + 1 \in 0 .. Len(sent) /\ Len(sent) \in 0 .. Len(sent)
        BY <2>6, <2>8, <4>1
      <4>3. QED
        BY <2>2, <4>2, UptoOK
    <3>2. SUFFICES ASSUME link = "open" PROVE Len(Pipe') = w - v
      OBVIOUS
    <3>3. Len(Pipe) = w - u
      BY <2>6, <3>2
    <3>4. Len(Pipe') = Len(Pipe) - (v - u)
      BY <2>12, <2>13
    <3> HIDE DEF u, v, w
    <3>5. QED
      BY <3>1, <3>3, <3>4
  <2>15. \A i \in 1 .. h + 1 : handled'[i] = sent[i].body
    <3>1. TAKE i \in 1 .. h + 1
    <3>2. CASE i = h + 1
      BY <2>3, <2>8, <3>2
    <3>3. CASE i # h + 1
      <4>1. i \in 1 .. h
        BY <2>6, <3>3
      <4>2. QED
        BY <2>3, <2>6, <4>1
    <3>4. QED
      BY <3>2, <3>3
  <2>16. Len(handled') = h + 1 /\ h + 1 \in 0 .. Len(sent)
    <3>1. h + 1 \in 0 .. Len(sent)
      BY <2>8
    <3>2. QED
      BY <2>3, <3>1
  <2> HIDE DEF h
  <2>17. QED
    BY <1>1, <2>1, <2>13, <2>14, <2>15, <2>16 DEF Promised
<1>5. QED
  BY <1>2, <1>3, <1>4

LEMMA StreamKept ==
    ASSUME BuffersOK, SentOK, Promised, [Next]_vars
    PROVE  SentOK' /\ Promised'
<1>1. ASSUME NEW body \in Bodies, ServerSends(body) \/ ClientSends(body) \/ BrowserSends(body)
      PROVE  SentOK' /\ Promised'
  BY <1>1, BodiesSendable, ServerSendsPromised, ClientSendsPromised, BrowserSendsPromised
<1>2. CASE Flush \/ SendFails \/ Close
  BY <1>2, FlushPromised, SendFailsPromised, ClosePromised
<1>3. CASE BridgeTakes \/ BridgeConnects
  BY <1>3, BridgeTakesPromised, BridgeConnectsPromised
<1>4. CASE Receive \/ Ends \/ Decode
  BY <1>4, ReceivePromised, EndsPromised, DecodePromised
<1>5. CASE UNCHANGED vars
  BY <1>5 DEF vars, SentOK, Promised, Pipe
<1>6. QED
  BY <1>1, <1>2, <1>3, <1>4, <1>5 DEF Next, Sends

LEMMA StreamAtFirst ==
    ASSUME Init
    PROVE  SentOK /\ Promised
<1>1. in = << >> /\ wire = << >> /\ held = << >> /\ out = << >> /\ sent = << >> /\ handled = << >> /\ reading = "decode"
  BY DEF Init
<1>2. Len(<< >>) = 0 /\ << >> \in Seq(Nat) /\ << >> \in Seq(Msgs) /\ << >> \in Seq(Seq(Nat))
  BY EmptySeq
<1>3. << >> \o << >> = << >>
  BY <1>2, ConcatEmptySeq
<1>4. Pipe = << >>
  BY <1>1, <1>3 DEF Pipe
<1>5. SentOK
  BY <1>1, <1>2 DEF SentOK, Adjacent
<1>6. Len(sent) = 0 /\ Len(handled) = 0 /\ Len(Pipe) = 0 /\ Upto(sent, 0) = 0
  BY <1>1, <1>2, <1>4 DEF Upto
<1>7. Carries(Pipe, sent, 0)
  BY <1>6 DEF Carries
<1>8. Promised
  BY <1>1, <1>6, <1>7 DEF Promised
<1>9. QED
  BY <1>5, <1>8

\* What the receiver handles is what was sent, in order and without a gap, and it refuses
\* nothing, until send_msg drops half a frame (main.c:171): for every base, every limit and
\* however the bytes are cut (dw_encode, dw_decode, read_conn, dwc_recv, the bridge).
THEOREM NothingDistorted == Spec => []Undistorted
<1>1. Init => BuffersOK /\ SentOK /\ Promised
  BY BuffersAtFirst, StreamAtFirst
<1>2. BuffersOK /\ SentOK /\ Promised /\ [Next]_vars => (BuffersOK /\ SentOK /\ Promised)'
  BY BuffersKept, StreamKept
<1>3. BuffersOK /\ SentOK /\ Promised => Undistorted
  <2>1. SUFFICES ASSUME SentOK, Promised, ~dropped
                 PROVE  /\ reading # "refused" /\ Len(handled) <= Len(sent)
                        /\ \A i \in 1 .. Len(handled) : handled[i] = sent[i].body
    BY DEF Undistorted
  <2>2. Len(sent) \in Nat
    BY LenProperties DEF SentOK
  <2>3. QED
    BY <2>1, <2>2 DEF Promised
<1>4. QED
  BY <1>1, <1>2, <1>3, PTL DEF Spec

=============================================================================
