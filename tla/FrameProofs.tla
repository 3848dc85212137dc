---------------------------- MODULE FrameProofs -----------------------------
(***************************************************************************)
(* What the frame parser, the session's reader and the entry window do     *)
(* with bytes, for every alphabet, magic without repetition, payload limit *)
(* and line length: the parser holds exactly what could still become a     *)
(* frame, accepts exactly what the encoder writes, and the line editor     *)
(* never passes a line that was cut for a whole one.                       *)
(***************************************************************************)
EXTENDS FrameReader, EntryWindow, SequenceTheorems, TLAPS

-----------------------------------------------------------------------------
(* The parser: what it holds.                                              *)

\* What has come of the frame so far is a frame as far as it goes, and the
\* command and sequence kept for a NACK are this frame's or nobody's.
WellFormed(p) ==
  /\ Len(p.header) <= HEADER_SIZE
  /\ \A i \in 1..Len(p.header) : i <= MAGIC_SIZE => p.header[i] = Magic[i]
  /\ p.state = "SYNC" =>
       /\ Len(p.header) < MAGIC_SIZE /\ p.payload = <<>> /\ p.crc_bytes = <<>>
       /\ p.header # <<>> => p.error_info = NoInfo
  /\ p.state = "HEADER" =>
       /\ MAGIC_SIZE <= Len(p.header) /\ Len(p.header) < HEADER_SIZE
       /\ p.payload = <<>> /\ p.crc_bytes = <<>> /\ p.error_info = NoInfo
  /\ p.state \in {"PAYLOAD", "CRC"} =>
       /\ Len(p.header) = HEADER_SIZE /\ payload_length(p.header) <= MAX_PAYLOAD_SIZE
       /\ p.error_info = info_of(p.header)
  /\ p.state = "PAYLOAD" => Len(p.payload) < payload_length(p.header) /\ p.crc_bytes = <<>>
  /\ p.state = "CRC" => Len(p.payload) = payload_length(p.header) /\ Len(p.crc_bytes) < CRC_SIZE

\* The bytes the parser holds.
Received(p) == p.header \o p.payload \o p.crc_bytes

\* The sizes of the protocol as numbers.
LEMMA Sizes ==
  /\ ByteValues \in Nat \ {0} /\ MAX_PAYLOAD_SIZE \in Nat
  /\ MAGIC_SIZE \in Nat /\ MAGIC_SIZE > 1 /\ Len(Magic) = MAGIC_SIZE
  /\ HEADER_SIZE = MAGIC_SIZE + 3 /\ HEADER_SIZE \in Nat /\ CRC_SIZE = 2
  /\ Byte \subseteq Nat /\ 0 \in Byte
  /\ Magic \in Seq(Byte) /\ \A i \in 1..MAGIC_SIZE : Magic[i] \in Byte
  /\ NoInfo \in ErrorInfo
<1>1. Magic \in Seq(Byte) /\ Len(Magic) > 1
  BY ParserAssumption DEF Byte
<1>2. Len(Magic) \in Nat /\ \A i \in 1..Len(Magic) : Magic[i] \in Byte
  BY <1>1, LenProperties, ElementOfSeq
<1>3. Byte \subseteq Nat /\ 0 \in Byte
  BY ParserAssumption DEF Byte
<1>4. NoInfo \in ErrorInfo
  BY <1>3 DEF NoInfo, ErrorInfo
<1>. QED  BY <1>1, <1>2, <1>3, <1>4, ParserAssumption DEF MAGIC_SIZE, HEADER_SIZE, CRC_SIZE

\* Of a prefix of the magic and a byte that does not continue it, at most the
\* byte can still start a frame: the bytes of the magic are all different.
LEMMA NextStart ==
  ASSUME NEW h \in Seq(Byte), Len(h) < MAGIC_SIZE,
         \A i \in 1..Len(h) : h[i] = Magic[i],
         NEW byte \in Byte
  PROVE  PossibleStart(Append(h, byte)) =
           IF byte = Magic[Len(h) + 1] THEN Append(h, byte)
           ELSE IF byte = Magic[1] THEN <<byte>> ELSE <<>>
<1>. DEFINE s == Append(h, byte)
            n == Len(h) + 1
            M == MAGIC_SIZE
            starts == {t \in EndsOf(s) : BeginsMagic(t)}
            best == IF byte = Magic[n] THEN s ELSE IF byte = Magic[1] THEN <<byte>> ELSE <<>>
<1>1. /\ n \in Nat /\ n >= 1 /\ n <= M /\ M \in Nat /\ Len(Magic) = M
      /\ s \in Seq(Byte) /\ Len(s) = n /\ s[n] = byte
      /\ \A i \in 1..(n - 1) : s[i] = Magic[i]
  BY LenProperties, AppendProperties, Sizes
<1>2. ASSUME NEW l \in 1..n
      PROVE  LET t == SubSeq(s, l, n)
             IN  /\ t \in Seq(Byte) /\ Len(t) = n - l + 1
                 /\ \A i \in 1..(n - l + 1) : t[i] = s[l + i - 1]
  <2>1. \A i \in l..n : s[i] \in Byte
    BY <1>1, ElementOfSeq
  <2>. HIDE DEF s, n
  <2>. QED  BY <1>1, <2>1, SubSeqProperties
<1>3. ASSUME NEW t \in Seq(Byte), Len(t) <= M
      PROVE  BeginsMagic(t) <=> \A i \in 1..Len(t) : t[i] = Magic[i]
  <2>1. Len(t) \in Nat /\ SubSeq(t, 1, Len(t)) = t
    BY LenProperties, SubSeqFull
  <2>. DEFINE u == SubSeq(Magic, 1, Len(t))
  <2>2. u \in Seq(Byte) /\ Len(u) = Len(t) /\ \A i \in 1..Len(t) : u[i] = Magic[i]
    <3>1. \A i \in 1..Len(t) : Magic[i] \in Byte
      BY <1>3, <2>1, Sizes
    <3>2. /\ u \in Seq(Byte) /\ Len(u) = IF 1 <= Len(t) THEN Len(t) - 1 + 1 ELSE 0
          /\ \A i \in 1..(Len(t) - 1 + 1) : u[i] = Magic[1 + i - 1]
      BY <2>1, <3>1, SubSeqProperties
    <3>. QED  BY <2>1, <3>2
  <2>3. (\A i \in 1..Len(t) : t[i] = u[i]) => t = u
    <3>. HIDE DEF u
    <3>. QED  BY <2>2, SeqEqual
  <2>. HIDE DEF u
  <2>4. BeginsMagic(t) <=> t = u
    BY <1>1, <1>3, <2>1 DEF BeginsMagic, u
  <2>. QED  BY <2>2, <2>3, <2>4
<1>4. ASSUME NEW t \in starts
      PROVE  t = <<>> \/ \E l \in 1..n : t = SubSeq(s, l, n)
  BY <1>1, Zenon DEF EndsOf
<1>5. ASSUME NEW l \in 1..n, SubSeq(s, l, n) \in starts
      PROVE  SubSeq(s, l, n) = best
  <2>. DEFINE t == SubSeq(s, l, n)
              k == n - l + 1
  <2>1. /\ t \in Seq(Byte) /\ Len(t) = k /\ k \in 1..n
        /\ \A i \in 1..k : t[i] = s[l + i - 1] /\ t[i] = Magic[i]
    <3>1. /\ t \in Seq(Byte) /\ Len(t) = k /\ k \in 1..n /\ k <= M
          /\ \A i \in 1..k : t[i] = s[l + i - 1]
      <4>1. /\ t \in Seq(Byte) /\ Len(t) = k
            /\ \A i \in 1..k : t[i] = s[l + i - 1]
        BY <1>2, Zenon
      <4>2. n \in Nat /\ n <= M /\ M \in Nat
        BY <1>1
      <4>. HIDE DEF s, n, t
      <4>3. k \in 1..n /\ k <= M
        BY <4>2
      <4>. QED  BY <4>1, <4>3
    <3>2. BeginsMagic(t)
      BY <1>5
    <3>. HIDE DEF t, s, n, k
    <3>3. \A i \in 1..k : t[i] = Magic[i]
      BY <1>3, <3>1, <3>2
    <3>. QED  BY <3>1, <3>3
  <2>2. byte = Magic[k]
    BY <1>1, <2>1
  <2>3. CASE k = 1
    <3>1. l = n /\ byte = Magic[1]
      BY <2>1, <2>2, <2>3
    <3>2. t = <<byte>>
      <4>1. <<byte>> \in Seq(Byte) /\ Len(<<byte>>) = 1 /\ <<byte>>[1] = byte
        OBVIOUS
      <4>2. Len(t) = 1 /\ t[1] = byte
        BY <1>1, <2>1, <2>3, <3>1
      <4>. HIDE DEF t
      <4>. QED  BY <2>1, <4>1, <4>2, SeqEqual
    <3>3. CASE byte = Magic[n]
      <4>1. n = 1
        <5>1. 1 \in 1..Len(Magic) /\ n \in 1..Len(Magic) /\ Magic[1] = Magic[n]
          BY <1>1, <3>1, <3>3
        <5>. HIDE DEF n
        <5>. QED  BY <5>1, ParserAssumption
      <4>2. s = t
        BY <1>1, <3>1, <4>1, SubSeqFull
      <4>. QED  BY <3>3, <4>2
    <3>. QED  BY <3>1, <3>2, <3>3
  <2>4. CASE k > 1
    <3>1. t[k - 1] = Magic[k - 1] /\ t[k - 1] = s[n - 1] /\ s[n - 1] = Magic[n - 1]
      BY <1>1, <2>1, <2>4
    <3>2. k - 1 \in 1..Len(Magic) /\ n - 1 \in 1..Len(Magic)
      BY <1>1, <2>1, <2>4
    <3>3. k = n /\ l = 1
      BY <1>1, <2>1, <3>1, <3>2, ParserAssumption
    <3>4. t = s
      BY <1>1, <3>3, SubSeqFull
    <3>. QED  BY <2>2, <3>3, <3>4
  <2>5. k = 1 \/ k > 1
    <3>. HIDE DEF k, t, n
    <3>. QED  BY <1>1, <2>1
  <2>. QED  BY <2>3, <2>4, <2>5, Zenon
<1>6. best \in starts /\ best \in Seq(Byte)
  <2>1. <<>> \in Seq(Byte) /\ Len(<<>>) = 0
    BY EmptySeq
  <2>2. <<>> \in EndsOf(s) /\ BeginsMagic(<<>>)
    <3>1. <<>> \in EndsOf(s)
      BY DEF EndsOf
    <3>2. Len(<<>>) <= M /\ \A i \in 1..Len(<<>>) : <<>>[i] = Magic[i]
      BY <1>1, <2>1
    <3>. QED  BY <1>3, <2>1, <3>1, <3>2, Zenon
  <2>3. CASE byte = Magic[n]
    <3>1. s = SubSeq(s, 1, n)
      BY <1>1, SubSeqFull
    <3>2. s \in EndsOf(s)
      BY <1>1, <3>1 DEF EndsOf
    <3>3. BeginsMagic(s)
      <4>1. Len(s) <= M /\ \A i \in 1..Len(s) : s[i] = Magic[i]
        BY <1>1, <2>3
      <4>. HIDE DEF s
      <4>. QED  BY <1>1, <1>3, <4>1
    <3>. QED  BY <1>1, <2>3, <3>2, <3>3
  <2>4. CASE byte # Magic[n] /\ byte = Magic[1]
    <3>1. <<byte>> \in Seq(Byte) /\ Len(<<byte>>) = 1 /\ <<byte>>[1] = byte
      OBVIOUS
    <3>2. SubSeq(s, n, n) = <<byte>>
      <4>1. /\ SubSeq(s, n, n) \in Seq(Byte) /\ Len(SubSeq(s, n, n)) = 1
            /\ SubSeq(s, n, n)[1] = byte
        BY <1>1, <1>2
      <4>. HIDE DEF s, n
      <4>. DEFINE a == SubSeq(s, n, n)
                  b == <<byte>>
      <4>2. a \in Seq(Byte) /\ b \in Seq(Byte) /\ Len(a) = 1 /\ Len(b) = 1 /\ a[1] = b[1]
        BY <3>1, <4>1
      <4>. HIDE DEF a, b
      <4>3. a = b
        BY <4>2, SeqEqual
      <4>. QED  BY <4>3 DEF a, b
    <3>3. <<byte>> \in EndsOf(s)
      BY <1>1, <3>2 DEF EndsOf
    <3>4. BeginsMagic(<<byte>>)
      <4>1. Len(<<byte>>) <= M /\ \A i \in 1..Len(<<byte>>) : <<byte>>[i] = Magic[i]
        BY <1>1, <2>4, <3>1
      <4>. QED  BY <1>3, <3>1, <4>1, Zenon
    <3>. QED  BY <2>4, <3>1, <3>3, <3>4
  <2>. QED  BY <2>1, <2>2, <2>3, <2>4
<1>7. ASSUME NEW t \in starts PROVE t = best \/ t = <<>>
  BY <1>4, <1>5, Zenon
<1>8. Len(best) \in Nat /\ (Len(best) = 0 => best = <<>>) /\ Len(<<>>) = 0
  <2>. HIDE DEF best
  <2>. QED  BY <1>6, EmptySeq, LenProperties
<1>9. PossibleStart(s) = CHOOSE t \in starts : \A u \in starts : Len(u) <= Len(t)
  BY DEF PossibleStart
<1>. HIDE DEF best, starts, s, n
<1>10. best \in starts /\ \A u \in starts : Len(u) <= Len(best)
  BY <1>6, <1>7, <1>8
<1>11. \A t \in starts : (\A u \in starts : Len(u) <= Len(t)) => t = best
  BY <1>6, <1>7, <1>8
<1>12. PossibleStart(s) = best
  BY <1>9, <1>10, <1>11
<1>. QED  BY <1>12 DEF best, s, n
\* Concatenation, one part at a time.
LEMMA ConcatAt ==
  ASSUME NEW S, NEW a \in Seq(S), NEW b \in Seq(S)
  PROVE  /\ a \o b \in Seq(S)
         /\ Len(a) \in Nat /\ Len(b) \in Nat /\ Len(a \o b) = Len(a) + Len(b)
         /\ \A i \in 1..Len(a) : (a \o b)[i] = a[i]
         /\ \A i \in 1..Len(b) : (a \o b)[Len(a) + i] = b[i]
<1>1. Len(a) \in Nat /\ Len(b) \in Nat
  BY LenProperties
<1>2. /\ a \o b \in Seq(S) /\ Len(a \o b) = Len(a) + Len(b)
      /\ \A i \in 1..(Len(a) + Len(b)) : (a \o b)[i] = IF i <= Len(a) THEN a[i] ELSE b[i - Len(a)]
  BY ConcatProperties
<1>3. \A i \in 1..Len(a) : (a \o b)[i] = a[i]
  BY <1>1, <1>2
<1>4. ASSUME NEW i \in 1..Len(b) PROVE (a \o b)[Len(a) + i] = b[i]
  <2>1. Len(a) + i \in 1..(Len(a) + Len(b)) /\ ~(Len(a) + i <= Len(a)) /\ (Len(a) + i) - Len(a) = i
    BY <1>1
  <2>. QED  BY <1>2, <2>1
<1>. QED  BY <1>1, <1>2, <1>3, <1>4

\* The positions of a frame's parts: what stands in front is not moved by what
\* is appended.
LEMMA ThreeParts ==
  ASSUME NEW S, NEW h \in Seq(S), NEW q \in Seq(S), NEW c \in Seq(S)
  PROVE  /\ h \o q \in Seq(S) /\ h \o q \o c \in Seq(S)
         /\ Len(h) \in Nat /\ Len(q) \in Nat /\ Len(c) \in Nat
         /\ Len(h \o q \o c) = Len(h) + Len(q) + Len(c)
         /\ \A i \in 1..Len(h) : (h \o q \o c)[i] = h[i]
         /\ \A i \in 1..Len(q) : (h \o q \o c)[Len(h) + i] = q[i]
<1>1. /\ h \o q \in Seq(S)
      /\ Len(h) \in Nat /\ Len(q) \in Nat /\ Len(h \o q) = Len(h) + Len(q)
      /\ \A i \in 1..Len(h) : (h \o q)[i] = h[i]
      /\ \A i \in 1..Len(q) : (h \o q)[Len(h) + i] = q[i]
  BY ConcatAt
<1>2. h \o q \in Seq(S)
  BY <1>1
<1>3. /\ h \o q \o c \in Seq(S)
      /\ Len(c) \in Nat /\ Len(h \o q \o c) = Len(h \o q) + Len(c)
      /\ \A i \in 1..Len(h \o q) : (h \o q \o c)[i] = (h \o q)[i]
  BY <1>2, ConcatAt, Zenon
<1>4. \A i \in 1..Len(h) : i \in 1..Len(h \o q)
  BY <1>1
<1>5. \A i \in 1..Len(q) : Len(h) + i \in 1..Len(h \o q)
  BY <1>1
<1>6. Len(h \o q \o c) = Len(h) + Len(q) + Len(c)
  BY <1>1, <1>3
<1>7. \A i \in 1..Len(h) : (h \o q \o c)[i] = h[i]
  BY <1>1, <1>3, <1>4, Zenon
<1>8. \A i \in 1..Len(q) : (h \o q \o c)[Len(h) + i] = q[i]
  BY <1>1, <1>3, <1>5, Zenon
<1>. QED  BY <1>1, <1>3, <1>6, <1>7, <1>8

\* Three fields behind a sequence.
LEMMA ConcatThree ==
  ASSUME NEW S, NEW a \in Seq(S), NEW x \in S, NEW y \in S, NEW z \in S
  PROVE  /\ a \o <<x, y, z>> \in Seq(S) /\ Len(a) \in Nat /\ Len(a \o <<x, y, z>>) = Len(a) + 3
         /\ \A i \in 1..Len(a) : (a \o <<x, y, z>>)[i] = a[i]
         /\ (a \o <<x, y, z>>)[Len(a) + 1] = x
         /\ (a \o <<x, y, z>>)[Len(a) + 2] = y
         /\ (a \o <<x, y, z>>)[Len(a) + 3] = z
OBVIOUS

\* A byte at the end of the last part is a byte at the end of the frame.
LEMMA AppendToParts ==
  ASSUME NEW S, NEW h \in Seq(S), NEW q \in Seq(S), NEW c \in Seq(S), NEW e \in S
  PROVE  /\ h \o q \o Append(c, e) = Append(h \o q \o c, e)
         /\ h \o Append(q, e) \o <<>> = Append(h \o q \o <<>>, e)
         /\ Append(h, e) \o <<>> \o <<>> = Append(h \o <<>> \o <<>>, e)
<1>1. <<e>> \in Seq(S) /\ <<>> \in Seq(S)
  BY EmptySeq
<1>2. h \o q \in Seq(S) /\ Append(q, e) \in Seq(S) /\ Append(h, e) \in Seq(S)
      /\ h \o q \o c \in Seq(S) /\ h \o Append(q, e) \in Seq(S)
  BY ConcatProperties, AppendProperties
<1>3. ASSUME NEW a \in Seq(S), NEW b \in Seq(S)
      PROVE  a \o Append(b, e) = Append(a \o b, e)
  <2>1. Append(b, e) = b \o <<e>> /\ a \o b \in Seq(S)
    BY AppendIsConcat, ConcatProperties
  <2>2. Append(a \o b, e) = (a \o b) \o <<e>>
    BY <2>1, AppendIsConcat, Zenon
  <2>3. (a \o b) \o <<e>> = a \o (b \o <<e>>)
    <3>. DEFINE one == <<e>>
    <3>1. one \in Seq(S)
      BY <1>1
    <3>. HIDE DEF one
    <3>2. (a \o b) \o one = a \o (b \o one)
      BY <3>1, ConcatAssociative, SMTT(60)
    <3>. QED  BY <3>2 DEF one
  <2>. QED  BY <2>1, <2>2, <2>3, Zenon
<1>4. \A a \in Seq(S) : a \o <<>> = a
  BY ConcatEmptySeq
<1>5. h \o q \o Append(c, e) = Append(h \o q \o c, e)
  BY <1>2, <1>3, Zenon
<1>6. h \o Append(q, e) \o <<>> = Append(h \o q \o <<>>, e)
  BY <1>2, <1>3, <1>4
<1>7. Append(h, e) \o <<>> \o <<>> = Append(h \o <<>> \o <<>>, e)
  BY <1>2, <1>4
<1>. QED  BY <1>5, <1>6, <1>7, Zenon

\* A complete header is what encode_frame writes for its fields.
LEMMA HeaderIs ==
  ASSUME NEW h \in Seq(Byte), Len(h) = HEADER_SIZE,
         \A i \in 1..MAGIC_SIZE : h[i] = Magic[i]
  PROVE  /\ command(h) \in Byte /\ sequence(h) \in Byte /\ payload_length(h) \in Byte
         /\ h = Magic \o <<command(h), sequence(h), payload_length(h)>>
         /\ info_of(h) \in ErrorInfo
<1>. DEFINE t == Magic \o <<command(h), sequence(h), payload_length(h)>>
<1>0. MAGIC_SIZE \in Nat /\ HEADER_SIZE = MAGIC_SIZE + 3 /\ Magic \in Seq(Byte) /\ Len(Magic) = MAGIC_SIZE
  BY Sizes
<1>1. command(h) \in Byte /\ sequence(h) \in Byte /\ payload_length(h) \in Byte
  BY <1>0, ElementOfSeq DEF command, sequence, payload_length
<1>2. /\ t \in Seq(Byte) /\ Len(t) = Len(Magic) + 3
      /\ \A i \in 1..Len(Magic) : t[i] = Magic[i]
      /\ t[Len(Magic) + 1] = command(h) /\ t[Len(Magic) + 2] = sequence(h)
      /\ t[Len(Magic) + 3] = payload_length(h)
  BY <1>0, <1>1, ConcatThree
<1>. HIDE DEF t
<1>3. /\ t[MAGIC_SIZE + 1] = h[MAGIC_SIZE + 1] /\ t[MAGIC_SIZE + 2] = h[MAGIC_SIZE + 2]
      /\ t[MAGIC_SIZE + 3] = h[MAGIC_SIZE + 3] /\ Len(t) = Len(h)
  BY <1>0, <1>2 DEF command, sequence, payload_length
<1>4. ASSUME NEW i \in 1..Len(h) PROVE h[i] = t[i]
  <2>1. CASE i <= MAGIC_SIZE
    BY <1>0, <1>2, <2>1
  <2>2. CASE i > MAGIC_SIZE
    <3>1. i \in {MAGIC_SIZE + 1, MAGIC_SIZE + 2, MAGIC_SIZE + 3}
      BY <1>0, <2>2
    <3>. QED  BY <1>3, <3>1
  <2>. QED  BY <1>0, <2>1, <2>2
<1>5. h = t
  BY <1>2, <1>3, <1>4, SeqEqual
<1>6. info_of(h) \in ErrorInfo
  BY <1>1 DEF info_of, ErrorInfo
<1>. QED  BY <1>1, <1>5, <1>6 DEF t

\* The length byte of an encoding fixes its length, and is within the limit.
LEMMA EncodingHasItsLength ==
  ASSUME NEW s \in Seq(Byte), NEW info \in ErrorInfo, is_encoding_of(s, info)
  PROVE  /\ s[MAGIC_SIZE + 3] \in 0..MAX_PAYLOAD_SIZE
         /\ Len(s) = HEADER_SIZE + s[MAGIC_SIZE + 3] + CRC_SIZE
<1>0. /\ MAGIC_SIZE \in Nat /\ HEADER_SIZE = MAGIC_SIZE + 3 /\ CRC_SIZE = 2
      /\ Magic \in Seq(Byte) /\ Len(Magic) = MAGIC_SIZE /\ MAX_PAYLOAD_SIZE \in Nat
  BY Sizes
<1>1. PICK n \in 0..MAX_PAYLOAD_SIZE :
        /\ Len(s) = HEADER_SIZE + n + CRC_SIZE
        /\ s = encode_frame(info.command, info.sequence, SubSeq(s, HEADER_SIZE + 1, HEADER_SIZE + n))
  BY DEF is_encoding_of
<1>. DEFINE pl == SubSeq(s, HEADER_SIZE + 1, HEADER_SIZE + n)
            h == Magic \o <<info.command, info.sequence, Len(pl)>>
            c == crc32(h \o pl)
            S == Byte \cup {Len(pl), checksum(h \o pl)[1], checksum(h \o pl)[2]}
<1>2. pl \in Seq(Byte) /\ Len(pl) = n
  <2>1. n \in Nat
    BY <1>0, <1>1
  <2>2. \A i \in (HEADER_SIZE + 1)..(HEADER_SIZE + n) : s[i] \in Byte
    BY <1>0, <1>1, <2>1, ElementOfSeq
  <2>3. /\ pl \in Seq(Byte)
        /\ Len(pl) = IF HEADER_SIZE + 1 <= HEADER_SIZE + n THEN (HEADER_SIZE + n) - (HEADER_SIZE + 1) + 1 ELSE 0
    BY <1>0, <2>1, <2>2, SubSeqProperties
  <2>. QED  BY <1>0, <2>1, <2>3
<1>. HIDE DEF pl
<1>3. s = h \o pl \o c
  BY <1>1, Zenon DEF encode_frame, pl
<1>4. /\ info.command \in S /\ info.sequence \in S /\ Len(pl) \in S
      /\ Magic \in Seq(S) /\ pl \in Seq(S) /\ c \in Seq(S)
  <2>1. info.command \in S /\ info.sequence \in S /\ Len(pl) \in S
    BY DEF ErrorInfo
  <2>2. Byte \subseteq S
    OBVIOUS
  <2>3. checksum(h \o pl)[1] \in S /\ checksum(h \o pl)[2] \in S
    OBVIOUS
  <2>. HIDE DEF S, h
  <2>4. c \in Seq(S)
    BY <2>3 DEF crc32
  <2>. QED  BY <1>0, <1>2, <2>1, <2>2, <2>4, SeqMonotonic
<1>. HIDE DEF S, c
<1>5. h \in Seq(S) /\ Len(h) = MAGIC_SIZE + 3 /\ h[MAGIC_SIZE + 3] = Len(pl)
  <2>1. h \in Seq(S) /\ Len(h) = Len(Magic) + 3 /\ h[Len(Magic) + 3] = Len(pl)
    BY <1>4, ConcatThree
  <2>. QED  BY <1>0, <2>1
<1>. HIDE DEF h
<1>6. s[MAGIC_SIZE + 3] = h[MAGIC_SIZE + 3]
  BY <1>0, <1>3, <1>4, <1>5, ThreeParts
<1>. QED  BY <1>0, <1>1, <1>2, <1>5, <1>6
\* The state of the parser, as its fields.
LEMMA ParserFields ==
  ASSUME NEW p \in Parsers
  PROVE  /\ p.state \in ParserStates /\ p.header \in Seq(Byte) /\ p.payload \in Seq(Byte)
         /\ p.crc_bytes \in Seq(Byte) /\ p.error_info \in ErrorInfo
         /\ Len(p.header) \in Nat /\ Len(p.payload) \in Nat /\ Len(p.crc_bytes) \in Nat
<1>1. /\ p.state \in ParserStates /\ p.header \in Seq(Byte) /\ p.payload \in Seq(Byte)
      /\ p.crc_bytes \in Seq(Byte) /\ p.error_info \in ErrorInfo
  BY Zenon DEF Parsers
<1>2. Len(p.header) \in Nat /\ Len(p.payload) \in Nat /\ Len(p.crc_bytes) \in Nat
  BY <1>1, LenProperties
<1>. QED  BY <1>1, <1>2

\* A parser written out is a parser.
LEMMA ParserOfFields ==
  ASSUME NEW st \in ParserStates, NEW h \in Seq(Byte), NEW q \in Seq(Byte), NEW c \in Seq(Byte),
         NEW info \in ErrorInfo
  PROVE  [state |-> st, header |-> h, payload |-> q, crc_bytes |-> c, error_info |-> info] \in Parsers
BY Zenon DEF Parsers

\* Without payload and CRC the parser holds its header.
LEMMA HoldsHeader ==
  ASSUME NEW p \in Parsers, p.payload = <<>>, p.crc_bytes = <<>>
  PROVE  Received(p) = p.header
<1>1. p.header \in Seq(Byte)
  BY ParserFields
<1>2. p.header \o <<>> = p.header
  BY <1>1, ConcatEmptySeq
<1>. QED  BY <1>2 DEF Received

\* After parser_reset_state nothing of the frame is left but what a NACK names.
LEMMA ResetState ==
  ASSUME NEW p, p.error_info \in ErrorInfo
  PROVE  LET q == parser_reset_state(p)
         IN  /\ q \in Parsers /\ WellFormed(q) /\ q.state = "SYNC"
             /\ Received(q) = <<>> /\ q.error_info = p.error_info
<1>. DEFINE q == parser_reset_state(p)
<1>1. q = [state |-> "SYNC", header |-> <<>>, payload |-> <<>>, crc_bytes |-> <<>>,
           error_info |-> p.error_info]
  BY DEF parser_reset_state, parser_init
<1>2. <<>> \in Seq(Byte) /\ Len(<<>>) = 0 /\ "SYNC" \in ParserStates
  BY EmptySeq DEF ParserStates
<1>3. q \in Parsers
  BY <1>1, <1>2, ParserOfFields, Zenon
<1>4. /\ q.state = "SYNC" /\ q.header = <<>> /\ q.payload = <<>> /\ q.crc_bytes = <<>>
      /\ q.error_info = p.error_info
  BY <1>1
<1>. HIDE DEF q
<1>5. WellFormed(q)
  <2>1. Len(q.header) = 0 /\ 0 <= HEADER_SIZE /\ 0 < MAGIC_SIZE
    BY <1>2, <1>4, Sizes
  <2>2. 1..0 = {}
    OBVIOUS
  <2>. QED  BY <1>4, <2>1, <2>2 DEF WellFormed
<1>6. Received(q) = <<>>
  BY <1>3, <1>4, HoldsHeader
<1>. QED  BY <1>3, <1>4, <1>5, <1>6 DEF q

\* The same for a new parser.
LEMMA InitState ==
  /\ parser_init \in Parsers /\ WellFormed(parser_init) /\ Received(parser_init) = <<>>
<1>1. parser_init.error_info = NoInfo /\ parser_reset_state(parser_init) = parser_init
  BY DEF parser_init, parser_reset_state
<1>2. NoInfo \in ErrorInfo
  BY Sizes
<1>. QED  BY <1>1, <1>2, ResetState

Statuses == {"NEED_MORE", "FRAME_READY", "CRC", "OVERSIZE"}

\* What one byte does: the parser goes on holding what can still be a frame,
\* and ends it with the verdict an encoder would give.
PushIsSound(p, s, r) ==
  /\ r.parser \in Parsers /\ WellFormed(r.parser) /\ r.status \in Statuses
  /\ r.status = "NEED_MORE" =>
       Received(r.parser) = IF p.state = "SYNC" THEN PossibleStart(s) ELSE s
  /\ r.status # "NEED_MORE" =>
       /\ p.state # "SYNC" /\ Received(r.parser) = <<>>
       /\ Len(s) >= HEADER_SIZE /\ r.parser.error_info = info_of(s)
  /\ r.status = "FRAME_READY" =>
       s = encode_frame(r.parser.error_info.command, r.parser.error_info.sequence, p.payload)
  /\ r.status \in {"CRC", "OVERSIZE"} => ~is_encoding_of(s, r.parser.error_info)

\* A frame that is not complete yet.
LEMMA GoesOn ==
  ASSUME NEW p, NEW s, NEW r, NEW q \in Parsers, WellFormed(q),
         r.parser = q, r.status = "NEED_MORE",
         Received(q) = IF p.state = "SYNC" THEN PossibleStart(s) ELSE s
  PROVE  PushIsSound(p, s, r)
BY DEF PushIsSound, Statuses

\* A frame that is accepted.
LEMMA Accepted ==
  ASSUME NEW p, NEW s, NEW r, r.parser \in Parsers, WellFormed(r.parser),
         Received(r.parser) = <<>>, r.status = "FRAME_READY", p.state # "SYNC",
         Len(s) >= HEADER_SIZE, r.parser.error_info = info_of(s),
         s = encode_frame(r.parser.error_info.command, r.parser.error_info.sequence, p.payload)
  PROVE  PushIsSound(p, s, r)
BY DEF PushIsSound, Statuses

\* A frame that is refused.
LEMMA Refused ==
  ASSUME NEW p, NEW s, NEW r, r.parser \in Parsers, WellFormed(r.parser),
         Received(r.parser) = <<>>, r.status \in {"CRC", "OVERSIZE"}, p.state # "SYNC",
         Len(s) >= HEADER_SIZE, r.parser.error_info = info_of(s),
         ~is_encoding_of(s, info_of(s))
  PROVE  PushIsSound(p, s, r)
BY DEF PushIsSound, Statuses

\* The middle part of three, cut out again.
LEMMA MiddlePart ==
  ASSUME NEW S, NEW h \in Seq(S), NEW q \in Seq(S), NEW c \in Seq(S)
  PROVE  SubSeq(h \o q \o c, Len(h) + 1, Len(h) + Len(q)) = q
<1>. DEFINE s == h \o q \o c
            m == Len(h) + 1
            n == Len(h) + Len(q)
            u == SubSeq(s, m, n)
<1>1. /\ s \in Seq(S) /\ Len(h) \in Nat /\ Len(q) \in Nat /\ Len(c) \in Nat
      /\ Len(s) = Len(h) + Len(q) + Len(c)
      /\ \A i \in 1..Len(q) : s[Len(h) + i] = q[i]
  BY ThreeParts
<1>. HIDE DEF s
<1>2. m \in Int /\ n \in Int /\ n - m + 1 = Len(q) /\ (m <= n <=> Len(q) # 0)
  BY <1>1
<1>3. \A i \in m..n : s[i] \in S
  <2>1. \A i \in m..n : i \in 1..Len(s)
    BY <1>1
  <2>. QED  BY <1>1, <2>1, ElementOfSeq
<1>4. \A i \in 1..Len(q) : m + i - 1 = Len(h) + i
  BY <1>1
<1>. HIDE DEF m, n
<1>5. /\ u \in Seq(S) /\ Len(u) = (IF m <= n THEN n - m + 1 ELSE 0)
      /\ \A i \in 1..(n - m + 1) : u[i] = s[m + i - 1]
  BY <1>2, <1>3, SubSeqProperties
<1>. HIDE DEF u
<1>6. Len(u) = Len(q) /\ \A i \in 1..Len(q) : u[i] = q[i]
  BY <1>1, <1>2, <1>4, <1>5, Zenon
<1>7. u = q
  BY <1>5, <1>6, SeqEqual, Zenon
<1>. QED  BY <1>7 DEF u, s, m, n

\* A byte in search of the magic.
LEMMA PushSync ==
  ASSUME NEW p \in Parsers, WellFormed(p), p.state = "SYNC", NEW byte \in Byte
  PROVE  PushIsSound(p, Append(Received(p), byte), parser_push(p, byte))
<1>. DEFINE m == Len(p.header)
            hit == byte = Magic[m + 1]
            h == IF hit THEN Append(p.header, byte) ELSE IF byte = Magic[1] THEN <<byte>> ELSE <<>>
            i == IF hit THEN IF m = 0 THEN NoInfo ELSE p.error_info
                 ELSE IF byte = Magic[1] THEN NoInfo ELSE p.error_info
            st == IF hit /\ m + 1 = MAGIC_SIZE THEN "HEADER" ELSE "SYNC"
            q == [state |-> st, header |-> h, payload |-> <<>>, crc_bytes |-> <<>>, error_info |-> i]
<1>1. /\ p.header \in Seq(Byte) /\ p.payload = <<>> /\ p.crc_bytes = <<>> /\ p.error_info \in ErrorInfo
      /\ m \in Nat /\ m < MAGIC_SIZE /\ \A k \in 1..m : p.header[k] = Magic[k]
      /\ p.header # <<>> => p.error_info = NoInfo
  <2>1. /\ p.payload = <<>> /\ p.crc_bytes = <<>> /\ m < MAGIC_SIZE
        /\ \A k \in 1..m : k <= MAGIC_SIZE => p.header[k] = Magic[k]
        /\ p.header # <<>> => p.error_info = NoInfo
    BY DEF WellFormed
  <2>2. p.header \in Seq(Byte) /\ p.error_info \in ErrorInfo /\ m \in Nat
    BY ParserFields
  <2>. QED  BY <2>1, <2>2, Sizes
<1>2. /\ MAGIC_SIZE \in Nat /\ MAGIC_SIZE > 1 /\ HEADER_SIZE = MAGIC_SIZE + 3
      /\ NoInfo \in ErrorInfo
  BY Sizes
<1>3. parser_push(p, byte) = need_more(q)
  <2>0. parser_push(p, byte) = parser_accept_magic_byte(p, byte)
    BY Zenon DEF parser_push
  <2>1. p = [state |-> "SYNC", header |-> p.header, payload |-> <<>>, crc_bytes |-> <<>>,
             error_info |-> p.error_info]
    BY <1>1 DEF Parsers
  <2>2. CASE hit
    <3>. DEFINE h0 == Append(p.header, byte)
                i0 == IF m = 0 THEN NoInfo ELSE p.error_info
                s0 == IF m + 1 = MAGIC_SIZE THEN "HEADER" ELSE p.state
                a == [p EXCEPT !.header = h0]
                b == [a EXCEPT !.error_info = i0]
                c == [b EXCEPT !.state = s0]
    <3>1. parser_accept_magic_byte(p, byte) = need_more(c)
      BY <2>2 DEF parser_accept_magic_byte
    <3>2. h = h0 /\ i = i0 /\ st = s0
      BY <2>2
    <3>6. h0 \in Seq(Byte)
      BY <1>1, AppendProperties
    <3>. HIDE DEF h0, i0, s0
    <3>3. a = [state |-> p.state, header |-> h0, payload |-> p.payload, crc_bytes |-> p.crc_bytes,
               error_info |-> p.error_info]
      BY <3>6, SMTT(30) DEF Parsers
    <3>. HIDE DEF a
    <3>4. b = [state |-> p.state, header |-> h0, payload |-> p.payload, crc_bytes |-> p.crc_bytes,
               error_info |-> i0]
      BY <3>3
    <3>. HIDE DEF b
    <3>5. c = [state |-> s0, header |-> h0, payload |-> p.payload, crc_bytes |-> p.crc_bytes,
               error_info |-> i0]
      BY <3>4
    <3>. QED  BY <1>1, <2>0, <3>1, <3>2, <3>5, Zenon
  <2>3. CASE ~hit /\ byte = Magic[1]
    <3>. DEFINE a == [p EXCEPT !.header = <<byte>>]
                b == [a EXCEPT !.error_info = NoInfo]
    <3>1. parser_accept_magic_byte(p, byte) = need_more(b)
      BY <2>3 DEF parser_accept_magic_byte
    <3>2. h = <<byte>> /\ i = NoInfo /\ st = "SYNC"
      BY <2>3
    <3>3. a = [state |-> p.state, header |-> <<byte>>, payload |-> p.payload, crc_bytes |-> p.crc_bytes,
               error_info |-> p.error_info]
      BY DEF Parsers
    <3>. HIDE DEF a
    <3>4. b = [state |-> p.state, header |-> <<byte>>, payload |-> p.payload, crc_bytes |-> p.crc_bytes,
               error_info |-> NoInfo]
      BY <3>3
    <3>. QED  BY <1>1, <2>0, <3>1, <3>2, <3>4, Zenon
  <2>4. CASE ~hit /\ byte # Magic[1]
    <3>1. parser_accept_magic_byte(p, byte) = need_more([p EXCEPT !.header = <<>>])
      BY <2>4 DEF parser_accept_magic_byte
    <3>2. [p EXCEPT !.header = <<>>] = q
      BY <2>1, <2>4
    <3>. QED  BY <2>0, <3>1, <3>2
  <2>. QED  BY <2>2, <2>3, <2>4
<1>4. /\ h \in Seq(Byte) /\ Len(h) \in Nat
      /\ \A k \in 1..Len(h) : h[k] = Magic[k]
      /\ st = "SYNC" => Len(h) < MAGIC_SIZE
      /\ st = "HEADER" => Len(h) = MAGIC_SIZE
  <2>1. CASE hit
    BY <1>1, <1>2, <2>1, AppendProperties
  <2>2. CASE ~hit /\ byte = Magic[1]
    <3>1. <<byte>> \in Seq(Byte) /\ Len(<<byte>>) = 1 /\ <<byte>>[1] = byte
      OBVIOUS
    <3>. QED  BY <1>2, <2>2, <3>1
  <2>3. CASE ~hit /\ byte # Magic[1]
    BY <1>2, <2>3, EmptySeq
  <2>. QED  BY <2>1, <2>2, <2>3, Zenon
<1>5. /\ i \in ErrorInfo /\ (h # <<>> => i = NoInfo)
      /\ st \in ParserStates /\ (st = "HEADER" => hit) /\ st \in {"SYNC", "HEADER"}
  <2>1. m = 0 => p.header = <<>>
    BY <1>1, EmptySeq
  <2>2. m # 0 => p.header # <<>>
    BY EmptySeq
  <2>. QED  BY <1>1, <1>2, <2>1, <2>2 DEF ParserStates
<1>6. st = "HEADER" => h # <<>>
  BY <1>2, <1>4, EmptySeq
<1>7. h = PossibleStart(Append(p.header, byte))
  BY <1>1, NextStart, Zenon
<1>8. Received(p) = p.header
  BY <1>1, HoldsHeader
<1>. HIDE DEF h, i, st
<1>9. q \in Parsers
  <2>1. <<>> \in Seq(Byte)
    BY EmptySeq
  <2>. QED  BY <1>4, <1>5, <2>1, ParserOfFields, Zenon
<1>10. /\ q.state = st /\ q.header = h /\ q.payload = <<>> /\ q.crc_bytes = <<>> /\ q.error_info = i
  OBVIOUS
<1>. HIDE DEF q
<1>11. WellFormed(q)
  <2>1. Len(q.header) <= HEADER_SIZE /\ (st = "HEADER" => Len(h) < HEADER_SIZE /\ MAGIC_SIZE <= Len(h))
    BY <1>2, <1>4, <1>5, <1>10
  <2>2. st # "PAYLOAD" /\ st # "CRC"
    BY <1>5
  <2>3. \A k \in 1..Len(q.header) : k <= MAGIC_SIZE => q.header[k] = Magic[k]
    BY <1>4, <1>10
  <2>. QED  BY <1>4, <1>5, <1>6, <1>10, <2>1, <2>2, <2>3, Zenon DEF WellFormed
<1>12. Received(q) = h
  BY <1>9, <1>10, HoldsHeader
<1>13. need_more(q).parser = q /\ need_more(q).status = "NEED_MORE"
  BY DEF need_more, pushed
<1>. QED  BY <1>3, <1>7, <1>8, <1>9, <1>11, <1>12, <1>13, GoesOn
\* A byte of the header; the last one decides whether the payload fits.
LEMMA PushHeader ==
  ASSUME NEW p \in Parsers, WellFormed(p), p.state = "HEADER", NEW byte \in Byte
  PROVE  PushIsSound(p, Append(Received(p), byte), parser_push(p, byte))
<1>. DEFINE h == Append(p.header, byte)
            q == [p EXCEPT !.header = h]
            n == payload_length(h)
            r == parser_push(p, byte)
<1>1. /\ p.header \in Seq(Byte) /\ p.payload = <<>> /\ p.crc_bytes = <<>> /\ p.error_info = NoInfo
      /\ Len(p.header) \in Nat /\ MAGIC_SIZE <= Len(p.header) /\ Len(p.header) < HEADER_SIZE
      /\ \A k \in 1..Len(p.header) : k <= MAGIC_SIZE => p.header[k] = Magic[k]
  BY ParserFields DEF WellFormed
<1>2. /\ MAGIC_SIZE \in Nat /\ HEADER_SIZE = MAGIC_SIZE + 3 /\ MAX_PAYLOAD_SIZE \in Nat
      /\ Byte \subseteq Nat /\ NoInfo \in ErrorInfo
  BY Sizes
<1>3. h \in Seq(Byte) /\ Len(h) = Len(p.header) + 1 /\ h # <<>>
      /\ \A k \in 1..Len(p.header) : h[k] = p.header[k]
  BY <1>1, AppendProperties
<1>. HIDE DEF h
<1>4. \A k \in 1..Len(h) : k <= MAGIC_SIZE => h[k] = Magic[k]
  <2>1. \A k \in 1..Len(h) : k <= MAGIC_SIZE => k \in 1..Len(p.header)
    BY <1>1, <1>2, <1>3
  <2>. QED  BY <1>1, <1>3, <2>1
<1>5. Append(Received(p), byte) = h
  BY <1>1, HoldsHeader DEF h
<1>6. q = [state |-> "HEADER", header |-> h, payload |-> <<>>, crc_bytes |-> <<>>, error_info |-> NoInfo]
  BY <1>1 DEF Parsers
<1>7. q.header = h
  BY <1>6
<1>8. r = IF Len(h) = HEADER_SIZE THEN parser_decode_header(q) ELSE need_more(q)
  BY <1>7, Zenon DEF parser_push, h
<1>9. <<>> \in Seq(Byte)
  BY EmptySeq
<1>. HIDE DEF q, r
<1>10. CASE Len(h) # HEADER_SIZE
  <2>1. r.parser = q /\ r.status = "NEED_MORE"
    BY <1>8, <1>10, Zenon DEF need_more, pushed
  <2>2. q \in Parsers
    BY <1>2, <1>3, <1>6, <1>9, ParserOfFields, Zenon DEF ParserStates
  <2>3. /\ q.state = "HEADER" /\ q.payload = <<>> /\ q.crc_bytes = <<>> /\ q.error_info = NoInfo
    BY <1>6
  <2>4. MAGIC_SIZE <= Len(h) /\ Len(h) < HEADER_SIZE /\ Len(h) <= HEADER_SIZE
    BY <1>1, <1>2, <1>3, <1>10
  <2>5. WellFormed(q)
    BY <1>4, <1>7, <2>3, <2>4 DEF WellFormed
  <2>6. Received(q) = h
    BY <1>7, <2>2, <2>3, HoldsHeader
  <2>. QED  BY <1>5, <2>1, <2>2, <2>5, <2>6, GoesOn DEF r
<1>11. CASE Len(h) = HEADER_SIZE
  <2>. DEFINE d == [q EXCEPT !.error_info = info_of(h)]
              st == IF n = 0 THEN "CRC" ELSE "PAYLOAD"
              e == [d EXCEPT !.state = st]
  <2>1. n \in Nat /\ info_of(h) \in ErrorInfo
    <3>1. \A i \in 1..MAGIC_SIZE : h[i] = Magic[i]
      BY <1>2, <1>4, <1>11
    <3>2. n \in Byte /\ info_of(h) \in ErrorInfo
      BY <1>3, <1>11, <3>1, HeaderIs, Zenon
    <3>. QED  BY <1>2, <3>2, Zenon
  <2>2. r = IF n > MAX_PAYLOAD_SIZE THEN pushed(parser_reset_state(d), "OVERSIZE") ELSE need_more(e)
    BY <1>7, <1>8, <1>11, Zenon DEF parser_decode_header
  <2>3. d = [state |-> "HEADER", header |-> h, payload |-> <<>>, crc_bytes |-> <<>>, error_info |-> info_of(h)]
    BY <1>6
  <2>5. d.error_info = info_of(h)
    BY <2>3
  <2>8. st \in ParserStates /\ st \in {"PAYLOAD", "CRC"} /\ (st = "PAYLOAD" <=> n # 0)
    BY Zenon DEF ParserStates
  <2>. HIDE DEF d, st
  <2>4. e = [state |-> st, header |-> h, payload |-> <<>>, crc_bytes |-> <<>>, error_info |-> info_of(h)]
    BY <2>3
  <2>. HIDE DEF e, n
  <2>6. CASE n > MAX_PAYLOAD_SIZE
    <3>1. r.parser = parser_reset_state(d) /\ r.status = "OVERSIZE"
      BY <2>2, <2>6, Zenon DEF pushed
    <3>2. /\ r.parser \in Parsers /\ WellFormed(r.parser) /\ Received(r.parser) = <<>>
          /\ r.parser.error_info = info_of(h)
      BY <2>1, <2>5, <3>1, ResetState, Zenon
    <3>3. ~is_encoding_of(h, info_of(h))
      <4>1. h[MAGIC_SIZE + 3] > MAX_PAYLOAD_SIZE /\ h[MAGIC_SIZE + 3] \in Nat
        BY <1>2, <2>1, <2>6 DEF payload_length, n
      <4>2. ~(h[MAGIC_SIZE + 3] \in 0..MAX_PAYLOAD_SIZE)
        BY <1>2, <4>1
      <4>. QED  BY <1>3, <2>1, <4>2, EncodingHasItsLength
    <3>4. Len(h) >= HEADER_SIZE
      BY <1>2, <1>11
    <3>. QED  BY <1>5, <3>1, <3>2, <3>3, <3>4, Refused, Zenon DEF r
  <2>7. CASE n <= MAX_PAYLOAD_SIZE
    <3>1. r.parser = e /\ r.status = "NEED_MORE"
      <4>1. ~(n > MAX_PAYLOAD_SIZE)
        BY <1>2, <2>1, <2>7
      <4>. QED  BY <2>2, <4>1, Zenon DEF need_more, pushed
    <3>3. e \in Parsers
      BY <1>3, <1>9, <2>1, <2>4, <2>8, ParserOfFields, Zenon
    <3>4. /\ e.state = st /\ e.header = h /\ e.payload = <<>> /\ e.crc_bytes = <<>>
          /\ e.error_info = info_of(h)
      BY <2>4
    <3>5. Len(<<>>) = 0
      BY EmptySeq, Zenon
    <3>6. WellFormed(e)
      <4>1. st # "SYNC" /\ st # "HEADER"
        BY <2>8
      <4>2. Len(h) <= HEADER_SIZE
        BY <1>2, <1>11
      <4>3. st = "PAYLOAD" => 0 < n
        BY <2>1, <2>8
      <4>4. st = "CRC" => 0 = n /\ 0 < CRC_SIZE
        BY <2>8 DEF CRC_SIZE
      <4>. QED  BY <1>4, <1>11, <2>7, <3>4, <3>5, <4>1, <4>2, <4>3, <4>4, Zenon DEF WellFormed, n
    <3>7. Received(e) = h
      BY <3>3, <3>4, HoldsHeader, Zenon
    <3>. QED  BY <1>5, <3>1, <3>3, <3>6, <3>7, GoesOn DEF r
  <2>. QED  BY <1>2, <2>1, <2>6, <2>7
<1>. QED  BY <1>10, <1>11

\* A byte of the payload.
LEMMA PushPayload ==
  ASSUME NEW p \in Parsers, WellFormed(p), p.state = "PAYLOAD", NEW byte \in Byte
  PROVE  PushIsSound(p, Append(Received(p), byte), parser_push(p, byte))
<1>. DEFINE b == Append(p.payload, byte)
            q == [p EXCEPT !.payload = b]
            n == payload_length(p.header)
            st == IF Len(b) = n THEN "CRC" ELSE "PAYLOAD"
            e == [q EXCEPT !.state = st]
            r == parser_push(p, byte)
<1>0. /\ p.header \in Seq(Byte) /\ p.payload \in Seq(Byte) /\ p.error_info \in ErrorInfo
      /\ Len(p.payload) \in Nat
  BY ParserFields
<1>1. /\ p.crc_bytes = <<>> /\ p.error_info = info_of(p.header)
      /\ Len(p.header) = HEADER_SIZE /\ Len(p.payload) < n /\ n <= MAX_PAYLOAD_SIZE
      /\ Len(p.header) <= HEADER_SIZE
      /\ \A k \in 1..Len(p.header) : k <= MAGIC_SIZE => p.header[k] = Magic[k]
  BY DEF WellFormed
<1>2. b \in Seq(Byte) /\ Len(b) = Len(p.payload) + 1
  BY <1>0, AppendProperties
<1>3. p.header \o b \o <<>> = Append(p.header \o p.payload \o <<>>, byte)
  <2>. DEFINE x == p.header
              y == p.payload
  <2>1. x \in Seq(Byte) /\ y \in Seq(Byte) /\ <<>> \in Seq(Byte)
    BY <1>0, EmptySeq
  <2>. HIDE DEF x, y
  <2>2. x \o Append(y, byte) \o <<>> = Append(x \o y \o <<>>, byte)
    BY <2>1, AppendToParts
  <2>. QED  BY <2>2, Zenon DEF x, y
<1>4. r = need_more(e)
  <2>1. r = need_more([q EXCEPT !.state = IF Len(q.payload) = payload_length(q.header) THEN "CRC" ELSE @])
    BY Zenon DEF parser_push
  <2>2. q.payload = b /\ q.header = p.header /\ q.state = "PAYLOAD"
    BY DEF Parsers
  <2>3. [q EXCEPT !.state = IF Len(q.payload) = payload_length(q.header) THEN "CRC" ELSE @] = e
    BY <2>2, Zenon
  <2>. QED  BY <2>1, <2>3, Zenon
<1>5. st \in ParserStates /\ st \in {"PAYLOAD", "CRC"} /\ (st = "CRC" <=> Len(b) = n)
  BY DEF ParserStates
<1>6. p.crc_bytes = <<>>
  BY <1>1
<1>. HIDE DEF b, st, n, r
<1>7. q = [state |-> "PAYLOAD", header |-> p.header, payload |-> b, crc_bytes |-> <<>>, error_info |-> p.error_info]
  BY <1>2, <1>6 DEF Parsers
<1>. HIDE DEF q
<1>8. e = [state |-> st, header |-> p.header, payload |-> b, crc_bytes |-> <<>>, error_info |-> p.error_info]
  BY <1>7
<1>. HIDE DEF e
<1>9. /\ e.state = st /\ e.header = p.header /\ e.payload = b /\ e.crc_bytes = <<>>
      /\ e.error_info = p.error_info
  BY <1>8
<1>10. Received(e) = Append(Received(p), byte)
  BY <1>3, <1>6, <1>9, Zenon DEF Received
<1>11. <<>> \in Seq(Byte) /\ Len(<<>>) = 0
  BY EmptySeq
<1>12. e \in Parsers
  BY <1>0, <1>2, <1>5, <1>8, <1>11, ParserOfFields, Zenon
<1>13. WellFormed(e)
  <2>1. st # "SYNC" /\ st # "HEADER"
    BY <1>5
  <2>2. n \in Nat
    <3>1. MAGIC_SIZE + 3 \in 1..Len(p.header) /\ Byte \subseteq Nat
      BY <1>1, Sizes
    <3>. QED  BY <1>0, <3>1, ElementOfSeq, Zenon DEF payload_length, n
  <2>3. st = "PAYLOAD" => Len(b) < n
    BY <1>0, <1>1, <1>2, <1>5, <2>2
  <2>4. st = "CRC" => Len(b) = n /\ Len(<<>>) < CRC_SIZE
    BY <1>5, <1>11 DEF CRC_SIZE
  <2>. QED  BY <1>1, <1>9, <2>1, <2>3, <2>4, Zenon DEF WellFormed, n
<1>14. r.parser = e /\ r.status = "NEED_MORE"
  BY <1>4, Zenon DEF need_more, pushed
<1>. QED  BY <1>10, <1>12, <1>13, <1>14, GoesOn, Zenon DEF r

\* A byte stored in crc_bytes leaves the other fields alone.
LEMMA WithCrc ==
  ASSUME NEW p \in Parsers, NEW c \in Seq(Byte)
  PROVE  [p EXCEPT !.crc_bytes = c] =
           [state |-> p.state, header |-> p.header, payload |-> p.payload, crc_bytes |-> c,
            error_info |-> p.error_info]
<1>1. p = [state |-> p.state, header |-> p.header, payload |-> p.payload, crc_bytes |-> p.crc_bytes,
           error_info |-> p.error_info]
  BY Zenon DEF Parsers
<1>2. ASSUME NEW st, NEW h, NEW q, NEW k, NEW i,
             p = [state |-> st, header |-> h, payload |-> q, crc_bytes |-> k, error_info |-> i]
      PROVE  [p EXCEPT !.crc_bytes = c] =
               [state |-> st, header |-> h, payload |-> q, crc_bytes |-> c, error_info |-> i]
  BY <1>2
<1>. QED  BY <1>1, <1>2, Zenon

\* A byte of the CRC; the last one ends the frame with the encoder's verdict.
LEMMA PushCrc ==
  ASSUME NEW p \in Parsers, WellFormed(p), p.state = "CRC", NEW byte \in Byte
  PROVE  PushIsSound(p, Append(Received(p), byte), parser_push(p, byte))
<1>. DEFINE c == Append(p.crc_bytes, byte)
            q == [p EXCEPT !.crc_bytes = c]
            n == payload_length(p.header)
            s == p.header \o p.payload \o c
            r == parser_push(p, byte)
            cmd == command(p.header)
            seq == sequence(p.header)
            crc == crc32(p.header \o p.payload)
<1>0. /\ p.header \in Seq(Byte) /\ p.payload \in Seq(Byte) /\ p.crc_bytes \in Seq(Byte)
      /\ p.error_info \in ErrorInfo /\ Len(p.crc_bytes) \in Nat
  BY ParserFields
<1>1. /\ p.error_info = info_of(p.header)
      /\ Len(p.header) = HEADER_SIZE /\ Len(p.payload) = n /\ n <= MAX_PAYLOAD_SIZE
      /\ Len(p.crc_bytes) < CRC_SIZE /\ Len(p.header) <= HEADER_SIZE
      /\ \A k \in 1..Len(p.header) : k <= MAGIC_SIZE => p.header[k] = Magic[k]
  BY DEF WellFormed
<1>2. c \in Seq(Byte) /\ Len(c) = Len(p.crc_bytes) + 1
  BY <1>0, AppendProperties
<1>3. Append(Received(p), byte) = s
  <2>. DEFINE x == p.header
              y == p.payload
              z == p.crc_bytes
  <2>1. x \in Seq(Byte) /\ y \in Seq(Byte) /\ z \in Seq(Byte)
    BY <1>0
  <2>. HIDE DEF x, y, z
  <2>2. x \o y \o Append(z, byte) = Append(x \o y \o z, byte)
    BY <2>1, AppendToParts
  <2>. QED  BY <2>2, Zenon DEF x, y, z, Received
<1>4. r = IF Len(c) = CRC_SIZE THEN parser_finish_frame(q) ELSE need_more(q)
  <2>1. q.crc_bytes = c
    BY DEF Parsers
  <2>. QED  BY <2>1, Zenon DEF parser_push
<1>9. c \in Seq(Byte)
  BY <1>2
<1>. HIDE DEF c, r
<1>5. q = [state |-> "CRC", header |-> p.header, payload |-> p.payload, crc_bytes |-> c, error_info |-> p.error_info]
  BY <1>9, WithCrc
<1>. HIDE DEF q
<1>6. /\ q.state = "CRC" /\ q.header = p.header /\ q.payload = p.payload /\ q.crc_bytes = c
      /\ q.error_info = p.error_info
  BY <1>5
<1>7. CASE Len(c) # CRC_SIZE
  <2>1. r.parser = q /\ r.status = "NEED_MORE"
    BY <1>4, <1>7, Zenon DEF need_more, pushed
  <2>2. Len(c) < CRC_SIZE
    BY <1>0, <1>1, <1>2, <1>7 DEF CRC_SIZE
  <2>3. WellFormed(q)
    BY <1>1, <1>6, <2>2, Zenon DEF WellFormed
  <2>4. Received(q) = s
    BY <1>6, Zenon DEF Received
  <2>5. q \in Parsers
    <3>1. "CRC" \in ParserStates
      BY DEF ParserStates
    <3>. QED  BY <1>0, <1>2, <1>5, <3>1, ParserOfFields
  <2>. QED  BY <1>3, <2>1, <2>3, <2>4, <2>5, GoesOn, Zenon DEF r
<1>8. CASE Len(c) = CRC_SIZE
  <2>1. r = pushed(parser_reset_state(q), IF crc = c THEN "FRAME_READY" ELSE "CRC")
    BY <1>4, <1>6, <1>8, Zenon DEF parser_finish_frame
  <2>2. r.parser = parser_reset_state(q) /\ r.status = IF crc = c THEN "FRAME_READY" ELSE "CRC"
    BY <2>1, Zenon DEF pushed
  <2>3. /\ r.parser \in Parsers /\ WellFormed(r.parser) /\ Received(r.parser) = <<>>
        /\ r.parser.error_info = info_of(p.header)
    BY <1>0, <1>1, <1>6, <2>2, ResetState
  <2>4. p.header = Magic \o <<cmd, seq, n>> /\ n \in Nat
    <3>1. \A i \in 1..MAGIC_SIZE : p.header[i] = Magic[i]
      BY <1>1, Sizes, SMTT(30)
    <3>. DEFINE x == p.header
    <3>2. x \in Seq(Byte) /\ Len(x) = HEADER_SIZE /\ \A i \in 1..MAGIC_SIZE : x[i] = Magic[i]
      BY <1>0, <1>1, <3>1, Zenon
    <3>. HIDE DEF x
    <3>3. x = Magic \o <<command(x), sequence(x), payload_length(x)>> /\ payload_length(x) \in Byte
      BY <3>2, HeaderIs, Zenon
    <3>4. payload_length(x) \in Nat
      BY <3>3, Sizes, Zenon
    <3>. QED  BY <3>3, <3>4, Zenon DEF x
  <2>5. /\ Len(s) = Len(p.header) + Len(p.payload) + Len(c)
        /\ \A i \in 1..Len(p.header) : s[i] = p.header[i]
    <3>. DEFINE x == p.header
                y == p.payload
    <3>1. x \in Seq(Byte) /\ y \in Seq(Byte) /\ c \in Seq(Byte)
      BY <1>0, <1>2, Zenon
    <3>. HIDE DEF x, y
    <3>2. /\ Len(x \o y \o c) = Len(x) + Len(y) + Len(c)
          /\ \A i \in 1..Len(x) : (x \o y \o c)[i] = x[i]
      BY <3>1, ThreeParts
    <3>. QED  BY <3>2, Zenon DEF x, y
  <2>6. info_of(s) = info_of(p.header) /\ Len(s) >= HEADER_SIZE /\ Len(s) = HEADER_SIZE + n + CRC_SIZE
    <3>. HIDE DEF s, n
    <3>1. MAGIC_SIZE + 1 \in 1..HEADER_SIZE /\ MAGIC_SIZE + 2 \in 1..HEADER_SIZE
      BY Sizes
    <3>2. Len(s) = HEADER_SIZE + n + CRC_SIZE
      BY <1>1, <1>8, <2>5, Zenon
    <3>3. Len(s) >= HEADER_SIZE
      BY <2>4, <3>2, Sizes
    <3>4. s[MAGIC_SIZE + 1] = p.header[MAGIC_SIZE + 1] /\ s[MAGIC_SIZE + 2] = p.header[MAGIC_SIZE + 2]
      BY <1>1, <2>5, <3>1, Zenon
    <3>. QED  BY <3>2, <3>3, <3>4 DEF info_of, command, sequence
  <2>7. info_of(p.header).command = cmd /\ info_of(p.header).sequence = seq
    BY DEF info_of
  <2>8. encode_frame(cmd, seq, p.payload) = p.header \o p.payload \o crc
    <3>1. Magic \o <<cmd, seq, Len(p.payload)>> = p.header
      BY <1>1, <2>4, Zenon
    <3>. QED  BY <3>1, Zenon DEF encode_frame
  <2>9. CASE crc = c
    <3>1. s = encode_frame(cmd, seq, p.payload)
      BY <2>8, <2>9, Zenon
    <3>2. r.status = "FRAME_READY"
      BY <2>2, <2>9, Zenon
    <3>. HIDE DEF s, cmd, seq
    <3>. QED  BY <1>3, <2>3, <2>6, <2>7, <3>1, <3>2, Accepted, Zenon DEF r
  <2>10. CASE crc # c
    <3>1. r.status = "CRC"
      BY <2>2, <2>10
    <3>2. ASSUME is_encoding_of(s, info_of(p.header)) PROVE FALSE
      <4>1. PICK k \in 0..MAX_PAYLOAD_SIZE :
              /\ Len(s) = HEADER_SIZE + k + CRC_SIZE
              /\ s = encode_frame(cmd, seq, SubSeq(s, HEADER_SIZE + 1, HEADER_SIZE + k))
        BY <2>7, <3>2, Zenon DEF is_encoding_of
      <4>2. k = n
        <5>. HIDE DEF s, n
        <5>. QED  BY <2>4, <2>6, <4>1, Sizes
      <4>3. SubSeq(s, Len(p.header) + 1, Len(p.header) + Len(p.payload)) = p.payload
        BY <1>0, <1>2, MiddlePart, Zenon
      <4>4. s = p.header \o p.payload \o crc
        BY <1>1, <2>8, <4>1, <4>2, <4>3, Zenon
      <4>. DEFINE a == p.header \o p.payload
                  S == Byte \cup {checksum(a)[1], checksum(a)[2]}
      <4>5. a \in Seq(S) /\ c \in Seq(S) /\ crc32(a) \in Seq(S)
        <5>1. a \in Seq(Byte) /\ Byte \subseteq S
          BY <1>0, ConcatProperties
        <5>2. checksum(a)[1] \in S /\ checksum(a)[2] \in S
          OBVIOUS
        <5>. HIDE DEF S, a
        <5>3. crc32(a) \in Seq(S)
          BY <5>2 DEF crc32
        <5>. QED  BY <1>2, <5>1, <5>3, SeqMonotonic, Zenon
      <4>6. a \o c = a \o crc32(a)
        BY <4>4
      <4>. HIDE DEF a, S
      <4>7. c = crc32(a)
        BY <4>5, <4>6, ConcatSimplifications, Zenon
      <4>. QED  BY <2>10, <4>7 DEF a
    <3>. HIDE DEF s
    <3>. QED  BY <1>3, <2>3, <2>6, <3>1, <3>2, Refused DEF r
  <2>. QED  BY <2>9, <2>10
<1>. QED  BY <1>7, <1>8

\* Every byte, whatever the parser waits for.
LEMMA PushSound ==
  ASSUME NEW p \in Parsers, WellFormed(p), NEW byte \in Byte
  PROVE  PushIsSound(p, Append(Received(p), byte), parser_push(p, byte))
<1>1. p.state \in ParserStates
  BY ParserFields
<1>. QED  BY <1>1, PushSync, PushHeader, PushPayload, PushCrc DEF ParserStates
-----------------------------------------------------------------------------
(* The reader loop.                                                        *)

\* The verdict on a frame is the encoder's and names that frame.
ResultIsRight ==
  /\ call_result.status = "FRAME_READY" =>
       call_result.seen = encode_frame(call_result.info.command, call_result.info.sequence, call_result.payload)
  /\ call_result.status \in {"CRC", "OVERSIZE"} => ~is_encoding_of(call_result.seen, call_result.info)
  /\ NackNamesThisFrame

\* The inductive invariant: what the reader remembers of the input is what the
\* parser holds.
ReaderInv ==
  /\ parser \in Parsers /\ WellFormed(parser)
  /\ raw = Received(parser)
  /\ byte_count \in 0..READER_MAX_BYTES
  /\ call_result \in Reply
  /\ ResultIsRight

\* The bounds of the reader as numbers.
LEMMA ReaderBounds == READER_MAX_BYTES \in Nat /\ READER_MAX_BYTES > 0
BY Sizes DEF READER_MAX_BYTES, MAX_FRAME_SIZE

ReplyStatuses == {"NONE", "FRAME_READY", "OVERSIZE", "CRC", "TIMEOUT", "BUDGET", "IO_ERROR"}

\* A reply written out is a reply.
LEMMA ReplyOf ==
  ASSUME NEW st \in ReplyStatuses, NEW i \in ErrorInfo, NEW q \in Seq(Byte), NEW w \in Seq(Byte)
  PROVE  [status |-> st, info |-> i, payload |-> q, seen |-> w] \in Reply
BY Zenon DEF Reply, ReplyStatuses

\* A reply without a frame.
LEMMA PlainReply ==
  ASSUME NEW st \in {"NONE", "TIMEOUT", "BUDGET", "IO_ERROR"}
  PROVE  [status |-> st, info |-> NoInfo, payload |-> <<>>, seen |-> <<>>] \in Reply
<1>1. st \in ReplyStatuses
  BY DEF ReplyStatuses
<1>2. NoInfo \in ErrorInfo /\ <<>> \in Seq(Byte)
  BY EmptySeq, Sizes
<1>. QED  BY <1>1, <1>2, ReplyOf, Zenon

\* A result without a frame says nothing about one.
LEMMA PlainResult ==
  ASSUME NEW st \in {"NONE", "TIMEOUT", "BUDGET", "IO_ERROR"},
         call_result' = [NoReply EXCEPT !.status = st]
  PROVE  call_result' \in Reply /\ ResultIsRight'
<1>1. call_result' = [status |-> st, info |-> NoInfo, payload |-> <<>>, seen |-> <<>>]
  BY DEF NoReply
<1>2. <<>> \in Seq(Byte) /\ Len(<<>>) = 0 /\ NoInfo \in ErrorInfo /\ ~NoInfo.valid
  BY EmptySeq, Sizes DEF NoInfo
<1>3. call_result' \in Reply
  BY <1>1, PlainReply, Zenon
<1>4. ~(Len(<<>>) >= HEADER_SIZE)
  BY <1>2, Sizes
<1>5. /\ call_result'.status = st /\ call_result'.info = NoInfo /\ call_result'.seen = <<>>
      /\ st # "FRAME_READY" /\ st \notin {"CRC", "OVERSIZE"}
  BY <1>1
<1>6. NackNamesThisFrame'
  BY <1>2, <1>4, <1>5, Zenon DEF NackNamesThisFrame
<1>. QED  BY <1>3, <1>5, <1>6, Zenon DEF ResultIsRight

\* Before the magic is complete the parser is in SYNC and holds less than it.
LEMMA SyncIsShort ==
  ASSUME NEW p \in Parsers, WellFormed(p)
  PROVE  /\ Received(p) \in Seq(Byte) /\ Len(Received(p)) \in Nat
         /\ p.state = "SYNC" <=> ~(Len(Received(p)) >= MAGIC_SIZE)
<1>. DEFINE x == p.header
            y == p.payload
            z == p.crc_bytes
<1>1. x \in Seq(Byte) /\ y \in Seq(Byte) /\ z \in Seq(Byte) /\ p.state \in ParserStates
  BY ParserFields
<1>2. /\ p.state = "SYNC" => Len(x) < MAGIC_SIZE /\ y = <<>> /\ z = <<>>
      /\ p.state = "HEADER" => MAGIC_SIZE <= Len(x)
      /\ p.state \in {"PAYLOAD", "CRC"} => Len(x) = HEADER_SIZE
  BY DEF WellFormed
<1>3. Received(p) = x \o y \o z
  BY DEF Received
<1>. HIDE DEF x, y, z
<1>4. /\ x \o y \o z \in Seq(Byte) /\ Len(x) \in Nat /\ Len(y) \in Nat /\ Len(z) \in Nat
      /\ Len(x \o y \o z) = Len(x) + Len(y) + Len(z)
  BY <1>1, ThreeParts
<1>5. Len(<<>>) = 0
  BY EmptySeq
<1>6. CASE p.state = "SYNC"
  <2>1. Len(x) < MAGIC_SIZE /\ Len(y) = 0 /\ Len(z) = 0
    BY <1>2, <1>5, <1>6, Zenon
  <2>2. Len(x \o y \o z) = Len(x)
    BY <1>4, <2>1
  <2>. QED  BY <1>3, <1>4, <1>6, <2>1, <2>2, Sizes
<1>7. CASE p.state # "SYNC"
  <2>1. MAGIC_SIZE <= Len(x)
    BY <1>1, <1>2, <1>7, Sizes DEF ParserStates
  <2>. QED  BY <1>3, <1>4, <1>7, <2>1, Sizes
<1>. QED  BY <1>6, <1>7, Zenon

\* So the bytes kept for the specification move as the parser does.
LEMMA NextRaw ==
  ASSUME ReaderInv, NEW byte
  PROVE  next_raw(byte) = LET s == Append(Received(parser), byte)
                          IN  IF parser.state = "SYNC" THEN PossibleStart(s) ELSE s
<1>1. parser \in Parsers /\ WellFormed(parser) /\ raw = Received(parser)
  BY DEF ReaderInv
<1>2. parser.state = "SYNC" <=> ~(Len(raw) >= MAGIC_SIZE)
  BY <1>1, SyncIsShort
<1>. QED  BY <1>1, <1>2, Zenon DEF next_raw

LEMMA ReadByteStep ==
  ASSUME ReaderInv, NEW byte \in Byte, ReadByte(byte)
  PROVE  ReaderInv'
<1>. DEFINE r == parser_push(parser, byte)
            s == Append(Received(parser), byte)
<1>1. parser \in Parsers /\ WellFormed(parser) /\ raw = Received(parser) /\ byte_count \in 0..READER_MAX_BYTES
  BY DEF ReaderInv
<1>2. PushIsSound(parser, s, r)
  BY <1>1, PushSound
<1>3. /\ byte_count < READER_MAX_BYTES /\ parser' = r.parser
      /\ r.status = "NEED_MORE" => /\ byte_count' = byte_count + 1 /\ raw' = next_raw(byte)
                                   /\ call_result' = NoReply
      /\ r.status # "NEED_MORE" =>
           /\ byte_count' = 0 /\ raw' = <<>>
           /\ call_result' = [status |-> r.status, info |-> r.parser.error_info,
                              payload |-> parser.payload, seen |-> next_raw(byte)]
  BY Zenon DEF ReadByte
<1>4. next_raw(byte) = IF parser.state = "SYNC" THEN PossibleStart(s) ELSE s
  BY NextRaw, Zenon
<1>5. s \in Seq(Byte) /\ parser.payload \in Seq(Byte)
  BY <1>1, SyncIsShort, ParserFields, AppendProperties, Zenon
<1>. HIDE DEF r, s
<1>6. parser' \in Parsers /\ WellFormed(parser')
  BY <1>2, <1>3, Zenon DEF PushIsSound
<1>7. CASE r.status = "NEED_MORE"
  <2>1. raw' = Received(parser')
    BY <1>2, <1>3, <1>4, <1>7, Zenon DEF PushIsSound
  <2>2. byte_count' \in 0..READER_MAX_BYTES
    BY <1>1, <1>3, <1>7, ReaderBounds
  <2>3. call_result' = [NoReply EXCEPT !.status = "NONE"]
    BY <1>3, <1>7 DEF NoReply
  <2>4. call_result' \in Reply /\ ResultIsRight'
    BY <2>3, PlainResult
  <2>. QED  BY <1>6, <2>1, <2>2, <2>4 DEF ReaderInv
<1>8. CASE r.status # "NEED_MORE"
  <2>1. /\ parser.state # "SYNC" /\ Received(r.parser) = <<>> /\ Len(s) >= HEADER_SIZE
        /\ r.parser.error_info = info_of(s) /\ r.status \in Statuses
        /\ r.status = "FRAME_READY" =>
             s = encode_frame(r.parser.error_info.command, r.parser.error_info.sequence, parser.payload)
        /\ r.status \in {"CRC", "OVERSIZE"} => ~is_encoding_of(s, r.parser.error_info)
    BY <1>2, <1>8, Zenon DEF PushIsSound
  <2>2. next_raw(byte) = s
    BY <1>4, <2>1
  <2>3. call_result' = [status |-> r.status, info |-> r.parser.error_info,
                        payload |-> parser.payload, seen |-> s]
    BY <1>3, <1>8, <2>2, Zenon
  <2>4. /\ call_result'.status = r.status /\ call_result'.info = r.parser.error_info
        /\ call_result'.payload = parser.payload /\ call_result'.seen = s
    BY <2>3, Zenon
  <2>5. r.parser.error_info \in ErrorInfo
    BY <1>3, <1>6, ParserFields
  <2>6. call_result' \in Reply
    <3>1. r.status \in ReplyStatuses
      BY <1>8, <2>1 DEF Statuses, ReplyStatuses
    <3>. QED  BY <1>5, <2>3, <2>5, <3>1, ReplyOf, Zenon
  <2>7. NackNamesThisFrame'
    BY <2>1, <2>4, Zenon DEF NackNamesThisFrame
  <2>8. ResultIsRight'
    BY <2>1, <2>4, <2>7, Zenon DEF ResultIsRight
  <2>9. raw' = Received(parser') /\ byte_count' \in 0..READER_MAX_BYTES
    BY <1>3, <1>8, <2>1, ReaderBounds
  <2>. QED  BY <1>6, <2>6, <2>8, <2>9 DEF ReaderInv
<1>. QED  BY <1>7, <1>8

\* A call that ends without a verdict starts the parser afresh.
LEMMA EndsPlain ==
  ASSUME NEW st \in {"NONE", "TIMEOUT", "BUDGET", "IO_ERROR"},
         parser' = parser_init, raw' = <<>>, byte_count' = 0,
         call_result' = [NoReply EXCEPT !.status = st]
  PROVE  ReaderInv'
<1>1. parser' \in Parsers /\ WellFormed(parser') /\ raw' = Received(parser')
  BY InitState
<1>2. byte_count' \in 0..READER_MAX_BYTES
  BY ReaderBounds
<1>. QED  BY <1>1, <1>2, PlainResult DEF ReaderInv

\* A timeout in the middle of a frame names it once its header is complete.
LEMMA ReadTimeoutStep ==
  ASSUME ReaderInv, ReadTimeout
  PROVE  ReaderInv'
<1>1. /\ parser \in Parsers /\ WellFormed(parser) /\ raw = Received(parser)
  BY DEF ReaderInv
<1>2. CASE ~has_partial(parser)
  <2>1. /\ byte_count' = 0 /\ call_result' = [NoReply EXCEPT !.status = "TIMEOUT"]
        /\ parser' = parser /\ raw' = raw
    BY <1>2 DEF ReadTimeout
  <2>2. byte_count' \in 0..READER_MAX_BYTES
    BY <2>1, ReaderBounds
  <2>3. call_result' \in Reply /\ ResultIsRight'
    BY <2>1, PlainResult
  <2>. QED  BY <1>1, <2>1, <2>2, <2>3 DEF ReaderInv
<1>3. CASE has_partial(parser)
  <2>1. /\ byte_count' = 0 /\ parser' = parser_init /\ raw' = <<>>
        /\ call_result' = [NoReply EXCEPT !.status = "TIMEOUT", !.info = parser.error_info, !.seen = raw]
    BY <1>3 DEF ReadTimeout
  <2>. DEFINE i == parser.error_info
              a == [NoReply EXCEPT !.status = "TIMEOUT"]
              b == [a EXCEPT !.info = i]
  <2>2. a = [status |-> "TIMEOUT", info |-> NoInfo, payload |-> <<>>, seen |-> <<>>]
    BY DEF NoReply
  <2>3. call_result' = [b EXCEPT !.seen = raw]
    BY <2>1, Zenon
  <2>. HIDE DEF a, i
  <2>4. b = [status |-> "TIMEOUT", info |-> i, payload |-> <<>>, seen |-> <<>>]
    BY <2>2
  <2>. HIDE DEF b
  <2>5. call_result' = [status |-> "TIMEOUT", info |-> i, payload |-> <<>>, seen |-> raw]
    BY <2>3, <2>4
  <2>6. /\ call_result'.status = "TIMEOUT" /\ call_result'.info = i /\ call_result'.seen = raw
    BY <2>5
  <2>7. raw \in Seq(Byte) /\ i \in ErrorInfo /\ <<>> \in Seq(Byte)
    BY <1>1, SyncIsShort, ParserFields, EmptySeq DEF i
  <2>8. call_result' \in Reply
    <3>1. "TIMEOUT" \in ReplyStatuses
      BY DEF ReplyStatuses
    <3>. QED  BY <2>5, <2>7, <3>1, ReplyOf, Zenon
  <2>9. IF Len(raw) >= HEADER_SIZE THEN i = info_of(raw) ELSE ~i.valid
    <3>1. CASE parser.state = "HEADER"
      <4>1. /\ parser.payload = <<>> /\ parser.crc_bytes = <<>> /\ i = NoInfo
            /\ Len(parser.header) < HEADER_SIZE
        BY <1>1, <3>1, Zenon DEF WellFormed, i
      <4>2. raw = parser.header /\ Len(parser.header) \in Nat
        BY <1>1, <4>1, HoldsHeader, ParserFields, Zenon
      <4>3. ~(Len(raw) >= HEADER_SIZE) /\ ~i.valid
        BY <4>1, <4>2, Sizes DEF NoInfo
      <4>. QED  BY <4>3
    <3>2. CASE parser.state \in {"PAYLOAD", "CRC"}
      <4>. DEFINE x == parser.header
                  y == parser.payload
                  z == parser.crc_bytes
      <4>1. i = info_of(x) /\ Len(x) = HEADER_SIZE
        BY <1>1, <3>2, Zenon DEF WellFormed, i
      <4>2. x \in Seq(Byte) /\ y \in Seq(Byte) /\ z \in Seq(Byte) /\ raw = x \o y \o z
        BY <1>1, ParserFields DEF Received
      <4>. HIDE DEF x, y, z
      <4>3. \A k \in 1..Len(x) : raw[k] = x[k]
        BY <4>2, ThreeParts
      <4>4. Len(raw) >= HEADER_SIZE
        BY <4>1, <4>2, ThreeParts, Sizes
      <4>5. raw[MAGIC_SIZE + 1] = x[MAGIC_SIZE + 1] /\ raw[MAGIC_SIZE + 2] = x[MAGIC_SIZE + 2]
        BY <4>1, <4>3, Sizes
      <4>. QED  BY <4>1, <4>4, <4>5, Zenon DEF info_of, command, sequence
    <3>3. parser.state \in {"HEADER", "PAYLOAD", "CRC"}
      BY <1>1, <1>3, ParserFields DEF has_partial, ParserStates
    <3>. QED  BY <3>1, <3>2, <3>3, Zenon
  <2>10. ResultIsRight'
    <3>1. NackNamesThisFrame'
      BY <2>6, <2>9, Zenon DEF NackNamesThisFrame
    <3>2. call_result'.status # "FRAME_READY" /\ call_result'.status \notin {"CRC", "OVERSIZE"}
      BY <2>6
    <3>. QED  BY <3>1, <3>2, Zenon DEF ResultIsRight
  <2>11. /\ parser' \in Parsers /\ WellFormed(parser') /\ raw' = Received(parser')
         /\ byte_count' \in 0..READER_MAX_BYTES
    BY <2>1, InitState, ReaderBounds
  <2>. QED  BY <2>8, <2>10, <2>11 DEF ReaderInv
<1>. QED  BY <1>2, <1>3

\* The invariant holds at first and is kept by every step of the reader.
THEOREM ReaderInductive == ReaderSpec => []ReaderInv
<1>1. ReaderInit => ReaderInv
  <2>. SUFFICES ASSUME ReaderInit PROVE ReaderInv
    OBVIOUS
  <2>1. parser \in Parsers /\ WellFormed(parser) /\ raw = Received(parser)
    BY InitState DEF ReaderInit
  <2>2. byte_count \in 0..READER_MAX_BYTES
    BY ReaderBounds DEF ReaderInit
  <2>3. /\ call_result = [status |-> "NONE", info |-> NoInfo, payload |-> <<>>, seen |-> <<>>]
    BY DEF ReaderInit, NoReply
  <2>4. call_result \in Reply
    BY <2>3, EmptySeq, Sizes, Zenon DEF Reply
  <2>5. ResultIsRight
    BY <2>3 DEF ResultIsRight, NackNamesThisFrame
  <2>. QED  BY <2>1, <2>2, <2>4, <2>5 DEF ReaderInv
<1>2. ReaderInv /\ [ReaderNext]_reader_vars => ReaderInv'
  <2>. SUFFICES ASSUME ReaderInv, [ReaderNext]_reader_vars PROVE ReaderInv'
    OBVIOUS
  <2>1. ASSUME NEW byte \in Byte, ReadByte(byte) PROVE ReaderInv'
    BY <2>1, ReadByteStep
  <2>2. ASSUME NEW byte \in Byte, BudgetExceeded(byte) PROVE ReaderInv'
    BY <2>2, EndsPlain DEF BudgetExceeded
  <2>3. CASE ReadTimeout
    BY <2>3, ReadTimeoutStep, Zenon
  <2>4. CASE ReadError
    BY <2>4, EndsPlain DEF ReadError
  <2>5. CASE UNCHANGED reader_vars
    BY <2>5 DEF ReaderInv, ResultIsRight, NackNamesThisFrame, reader_vars
  <2>. QED  BY <2>1, <2>2, <2>3, <2>4, <2>5 DEF ReaderNext
<1>. QED  BY <1>1, <1>2, PTL DEF ReaderSpec

\* The buffers of the parser stay within the sizes of the C arrays, however the
\* bytes come.
THEOREM ReaderTypes == ReaderSpec => []ReaderTypeOK
<1>1. ReaderInv => ReaderTypeOK
  <2>. SUFFICES ASSUME ReaderInv PROVE ReaderTypeOK
    OBVIOUS
  <2>1. /\ parser \in Parsers /\ WellFormed(parser) /\ raw = Received(parser)
        /\ byte_count \in 0..READER_MAX_BYTES /\ call_result \in Reply
    BY Zenon DEF ReaderInv
  <2>2. /\ parser.state \in ParserStates /\ parser.header \in Seq(Byte) /\ parser.payload \in Seq(Byte)
        /\ parser.crc_bytes \in Seq(Byte) /\ parser.error_info \in ErrorInfo
        /\ Len(parser.payload) \in Nat /\ raw \in Seq(Byte)
    BY <2>1, ParserFields, SyncIsShort
  <2>3. Len(parser.header) <= HEADER_SIZE
    BY <2>1, Zenon DEF WellFormed
  <2>4. Len(<<>>) = 0 /\ MAX_PAYLOAD_SIZE \in Nat /\ CRC_SIZE = 2
    BY EmptySeq, Sizes
  <2>5. parser.state \in {"SYNC", "HEADER"} => parser.payload = <<>> /\ parser.crc_bytes = <<>>
    BY <2>1, Zenon DEF WellFormed
  <2>6. parser.state \in {"PAYLOAD", "CRC"} =>
          /\ payload_length(parser.header) <= MAX_PAYLOAD_SIZE /\ payload_length(parser.header) \in Nat
          /\ Len(parser.payload) <= payload_length(parser.header)
          /\ parser.crc_bytes = <<>> \/ Len(parser.crc_bytes) < CRC_SIZE
    <3>. SUFFICES ASSUME parser.state \in {"PAYLOAD", "CRC"}
                  PROVE  /\ payload_length(parser.header) <= MAX_PAYLOAD_SIZE
                         /\ payload_length(parser.header) \in Nat
                         /\ Len(parser.payload) <= payload_length(parser.header)
                         /\ parser.crc_bytes = <<>> \/ Len(parser.crc_bytes) < CRC_SIZE
      OBVIOUS
    <3>. DEFINE n == payload_length(parser.header)
    <3>1. /\ Len(parser.header) = HEADER_SIZE /\ n <= MAX_PAYLOAD_SIZE
          /\ Len(parser.payload) < n \/ Len(parser.payload) = n
          /\ parser.crc_bytes = <<>> \/ Len(parser.crc_bytes) < CRC_SIZE
      BY <2>1, Zenon DEF WellFormed
    <3>2. MAGIC_SIZE + 3 \in 1..Len(parser.header) /\ Byte \subseteq Nat
      BY <3>1, Sizes
    <3>3. n \in Nat
      BY <2>2, <3>2, ElementOfSeq, Zenon DEF payload_length
    <3>. HIDE DEF n
    <3>4. Len(parser.payload) <= n
      BY <2>2, <3>1, <3>3
    <3>. QED  BY <3>1, <3>3, <3>4 DEF n
  <2>7. Len(parser.payload) <= MAX_PAYLOAD_SIZE /\ Len(parser.crc_bytes) < CRC_SIZE
    BY <2>2, <2>4, <2>5, <2>6 DEF ParserStates
  <2>. QED  BY <2>1, <2>2, <2>3, <2>7 DEF ReaderTypeOK, ParserStates
<1>. QED  BY <1>1, ReaderInductive, PTL

\* A NACK for a damaged or unfinished frame names that frame's command and
\* sequence: parser_accept_magic_byte forgets the one before.
THEOREM NackNames == ReaderSpec => []NackNamesThisFrame
<1>1. ReaderInv => NackNamesThisFrame
  BY Zenon DEF ReaderInv, ResultIsRight
<1>. QED  BY <1>1, ReaderInductive, PTL

\* The C parser inverts the host's encoder, for every byte size, magic and
\* payload limit: what is not complete is not an encoding, because its length
\* byte says how much is missing.
THEOREM ParserInvertsEncoder == ReaderSpec => []InvertsEncoder
<1>1. ReaderInv => InvertsEncoder
  <2>. SUFFICES ASSUME ReaderInv PROVE InvertsEncoder
    OBVIOUS
  <2>1. /\ parser \in Parsers /\ WellFormed(parser) /\ raw = Received(parser) /\ ResultIsRight
    BY Zenon DEF ReaderInv
  <2>2. ASSUME Len(raw) >= HEADER_SIZE, is_encoding_of(raw, info_of(raw)) PROVE FALSE
    <3>. DEFINE x == parser.header
                y == parser.payload
                z == parser.crc_bytes
                n == payload_length(x)
    <3>1. /\ x \in Seq(Byte) /\ y \in Seq(Byte) /\ z \in Seq(Byte) /\ raw = x \o y \o z
          /\ parser.state \in ParserStates /\ Len(x) \in Nat
      BY <2>1, ParserFields, Zenon DEF Received
    <3>2. parser.state \in {"PAYLOAD", "CRC"}
      <4>1. ASSUME parser.state \in {"SYNC", "HEADER"} PROVE FALSE
        <5>1. y = <<>> /\ z = <<>> /\ (Len(x) < MAGIC_SIZE \/ Len(x) < HEADER_SIZE)
          BY <2>1, <4>1, Zenon DEF WellFormed
        <5>2. raw = x
          BY <2>1, <5>1, HoldsHeader, Zenon
        <5>. QED  BY <2>2, <3>1, <5>1, <5>2, Sizes
      <4>. QED  BY <3>1, <4>1 DEF ParserStates
    <3>3. /\ Len(x) = HEADER_SIZE
          /\ \A k \in 1..Len(x) : k <= MAGIC_SIZE => x[k] = Magic[k]
          /\ \/ Len(y) < n /\ z = <<>>
             \/ Len(y) = n /\ Len(z) < CRC_SIZE
      BY <2>1, <3>2, Zenon DEF WellFormed
    <3>. HIDE DEF x, y, z
    <3>4. /\ raw \in Seq(Byte) /\ Len(y) \in Nat /\ Len(z) \in Nat
          /\ Len(raw) = Len(x) + Len(y) + Len(z)
          /\ \A k \in 1..Len(x) : raw[k] = x[k]
      BY <3>1, ThreeParts
    <3>5. info_of(x) \in ErrorInfo /\ n \in Nat
      <4>1. \A i \in 1..MAGIC_SIZE : x[i] = Magic[i]
        BY <3>3, Sizes
      <4>2. info_of(x) \in ErrorInfo /\ n \in Byte
        BY <3>1, <3>3, <4>1, HeaderIs, Zenon
      <4>. QED  BY <4>2, Sizes, Zenon
    <3>6. info_of(raw) = info_of(x) /\ raw[MAGIC_SIZE + 3] = n
      <4>1. /\ MAGIC_SIZE + 1 \in 1..Len(x) /\ MAGIC_SIZE + 2 \in 1..Len(x) /\ MAGIC_SIZE + 3 \in 1..Len(x)
        BY <3>3, Sizes
      <4>. QED  BY <3>4, <4>1, Zenon DEF info_of, command, sequence, payload_length
    <3>. HIDE DEF n
    <3>7. Len(raw) = HEADER_SIZE + n + CRC_SIZE
      BY <2>2, <3>4, <3>5, <3>6, EncodingHasItsLength, Zenon
    <3>8. Len(<<>>) = 0 /\ CRC_SIZE = 2 /\ HEADER_SIZE \in Nat
      BY EmptySeq, Sizes
    <3>. QED  BY <3>3, <3>4, <3>5, <3>7, <3>8
  <2>. QED  BY <2>1, <2>2 DEF InvertsEncoder, ResultIsRight
<1>. QED  BY <1>1, ReaderInductive, PTL
-----------------------------------------------------------------------------
(* The entry window and the line of the console.                           *)

\* The line and what was typed, with their bounds.
LineInv ==
  /\ line \in Seq(Text) /\ Len(line) <= MAX_LINE_LENGTH
  /\ line_overflow \in BOOLEAN
  /\ typed \in Seq(Text) /\ Len(typed) <= MaxTyped
  /\ LineIsWhatWasTyped

\* The inductive invariant of the window.
EntryInv ==
  /\ mode \in {"WINDOW", "CONSOLE", "HELLO"} \cup DOMAIN Words
  /\ entry_parser \in Parsers /\ WellFormed(entry_parser)
  /\ idle_polls \in 0..(ENTRY_IDLE_POLLS - 1)
  /\ entry_byte_count \in 0..(ENTRY_MAX_BYTES - 1)
  /\ LineInv

\* The bounds of the window as numbers.
LEMMA EntryBounds ==
  /\ MAX_LINE_LENGTH \in Nat \ {0} /\ ENTRY_IDLE_POLLS \in Nat \ {0} /\ MaxTyped \in Nat
  /\ ENTRY_MAX_BYTES \in Nat \ {0}
  /\ DOMAIN Words = {"BOOT", "RESET", "RECOVERY"}
BY EntryAssumption, Sizes DEF ENTRY_MAX_BYTES, MAX_FRAME_SIZE

\* Backspace takes the last character, if there is one.
LEMMA Erased ==
  ASSUME NEW s \in Seq(Text)
  PROVE  erased(s) \in Seq(Text) /\ Len(erased(s)) \in Nat /\ Len(erased(s)) <= Len(s)
<1>1. Len(s) \in Nat
  BY LenProperties
<1>2. CASE s = <<>>
  BY <1>1, <1>2 DEF erased
<1>3. CASE s # <<>>
  <2>1. Len(s) # 0
    BY <1>3, EmptySeq
  <2>. DEFINE n == Len(s) - 1
              f == SubSeq(s, 1, n)
  <2>2. n \in Nat /\ n < Len(s) /\ \A i \in 1..n : i \in 1..Len(s)
    BY <1>1, <2>1
  <2>3. \A i \in 1..n : s[i] \in Text
    BY <2>2, ElementOfSeq
  <2>4. erased(s) = f
    BY <1>3, Zenon DEF erased
  <2>. HIDE DEF n
  <2>5. f \in Seq(Text) /\ Len(f) = IF 1 <= n THEN n - 1 + 1 ELSE 0
    BY <2>2, <2>3, SubSeqProperties
  <2>. HIDE DEF f
  <2>. QED  BY <1>1, <2>2, <2>4, <2>5
<1>. QED  BY <1>2, <1>3

\* A character: kept if there is room, else the line is marked.
LEMMA TextLine ==
  ASSUME LineInv, NEW byte \in Text, accept_text(byte)
  PROVE  LineInv'
<1>1. /\ line \in Seq(Text) /\ typed \in Seq(Text) /\ Len(line) \in Nat /\ Len(typed) \in Nat
      /\ Len(line) <= MAX_LINE_LENGTH /\ line_overflow \in BOOLEAN /\ (~line_overflow => line = typed)
  BY LenProperties DEF LineInv, LineIsWhatWasTyped
<1>2. Len(typed) < MaxTyped /\ typed' = Append(typed, byte)
  BY Zenon DEF accept_text
<1>3. typed' \in Seq(Text) /\ Len(typed') <= MaxTyped
  BY <1>1, <1>2, EntryBounds, AppendProperties
<1>4. CASE Len(line) >= MAX_LINE_LENGTH
  <2>1. line_overflow' = TRUE /\ line' = line
    BY <1>4 DEF accept_text
  <2>. QED  BY <1>1, <1>3, <2>1, Zenon DEF LineInv, LineIsWhatWasTyped
<1>5. CASE ~(Len(line) >= MAX_LINE_LENGTH)
  <2>1. line' = Append(line, byte) /\ line_overflow' = line_overflow
    BY <1>5 DEF accept_text
  <2>2. line' \in Seq(Text) /\ Len(line') <= MAX_LINE_LENGTH
    BY <1>1, <1>5, <2>1, EntryBounds, AppendProperties
  <2>3. LineIsWhatWasTyped'
    BY <1>1, <1>2, <2>1, Zenon DEF LineIsWhatWasTyped
  <2>. QED  BY <1>1, <1>3, <2>1, <2>2, <2>3, Zenon DEF LineInv
<1>. QED  BY <1>4, <1>5

\* A backspace takes the same character from both, or from a marked line.
LEMMA EraseLine ==
  ASSUME LineInv, accept_erase
  PROVE  LineInv'
<1>1. /\ line \in Seq(Text) /\ typed \in Seq(Text) /\ Len(line) \in Nat /\ Len(typed) \in Nat
      /\ Len(line) <= MAX_LINE_LENGTH /\ Len(typed) <= MaxTyped
      /\ line_overflow \in BOOLEAN /\ (~line_overflow => line = typed)
  BY LenProperties DEF LineInv, LineIsWhatWasTyped
<1>2. line' = erased(line) /\ typed' = erased(typed) /\ line_overflow' = line_overflow
  BY Zenon DEF accept_erase
<1>3. line' \in Seq(Text) /\ Len(line') <= MAX_LINE_LENGTH
  BY <1>1, <1>2, EntryBounds, Erased
<1>4. typed' \in Seq(Text) /\ Len(typed') <= MaxTyped
  BY <1>1, <1>2, EntryBounds, Erased
<1>5. LineIsWhatWasTyped'
  BY <1>1, <1>2, Zenon DEF LineIsWhatWasTyped
<1>. QED  BY <1>1, <1>2, <1>3, <1>4, <1>5, Zenon DEF LineInv

\* A new line is empty, and nothing has been typed of it.
LEMMA ResetLine ==
  ASSUME reset_text_line
  PROVE  LineInv'
<1>1. line' = <<>> /\ typed' = <<>> /\ line_overflow' = FALSE
  BY DEF reset_text_line
<1>2. line' \in Seq(Text) /\ typed' \in Seq(Text) /\ LineIsWhatWasTyped'
  BY <1>1, EmptySeq, Zenon DEF LineIsWhatWasTyped
<1>3. Len(line') = 0 /\ Len(typed') = 0
  BY <1>1
<1>4. Len(line') <= MAX_LINE_LENGTH /\ Len(typed') <= MaxTyped
  BY <1>3, EntryBounds
<1>. QED  BY <1>1, <1>2, <1>4, Zenon DEF LineInv

\* A command leads to one of the exits or back to the console.
LEMMA EffectIsMode ==
  ASSUME NEW s
  PROVE  effect(s) \in {"CONSOLE"} \cup DOMAIN Words
BY DEF effect, read_only_command

\* A step of the window or the console moves the line by one of the operations
\* above or not at all, and keeps its counters below their limits.
THEOREM EntryInductive == EntrySpec => []EntryInv
<1>1. EntryInit => EntryInv
  <2>. SUFFICES ASSUME EntryInit PROVE EntryInv
    OBVIOUS
  <2>1. line = <<>> /\ typed = <<>> /\ line_overflow = FALSE
    BY DEF EntryInit
  <2>2. line \in Seq(Text) /\ typed \in Seq(Text) /\ LineIsWhatWasTyped
    BY <2>1, EmptySeq, Zenon DEF LineIsWhatWasTyped
  <2>3. LineInv
    <3>1. Len(line) = 0 /\ Len(typed) = 0
      BY <2>1
    <3>2. Len(line) <= MAX_LINE_LENGTH /\ Len(typed) <= MaxTyped
      BY <3>1, EntryBounds
    <3>. QED  BY <2>1, <2>2, <3>2, Zenon DEF LineInv
  <2>4. entry_parser \in Parsers /\ WellFormed(entry_parser)
    BY InitState DEF EntryInit
  <2>5. idle_polls \in 0..(ENTRY_IDLE_POLLS - 1) /\ entry_byte_count \in 0..(ENTRY_MAX_BYTES - 1)
    BY EntryBounds DEF EntryInit
  <2>. QED  BY <2>3, <2>4, <2>5 DEF EntryInv, EntryInit
<1>2. EntryInv /\ [EntryNext]_entry_vars => EntryInv'
  <2>. SUFFICES ASSUME EntryInv, [EntryNext]_entry_vars PROVE EntryInv'
    OBVIOUS
  <2>. DEFINE Modes == {"WINDOW", "CONSOLE", "HELLO"} \cup DOMAIN Words
  <2>0. /\ mode \in Modes /\ entry_parser \in Parsers /\ WellFormed(entry_parser) /\ LineInv
        /\ idle_polls \in 0..(ENTRY_IDLE_POLLS - 1)
        /\ entry_byte_count \in 0..(ENTRY_MAX_BYTES - 1)
    BY DEF EntryInv
  <2>1. "BOOT" \in Modes /\ "HELLO" \in Modes /\ "WINDOW" \in Modes
    BY EntryBounds
  <2>2. \A s : effect(s) \in Modes
    BY EffectIsMode
  <2>. HIDE DEF Modes
  <2>3. ASSUME UNCHANGED <<line, line_overflow, typed>> PROVE LineInv'
    BY <2>0, <2>3 DEF LineInv, LineIsWhatWasTyped
  <2>4. ASSUME UNCHANGED entry_parser PROVE entry_parser' \in Parsers /\ WellFormed(entry_parser')
    BY <2>0, <2>4
  <2>5. ASSUME window_next PROVE mode' \in Modes /\ entry_byte_count' \in 0..(ENTRY_MAX_BYTES - 1)
    <3>1. CASE entry_byte_count + 1 >= ENTRY_MAX_BYTES
      BY <2>0, <2>1, <2>5, <3>1, Zenon DEF window_next
    <3>2. CASE ~(entry_byte_count + 1 >= ENTRY_MAX_BYTES)
      <4>1. entry_byte_count' = entry_byte_count + 1 /\ mode' = mode
        BY <2>5, <3>2, Zenon DEF window_next
      <4>. QED  BY <2>0, <3>2, <4>1, EntryBounds
    <3>. QED  BY <3>1, <3>2
  <2>6. ASSUME NEW s, execute_line(s) PROVE mode' \in Modes /\ LineInv'
    BY <2>2, <2>6, ResetLine DEF execute_line
  <2>7. CASE WindowIdle
    <3>1. UNCHANGED <<entry_parser, entry_byte_count, line, line_overflow, typed>>
      BY <2>7 DEF WindowIdle
    <3>2. mode' \in Modes /\ idle_polls' \in 0..(ENTRY_IDLE_POLLS - 1)
      <4>1. CASE idle_polls + 1 >= ENTRY_IDLE_POLLS
        BY <2>0, <2>1, <2>7, <4>1 DEF WindowIdle
      <4>2. CASE ~(idle_polls + 1 >= ENTRY_IDLE_POLLS)
        <5>1. idle_polls' = idle_polls + 1 /\ mode' = mode
          BY <2>7, <4>2, Zenon DEF WindowIdle
        <5>. QED  BY <2>0, <4>2, <5>1, EntryBounds
      <4>. QED  BY <4>1, <4>2, Zenon
    <3>. QED  BY <2>0, <2>3, <2>4, <3>1, <3>2, Zenon DEF EntryInv, Modes
  <2>8. ASSUME NEW byte \in Byte, WindowHello(byte) PROVE EntryInv'
    <3>1. mode' = "HELLO" /\ UNCHANGED <<entry_parser, idle_polls, entry_byte_count, line, line_overflow, typed>>
      BY <2>8, Zenon DEF WindowHello
    <3>. QED  BY <2>0, <2>1, <2>3, <2>4, <3>1, Zenon DEF EntryInv, Modes
  <2>9. ASSUME NEW byte \in Byte, WindowByte(byte) PROVE EntryInv'
    <3>. DEFINE r == parser_push(entry_parser, byte)
    <3>1. r.parser \in Parsers /\ WellFormed(r.parser)
      BY <2>0, PushSound, Zenon DEF PushIsSound
    <3>2. entry_parser' = (IF r.status = "NEED_MORE" THEN r.parser ELSE parser_init) /\ idle_polls' = 0
      BY <2>9 DEF WindowByte
    <3>. HIDE DEF r
    <3>3. entry_parser' \in Parsers /\ WellFormed(entry_parser')
      BY <3>1, <3>2, InitState
    <3>4. idle_polls' \in 0..(ENTRY_IDLE_POLLS - 1)
      BY <3>2, EntryBounds
    <3>5. mode' \in Modes /\ LineInv' /\ entry_byte_count' \in 0..(ENTRY_MAX_BYTES - 1)
      <4>1. CASE byte \in Newline /\ execute_line(initial_line) /\ UNCHANGED entry_byte_count
        BY <2>0, <2>6, <4>1, Zenon
      <4>2. CASE byte \in Erase /\ accept_erase /\ window_next
        BY <2>0, <2>5, <4>2, EraseLine
      <4>3. CASE byte \in Text /\ accept_text(byte) /\ window_next
        BY <2>0, <2>5, <4>3, TextLine, Zenon
      <4>4. CASE byte \notin Newline \cup Erase \cup Text /\ reset_text_line /\ window_next
        BY <2>5, <4>4, ResetLine
      <4>. QED  BY <2>9, <4>1, <4>2, <4>3, <4>4, Zenon DEF WindowByte
    <3>. QED  BY <3>3, <3>4, <3>5, Zenon DEF EntryInv, Modes
  <2>10. ASSUME NEW byte \in Byte, ConsoleByte(byte) PROVE EntryInv'
    <3>1. UNCHANGED <<entry_parser, idle_polls, entry_byte_count>>
      BY <2>10 DEF ConsoleByte
    <3>2. mode' \in Modes /\ LineInv'
      <4>1. CASE byte \in Newline /\ execute_line(IF line_overflow THEN <<>> ELSE line)
        BY <2>6, <4>1
      <4>2. CASE byte \in Erase /\ accept_erase /\ UNCHANGED mode
        BY <2>0, <4>2, EraseLine, Zenon
      <4>3. CASE byte \in Text /\ accept_text(byte) /\ UNCHANGED mode
        BY <2>0, <4>3, TextLine
      <4>4. CASE byte \notin Newline \cup Erase \cup Text /\ execute_line(<<>>)
        BY <2>6, <4>4, Zenon
      <4>. QED  BY <2>10, <4>1, <4>2, <4>3, <4>4, Zenon DEF ConsoleByte
    <3>. QED  BY <2>0, <2>4, <3>1, <3>2 DEF EntryInv, Modes
  <2>11. CASE ConsoleTimeout
    <3>1. mode' = "BOOT" /\ UNCHANGED <<entry_parser, idle_polls, entry_byte_count, line, line_overflow, typed>>
      BY <2>11, Zenon DEF ConsoleTimeout
    <3>. QED  BY <2>0, <2>1, <2>3, <2>4, <3>1 DEF EntryInv, Modes
  <2>12. CASE ReaderError
    <3>1. mode' = "BOOT" /\ UNCHANGED <<entry_parser, idle_polls, entry_byte_count, line, line_overflow, typed>>
      BY <2>12 DEF ReaderError
    <3>. QED  BY <2>0, <2>1, <2>3, <2>4, <3>1 DEF EntryInv, Modes
  <2>13. CASE Reopen
    <3>1. mode' = "WINDOW" /\ entry_parser' = parser_init /\ idle_polls' = 0 /\ entry_byte_count' = 0 /\ reset_text_line
      BY <2>13 DEF Reopen
    <3>2. idle_polls' \in 0..(ENTRY_IDLE_POLLS - 1) /\ entry_byte_count' \in 0..(ENTRY_MAX_BYTES - 1)
      BY <3>1, EntryBounds
    <3>. QED  BY <2>1, <3>1, <3>2, InitState, ResetLine DEF EntryInv, Modes
  <2>14. CASE UNCHANGED entry_vars
    <3>1. UNCHANGED <<mode, entry_parser, idle_polls, entry_byte_count, line, line_overflow, typed>>
      BY <2>14, Zenon DEF entry_vars
    <3>. QED  BY <2>0, <2>3, <2>4, <3>1 DEF EntryInv, Modes
  <2>. QED  BY <2>7, <2>8, <2>9, <2>10, <2>11, <2>12, <2>13, <2>14 DEF EntryNext, WindowStep
<1>. QED  BY <1>1, <1>2, PTL DEF EntrySpec

\* The window's counters stay below their limits and the line within its buffer.
THEOREM EntryTypes == EntrySpec => []EntryTypeOK
<1>1. EntryInv => EntryTypeOK
  <2>. SUFFICES ASSUME EntryInv PROVE EntryTypeOK
    OBVIOUS
  <2>1. entry_parser.state \in {"SYNC", "HEADER", "PAYLOAD", "CRC"}
    BY ParserFields, Zenon DEF EntryInv, ParserStates
  <2>. QED  BY <2>1 DEF EntryInv, LineInv, EntryTypeOK, ParserStates
<1>. QED  BY <1>1, EntryInductive, PTL

\* A line that was cut is never taken for a whole one, in whatever order
\* characters and backspaces come (accept_text and accept_erase of
\* update_mode.c and diagnostic_console.c).
THEOREM LineIsTyped == EntrySpec => []LineIsWhatWasTyped
<1>1. EntryInv => LineIsWhatWasTyped
  BY DEF EntryInv, LineInv
<1>. QED  BY <1>1, EntryInductive, PTL
=============================================================================
