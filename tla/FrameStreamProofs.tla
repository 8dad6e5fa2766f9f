--------------------------- MODULE FrameStreamProofs ---------------------------
(***************************************************************************)
(* Proofs about FrameStream, for every set of frames, header and buffer    *)
(* size, and number of frames.  What a stream of whole frames is, and that *)
(* it stays one when a frame is put behind it or taken off its front, is   *)
(* proved first, for any stream; the actions only pick the case.           *)
(***************************************************************************)
EXTENDS FrameStream, SequenceTheorems, TLAPS

(* The bytes of the frames in s, and the one behind byte b.                 *)
Bytes(s) == (1..Len(s)) \X (Nat \ {0})
Behind(s, b) == IF b[2] < Size(s[b[1]]) THEN <<b[1], b[2] + 1>> ELSE <<b[1] + 1, 1>>

(* r is what is left of the frames in s when the first h are taken off.     *)
Lined(s, r, h) ==
  /\ Len(r) = 0 => h = Len(s)
  /\ Len(r) # 0 => r[1] = <<h + 1, 1>> /\ Behind(s, r[Len(r)]) = <<Len(s) + 1, 1>>
  /\ \A j \in 1..(Len(r) - 1) : r[j + 1] = Behind(s, r[j])

(* Behind each byte of r come the other bytes of its frame.  Step by step,  *)
(* Lined says the same; as a statement about every distance at once it      *)
(* tells what the whole message at the front of r is.                       *)
Whole(s, r) ==
  \A j \in 1..Len(r) :
    /\ r[j][2] <= Size(s[r[j][1]])
    /\ \A m \in 0..(Size(s[r[j][1]]) - r[j][2]) :
         j + m <= Len(r) /\ r[j + m] = <<r[j][1], r[j][2] + m>>

(* The bytes sent and not yet handled.                                      *)
Rest == pendingData \o wire

IInv == TypeOK /\ FrameBoundary /\ Whole(sent, Rest) /\ InOrder

(***************************************************************************)
(* Frames and bytes                                                        *)
(***************************************************************************)
LEMMA FrameFacts ==
  ASSUME NEW f \in Frames
  PROVE  /\ Size(f) \in Nat /\ Size(f) >= 1 /\ Size(f) >= HeaderSize
         /\ f.type \in Types /\ f.fault \in {"none", "version", "crc"} /\ f.length \in Nat
<1>1. f \in [type: Types, fault: {"none", "version", "crc"}, length: Nat]
  BY FramesAssumption
<1>2. f.type \in Types /\ f.fault \in {"none", "version", "crc"} /\ f.length \in Nat
  BY <1>1
<1> QED
  BY <1>2, SizesAssumption DEF Size

LEMMA ByteFacts ==
  ASSUME NEW s \in Seq(Frames), NEW b \in Bytes(s)
  PROVE  /\ Len(s) \in Nat /\ b[1] \in 1..Len(s) /\ b[1] \in Nat
         /\ b[2] \in Nat /\ b[2] >= 1
         /\ s[b[1]] \in Frames /\ Size(s[b[1]]) \in Nat
<1>1. Len(s) \in Nat
  BY LenProperties
<1>2. b[1] \in 1..Len(s) /\ b[2] \in Nat /\ b[2] >= 1
  BY DEF Bytes
<1>3. s[b[1]] \in Frames
  BY <1>2, ElementOfSeq
<1> QED
  BY <1>1, <1>2, <1>3, FrameFacts

(* serialize numbers the bytes of a frame.                                  *)
LEMMA SerializeFacts ==
  ASSUME NEW i \in Nat, NEW f \in Frames
  PROVE  /\ serialize(i, f) \in Seq({i} \X (Nat \ {0}))
         /\ Len(serialize(i, f)) = Size(f)
         /\ \A k \in 1..Size(f) : serialize(i, f)[k] = <<i, k>>
<1> DEFINE Z == Size(f)
<1>1. Z \in Nat
  BY FrameFacts
<1> HIDE DEF Z
<1>2. [k \in 1..Z |-> <<i, k>>] \in Seq({i} \X (Nat \ {0}))
  <2>1. \A k \in 1..Z : <<i, k>> \in {i} \X (Nat \ {0})
    BY <1>1
  <2> QED
    BY <1>1, <2>1
<1>3. Len([k \in 1..Z |-> <<i, k>>]) = Z
  BY <1>1
<1> QED
  BY <1>2, <1>3 DEF serialize, Z

(* What is taken off the first part of a sequence is taken off the whole.   *)
LEMMA SubSeqConcat ==
  ASSUME NEW S, NEW p \in Seq(S), NEW w \in Seq(S), NEW e \in Nat, e <= Len(p)
  PROVE  SubSeq(p, e + 1, Len(p)) \o w = SubSeq(p \o w, e + 1, Len(p \o w))
<1> DEFINE q == SubSeq(p, e + 1, Len(p))
           t == SubSeq(p \o w, e + 1, Len(p \o w))
<1>0. PICK P \in Nat, W \in Nat : P = Len(p) /\ W = Len(w)
  BY LenProperties
<1>1. /\ p \o w \in Seq(S) /\ Len(p \o w) = P + W
      /\ \A i \in 1..(P + W) : (p \o w)[i] = IF i <= P THEN p[i] ELSE w[i - P]
  BY <1>0, ConcatProperties
<1>2. q \in Seq(S) /\ Len(q) = P - e /\ \A i \in 1..(P - e) : q[i] = p[e + i]
  <2>1. \A i \in (e + 1)..P : i \in 1..P
    OBVIOUS
  <2>2. \A i \in (e + 1)..P : p[i] \in S
    BY <1>0, <2>1, ElementOfSeq
  <2>3. e + 1 \in Int /\ P \in Int
    OBVIOUS
  <2>4. /\ q \in Seq(S) /\ Len(q) = IF e + 1 <= P THEN P - (e + 1) + 1 ELSE 0
        /\ \A i \in 1..(P - (e + 1) + 1) : q[i] = p[(e + 1) + i - 1]
    BY <1>0, <2>2, <2>3, SubSeqProperties
  <2>5. P - (e + 1) + 1 = P - e /\ \A i \in 1..(P - e) : (e + 1) + i - 1 = e + i
    OBVIOUS
  <2>6. ~(e + 1 <= P) => P - e = 0
    BY <1>0
  <2> QED
    BY <2>4, <2>5, <2>6
<1>3. t \in Seq(S) /\ Len(t) = P + W - e /\ \A i \in 1..(P + W - e) : t[i] = (p \o w)[e + i]
  <2>1. \A i \in (e + 1)..(P + W) : i \in 1..(P + W)
    OBVIOUS
  <2>2. \A i \in (e + 1)..(P + W) : (p \o w)[i] \in S
    BY <1>1, <2>1, ElementOfSeq
  <2>3. e + 1 \in Int /\ P + W \in Int
    OBVIOUS
  <2>4. /\ t \in Seq(S) /\ Len(t) = IF e + 1 <= P + W THEN P + W - (e + 1) + 1 ELSE 0
        /\ \A i \in 1..(P + W - (e + 1) + 1) : t[i] = (p \o w)[(e + 1) + i - 1]
    BY <1>1, <2>2, <2>3, SubSeqProperties
  <2>5. P + W - (e + 1) + 1 = P + W - e /\ \A i \in 1..(P + W - e) : (e + 1) + i - 1 = e + i
    OBVIOUS
  <2>6. ~(e + 1 <= P + W) => P + W - e = 0
    BY <1>0
  <2> QED
    BY <2>4, <2>5, <2>6
<1> HIDE DEF q, t
<1>4. /\ q \o w \in Seq(S) /\ Len(q \o w) = P + W - e
      /\ \A i \in 1..(P + W - e) : (q \o w)[i] = IF i <= P - e THEN q[i] ELSE w[i - (P - e)]
  <2>1. /\ q \o w \in Seq(S) /\ Len(q \o w) = Len(q) + Len(w)
        /\ \A i \in 1..(Len(q) + Len(w)) : (q \o w)[i] = IF i <= Len(q) THEN q[i] ELSE w[i - Len(q)]
    BY <1>2, ConcatProperties
  <2>2. Len(q) = P - e /\ Len(w) = W /\ (P - e) + W = P + W - e
    BY <1>0, <1>2
  <2>3. Len(q) + Len(w) = P + W - e
    BY <2>2
  <2> QED
    BY <2>1, <2>2, <2>3
<1>5. ASSUME NEW i \in 1..(P + W - e) PROVE (q \o w)[i] = t[i]
  <2>0. e + i \in 1..(P + W)
    OBVIOUS
  <2>1. t[i] = (p \o w)[e + i] /\ e + i \in 1..(P + W)
    BY <1>3, <2>0
  <2>2. CASE i <= P - e
    <3>1. i \in 1..(P - e) /\ e + i <= P
      BY <2>2
    <3> QED
      BY <1>1, <1>2, <1>4, <2>1, <3>1
  <2>3. CASE ~(i <= P - e)
    <3>1. ~(e + i <= P) /\ (e + i) - P = i - (P - e)
      BY <2>3
    <3> QED
      BY <1>1, <1>4, <2>1, <2>3, <3>1
  <2> QED
    BY <2>2, <2>3
<1> QED
  BY <1>3, <1>4, <1>5, SeqEqual DEF q, t

(***************************************************************************)
(* Streams of whole frames                                                 *)
(***************************************************************************)

(* A frame put behind a stream: where its bytes are.                        *)
LEMMA BehindStream ==
  ASSUME NEW s \in Seq(Frames), NEW f \in Frames, NEW r \in Seq(Bytes(s))
  PROVE  LET s2 == Append(s, f)
             r2 == r \o serialize(Len(s) + 1, f)
         IN  /\ s2 \in Seq(Frames) /\ Len(s2) = Len(s) + 1 /\ s2[Len(s) + 1] = f
             /\ \A i \in 1..Len(s) : s2[i] = s[i]
             /\ Bytes(s) \subseteq Bytes(s2)
             /\ serialize(Len(s) + 1, f) \in Seq(Bytes(s2))
             /\ r2 \in Seq(Bytes(s2)) /\ Len(r2) = Len(r) + Size(f)
             /\ \A j \in 1..Len(r) : r2[j] = r[j]
             /\ \A k \in 1..Size(f) : r2[Len(r) + k] = <<Len(s) + 1, k>>
<1> DEFINE s2 == Append(s, f)
           ser == serialize(Len(s) + 1, f)
           r2 == r \o ser
<1>0. Len(s) \in Nat /\ Len(r) \in Nat /\ Size(f) \in Nat
  BY LenProperties, FrameFacts
<1>1. /\ s2 \in Seq(Frames) /\ Len(s2) = Len(s) + 1 /\ s2[Len(s) + 1] = f
      /\ \A i \in 1..Len(s) : s2[i] = s[i]
  BY AppendProperties
<1>2. Len(s) + 1 \in Nat
  BY <1>0
<1>3. /\ ser \in Seq({Len(s) + 1} \X (Nat \ {0})) /\ Len(ser) = Size(f)
      /\ \A k \in 1..Size(f) : ser[k] = <<Len(s) + 1, k>>
  BY <1>2, SerializeFacts
<1> HIDE DEF s2, ser
<1>4. Bytes(s) \subseteq Bytes(s2) /\ {Len(s) + 1} \X (Nat \ {0}) \subseteq Bytes(s2)
  BY <1>0, <1>1 DEF Bytes
<1>5. r \in Seq(Bytes(s2)) /\ ser \in Seq(Bytes(s2))
  BY <1>3, <1>4, SeqMonotonic
<1>6. /\ r2 \in Seq(Bytes(s2)) /\ Len(r2) = Len(r) + Len(ser)
      /\ \A j \in 1..(Len(r) + Len(ser)) : r2[j] = IF j <= Len(r) THEN r[j] ELSE ser[j - Len(r)]
  BY <1>5, ConcatProperties
<1> HIDE DEF r2
<1>7. ASSUME NEW j \in 1..Len(r) PROVE r2[j] = r[j]
  BY <1>0, <1>3, <1>6
<1>8. ASSUME NEW k \in 1..Size(f) PROVE r2[Len(r) + k] = <<Len(s) + 1, k>>
  <2>1. Len(r) + k \in 1..(Len(r) + Len(ser)) /\ ~(Len(r) + k <= Len(r)) /\ (Len(r) + k) - Len(r) = k
    BY <1>0, <1>3
  <2> QED
    BY <1>3, <1>6, <2>1
<1> QED
  BY <1>1, <1>3, <1>4, <1>5, <1>6, <1>7, <1>8 DEF s2, r2, ser

(* It stays a stream of whole frames.                                       *)
LEMMA FrameAdded ==
  ASSUME NEW s \in Seq(Frames), NEW f \in Frames, NEW r \in Seq(Bytes(s)), NEW h \in Nat,
         Lined(s, r, h), Whole(s, r)
  PROVE  LET s2 == Append(s, f)
             r2 == r \o serialize(Len(s) + 1, f)
         IN  Lined(s2, r2, h) /\ Whole(s2, r2)
<1> DEFINE s2 == Append(s, f)
           r2 == r \o serialize(Len(s) + 1, f)
<1>0. PICK n \in Nat, L \in Nat, Z \in Nat : n = Len(s) /\ L = Len(r) /\ Z = Size(f) /\ Z >= 1
  BY LenProperties, FrameFacts
<1>1. /\ s2 \in Seq(Frames) /\ Len(s2) = n + 1 /\ s2[n + 1] = f
      /\ \A i \in 1..n : s2[i] = s[i]
      /\ r2 \in Seq(Bytes(s2)) /\ Len(r2) = L + Z
      /\ \A j \in 1..L : r2[j] = r[j]
      /\ \A k \in 1..Z : r2[L + k] = <<n + 1, k>>
  BY <1>0, BehindStream
<1> HIDE DEF s2, r2
<1>2. ASSUME NEW j \in 1..L
      PROVE  /\ r[j][1] \in 1..n /\ r[j][2] \in Nat /\ s2[r[j][1]] = s[r[j][1]]
             /\ Size(s[r[j][1]]) \in Nat
  <2>1. r[j] \in Bytes(s)
    BY <1>0, ElementOfSeq
  <2> QED
    BY <1>0, <1>1, <2>1, ByteFacts
<1>3. ASSUME NEW j \in 1..L PROVE Behind(s2, r2[j]) = Behind(s, r[j])
  BY <1>1, <1>2 DEF Behind
<1>4. ASSUME NEW k \in 1..Z
      PROVE  Behind(s2, r2[L + k]) = IF k < Z THEN <<n + 1, k + 1>> ELSE <<n + 2, 1>>
  <2>1. r2[L + k] = <<n + 1, k>>
    BY <1>1
  <2>2. <<n + 1, k>>[1] = n + 1 /\ <<n + 1, k>>[2] = k /\ (n + 1) + 1 = n + 2
    OBVIOUS
  <2> QED
    BY <1>0, <1>1, <2>1, <2>2 DEF Behind
<1>5. Lined(s2, r2, h)
  <2>1. r2[1] = <<h + 1, 1>>
    <3>1. CASE L = 0
      <4>1. r2[0 + 1] = <<n + 1, 1>> /\ h = n
        BY <1>0, <1>1, <3>1 DEF Lined
      <4> QED
        BY <4>1
    <3>2. CASE L # 0
      <4>1. 1 \in 1..L /\ r[1] = <<h + 1, 1>>
        BY <1>0, <3>2 DEF Lined
      <4> QED
        BY <1>1, <4>1
    <3> QED
      BY <3>1, <3>2
  <2>2. Behind(s2, r2[L + Z]) = <<n + 2, 1>>
    <3>1. Z \in 1..Z /\ ~(Z < Z)
      BY <1>0
    <3> QED
      BY <1>4, <3>1
  <2>3. ASSUME NEW j \in 1..(L + Z - 1) PROVE r2[j + 1] = Behind(s2, r2[j])
    <3>1. CASE j < L
      <4>1. j \in 1..(L - 1) /\ j \in 1..L /\ j + 1 \in 1..L
        BY <3>1
      <4> QED
        BY <1>0, <1>1, <1>3, <4>1 DEF Lined
    <3>2. CASE j = L
      <4>1. L \in 1..L /\ L # 0 /\ 1 \in 1..Z
        BY <1>0, <3>2
      <4>2. Behind(s, r[L]) = <<n + 1, 1>>
        BY <1>0, <4>1 DEF Lined
      <4> QED
        BY <1>1, <1>3, <3>2, <4>1, <4>2
    <3>3. CASE j > L
      <4>1. PICK k \in 1..Z : j = L + k /\ k < Z /\ k + 1 \in 1..Z /\ j + 1 = L + (k + 1)
        <5>1. j - L \in 1..Z /\ j = L + (j - L) /\ j - L < Z /\ (j - L) + 1 \in 1..Z
              /\ j + 1 = L + ((j - L) + 1)
          BY <3>3
        <5> QED
          BY <5>1
      <4>2. r2[L + (k + 1)] = <<n + 1, k + 1>>
        BY <1>1, <4>1
      <4> QED
        BY <1>4, <4>1, <4>2
    <3> QED
      BY <3>1, <3>2, <3>3
  <2>4. (n + 1) + 1 = n + 2 /\ L + Z # 0
    BY <1>0
  <2> QED
    BY <1>1, <2>1, <2>2, <2>3, <2>4 DEF Lined
<1>6. Whole(s2, r2)
  <2> SUFFICES ASSUME NEW j \in 1..(L + Z)
               PROVE  /\ r2[j][2] <= Size(s2[r2[j][1]])
                      /\ \A m \in 0..(Size(s2[r2[j][1]]) - r2[j][2]) :
                           j + m <= L + Z /\ r2[j + m] = <<r2[j][1], r2[j][2] + m>>
    BY <1>1 DEF Whole
  <2>1. CASE j <= L
    <3>0. j \in 1..L
      BY <2>1
    <3>1. r2[j] = r[j] /\ s2[r2[j][1]] = s[r[j][1]]
      BY <1>1, <1>2, <3>0
    <3>2. r[j][2] <= Size(s[r[j][1]])
      BY <1>0, <3>0, <3>1 DEF Whole
    <3>3. ASSUME NEW m \in 0..(Size(s[r[j][1]]) - r[j][2])
          PROVE  j + m <= L + Z /\ r2[j + m] = <<r[j][1], r[j][2] + m>>
      <4>1. j + m <= L /\ r[j + m] = <<r[j][1], r[j][2] + m>>
        BY <1>0, <3>0, <3>1 DEF Whole
      <4>2. m \in Nat
        BY <1>2, <3>0, <3>1
      <4>3. j + m \in 1..L
        BY <4>1, <4>2
      <4> QED
        BY <1>1, <4>1, <4>3
    <3> QED
      BY <3>1, <3>2, <3>3
  <2>2. CASE j > L
    <3>1. PICK k \in 1..Z : j = L + k
      <4>1. j - L \in 1..Z /\ j = L + (j - L)
        BY <2>2
      <4> QED
        BY <4>1
    <3>2. r2[j] = <<n + 1, k>>
      BY <1>1, <3>1
    <3>4. r2[j][1] = n + 1 /\ r2[j][2] = k
      BY <3>2
    <3>5. Size(s2[r2[j][1]]) = Z /\ k <= Z
      BY <1>0, <1>1, <3>4
    <3>3. ASSUME NEW m \in 0..(Z - k)
          PROVE  j + m <= L + Z /\ r2[j + m] = <<n + 1, k + m>>
      <4>1. k + m \in 1..Z /\ j + m = L + (k + m)
        BY <3>1
      <4>2. r2[L + (k + m)] = <<n + 1, k + m>>
        BY <1>1, <4>1
      <4>3. L + (k + m) <= L + Z
        BY <1>0, <4>1
      <4> QED
        BY <4>1, <4>2, <4>3
    <3> QED
      BY <3>3, <3>4, <3>5
  <2> QED
    BY <2>1, <2>2
<1> QED
  BY <1>5, <1>6 DEF s2, r2

(* A frame taken off the front of a stream: the stream begins with it, and  *)
(* what is behind it is a stream of whole frames.                           *)
LEMMA FrameTaken ==
  ASSUME NEW s \in Seq(Frames), NEW r \in Seq(Bytes(s)), NEW h \in Nat,
         Lined(s, r, h), Whole(s, r), Len(r) # 0
  PROVE  LET E == Size(s[h + 1])
             r2 == SubSeq(r, E + 1, Len(r))
         IN  /\ h + 1 \in 1..Len(s) /\ s[h + 1] \in Frames /\ E <= Len(r)
             /\ Lined(s, r2, h + 1) /\ Whole(s, r2)
<1>0. PICK n \in Nat, L \in Nat : n = Len(s) /\ L = Len(r) /\ L >= 1
  BY LenProperties
<1>1. r[1] = <<h + 1, 1>> /\ r[1] \in Bytes(s)
  BY <1>0, ElementOfSeq DEF Lined
<1>2. h + 1 \in 1..n /\ s[h + 1] \in Frames
  BY <1>0, <1>1, ByteFacts
<1>3. PICK E \in Nat : E = Size(s[h + 1]) /\ E >= 1
  BY <1>2, FrameFacts
<1>4. ASSUME NEW m \in 0..(E - 1) PROVE 1 + m <= L /\ r[1 + m] = <<h + 1, 1 + m>>
  <2>1. r[1][1] = h + 1 /\ r[1][2] = 1 /\ 1 \in 1..L
    BY <1>0, <1>1
  <2> QED
    BY <1>0, <1>3, <2>1 DEF Whole
<1>5. E <= L /\ r[E] = <<h + 1, E>>
  <2>1. E - 1 \in 0..(E - 1) /\ 1 + (E - 1) = E
    BY <1>3
  <2> QED
    BY <1>4, <2>1
<1>6. Behind(s, r[E]) = <<h + 2, 1>>
  <2>1. <<h + 1, E>>[1] = h + 1 /\ <<h + 1, E>>[2] = E /\ ~(E < E) /\ (h + 1) + 1 = h + 2
    OBVIOUS
  <2> QED
    BY <1>3, <1>5, <2>1 DEF Behind
<1> DEFINE r2 == SubSeq(r, E + 1, L)
<1>7. /\ r2 \in Seq(Bytes(s)) /\ Len(r2) = L - E
      /\ \A j \in 1..(L - E) : r2[j] = r[E + j]
  <2>1. \A i \in (E + 1)..L : r[i] \in Bytes(s)
    <3>1. ASSUME NEW i \in (E + 1)..L PROVE i \in 1..L
      OBVIOUS
    <3> QED
      BY <1>0, <3>1, ElementOfSeq
  <2>2. /\ r2 \in Seq(Bytes(s))
        /\ Len(r2) = IF E + 1 <= L THEN L - (E + 1) + 1 ELSE 0
        /\ \A j \in 1..(L - (E + 1) + 1) : r2[j] = r[(E + 1) + j - 1]
    <3>1. E + 1 \in Int /\ L \in Int
      OBVIOUS
    <3> QED
      BY <2>1, <3>1, SubSeqProperties
  <2>3. L - (E + 1) + 1 = L - E /\ (~(E + 1 <= L) => L - E = 0)
    BY <1>5
  <2>4. \A j \in 1..(L - E) : (E + 1) + j - 1 = E + j
    OBVIOUS
  <2> QED
    BY <2>2, <2>3, <2>4
<1> HIDE DEF r2
<1>8. Lined(s, r2, h + 1)
  <2>1. CASE L = E
    <3>1. Behind(s, r[L]) = <<n + 1, 1>>
      BY <1>0 DEF Lined
    <3>2. h + 2 = n + 1
      BY <1>6, <2>1, <3>1
    <3>3. h + 1 = n /\ Len(r2) = 0
      BY <1>7, <2>1, <3>2
    <3> QED
      BY <1>0, <3>3 DEF Lined
  <2>2. CASE L # E
    <3>1. L - E \in 1..(L - E) /\ 1 \in 1..(L - E) /\ E + (L - E) = L /\ E \in 1..(L - 1) /\ L - E # 0
      BY <1>3, <1>5, <2>2
    <3>2. r2[1] = <<h + 2, 1>>
      BY <1>0, <1>6, <1>7, <3>1 DEF Lined
    <3>3. Behind(s, r2[L - E]) = <<n + 1, 1>>
      <4>1. r2[L - E] = r[L]
        BY <1>7, <3>1
      <4> QED
        BY <1>0, <4>1 DEF Lined
    <3>4. ASSUME NEW j \in 1..(L - E - 1) PROVE r2[j + 1] = Behind(s, r2[j])
      <4>1. j \in 1..(L - E) /\ j + 1 \in 1..(L - E) /\ E + j \in 1..(L - 1) /\ E + (j + 1) = (E + j) + 1
        BY <1>5
      <4>2. r2[j] = r[E + j] /\ r2[j + 1] = r[(E + j) + 1]
        <5>1. r2[j] = r[E + j]
          BY <1>7, <4>1
        <5>2. r2[j + 1] = r[E + (j + 1)]
          <6> DEFINE k == j + 1
          <6>1. k \in 1..(L - E)
            BY <4>1
          <6> HIDE DEF k
          <6>2. r2[k] = r[E + k]
            BY <1>7, <6>1
          <6> QED
            BY <6>2 DEF k
        <5> QED
          BY <5>1, <5>2, <4>1
      <4> QED
        BY <1>0, <4>1, <4>2 DEF Lined
    <3>5. (h + 1) + 1 = h + 2
      OBVIOUS
    <3> QED
      BY <1>0, <1>7, <3>1, <3>2, <3>3, <3>4, <3>5 DEF Lined
  <2> QED
    BY <2>1, <2>2
<1>9. Whole(s, r2)
  <2> SUFFICES ASSUME NEW j \in 1..(L - E)
               PROVE  /\ r2[j][2] <= Size(s[r2[j][1]])
                      /\ \A m \in 0..(Size(s[r2[j][1]]) - r2[j][2]) :
                           j + m <= L - E /\ r2[j + m] = <<r2[j][1], r2[j][2] + m>>
    BY <1>7 DEF Whole
  <2>1. E + j \in 1..L /\ r2[j] = r[E + j]
    BY <1>7
  <2>2. PICK b \in Bytes(s) : b = r[E + j]
    BY <1>0, <2>1, ElementOfSeq
  <2>3. b[2] \in Nat /\ Size(s[b[1]]) \in Nat
    BY <2>2, ByteFacts
  <2>4. b[2] <= Size(s[b[1]])
    BY <1>0, <2>1, <2>2 DEF Whole
  <2>5. ASSUME NEW m \in 0..(Size(s[b[1]]) - b[2])
        PROVE  j + m <= L - E /\ r2[j + m] = <<b[1], b[2] + m>>
    <3>1. (E + j) + m <= L /\ r[(E + j) + m] = <<b[1], b[2] + m>>
      BY <1>0, <2>1, <2>2 DEF Whole
    <3>2. m \in Nat
      BY <2>3
    <3>3. j + m \in 1..(L - E) /\ E + (j + m) = (E + j) + m
      BY <3>1, <3>2
    <3> QED
      BY <1>7, <3>1, <3>3
  <2> QED
    BY <2>1, <2>2, <2>4, <2>5
<1> QED
  BY <1>0, <1>2, <1>3, <1>5, <1>8, <1>9 DEF r2

(***************************************************************************)
(* The invariant, action by action                                         *)
(***************************************************************************)

(* The bytes received come first, then those on the wire.                   *)
LEMMA RestFacts ==
  ASSUME TypeOK
  PROVE  /\ sent \in Seq(Frames) /\ Len(sent) \in Nat /\ Len(handled) \in Nat
         /\ pendingData \in Seq(Bytes(sent)) /\ wire \in Seq(Bytes(sent))
         /\ Rest \in Seq(Bytes(sent)) /\ Len(Rest) \in Nat
         /\ Len(pendingData) \in Nat /\ Len(wire) \in Nat
         /\ Len(Rest) = Len(pendingData) + Len(wire)
         /\ \A j \in 1..Len(pendingData) : Rest[j] = pendingData[j]
         /\ Rest = <<>> <=> Len(Rest) = 0
<1>1. sent \in Seq(Frames) /\ pendingData \in Seq(Bytes(sent)) /\ wire \in Seq(Bytes(sent))
      /\ handled \in Seq(Types)
  BY DEF TypeOK, Bytes
<1>2. /\ Rest \in Seq(Bytes(sent)) /\ Len(Rest) = Len(pendingData) + Len(wire)
      /\ \A j \in 1..(Len(pendingData) + Len(wire)) :
           Rest[j] = IF j <= Len(pendingData) THEN pendingData[j] ELSE wire[j - Len(pendingData)]
  BY <1>1, ConcatProperties DEF Rest
<1>3. Len(pendingData) \in Nat /\ Len(wire) \in Nat /\ Len(Rest) \in Nat /\ Len(sent) \in Nat
      /\ Len(handled) \in Nat
  BY <1>1, <1>2, LenProperties
<1>4. Rest = <<>> <=> Len(Rest) = 0
  BY <1>2, EmptySeq
<1> QED
  BY <1>1, <1>2, <1>3, <1>4

(* FrameBoundary says that Rest is what is left of the frames sent when     *)
(* those handled are taken off.                                             *)
LEMMA BoundaryFacts == TypeOK => (FrameBoundary <=> Lined(sent, Rest, Len(handled)))
<1> SUFFICES ASSUME TypeOK PROVE FrameBoundary <=> Lined(sent, Rest, Len(handled))
  OBVIOUS
<1>1. Len(Rest) \in Nat /\ (Rest = <<>> <=> Len(Rest) = 0)
  BY RestFacts
<1>2. CASE Len(Rest) = 0
  BY <1>1, <1>2 DEF FrameBoundary, Rest, Lined
<1>3. CASE Len(Rest) # 0
  BY <1>1, <1>3 DEF FrameBoundary, Rest, Lined, FirstByte, Follows, Behind
<1> QED
  BY <1>2, <1>3

(* The same of the next state.                                              *)
LEMMA BoundaryNext ==
  TypeOK' => (FrameBoundary' <=> Lined(sent', Rest', Len(handled')))
<1>1. (TypeOK => (FrameBoundary <=> Lined(sent, Rest, Len(handled))))'
  BY BoundaryFacts, PTL
<1>2. Lined(sent, Rest, Len(handled))' <=> Lined(sent', Rest', Len(handled'))
  BY DEF Lined, Behind
<1> QED
  BY <1>1, <1>2

LEMMA InitIInv == Init => IInv
<1> SUFFICES ASSUME Init PROVE IInv
  OBVIOUS
<1>0. <<>> \in Seq(Frames) /\ <<>> \in Seq(Types) /\ <<>> \in Seq({"DATA", "PONG"})
      /\ Len(<<>>) = 0 /\ <<>> \in Seq((1..Len(sent)) \X (Nat \ {0}))
  BY EmptySeq
<1>1. TypeOK
  BY <1>0, MaxFramesAssumption DEF Init, TypeOK
<1>2. Len(pendingData) = 0 /\ Len(wire) = 0 /\ Len(handled) = 0 /\ Len(sent) = 0
  BY <1>0 DEF Init
<1>3. Len(Rest) = 0
  BY <1>1, <1>2, RestFacts
<1>4. FrameBoundary
  BY <1>1, <1>2, <1>3, BoundaryFacts DEF Lined
<1> QED
  BY <1>1, <1>2, <1>3, <1>4 DEF IInv, Whole, InOrder

LEMMA sendIInv ==
  ASSUME IInv, NEW f \in Frames, send(f)
  PROVE  IInv'
<1> USE DEF IInv
<1> DEFINE ser == serialize(Len(sent) + 1, f)
<1>1. /\ Len(sent) < MaxFrames /\ sent' = Append(sent, f) /\ wire' = wire \o ser
      /\ UNCHANGED <<pendingData, pc, handled, replies>>
  BY DEF send
<1>2. /\ sent' \in Seq(Frames) /\ Len(sent') = Len(sent) + 1
      /\ \A i \in 1..Len(sent) : sent'[i] = sent[i]
      /\ Bytes(sent) \subseteq Bytes(sent')
      /\ ser \in Seq(Bytes(sent'))
  BY <1>1, RestFacts, BehindStream
<1> HIDE DEF ser
<1>3. pendingData \in Seq(Bytes(sent')) /\ wire \in Seq(Bytes(sent'))
  BY <1>2, RestFacts, SeqMonotonic
<1>4. wire' \in Seq(Bytes(sent'))
  BY <1>1, <1>2, <1>3, ConcatProperties
<1>5. TypeOK'
  <2>1. Len(sent) + 1 <= MaxFrames
    BY <1>1, RestFacts, MaxFramesAssumption
  <2>2. handled' \in Seq(Types) /\ replies' \in Seq({"DATA", "PONG"})
        /\ pc' \in {"posted", "parsing"}
    BY <1>1 DEF TypeOK
  <2> QED
    BY <1>1, <1>2, <1>3, <1>4, <2>1, <2>2 DEF TypeOK, Bytes
<1>6. Rest' = Rest \o ser
  <2>1. Rest' = pendingData \o (wire \o ser)
    BY <1>1 DEF Rest
  <2>2. (pendingData \o wire) \o ser = pendingData \o (wire \o ser)
    BY <1>2, <1>3, ConcatAssociative
  <2> QED
    BY <2>1, <2>2 DEF Rest
<1>7. Lined(sent', Rest', Len(handled)) /\ Whole(sent', Rest')
  <2>1. Lined(sent, Rest, Len(handled)) /\ Whole(sent, Rest)
    BY BoundaryFacts
  <2> QED
    BY <1>1, <1>6, <2>1, RestFacts, FrameAdded DEF ser
<1>8. FrameBoundary'
  BY <1>1, <1>5, <1>7, BoundaryNext
<1>9. InOrder'
  BY <1>1, <1>2, RestFacts DEF InOrder
<1> QED
  BY <1>5, <1>7, <1>8, <1>9 DEF Whole

LEMMA receiveIInv ==
  ASSUME IInv, NEW n \in 1..BufferSize, receive(n)
  PROVE  IInv'
<1> USE DEF IInv
<1> DEFINE front == SubSeq(wire, 1, n)
           back == SubSeq(wire, n + 1, Len(wire))
           B == Bytes(sent)
<1>1. /\ n <= Len(wire) /\ pendingData' = pendingData \o front /\ wire' = back
      /\ pc' = "parsing" /\ UNCHANGED <<sent, handled, replies>>
  BY DEF receive, Appended
<1>2. n \in Nat /\ n >= 1 /\ n + 1 \in Int /\ Len(wire) \in Int /\ 1 \in Int /\ n \in Int
  BY SizesAssumption, RestFacts
<1>3. wire \in Seq(B) /\ pendingData \in Seq(B) /\ \A i \in 1..Len(wire) : wire[i] \in B
  BY RestFacts, ElementOfSeq
<1> HIDE DEF B
<1>4. front \in Seq(B) /\ back \in Seq(B)
  <2>1. \A i \in 1..n : wire[i] \in B
    BY <1>1, <1>2, <1>3
  <2>2. \A i \in (n + 1)..Len(wire) : wire[i] \in B
    BY <1>2, <1>3
  <2> QED
    BY <1>2, <2>1, <2>2, SubSeqProperties
<1>5. front \o back = wire
  <2>1. /\ 1 \in 1..(Len(wire) + 1) /\ n \in (1 - 1)..Len(wire) /\ Len(wire) \in n..Len(wire)
    BY <1>1, <1>2
  <2>2. front \o back = SubSeq(wire, 1, Len(wire))
    BY <1>3, <2>1, ConcatAdjacentSubSeq
  <2> QED
    BY <1>3, <2>2, SubSeqFull
<1> HIDE DEF front, back
<1>6. Rest' = Rest
  <2>1. Rest' = (pendingData \o front) \o back
    BY <1>1 DEF Rest
  <2>2. (pendingData \o front) \o back = pendingData \o (front \o back)
    BY <1>3, <1>4, ConcatAssociative
  <2> QED
    BY <1>5, <2>1, <2>2 DEF Rest
<1>7. TypeOK'
  <2>1. pendingData' \in Seq(B) /\ wire' \in Seq(B)
    BY <1>1, <1>3, <1>4, ConcatProperties
  <2> QED
    BY <1>1, <2>1 DEF TypeOK, B, Bytes
<1>8. FrameBoundary'
  BY <1>1, <1>6, <1>7, BoundaryFacts, BoundaryNext
<1> QED
  BY <1>1, <1>6, <1>7, <1>8 DEF InOrder, Whole

(* What the server takes off the front of pendingData is the frame after    *)
(* the last one it handled, whole.                                          *)
LEMMA NextFrame ==
  ASSUME IInv, HasMessage
  PROVE  /\ Len(handled) + 1 \in 1..Len(sent)
         /\ header = sent[Len(handled) + 1] /\ header \in Frames
         /\ totalSize = Size(header) /\ totalSize \in Nat
         /\ totalSize <= Len(pendingData)
<1> USE DEF IInv
<1>1. Lined(sent, Rest, Len(handled)) /\ Len(pendingData) >= 1 /\ Len(Rest) # 0
  BY BoundaryFacts, RestFacts, SizesAssumption DEF HasMessage
<1>2. Rest[1] = <<Len(handled) + 1, 1>> /\ Rest[1] = pendingData[1]
  BY <1>1, RestFacts DEF Lined
<1>3. header = sent[Len(handled) + 1]
  BY <1>2 DEF header
<1>4. Len(handled) + 1 \in 1..Len(sent) /\ sent[Len(handled) + 1] \in Frames
  BY <1>1, RestFacts, FrameTaken
<1>5. totalSize = Size(header) /\ totalSize \in Nat
  BY <1>3, <1>4, FrameFacts DEF totalSize, Size
<1> QED
  BY <1>3, <1>4, <1>5 DEF HasMessage

(* deserialize takes a frame for what it is.                                *)
LEMMA DeserializeFacts ==
  ASSUME NEW f \in Frames
  PROVE  /\ deserialize(f) = Meaning(f) /\ deserialize(f) \in Types
         /\ process_message(deserialize(f)) \in Seq({"DATA", "PONG"})
<1>1. deserialize(f) = Meaning(f) /\ deserialize(f) \in Types
  BY FrameFacts DEF deserialize, Meaning, Types
<1>2. <<>> \in Seq({"DATA", "PONG"}) /\ <<"DATA">> \in Seq({"DATA", "PONG"})
      /\ <<"PONG">> \in Seq({"DATA", "PONG"})
  OBVIOUS
<1> QED
  BY <1>1, <1>2 DEF process_message

LEMMA handle_messageIInv ==
  ASSUME IInv, handle_message
  PROVE  IInv'
<1> USE DEF IInv
<1>0. PICK h \in Nat, E \in Nat : h = Len(handled) /\ E = totalSize
  BY NextFrame, RestFacts DEF handle_message
<1>1. /\ h + 1 \in 1..Len(sent) /\ header = sent[h + 1] /\ header \in Frames
      /\ E = Size(sent[h + 1]) /\ E <= Len(pendingData)
  BY <1>0, NextFrame DEF handle_message
<1>2. /\ handled' = Append(handled, deserialize(header))
      /\ replies' = replies \o process_message(deserialize(header))
      /\ pendingData' = SubSeq(pendingData, E + 1, Len(pendingData))
      /\ pc' = "parsing" /\ UNCHANGED <<sent, wire>>
  BY <1>0 DEF handle_message, Erased, AfterMessage
<1>3. /\ handled' \in Seq(Types) /\ Len(handled') = h + 1
      /\ \A i \in 1..h : handled'[i] = handled[i]
      /\ handled'[h + 1] = Meaning(sent[h + 1])
  BY <1>0, <1>1, <1>2, DeserializeFacts, AppendProperties DEF TypeOK
<1>4. replies' \in Seq({"DATA", "PONG"})
  BY <1>1, <1>2, DeserializeFacts, ConcatProperties DEF TypeOK
<1> DEFINE B == Bytes(sent)
           R2 == SubSeq(Rest, E + 1, Len(Rest))
<1>5. /\ pendingData \in Seq(B) /\ wire \in Seq(B) /\ Rest \in Seq(B)
      /\ Len(pendingData) \in Nat /\ Len(wire) \in Nat /\ Len(Rest) = Len(pendingData) + Len(wire)
  BY RestFacts
<1> HIDE DEF B
<1>6. pendingData' \in Seq(B)
  <2>1. \A i \in (E + 1)..Len(pendingData) : i \in 1..Len(pendingData)
    OBVIOUS
  <2>2. \A i \in (E + 1)..Len(pendingData) : pendingData[i] \in B
    BY <1>5, <2>1, ElementOfSeq
  <2>3. E + 1 \in Int /\ Len(pendingData) \in Int
    BY <1>5
  <2> QED
    BY <1>2, <2>2, <2>3, SubSeqProperties
<1>7. TypeOK'
  BY <1>2, <1>3, <1>4, <1>5, <1>6 DEF TypeOK, B, Bytes
<1>8. Rest' = R2
  <2>1. Rest' = SubSeq(pendingData, E + 1, Len(pendingData)) \o wire
    BY <1>2 DEF Rest
  <2> QED
    BY <1>1, <1>5, <2>1, SubSeqConcat DEF Rest
<1>9. Lined(sent, R2, h + 1) /\ Whole(sent, R2)
  <2>1. Lined(sent, Rest, h) /\ Len(Rest) # 0
    BY <1>0, <1>1, <1>5, FrameFacts, BoundaryFacts
  <2> QED
    BY <1>1, <1>5, <2>1, RestFacts, FrameTaken DEF B
<1>10. FrameBoundary'
  BY <1>2, <1>3, <1>7, <1>8, <1>9, BoundaryNext
<1>11. InOrder'
  BY <1>0, <1>1, <1>2, <1>3, RestFacts DEF InOrder
<1> QED
  BY <1>2, <1>7, <1>8, <1>9, <1>10, <1>11 DEF Whole

LEMMA StepIInv == IInv /\ [Next]_vars => IInv'
<1> SUFFICES ASSUME IInv, [Next]_vars PROVE IInv'
  OBVIOUS
<1>1. ASSUME NEW f \in Frames, send(f) PROVE IInv'
  BY <1>1, sendIInv
<1>2. ASSUME NEW n \in 1..BufferSize, receive(n) PROVE IInv'
  BY <1>2, receiveIInv
<1>3. CASE handle_message
  BY <1>3, handle_messageIInv
<1>4. ASSUME UNCHANGED <<sent, wire, pendingData, handled, replies>>, pc' \in {"posted", "parsing"}
      PROVE  IInv'
  <2>1. Rest' = Rest
    BY <1>4 DEF Rest
  <2>2. TypeOK'
    BY <1>4 DEF IInv, TypeOK
  <2>3. FrameBoundary'
    BY <1>4, <2>1, <2>2, BoundaryFacts, BoundaryNext DEF IInv
  <2> QED
    BY <1>4, <2>1, <2>2, <2>3 DEF IInv, InOrder, Whole
<1>5. CASE post_recv
  BY <1>4, <1>5 DEF post_recv
<1>6. CASE UNCHANGED vars
  BY <1>4, <1>6 DEF vars, IInv, TypeOK
<1> QED
  BY <1>1, <1>2, <1>3, <1>5, <1>6 DEF Next, server, Idle

(* Every state of the connection satisfies the invariant.                   *)
THEOREM Invariance == Safety => []IInv
BY InitIInv, StepIInv, PTL DEF Safety

(***************************************************************************)
(* What the invariant says                                                 *)
(***************************************************************************)

(* Every variable of the connection keeps its type.                         *)
THEOREM TypeCorrect == Safety => []TypeOK
<1>1. IInv => TypeOK
  BY DEF IInv
<1> QED
  BY <1>1, Invariance, PTL

(* However the stream is cut into chunks, pendingData starts where a frame   *)
(* starts: no byte is lost, repeated or moved.                              *)
THEOREM NoByteLost == Safety => []FrameBoundary
<1>1. IInv => FrameBoundary
  BY DEF IInv
<1> QED
  BY <1>1, Invariance, PTL

(* The server handles the messages sent, each once, in the order they were   *)
(* sent, each for what it is.                                               *)
THEOREM MessagesInOrder == Safety => []InOrder
<1>1. IInv => InOrder
  BY DEF IInv
<1> QED
  BY <1>1, Invariance, PTL

(***************************************************************************)
(* The message channel                                                     *)
(***************************************************************************)

(* Handling a message is receiving the next one; sending is sending; what   *)
(* happens to chunks is invisible.                                          *)
LEMMA StepRefines == IInv /\ [Next]_vars => [MC!Next]_MC!vars
<1> SUFFICES ASSUME IInv, [Next]_vars PROVE [MC!Next]_MC!vars
  OBVIOUS
<1>1. ASSUME NEW f \in Frames, send(f) PROVE MC!Next
  <2>1. MC!Send(f)
    BY <1>1 DEF send, MC!Send
  <2> QED
    BY <2>1 DEF MC!Next
<1>2. CASE handle_message
  <2>1. /\ Len(handled) + 1 \in 1..Len(sent) /\ header = sent[Len(handled) + 1]
        /\ header \in Frames
    BY <1>2, NextFrame DEF handle_message
  <2>2. Len(handled) < Len(sent)
    BY <2>1, RestFacts DEF IInv
  <2>3. /\ handled' = Append(handled, Meaning(sent[Len(handled) + 1]))
        /\ replies' = replies \o Answers(Meaning(sent[Len(handled) + 1]))
        /\ sent' = sent
    <3>1. deserialize(header) = Meaning(header)
      BY <2>1, DeserializeFacts
    <3>2. process_message(Meaning(header)) = Answers(Meaning(header))
      BY DEF process_message, Answers
    <3> QED
      BY <1>2, <2>1, <3>1, <3>2 DEF handle_message
  <2>4. MC!Receive
    BY <2>2, <2>3 DEF MC!Receive
  <2> QED
    BY <2>4 DEF MC!Next
<1>3. ASSUME UNCHANGED <<sent, handled, replies>> PROVE UNCHANGED MC!vars
  BY <1>3 DEF MC!vars
<1>4. ASSUME NEW n \in 1..BufferSize, receive(n) PROVE UNCHANGED MC!vars
  BY <1>3, <1>4 DEF receive
<1>5. CASE post_recv
  BY <1>3, <1>5 DEF post_recv
<1>6. CASE UNCHANGED vars
  BY <1>3, <1>6 DEF vars
<1> QED
  BY <1>1, <1>2, <1>4, <1>5, <1>6 DEF Next, server, Idle

(* Every behaviour of the connection is a behaviour of MessageChannel (its  *)
(* safety part: that a message sent is received in the end is left to TLC). *)
THEOREM Refinement == Safety => MC!Safety
<1>1. Init => MC!Init
  BY DEF Init, MC!Init
<1> QED
  BY <1>1, StepRefines, Invariance, PTL DEF Safety, MC!Safety
=============================================================================
