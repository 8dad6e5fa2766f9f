------------------------- MODULE ProtocolSessionProofs -------------------------
(***************************************************************************)
(* Proofs about ProtocolSession, for every size of messages and buffers,    *)
(* and all periods with Period + MaxDelay < Timeout.                       *)
(***************************************************************************)
EXTENDS ProtocolSession, FiniteSetTheorems, SequenceTheorems, TLAPS

(* While nothing is on the wire, the next heartbeat leaves before the server *)
(* has waited for Period; what is on the wire, or the client's end, came     *)
(* before it had.                                                           *)
Prompt ==
  server = "open" =>
    /\ client # "out"
    /\ Here /\ wire = <<>> => quiet + beat <= Period
    /\ client # "vanished" /\ Coming => quiet <= Period + age

IInv == TypeOK /\ Prompt /\ KeptAlive

(***************************************************************************)
(* The stream                                                              *)
(***************************************************************************)

LEMMA IntervalFacts ==
  ASSUME NEW n \in Nat
  PROVE  IsFiniteSet(1..n) /\ Cardinality(1..n) = n
<1>1. 1 \in Int /\ n \in Int
  OBVIOUS
<1> QED
  BY <1>1, FS_Interval

LEMMA StreamFacts ==
  ASSUME IsStream(wire), NEW i \in 1..Len(wire)
  PROVE  /\ wire[i] \in Packets /\ wire[i].left \in Nat \ {0} /\ wire[i].len \in Nat
         /\ Len(wire) \in Nat /\ i \in Nat
<1>1. wire[i] \in Packets /\ Len(wire) \in Nat
  BY ElementOfSeq, LenProperties DEF IsStream
<1>2. wire[i].left \in 1..(HeaderSize + wire[i].len)
  BY DEF IsStream
<1>3. wire[i].len \in Nat
  <2>1. \A p \in Packets : p.len \in Lengths \cup {0}
    BY DEF Packets
  <2>2. Lengths \cup {0} \subseteq Nat
    BY SizesAssumption
  <2> QED
    BY <1>1, <2>1, <2>2
<1>4. PICK h \in Nat, l \in Nat : h = HeaderSize /\ l = wire[i].len
  BY <1>3, SizesAssumption
<1>5. \A x \in 1..(h + l) : x \in Nat \ {0}
  OBVIOUS
<1>6. wire[i].left \in Nat \ {0}
  BY <1>2, <1>4, <1>5
<1> QED
  BY <1>1, <1>3, <1>6

(* UpTo counts the bytes of one message after the other.                    *)
LEMMA BytesFinite ==
  ASSUME IsStream(wire), NEW i \in 0..Len(wire)
  PROVE  IsFiniteSet(Bytes(i)) /\ UpTo(i) \in Nat
<1> DEFINE f == [j \in 1..i |-> {j} \X (1..wire[j].left)]
           S == {{j} \X (1..wire[j].left) : j \in 1..i}
<1>0. i \in Nat /\ \A j \in 1..i : j \in 1..Len(wire)
  BY LenProperties DEF IsStream
<1>1. IsFiniteSet(1..i)
  BY <1>0, IntervalFacts
<1>2. f \in Surjection(1..i, S)
  BY DEF Surjection
<1>3. IsFiniteSet(S)
  BY <1>1, <1>2, FS_Surjection
<1>4. ASSUME NEW T \in S PROVE IsFiniteSet(T)
  <2>1. PICK j \in 1..i : T = {j} \X (1..wire[j].left)
    OBVIOUS
  <2>2. PICK l \in Nat : l = wire[j].left
    BY <1>0, StreamFacts
  <2>3. IsFiniteSet({j}) /\ IsFiniteSet(1..l)
    BY <2>2, IntervalFacts, FS_Singleton
  <2> QED
    BY <2>1, <2>2, <2>3, FS_Product
<1> HIDE DEF S
<1>5. IsFiniteSet(UNION S)
  BY <1>3, <1>4, FS_UNION
<1>6. IsFiniteSet(Bytes(i))
  BY <1>5 DEF Bytes, S
<1> QED
  BY <1>6, FS_CardinalityType DEF UpTo

LEMMA UpToFacts ==
  ASSUME IsStream(wire)
  PROVE  /\ UpTo(0) = 0
         /\ \A i \in 0..Len(wire) : UpTo(i) \in Nat
         /\ \A i, j \in 0..Len(wire) : j <= i => UpTo(j) <= UpTo(i)
         /\ \A i \in 0..(Len(wire) - 1) : UpTo(i + 1) = UpTo(i) + wire[i + 1].left
<1>0. Len(wire) \in Nat
  BY LenProperties DEF IsStream
<1>1. UpTo(0) = 0
  BY FS_EmptySet DEF UpTo, Bytes
<1>2. \A i \in 0..Len(wire) : IsFiniteSet(Bytes(i)) /\ UpTo(i) \in Nat
  BY BytesFinite
<1>3. ASSUME NEW i \in 0..Len(wire), NEW j \in 0..Len(wire), j <= i
      PROVE  UpTo(j) <= UpTo(i)
  <2>1. 1..j \subseteq 1..i
    BY <1>0, <1>3
  <2>2. Bytes(j) \in SUBSET Bytes(i)
    BY <2>1 DEF Bytes
  <2> QED
    BY <1>2, <2>2, FS_Subset DEF UpTo
<1>4. ASSUME NEW i \in 0..(Len(wire) - 1)
      PROVE  UpTo(i + 1) = UpTo(i) + wire[i + 1].left
  <2> DEFINE last == {i + 1} \X (1..wire[i + 1].left)
  <2>0. i \in Nat /\ i \in 0..Len(wire) /\ i + 1 \in 1..Len(wire) /\ i + 1 \in 0..Len(wire)
    BY <1>0
  <2>1. PICK l \in Nat : l = wire[i + 1].left
    BY <2>0, StreamFacts
  <2>2. IsFiniteSet(last) /\ Cardinality(last) = l
    <3>1. IsFiniteSet({i + 1}) /\ Cardinality({i + 1}) = 1
      BY FS_Singleton
    <3>2. IsFiniteSet(1..l) /\ Cardinality(1..l) = l
      BY IntervalFacts
    <3>3. IsFiniteSet({i + 1} \X (1..l)) /\ Cardinality({i + 1} \X (1..l)) = 1 * l
      BY <3>1, <3>2, FS_Product
    <3> QED
      BY <2>1, <3>3
  <2>3. 1..(i + 1) = (1..i) \cup {i + 1}
    BY <2>0
  <2>4. Bytes(i + 1) = Bytes(i) \cup last
    BY <2>3 DEF Bytes
  <2>5. Bytes(i) \cap last = {}
    <3>1. \A b \in Bytes(i) : b[1] \in 1..i
      BY DEF Bytes
    <3>2. \A b \in last : b[1] = i + 1
      OBVIOUS
    <3>3. i + 1 \notin 1..i
      BY <2>0
    <3> HIDE DEF last
    <3> QED
      BY <3>1, <3>2, <3>3
  <2>6. Cardinality(Bytes(i) \cup last)
          = Cardinality(Bytes(i)) + Cardinality(last) - Cardinality(Bytes(i) \cap last)
    BY <1>2, <2>0, <2>2, FS_Union
  <2>7. Cardinality({}) = 0
    BY FS_EmptySet
  <2> HIDE DEF last
  <2>8. UpTo(i) \in Nat /\ UpTo(i) = Cardinality(Bytes(i)) /\ UpTo(i + 1) = Cardinality(Bytes(i + 1))
    BY <1>2, <2>0 DEF UpTo
  <2>9. UpTo(i + 1) = UpTo(i) + l - 0
    BY <2>2, <2>4, <2>5, <2>6, <2>7, <2>8
  <2> QED
    BY <2>1, <2>8, <2>9
<1> QED
  BY <1>1, <1>2, <1>3, <1>4

(* The messages recv has taken wholly are the first ones.                   *)
LEMMA TakenFirst ==
  ASSUME IsStream(wire), NEW n \in Nat,
         NEW k, k = Cardinality({i \in 1..Len(wire) : UpTo(i) <= n})
  PROVE  /\ k \in Nat /\ k <= Len(wire)
         /\ {i \in 1..Len(wire) : UpTo(i) <= n} = 1..k
<1> DEFINE K == {i \in 1..Len(wire) : UpTo(i) <= n}
<1>0. Len(wire) \in Nat
  BY LenProperties DEF IsStream
<1>1. IsFiniteSet(1..Len(wire)) /\ Cardinality(1..Len(wire)) = Len(wire)
  BY <1>0, IntervalFacts
<1>2. K \in SUBSET (1..Len(wire))
  OBVIOUS
<1>3. ASSUME NEW i \in K PROVE 1..i \in SUBSET K
  <2> SUFFICES ASSUME NEW j \in 1..i PROVE j \in K
    OBVIOUS
  <2>1. /\ i \in 0..Len(wire) /\ j \in 0..Len(wire) /\ j \in 1..Len(wire) /\ j <= i
        /\ UpTo(i) <= n
    BY <1>0
  <2>2. UpTo(j) <= UpTo(i) /\ UpTo(j) \in Nat /\ UpTo(i) \in Nat
    BY <2>1, UpToFacts
  <2>3. UpTo(j) <= n
    BY <2>1, <2>2
  <2> QED
    BY <2>1, <2>3
<1>4. \A i \in K : i \in Nat
  BY <1>0
<1>5. k = Cardinality(K)
  OBVIOUS
<1> HIDE DEF K
<1>6. IsFiniteSet(K) /\ k \in Nat /\ k <= Len(wire)
  <2>1. IsFiniteSet(K) /\ Cardinality(K) <= Cardinality(1..Len(wire))
    BY <1>1, <1>2, FS_Subset
  <2>2. Cardinality(K) \in Nat
    BY <2>1, FS_CardinalityType
  <2> QED
    BY <1>1, <1>5, <2>1, <2>2
<1>7. ASSUME NEW i \in K PROVE i \in 1..k
  <2>1. Cardinality(1..i) <= Cardinality(K)
    BY <1>3, <1>6, FS_Subset
  <2>2. i \in Nat /\ Cardinality(1..i) = i
    BY <1>4, IntervalFacts
  <2>3. i \in 1..Len(wire)
    BY <1>2
  <2> QED
    BY <1>0, <1>5, <1>6, <2>1, <2>2, <2>3
<1>8. IsFiniteSet(1..k) /\ Cardinality(1..k) = k
  BY <1>6, IntervalFacts
<1>9. K \in SUBSET (1..k)
  BY <1>7
<1>10. K = 1..k
  BY <1>5, <1>8, <1>9, FS_Subset
<1> QED
  BY <1>6, <1>10 DEF K

(* What recv leaves of a stream is a stream: it cuts one message, and leaves *)
(* a byte of that at least.                                                 *)
LEMMA RestIsStream ==
  ASSUME IsStream(wire), NEW n \in Nat
  PROVE  IsStream(Rest(n))
<1> DEFINE K == {i \in 1..Len(wire) : UpTo(i) <= n}
<1>0. wire \in Seq(Packets) /\ Len(wire) \in Nat
  BY LenProperties DEF IsStream
<1>1. PICK k : k = Cardinality(K)
  OBVIOUS
<1>2. k \in Nat /\ k <= Len(wire) /\ K = 1..k
  BY <1>1, TakenFirst
<1>3. CASE k = Len(wire)
  <2>1. Rest(n) = <<>>
    BY <1>1, <1>3 DEF Rest
  <2> QED
    BY <2>1, EmptySeq DEF IsStream
<1>4. CASE k # Len(wire)
  <2>1. k + 1 \in 1..Len(wire) /\ k \in 0..(Len(wire) - 1) /\ k + 1 \notin K
    BY <1>0, <1>2, <1>4
  <2>2. UpTo(k + 1) = UpTo(k) + wire[k + 1].left /\ UpTo(k) \in Nat /\ UpTo(k + 1) \in Nat
    BY <1>0, <2>1, UpToFacts
  <2>3. UpTo(k + 1) > n
    BY <2>1, <2>2
  <2>4. UpTo(k) <= n
    <3>1. CASE k = 0
      BY <3>1, UpToFacts
    <3>2. CASE k # 0
      <4>1. k \in K
        BY <1>2, <3>2
      <4> QED
        BY <4>1
    <3> QED
      BY <3>1, <3>2
  <2>5. PICK m : m = wire[k + 1]
    OBVIOUS
  <2>6. m \in Packets /\ m.left \in Nat /\ m.len \in Nat /\ m.left \in 1..(HeaderSize + m.len)
    BY <2>1, <2>5, StreamFacts DEF IsStream
  <2>7. PICK v : v = UpTo(k + 1) - n
    OBVIOUS
  <2>8. v \in Nat /\ v \in 1..(HeaderSize + m.len)
    BY <2>2, <2>3, <2>4, <2>5, <2>6, <2>7, SizesAssumption
  <2>9. PICK c : c = [m EXCEPT !.left = v]
    OBVIOUS
  <2>10. c \in Packets /\ c.left = v /\ c.len = m.len
    BY <2>6, <2>8, <2>9 DEF Packets
  <2> HIDE DEF K
  <2>11. PICK s : s = SubSeq(wire, k + 1, Len(wire))
    OBVIOUS
  <2>12. /\ s \in Seq(Packets) /\ Len(s) = Len(wire) - k
         /\ \A i \in 1..(Len(wire) - k) : s[i] = wire[k + i]
    <3>1. PICK a \in Int, b \in Int : a = k + 1 /\ b = Len(wire)
      BY <1>0, <1>2
    <3>2. \A i \in a..b : wire[i] \in Packets
      BY <1>0, <1>2, <3>1, ElementOfSeq
    <3>3. s = SubSeq(wire, a, b)
      BY <2>11, <3>1
    <3>4. /\ s \in Seq(Packets) /\ Len(s) = (IF a <= b THEN b - a + 1 ELSE 0)
          /\ \A i \in 1..(b - a + 1) : s[i] = wire[a + i - 1]
      BY <3>2, <3>3, SubSeqProperties
    <3>5. a <= b /\ b - a + 1 = Len(wire) - k
      BY <1>0, <1>2, <2>1, <3>1
    <3>6. \A i \in 1..(Len(wire) - k) : a + i - 1 = k + i
      BY <1>0, <1>2, <3>1
    <3> QED
      BY <3>4, <3>5, <3>6
  <2>13. 1 \in 1..Len(s) /\ s[1] = m
    BY <1>0, <1>2, <2>1, <2>5, <2>12
  <2>14. Rest(n) = [s EXCEPT ![1] = c]
    <3>1. Rest(n) = [s EXCEPT ![1].left = v]
      BY <1>1, <1>4, <2>7, <2>11 DEF Rest, K
    <3>2. [s EXCEPT ![1].left = v] = [s EXCEPT ![1] = [s[1] EXCEPT !.left = v]]
      OBVIOUS
    <3> QED
      BY <2>9, <2>13, <3>1, <3>2
  <2>15. PICK t : t = [s EXCEPT ![1] = c]
    OBVIOUS
  <2>16. t \in Seq(Packets) /\ Len(t) = Len(s)
         /\ \A i \in 1..Len(s) : t[i] = IF i = 1 THEN c ELSE s[i]
    BY <2>10, <2>12, <2>13, <2>15, ExceptSeq
  <2>17. \A i \in 1..Len(t) : /\ t[i].left \in 1..(HeaderSize + t[i].len)
                              /\ i > 1 => Whole(t[i])
    <3> SUFFICES ASSUME NEW i \in 1..Len(t)
                 PROVE  t[i].left \in 1..(HeaderSize + t[i].len) /\ (i > 1 => Whole(t[i]))
      OBVIOUS
    <3>1. CASE i = 1
      BY <2>8, <2>10, <2>16, <3>1
    <3>2. CASE i # 1
      <4>1. /\ i \in 1..(Len(wire) - k) /\ k + i \in 1..Len(wire) /\ k + i > 1 /\ i \in 1..Len(s)
        BY <1>0, <1>2, <2>12, <2>16, <3>2
      <4>2. t[i] = wire[k + i]
        BY <2>12, <2>16, <3>2, <4>1
      <4> QED
        BY <4>1, <4>2 DEF IsStream
    <3> QED
      BY <3>1, <3>2
  <2> QED
    BY <2>14, <2>15, <2>16, <2>17 DEF IsStream
<1> QED
  BY <1>3, <1>4

(* A message that is sent is on the wire, if the server will receive it.    *)
LEMMA PutProperties ==
  ASSUME TypeOK, NEW type \in {"DATA", "PING"}, NEW len \in Lengths \cup {0},
         Put(serialize(type, len))
  PROVE  /\ IsStream(wire')
         /\ age' \in 0..MaxDelay
         /\ server = "open" => wire' # <<>>
         /\ wire = <<>> => age' = 0
         /\ wire # <<>> => age' = age
<1>1. PICK m : m = serialize(type, len)
  OBVIOUS
<1>2. len \in Nat /\ HeaderSize \in Nat \ {0}
  BY SizesAssumption
<1>3. /\ m \in Packets /\ Whole(m) /\ m.left \in 1..(HeaderSize + m.len)
  BY <1>1, <1>2 DEF serialize, Packets, Whole
<1>4. wire \in Seq(Packets) /\ Len(wire) \in Nat
  BY LenProperties DEF TypeOK, IsStream
<1>5. PICK t : t = Append(wire, m)
  OBVIOUS
<1>6. /\ t \in Seq(Packets) /\ t # <<>> /\ Len(t) = Len(wire) + 1
      /\ \A i \in 1..Len(wire) : t[i] = wire[i]
      /\ t[Len(wire) + 1] = m
  BY <1>3, <1>4, <1>5, AppendProperties
<1>7. IsStream(t)
  <2> SUFFICES ASSUME NEW i \in 1..Len(t)
               PROVE  t[i].left \in 1..(HeaderSize + t[i].len) /\ (i > 1 => Whole(t[i]))
    BY <1>6 DEF IsStream
  <2>1. CASE i \in 1..Len(wire)
    BY <1>6, <2>1 DEF TypeOK, IsStream
  <2>2. CASE i = Len(wire) + 1
    BY <1>3, <1>6, <2>2
  <2> QED
    BY <1>4, <1>6, <2>1, <2>2
<1> QED
  BY <1>1, <1>5, <1>6, <1>7, TimesAssumption DEF Put, TypeOK

(***************************************************************************)
(* The invariant                                                           *)
(***************************************************************************)

LEMMA InitIInv == Init => IInv
<1> SUFFICES ASSUME Init PROVE IInv
  OBVIOUS
<1>1. IsStream(<<>>)
  BY EmptySeq DEF IsStream
<1>2. TypeOK
  BY <1>1, SizesAssumption, TimesAssumption DEF Init, TypeOK
<1> QED
  BY <1>2 DEF Init, IInv, Prompt, KeptAlive

(* An answer has some number of bytes, whatever the bytes received say.      *)
LEMMA AnswerIsCounted ==
  ASSUME IsStream(wire), wire # <<>>, NEW n \in Nat, NEW m \in deserialize(n)
  PROVE  Answer(m) \in Nat
<1>1. CASE m = Invalid
  BY <1>1, SizesAssumption DEF Answer
<1>2. CASE m # Invalid
  <2>1. CASE m \in [type : Types, len : 0..(n - HeaderSize)]
    BY <1>2, <2>1, SizesAssumption DEF Answer
  <2>2. CASE m = [type |-> Head(wire).type, len |-> Head(wire).len]
    <3>1. 1 \in 1..Len(wire) /\ Head(wire) = wire[1]
      BY EmptySeq, LenProperties DEF IsStream
    <3>2. Head(wire).len \in Nat
      BY <3>1, StreamFacts
    <3> QED
      BY <1>2, <2>2, <3>2 DEF Answer
  <2> QED
    BY <1>2, <2>1, <2>2 DEF deserialize, Said
<1> QED
  BY <1>1, <1>2

LEMMA StepIInv == IInv /\ [Next]_vars => IInv'
<1> SUFFICES ASSUME IInv, [Next]_vars PROVE IInv'
  OBVIOUS
<1> USE DEF IInv, KeptAlive, Ended
<1>0. /\ beat \in 0..Period /\ age \in 0..MaxDelay /\ quiet \in 0..Timeout
      /\ sent \in 0..MaxMessages /\ replies \in 0..MaxUnread /\ IsStream(wire)
      /\ Period \in Nat \ {0} /\ Timeout \in Nat /\ MaxDelay \in Nat /\ Period + MaxDelay < Timeout
      /\ MaxMessages \in Nat /\ MaxUnread \in Nat /\ Buffer \in Nat
  BY TimesAssumption, SizesAssumption DEF TypeOK
<1>1. CASE connect
  <2>1. /\ server = "listening" /\ client' = "prompt" /\ beat' = 0 /\ quiet' = 0
        /\ server' \in {"open", "closed"}
        /\ UNCHANGED <<sent, wire, replies, process, age, lost>>
    BY <1>1 DEF connect, accept
  <2>2. TypeOK'
    BY <1>0, <2>1 DEF TypeOK
  <2>3. Prompt'
    BY <1>0, <2>1 DEF Prompt, Here
  <2> QED
    BY <2>1, <2>2, <2>3
<1>2. CASE \E len \in Lengths : submit(len)
  <2>1. PICK len \in Lengths : submit(len)
    BY <1>2
  <2>2. /\ client = "prompt" /\ sent < MaxMessages /\ Put(serialize("DATA", len))
        /\ client' = "waiting" /\ sent' = sent + 1 /\ lost' \in {"empty", "no"}
        /\ UNCHANGED <<replies, server, process, beat, quiet>>
    BY <2>1 DEF submit
  <2>3. /\ IsStream(wire') /\ age' \in 0..MaxDelay
        /\ server = "open" => wire' # <<>>
        /\ wire = <<>> => age' = 0
        /\ wire # <<>> => age' = age
    BY <2>2, PutProperties
  <2>4. TypeOK'
    BY <1>0, <2>2, <2>3 DEF TypeOK
  <2>5. Prompt'
    <3>1. ASSUME server = "open" PROVE quiet <= Period + age'
      <4>1. CASE wire = <<>>
        BY <1>0, <2>2, <2>3, <3>1, <4>1 DEF Prompt, Here
      <4>2. CASE wire # <<>>
        BY <1>0, <2>2, <2>3, <3>1, <4>2 DEF Prompt, Here, Coming
      <4> QED
        BY <4>1, <4>2
    <3> QED
      BY <2>2, <2>3, <3>1 DEF Prompt, Here
  <2> QED
    BY <2>2, <2>4, <2>5
<1>3. CASE exit \/ client_recv_ends
  <2>1. /\ Here /\ client' = "gone"
        /\ wire' = <<>> \/ wire' = wire
        /\ age' = IF wire = <<>> THEN 0 ELSE age
        /\ UNCHANGED <<sent, replies, server, process, beat, quiet, lost>>
    BY <1>3 DEF exit, client_recv_ends, Close, Here
  <2>2. server # "timed_out"
    BY <2>1 DEF Here
  <2>3. TypeOK'
    <3>1. IsStream(<<>>)
      BY EmptySeq DEF IsStream
    <3> QED
      BY <1>0, <2>1, <3>1 DEF TypeOK
  <2>4. Prompt'
    <3>1. ASSUME server = "open" PROVE quiet <= Period + age'
      <4>1. CASE wire = <<>>
        BY <1>0, <2>1, <3>1, <4>1 DEF Prompt
      <4>2. CASE wire # <<>>
        BY <1>0, <2>1, <3>1, <4>2 DEF Prompt, Here, Coming
      <4> QED
        BY <4>1, <4>2
    <3> QED
      BY <2>1, <3>1 DEF Prompt, Here
  <2> QED
    BY <2>1, <2>2, <2>3, <2>4
<1>4. CASE client_recv
  <2>1. PICK n \in Read : replies' = replies - n
    BY <1>4 DEF client_recv
  <2>2. /\ client = "waiting" /\ client' = "prompt"
        /\ UNCHANGED <<sent, wire, server, process, beat, age, quiet, lost>>
    BY <1>4 DEF client_recv
  <2>3. replies' \in 0..MaxUnread
    BY <1>0, <2>1 DEF Read, Smaller
  <2> QED
    BY <1>0, <2>2, <2>3 DEF TypeOK, Prompt, Here, Coming
<1>5. CASE send_heartbeat
  <2>1. /\ Here /\ Put(serialize("PING", 0)) /\ beat' = Period
        /\ UNCHANGED <<client, sent, replies, server, process, quiet, lost>>
    BY <1>5 DEF send_heartbeat, NextBeat
  <2>2. /\ IsStream(wire') /\ age' \in 0..MaxDelay
        /\ server = "open" => wire' # <<>>
        /\ wire = <<>> => age' = 0
        /\ wire # <<>> => age' = age
    BY <2>1, PutProperties
  <2>3. TypeOK'
    BY <1>0, <2>1, <2>2 DEF TypeOK
  <2>4. Prompt'
    <3>1. ASSUME server = "open" PROVE quiet <= Period + age'
      <4>1. CASE wire = <<>>
        BY <1>0, <2>1, <2>2, <3>1, <4>1 DEF Prompt, Here
      <4>2. CASE wire # <<>>
        BY <1>0, <2>1, <2>2, <3>1, <4>2 DEF Prompt, Here, Coming
      <4> QED
        BY <4>1, <4>2
    <3> QED
      BY <2>1, <2>2, <3>1 DEF Prompt, Here
  <2> QED
    BY <2>1, <2>3, <2>4
<1>6. CASE vanish
  BY <1>6 DEF vanish, Here, TypeOK, Prompt
<1>7. CASE Receive
  <2>1. ASSUME NEW n \in 1..Buffer, handle_client(n)
        PROVE  IInv'
    <3>1. PICK m \in deserialize(n) :
            /\ replies' = Smaller(replies + Answer(m), MaxUnread)
            /\ server' \in {"open", "closed"}
      BY <2>1 DEF handle_client
    <3>2. /\ server = "open" /\ wire # <<>> /\ quiet' = 0 /\ lost' \in {"merged", lost}
          /\ wire' = Rest(n) /\ age' = (IF wire' = <<>> THEN 0 ELSE age)
          /\ UNCHANGED <<client, sent, process, beat>>
      BY <2>1 DEF handle_client
    <3>3. n \in Nat
      BY <1>0
    <3>4. IsStream(Rest(n))
      BY <1>0, <3>3, RestIsStream
    <3>5. replies' \in 0..MaxUnread
      <4>1. PICK a \in Nat : a = Answer(m)
        BY <1>0, <3>2, <3>3, AnswerIsCounted
      <4> QED
        BY <1>0, <3>1, <4>1 DEF Smaller
    <3>6. TypeOK'
      BY <1>0, <3>1, <3>2, <3>4, <3>5 DEF TypeOK
    <3>7. Prompt'
      BY <1>0, <3>1, <3>2, <3>6 DEF Prompt, Here, TypeOK
    <3> QED
      BY <3>1, <3>6, <3>7
  <2>2. CASE recv_ends
    <3>1. /\ server = "open" /\ wire = <<>>
          /\ server' = "closed" \/ (quiet = Timeout /\ server' = "timed_out")
          /\ UNCHANGED <<client, sent, wire, replies, process, beat, age, quiet, lost>>
      BY <2>2 DEF recv_ends
    <3>2. ASSUME server' = "timed_out" PROVE client = "vanished"
      <4>1. quiet = Timeout
        BY <3>1, <3>2
      <4>2. client \in {"out", "prompt", "waiting", "gone", "vanished"}
        BY DEF TypeOK
      <4> QED
        BY <1>0, <3>1, <4>1, <4>2 DEF Prompt, Here, Coming
    <3>3. TypeOK'
      BY <3>1 DEF TypeOK
    <3> QED
      BY <3>1, <3>2, <3>3 DEF Prompt
  <2> QED
    BY <1>7, <2>1, <2>2 DEF Receive
<1>8. CASE stop_server \/ signal_handler \/ UNCHANGED vars
  <2>1. UNCHANGED <<client, sent, wire, replies, server, beat, age, quiet, lost>>
    BY <1>8 DEF stop_server, signal_handler, vars
  <2>2. process' \in {"running", "stopping", "exited"}
    BY <1>8 DEF stop_server, signal_handler, vars, TypeOK
  <2>3. TypeOK'
    BY <2>1, <2>2 DEF TypeOK
  <2> QED
    BY <2>1, <2>3 DEF Prompt, Here, Coming
<1>9. CASE Tick
  <2>1. /\ UNCHANGED <<client, sent, wire, replies, server, process, lost>>
        /\ Here => beat > 0
        /\ Coming => age < MaxDelay
        /\ server = "open" => quiet < Timeout
        /\ beat' = IF Here THEN beat - 1 ELSE beat
        /\ age' = IF Coming THEN age + 1 ELSE 0
        /\ quiet' = IF server = "open" THEN quiet + 1 ELSE quiet
    BY <1>9 DEF Tick
  <2>2. TypeOK'
    <3>1. beat' \in 0..Period /\ age' \in 0..MaxDelay /\ quiet' \in 0..Timeout
      BY <1>0, <2>1
    <3> QED
      BY <2>1, <3>1 DEF TypeOK
  <2>3. Prompt'
    BY <1>0, <2>1 DEF Prompt, Here, Coming
  <2> QED
    BY <2>1, <2>2, <2>3
<1> QED
  BY <1>1, <1>2, <1>3, <1>4, <1>5, <1>6, <1>7, <1>8, <1>9 DEF Next

THEOREM Invariance == Spec => []IInv
BY InitIInv, StepIInv, PTL DEF Spec

(* The variables keep their types: of the messages under way recv cuts only  *)
(* the first, and leaves a byte of it; no timer passes its deadline.        *)
THEOREM TypeCorrect == Spec => []TypeOK
<1>1. IInv => TypeOK
  BY DEF IInv
<1> QED
  BY <1>1, Invariance, PTL

(* The server's receive timeout ends only the session of a host that is      *)
(* lost (handle_client's SO_RCVTIMEO against send_heartbeat), whatever the   *)
(* periods, the messages and the cuts of the stream are.                    *)
THEOREM HeartbeatsKeepAlive == Spec => []KeptAlive
<1>1. IInv => KeptAlive
  BY DEF IInv
<1> QED
  BY <1>1, Invariance, PTL
=============================================================================
