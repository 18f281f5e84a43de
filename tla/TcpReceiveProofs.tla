-------------------------- MODULE TcpReceiveProofs --------------------------
(***************************************************************************)
(* Proofs about TcpReceive, for any number of bytes, any packet size and   *)
(* any capacity of the ring that holds two packets: as long as the reads   *)
(* do not collide, no byte is lost, doubled or overtaken, each line is     *)
(* read whole, and the pause never sticks.                                 *)
(*                                                                         *)
(* The argument: one token goes round.  It is the outstanding read, the    *)
(* completed one, the service thread that handles it, or the pause, which  *)
(* the message thread ends; it is lost only when the connection is.        *)
(***************************************************************************)
EXTENDS TcpReceive, SequenceTheorems, WellFoundedInduction, TLAPS

Pc == [main : {"flag", "room", "done"},
       message : {"idle", "flag", "room", "size", "scan", "close", "read", "resolve"},
       service : {"idle", "call", "test"}]

\* One token: a read, a result, the service thread at work, or the pause.
Token == /\ reads + Len(done) <= 1
         /\ reads + Len(done) = 1 => ~paused /\ At("service", "idle")
         /\ ec => ~At("service", "idle") /\ ~paused
         /\ At("service", "idle") /\ reads + Len(done) = 0 /\ ~paused => broken \/ ~open
         /\ ec \/ (done # << >> /\ Head(done) = 0) => broken \/ ~open

\* The message of an AsyncConnect comes first, and the ring has no room before it.
Setup == /\ At("message", "flag") \/ At("message", "room") =>
              /\ At("main", "done") /\ room = 0
              /\ \A i \in 1 .. Len(box) : box[i] # "connect"
         /\ \A i \in 1 .. Len(box) : box[i] = "connect" => i = 1 /\ At("main", "done") /\ room = 0

\* There is room for a packet unless the reading pauses.
RoomOK == /\ usebuf => plain = 0
          /\ ~usebuf => ring = << >>
          /\ room = Cap /\ ~paused => ~Full(ring)
          /\ paused => usebuf /\ room = Cap /\ Full(ring)

\* The bytes of a completed read are in bufrcv_, and those of no other.
DoneOK == done # << >> => Head(done) <= Len(buf) /\ (Head(done) # 0 => plain = 0)

\* While the reading pauses the message thread will look at the ring.
Watched == paused /\ open =>
             \/ At("service", "call")
             \/ \E p \in {"size", "close", "resolve", "read"} : At("message", p)
             \/ At("message", "scan") /\ n >= Pack
             \/ \E i \in 1 .. Len(box) : box[i] = "receive"

\* What Lookup has seen is still there when Read comes for it.
ScanOK == At("message", "scan") => IF mode THEN usebuf /\ n + 1 <= Len(ring)
                                   ELSE n >= 0 => ~usebuf /\ n + 1 = plain

FirstLine(s, m) == /\ pos < m /\ stream[s[pos + 1]]
                   /\ \A i \in 1 .. pos : ~ stream[s[i]]

ReadOK == At("message", "read") => IF usebuf THEN FirstLine(ring, Len(ring))
                                   ELSE FirstLine(buf, plain)

Flow == got \o ring \o SubSeq(buf, 1, plain) \o Pending = [i \in 1 .. taken |-> i]

LineRead == At("message", "resolve") =>
              /\ Len(got) > pos /\ stream[got[Len(got)]]
              /\ \A i \in Len(got) - pos .. Len(got) - 1 : ~ stream[got[i]]

CalmInv == Token /\ Setup /\ RoomOK /\ DoneOK /\ Watched /\ ScanOK /\ ReadOK /\ Flow /\ LineRead

RcvInv == TypeOK /\ (calm => CalmInv)

-----------------------------------------------------------------------------
\* A thread goes to its next step.
LEMMA GoService ==
  ASSUME NEW p \in {"idle", "call", "test"}, pc \in Pc, Goto("service", p)
  PROVE  /\ pc' \in Pc /\ pc'["service"] = p
         /\ pc'["main"] = pc["main"] /\ pc'["message"] = pc["message"]
BY DEF Pc, Goto

LEMMA GoMessage ==
  ASSUME NEW p \in {"idle", "flag", "room", "size", "scan", "close", "read", "resolve"},
         pc \in Pc, Goto("message", p)
  PROVE  /\ pc' \in Pc /\ pc'["message"] = p
         /\ pc'["main"] = pc["main"] /\ pc'["service"] = pc["service"]
BY DEF Pc, Goto

LEMMA GoMain ==
  ASSUME NEW p \in {"room", "done"}, pc \in Pc, Goto("main", p)
  PROVE  /\ pc' \in Pc /\ pc'["main"] = p
         /\ pc'["service"] = pc["service"] /\ pc'["message"] = pc["message"]
BY DEF Pc, Goto

-----------------------------------------------------------------------------
\* The sequences of bytes.
Bytes == Seq(Nat)

LEMMA Prefix ==
  ASSUME NEW s \in Bytes, NEW k \in Nat, k <= Len(s)
  PROVE  /\ SubSeq(s, 1, k) \in Bytes /\ Len(SubSeq(s, 1, k)) = k
         /\ \A i \in 1 .. k : SubSeq(s, 1, k)[i] = s[i]
BY DEF Bytes

LEMMA Rest ==
  ASSUME NEW s \in Bytes, NEW k \in Nat, k <= Len(s)
  PROVE  /\ SubSeq(s, k + 1, Len(s)) \in Bytes /\ Len(SubSeq(s, k + 1, Len(s))) = Len(s) - k
         /\ SubSeq(s, 1, k) \o SubSeq(s, k + 1, Len(s)) = s
<1>1. /\ SubSeq(s, k + 1, Len(s)) \in Bytes /\ Len(SubSeq(s, k + 1, Len(s))) = Len(s) - k
      /\ \A i \in 1 .. Len(s) - k : SubSeq(s, k + 1, Len(s))[i] = s[i + k]
  BY DEF Bytes
<1>2. /\ SubSeq(s, 1, k) \in Bytes /\ Len(SubSeq(s, 1, k)) = k
      /\ \A i \in 1 .. k : SubSeq(s, 1, k)[i] = s[i]
  BY Prefix
<1>3. PICK a \in Bytes, b \in Bytes : a = SubSeq(s, 1, k) /\ b = SubSeq(s, k + 1, Len(s))
  BY <1>1, <1>2
<1>4. /\ a \o b \in Bytes /\ Len(a \o b) = Len(s)
      /\ \A i \in 1 .. Len(s) : (a \o b)[i] = s[i]
  <2>1. /\ Len(a) = k /\ Len(b) = Len(s) - k
        /\ \A i \in 1 .. k : a[i] = s[i]
        /\ \A i \in 1 .. Len(s) - k : b[i] = s[i + k]
    BY <1>1, <1>2, <1>3, Zenon
  <2>2. /\ a \o b \in Bytes /\ Len(a \o b) = Len(a) + Len(b)
        /\ \A i \in 1 .. Len(a) + Len(b) : (a \o b)[i] = IF i <= Len(a) THEN a[i] ELSE b[i - Len(a)]
    BY DEF Bytes
  <2>3. Len(s) \in Nat /\ \A i \in 1 .. Len(s) : i > k => i - k \in 1 .. Len(s) - k /\ i - k + k = i
    BY DEF Bytes
  <2>4. \A i \in 1 .. Len(s) : i > k => b[i - k] = s[i]
    BY <2>1, <2>3
  <2> QED
    BY <2>1, <2>2, <2>3, <2>4
<1>5. a \o b = s
  BY <1>4, SeqEqual DEF Bytes
<1> QED
  BY <1>1, <1>3, <1>5

LEMMA Assoc ==
  ASSUME NEW s \in Bytes, NEW t \in Bytes, NEW u \in Bytes
  PROVE  (s \o t) \o u = s \o (t \o u)
<1>1. s \in Seq(Nat) /\ t \in Seq(Nat) /\ u \in Seq(Nat)
  BY DEF Bytes
<1>2. s \o (t \o u) = (s \o t) \o u
  BY <1>1, ConcatAssociative
<1> QED
  BY <1>2

LEMMA Joins ==
  ASSUME NEW s \in Bytes, NEW t \in Bytes
  PROVE  /\ s \o t \in Bytes /\ Len(s \o t) = Len(s) + Len(t)
         /\ s \o << >> = s /\ << >> \o s = s /\ << >> \in Bytes
<1>1. s \o t \in Bytes /\ Len(s \o t) = Len(s) + Len(t)
  BY ConcatProperties DEF Bytes
<1>2. s \o << >> = s /\ << >> \o s = s /\ << >> \in Bytes
  BY ConcatEmptySeq DEF Bytes
<1> QED
  BY <1>1, <1>2

\* The first m bytes of the stream.
Upto(m) == [i \in 1 .. m |-> i]

LEMMA UptoMore ==
  ASSUME NEW m \in Nat, NEW k \in Nat, NEW x \in Bytes, Len(x) = k,
         \A i \in 1 .. k : x[i] = m + i
  PROVE  Upto(m) \o x = Upto(m + k)
<1>1. Upto(m) \in Bytes /\ Len(Upto(m)) = m /\ Upto(m + k) \in Bytes /\ Len(Upto(m + k)) = m + k
  BY DEF Upto, Bytes
<1>2. PICK a \in Bytes : a = Upto(m) /\ Len(a) = m
  BY <1>1
<1>3. /\ a \o x \in Bytes /\ Len(a \o x) = m + k
      /\ \A i \in 1 .. m + k : (a \o x)[i] = IF i <= m THEN a[i] ELSE x[i - m]
  <2>1. /\ a \o x \in Bytes /\ Len(a \o x) = Len(a) + Len(x)
        /\ \A i \in 1 .. Len(a) + Len(x) : (a \o x)[i] = IF i <= Len(a) THEN a[i] ELSE x[i - Len(a)]
    BY ConcatProperties DEF Bytes
  <2> QED
    BY <1>2, <2>1
<1>4. \A i \in 1 .. m : a[i] = i
  BY <1>2 DEF Upto
<1>5. \A i \in 1 .. m + k : i > m => i - m \in 1 .. k /\ m + (i - m) = i
  OBVIOUS
<1>6. \A i \in 1 .. m + k : (a \o x)[i] = i
  BY <1>3, <1>4, <1>5
<1>7. a \o x = Upto(m + k)
  BY <1>1, <1>3, <1>6, SeqEqual DEF Upto, Bytes
<1> QED
  BY <1>2, <1>7

-----------------------------------------------------------------------------
\* Fewer bytes of a sequence, and more, keep its type.
LEMMA PartTyped ==
  ASSUME NEW S, NEW s \in Seq(S), NEW k \in Nat, k <= Len(s)
  PROVE  /\ SubSeq(s, 1, k) \in Seq(S) /\ SubSeq(s, k + 1, Len(s)) \in Seq(S)
         /\ Len(SubSeq(s, 1, k)) = k /\ Len(SubSeq(s, k + 1, Len(s))) = Len(s) - k
<1>1. Len(s) \in Nat /\ \A i \in 1 .. Len(s) : s[i] \in S
  OBVIOUS
<1>2. SubSeq(s, 1, k) \in Seq(S) /\ Len(SubSeq(s, 1, k)) = k
  BY <1>1
<1>3. SubSeq(s, k + 1, Len(s)) \in Seq(S) /\ Len(SubSeq(s, k + 1, Len(s))) = Len(s) - k
  BY <1>1
<1> QED
  BY <1>2, <1>3

\* A ring that drops its oldest bytes for new ones.
LEMMA LastTyped ==
  ASSUME NEW S, NEW s \in Seq(S), NEW k \in Nat
  PROVE  /\ Last(s, k) \in Seq(S) /\ Len(Last(s, k)) <= k
         /\ Len(s) <= k => Last(s, k) = s
<1>1. Len(s) \in Nat
  OBVIOUS
<1>2. CASE Len(s) > k
  <2>1. Len(s) - k \in Nat /\ Len(s) - k <= Len(s) /\ Len(s) - (Len(s) - k) = k
    BY <1>1, <1>2
  <2>2. PICK d \in Nat : d = Len(s) - k
    BY <2>1
  <2>3. SubSeq(s, d + 1, Len(s)) \in Seq(S) /\ Len(SubSeq(s, d + 1, Len(s))) = k
    BY <2>1, <2>2, PartTyped
  <2> QED
    BY <1>2, <2>2, <2>3, <1>1 DEF Last
<1>3. CASE ~ Len(s) > k
  BY <1>1, <1>3 DEF Last
<1> QED
  BY <1>2, <1>3

\* A set of natural numbers has a least element.
LEMMA LeastOf ==
  ASSUME NEW S \in SUBSET Nat, S # {}
  PROVE  \E p \in S : \A q \in S : p <= q
<1>1. PICK p \in S : \A q \in S : ~ (<<q, p>> \in OpToRel(<, Nat))
  BY WFMin, NatLessThanWellFounded
<1>2. \A q \in S : ~ (q < p)
  BY <1>1 DEF OpToRel
<1> QED
  BY <1>2

\* The type invariant in four parts, and the steps that leave a part alone.
BytesT == /\ stream \in [1 .. NumBytes -> BOOLEAN] /\ taken \in 0 .. NumBytes
          /\ buf \in Seq(1 .. taken) /\ Len(buf) <= Pack /\ plain \in 0 .. Len(buf)
          /\ room \in {0, Cap} /\ ring \in Seq(1 .. taken) /\ Len(ring) <= room
          /\ got \in Seq(1 .. taken)

QueueT == /\ reads \in Nat /\ done \in Seq(0 .. Pack)
          /\ box \in Seq({"connect", "receive", "close"}) /\ Len(box) <= BoxSize

StateT == /\ usebuf \in BOOLEAN /\ paused \in BOOLEAN /\ ec \in BOOLEAN /\ mode \in BOOLEAN
          /\ n \in -1 .. Cap /\ pos \in 0 .. Cap /\ pc \in Pc

FlagT == open \in BOOLEAN /\ broken \in BOOLEAN /\ noticed \in BOOLEAN /\ calm \in BOOLEAN

LEMMA Parts == /\ TypeOK <=> BytesT /\ QueueT /\ StateT /\ FlagT
               /\ TypeOK' <=> BytesT' /\ QueueT' /\ StateT' /\ FlagT'
<1>1. TypeOK <=> BytesT /\ QueueT /\ StateT /\ FlagT
  BY DEF TypeOK, BytesT, QueueT, StateT, FlagT, Pc
<1>2. TypeOK' <=> BytesT' /\ QueueT' /\ StateT' /\ FlagT'
  BY DEF TypeOK, BytesT, QueueT, StateT, FlagT, Pc
<1> QED
  BY <1>1, <1>2

\* The numbers of bytes and of places.
LEMMA Sizes ==
  ASSUME BytesT
  PROVE  /\ Len(ring) \in Nat /\ Len(ring) <= room /\ Len(buf) \in Nat /\ plain \in Nat /\ plain <= Len(buf)
         /\ Len(got) \in Nat /\ ring \in Bytes /\ buf \in Bytes /\ got \in Bytes /\ taken \in Nat
         /\ Pack \in Nat /\ Pack # 0 /\ Cap \in Nat /\ 2 * Pack <= Cap /\ room \in {0, Cap} /\ room \in Nat
<1>1. Seq(1 .. taken) \subseteq Bytes /\ taken \in Nat
  <2>1. 1 .. taken \subseteq Nat
    BY BytesAssumption DEF BytesT
  <2> QED
    BY <2>1, BytesAssumption, SeqMonotonic DEF BytesT, Bytes
<1>2. buf \in Bytes /\ ring \in Bytes /\ got \in Bytes
  BY <1>1 DEF BytesT
<1>3. Len(buf) \in Nat /\ Len(ring) \in Nat /\ Len(got) \in Nat
  BY <1>2 DEF Bytes
<1>4. /\ Pack \in Nat /\ Cap \in Nat /\ room \in Nat /\ Pack # 0 /\ 2 * Pack <= Cap /\ room \in {0, Cap}
  BY SizeAssumption DEF BytesT
<1>5. plain \in Nat /\ plain <= Len(buf) /\ Len(ring) <= room
  BY <1>3 DEF BytesT
<1> QED
  BY <1>1, <1>2, <1>3, <1>4, <1>5

LEMMA BytesStay ==
  ASSUME BytesT, UNCHANGED <<stream, taken, buf, plain, room, ring, got>>
  PROVE  BytesT'
BY DEF BytesT

LEMMA QueueStay ==
  ASSUME QueueT, UNCHANGED <<reads, done, box>>
  PROVE  QueueT'
BY DEF QueueT

LEMMA StateStay ==
  ASSUME StateT, UNCHANGED <<usebuf, paused, ec, mode, n, pos>>, pc' \in Pc
  PROVE  StateT'
BY DEF StateT

LEMMA FlagStay ==
  ASSUME FlagT, open' \in {open, FALSE}, broken' \in {broken, TRUE},
         noticed' \in BOOLEAN, calm' \in BOOLEAN
  PROVE  FlagT'
BY DEF FlagT

\* Every step from a calm state keeps the types.
LEMMA TypeKeeps ==
  ASSUME RcvInv, calm, Next
  PROVE  TypeOK'
<1>1. TypeOK /\ BytesT /\ QueueT /\ StateT /\ FlagT /\ DoneOK
  BY Parts DEF RcvInv, CalmInv
<1>2. CASE Break \/ Abort
  <2>1. /\ UNCHANGED <<stream, taken, buf, client, pc, ec, box, lookup, got, open, noticed, calm>>
        /\ broken' \in {broken, TRUE}
    BY <1>2 DEF Break, Abort
  <2>2. reads' \in Nat /\ done' \in {done, Append(done, 0)}
    <3>1. reads \in Nat
      BY <1>1 DEF QueueT
    <3>2. CASE Break
      BY <3>1, <3>2 DEF Break
    <3>3. CASE Abort
      BY <3>1, <3>3 DEF Abort
    <3> QED
      BY <1>2, <3>2, <3>3
  <2>3. QueueT'
    <3>1. Append(done, 0) \in Seq(0 .. Pack)
      BY <1>1, AppendProperties, SizeAssumption DEF QueueT
    <3>2. done' \in Seq(0 .. Pack) /\ box' = box
      BY <1>1, <2>1, <2>2, <3>1 DEF QueueT
    <3> QED
      BY <1>1, <2>2, <3>2 DEF QueueT
  <2>4. BytesT'
    BY <1>1, <2>1, BytesStay DEF client
  <2>5. StateT' /\ FlagT'
    BY <1>1, <2>1, StateStay, FlagStay DEF client, lookup, StateT, FlagT
  <2> QED
    BY <2>3, <2>4, <2>5, Parts
<1>3. CASE Complete
  <2>1. PICK k \in 1 .. Pack :
          /\ taken + k <= NumBytes /\ buf' = Overwrite(k)
          /\ done' = Append(done, k) /\ taken' = taken + k /\ reads' = reads - 1 /\ reads > 0
    BY <1>3 DEF Complete
  <2>2. /\ UNCHANGED <<stream, broken, client, pc, ec, box, lookup, got, open, noticed>>
        /\ calm' = (calm /\ plain = 0)
    BY <1>3 DEF Complete
  <2>3. taken' \in 0 .. NumBytes /\ k \in Nat /\ 1 .. taken \subseteq 1 .. taken' /\ taken \in Nat
    <3>1. taken \in Nat
      BY <1>1, Sizes
    <3> QED
      BY <2>1, <3>1, BytesAssumption, SizeAssumption
  <2>4. /\ buf' \in Seq(1 .. taken') /\ Len(buf') <= Pack /\ Len(buf) <= Len(buf')
    <3>1. /\ \A i \in 1 .. k : taken + i \in 1 .. taken'
          /\ \A i \in 1 .. Len(buf) : buf[i] \in 1 .. taken'
      <4>1. \A i \in 1 .. k : taken + i \in 1 .. taken'
        BY <2>1, <2>3
      <4>2. \A i \in 1 .. Len(buf) : buf[i] \in 1 .. taken
        BY <1>1 DEF BytesT
      <4> QED
        BY <4>1, <4>2, <2>3
    <3>2. PICK m \in Nat : m = IF k > Len(buf) THEN k ELSE Len(buf)
      <4>1. Len(buf) \in Nat
        BY <1>1, Sizes
      <4> QED
        BY <2>3, <4>1
    <3>3. /\ m <= Pack /\ Len(buf) <= m
          /\ \A i \in 1 .. m : ~ i <= k => i \in 1 .. Len(buf)
      <4>1. Len(buf) \in Nat /\ Len(buf) <= Pack /\ Pack \in Nat
        BY <1>1, Sizes DEF BytesT
      <4> QED
        BY <2>3, <3>2, <4>1
    <3>4. buf' = [i \in 1 .. m |-> IF i <= k THEN taken + i ELSE buf[i]]
      BY <2>1, <3>2 DEF Overwrite
    <3>5. \A i \in 1 .. m : (IF i <= k THEN taken + i ELSE buf[i]) \in 1 .. taken'
      <4> TAKE i \in 1 .. m
      <4>1. CASE i <= k
        BY <4>1, <3>1, <2>3
      <4>2. CASE ~ i <= k
        BY <4>2, <3>1, <3>3
      <4> QED
        BY <4>1, <4>2
    <3>6. buf' \in Seq(1 .. taken') /\ Len(buf') = m
      BY <3>4, <3>5
    <3> QED
      BY <3>3, <3>6
  <2>5. QueueT'
    <3>1. Append(done, k) \in Seq(0 .. Pack)
      <4>1. k \in 0 .. Pack
        BY <2>3
      <4> QED
        BY <1>1, <4>1, AppendProperties DEF QueueT
    <3>2. reads' \in Nat
      BY <1>1, <2>1 DEF QueueT
    <3> QED
      BY <1>1, <2>1, <2>2, <3>1, <3>2 DEF QueueT
  <2>6. BytesT'
    <3>1. ring \in Seq(1 .. taken') /\ got \in Seq(1 .. taken')
      BY <1>1, <2>3, SeqMonotonic DEF BytesT
    <3>2. plain \in 0 .. Len(buf')
      <4>1. Len(buf') \in Nat /\ Len(buf) \in Nat /\ plain \in Nat /\ plain <= Len(buf)
        BY <1>1, <2>4, Sizes
      <4> QED
        BY <2>4, <4>1
    <3>3. UNCHANGED <<stream, plain, room, ring, got>>
      BY <2>2 DEF client
    <3> QED
      BY <1>1, <2>3, <2>4, <3>1, <3>2, <3>3 DEF BytesT
  <2>7. StateT' /\ FlagT'
    BY <1>1, <2>2, StateStay, FlagStay DEF client, lookup, StateT, FlagT
  <2> QED
    BY <2>5, <2>6, <2>7, Parts
<1>4. CASE Handle
  <2>1. /\ Head(done) \in 0 .. Pack /\ Tail(done) \in Seq(0 .. Pack)
        /\ Head(done) \in Nat /\ Head(done) <= Len(buf)
    <3>1. done # << >> /\ Head(done) <= Len(buf)
      BY <1>1, <1>4 DEF Handle, DoneOK
    <3> QED
      BY <1>1, <3>1, HeadTailProperties, SizeAssumption DEF QueueT
  <2>2. /\ done' = Tail(done) /\ ec' = (Head(done) = 0) /\ Goto("service", "call")
        /\ UNCHANGED <<stream, taken, reads, buf, broken, usebuf, room, box, lookup, got,
                       open, noticed>>
    BY <1>4 DEF Handle
  <2>3. /\ ring' \in {ring, Last(ring \o SubSeq(buf, 1, Head(done)), room)}
        /\ paused' \in {paused, Full(ring')} /\ plain' \in {plain, Head(done)}
        /\ calm' \in {calm, calm /\ (usebuf => room > 0)}
    BY <1>4 DEF Handle
  <2>4. ring' \in Seq(1 .. taken) /\ Len(ring') <= room
    <3>1. SubSeq(buf, 1, Head(done)) \in Seq(1 .. taken)
      BY <1>1, <2>1, PartTyped DEF BytesT
    <3>2. ring \o SubSeq(buf, 1, Head(done)) \in Seq(1 .. taken)
      BY <1>1, <3>1, ConcatProperties DEF BytesT
    <3>3. room \in Nat
      BY <1>1, Sizes
    <3>4. /\ Last(ring \o SubSeq(buf, 1, Head(done)), room) \in Seq(1 .. taken)
          /\ Len(Last(ring \o SubSeq(buf, 1, Head(done)), room)) <= room
      BY <3>2, <3>3, LastTyped
    <3>5. CASE ring' = ring
      BY <1>1, <3>5 DEF BytesT
    <3>6. CASE ring' = Last(ring \o SubSeq(buf, 1, Head(done)), room)
      BY <3>4, <3>6
    <3> QED
      BY <2>3, <3>5, <3>6
  <2>5. plain' \in 0 .. Len(buf)
    BY <1>1, <2>1, <2>3 DEF BytesT
  <2>6. BytesT'
    BY <1>1, <2>2, <2>4, <2>5 DEF BytesT
  <2>7. QueueT'
    BY <1>1, <2>1, <2>2 DEF QueueT
  <2>8. StateT'
    <3>1. pc' \in Pc
      BY <1>1, <2>2, GoService DEF StateT
    <3>2. ec' \in BOOLEAN
      BY <2>2
    <3>3. Full(ring') \in BOOLEAN
      BY DEF Full
    <3>4. paused \in BOOLEAN
      BY <1>1 DEF StateT
    <3>5. paused' \in BOOLEAN
      BY <2>3, <3>3, <3>4, Zenon
    <3> QED
      BY <1>1, <2>2, <3>1, <3>2, <3>5 DEF StateT, lookup
  <2>9. FlagT'
    BY <1>1, <2>2, <2>3, FlagStay DEF FlagT
  <2> QED
    BY <2>6, <2>7, <2>8, <2>9, Parts
<1>5. CASE Call
  <2>1. UNCHANGED <<net, client, ec, lookup, got, open, noticed, calm>> /\ Goto("service", "test")
    BY <1>5 DEF Call
  <2>2. /\ box' \in Seq({"connect", "receive", "close"}) /\ Len(box') <= BoxSize
    <3>1. PICK e \in {"receive", "close"} : box' = Append(box, e)
      BY <1>5 DEF Call
    <3>2. Append(box, e) \in Seq({"connect", "receive", "close"}) /\ Len(Append(box, e)) = Len(box) + 1
      BY <1>1, AppendProperties DEF QueueT
    <3>3. Len(box) + 1 <= BoxSize
      BY <1>1, <1>5, SizeAssumption DEF Call, QueueT
    <3> QED
      BY <3>1, <3>2, <3>3
  <2>3. QueueT'
    BY <1>1, <2>1, <2>2 DEF QueueT, net
  <2>4. BytesT'
    BY <1>1, <2>1, BytesStay DEF net, client
  <2>5. pc' \in Pc
    BY <1>1, <2>1, GoService DEF StateT
  <2>6. StateT' /\ FlagT'
    BY <1>1, <2>1, <2>5, StateStay, FlagStay DEF net, client, lookup, FlagT
  <2> QED
    BY <2>3, <2>4, <2>6, Parts
<1>6. CASE Again
  <2>1. /\ UNCHANGED <<stream, taken, buf, done, broken, client, box, lookup, got, open, noticed, calm>>
        /\ Goto("service", "idle") /\ ec' = FALSE
    BY <1>6 DEF Again
  <2>2. QueueT'
    <3>1. reads' \in {reads, reads + 1}
      BY <1>6 DEF Again, StartRead
    <3> QED
      BY <1>1, <2>1, <3>1 DEF QueueT
  <2>3. BytesT'
    BY <1>1, <2>1, BytesStay DEF client
  <2>4. pc' \in Pc
    BY <1>1, <2>1, GoService DEF StateT
  <2>5. StateT' /\ FlagT'
    BY <1>1, <2>1, <2>4, FlagStay DEF StateT, FlagT, client, lookup
  <2> QED
    BY <2>2, <2>3, <2>5, Parts
<1>7. ASSUME NEW t \in {"main", "message"}, UseFlag(t) \/ UseRoom(t)
      PROVE  TypeOK'
  <2>1. UNCHANGED <<net, plain, ring, paused, ec, box, lookup, got, open, noticed>>
    BY <1>7 DEF UseFlag, UseRoom
  <2>2. pc' \in Pc
    BY <1>1, <1>7, GoMain, GoMessage DEF UseFlag, UseRoom, StateT
  <2>3. room' \in {0, Cap} /\ room <= room'
    <3>1. room \in Nat /\ room <= Cap /\ Cap \in Nat /\ room \in {0, Cap}
      BY <1>1, SizeAssumption DEF BytesT
    <3>2. room' \in {room, Cap}
      BY <1>7 DEF UseFlag, UseRoom
    <3> QED
      BY <3>1, <3>2
  <2>4. usebuf' \in BOOLEAN /\ calm' \in BOOLEAN
    BY <1>1, <1>7 DEF UseFlag, UseRoom, StateT, FlagT
  <2>5. Len(ring) <= room'
    <3>1. Len(ring) \in Nat /\ Len(ring) <= room /\ room \in Nat /\ Cap \in Nat
      BY <1>1, Sizes
    <3> QED
      BY <2>3, <3>1
  <2>6. BytesT'
    BY <1>1, <2>1, <2>3, <2>5 DEF BytesT, net
  <2>7. QueueT'
    BY <1>1, <2>1, QueueStay DEF net
  <2>8. StateT' /\ FlagT'
    BY <1>1, <2>1, <2>2, <2>4, FlagStay DEF StateT, FlagT, net, lookup
  <2> QED
    BY <2>6, <2>7, <2>8, Parts
<1>8. CASE Take
  <2>1. /\ Head(box) \in {"connect", "receive", "close"} /\ Tail(box) \in Seq({"connect", "receive", "close"})
        /\ Len(Tail(box)) = Len(box) - 1 /\ Len(box) \in Nat
    BY <1>1, <1>8, HeadTailProperties DEF QueueT, Take
  <2>2. /\ UNCHANGED <<net, client, ec, lookup, got, open, calm>>
        /\ box' = Tail(box) /\ noticed' = (noticed \/ Head(box) = "close")
        /\ Goto("message", CASE Head(box) = "connect" -> "flag"
                             [] Head(box) = "receive" -> "size"
                             [] Head(box) = "close" -> "idle")
    BY <1>8 DEF Take
  <2>3. PICK p \in {"flag", "size", "idle"} : Goto("message", p)
    BY <2>1, <2>2
  <2>4. QueueT'
    <3>1. Len(Tail(box)) <= BoxSize
      BY <1>1, <2>1, SizeAssumption DEF QueueT
    <3> QED
      BY <1>1, <2>1, <2>2, <3>1 DEF QueueT, net
  <2>5. BytesT'
    BY <1>1, <2>2, BytesStay DEF net, client
  <2>6. pc' \in Pc
    BY <1>1, <2>3, GoMessage DEF StateT
  <2>7. noticed' \in BOOLEAN
    BY <1>1, <2>2 DEF FlagT
  <2>8. StateT' /\ FlagT'
    BY <1>1, <2>2, <2>6, <2>7, StateStay, FlagStay DEF net, client, lookup, FlagT
  <2> QED
    BY <2>4, <2>5, <2>8, Parts
<1>9. CASE Size
  <2>1. UNCHANGED <<net, client, ec, box, pos, got, open, noticed, calm>>
    BY <1>9 DEF Size
  <2>2. pc' \in Pc
    BY <1>1, <1>9, GoMessage DEF Size, StateT
  <2>3. mode' \in BOOLEAN /\ n' \in -1 .. Cap
    <3>1. /\ Len(ring) \in Nat /\ plain \in Nat /\ Cap \in Nat /\ Pack \in Nat
          /\ Len(ring) <= Cap /\ plain <= Cap
      <4>1. /\ Len(ring) \in Nat /\ plain \in Nat /\ Cap \in Nat /\ Pack \in Nat /\ Len(buf) \in Nat
            /\ Len(ring) <= room /\ room \in {0, Cap} /\ plain <= Len(buf) /\ Len(buf) <= Pack
            /\ 2 * Pack <= Cap
        BY <1>1, Sizes DEF BytesT
      <4> QED
        BY <4>1
    <3>2. mode' \in {mode, usebuf} /\ n' \in {n, Len(ring) - 1, plain - 1}
      BY <1>9 DEF Size
    <3> QED
      BY <1>1, <3>1, <3>2 DEF StateT
  <2>4. BytesT' /\ QueueT'
    BY <1>1, <2>1, BytesStay, QueueStay DEF net, client
  <2>5. StateT' /\ FlagT'
    BY <1>1, <2>1, <2>2, <2>3, FlagStay DEF StateT, FlagT, net, client
  <2> QED
    BY <2>4, <2>5, Parts
<1>10. CASE Scan
  <2>1. UNCHANGED <<net, client, ec, box, got, open, noticed, calm>> /\ mode' = FALSE /\ n' = 0
    BY <1>10 DEF Scan
  <2>2. Hits # {} => (CHOOSE p \in Hits : \A q \in Hits : p <= q) \in 0 .. n
    <3>1. Hits # {} => \E p \in Hits : \A q \in Hits : p <= q
      <4>1. Hits \in SUBSET Nat
        BY DEF Hits
      <4> QED
        BY <4>1, LeastOf
    <3> QED
      BY <3>1 DEF Hits
  <2>3. PICK p \in 0 .. Cap : \/ Found(p)
                              \/ Nothing
    <3>1. n \in Int /\ n <= Cap /\ Pack \in Nat /\ Cap \in Nat
      BY <1>1, SizeAssumption DEF StateT
    <3>2. CASE Hits # {}
      <4>1. Found(CHOOSE p \in Hits : \A q \in Hits : p <= q)
        BY <1>10, <3>2 DEF Scan
      <4> QED
        BY <2>2, <3>1, <3>2, <4>1
    <3>3. CASE Hits = {} /\ n < Pack
      <4>1. Nothing
        BY <1>10, <3>3 DEF Scan
      <4>2. 0 \in 0 .. Cap
        BY <3>1
      <4> QED
        BY <4>1, <4>2
    <3>4. CASE Hits = {} /\ ~ n < Pack
      <4>1. Found(n)
        BY <1>10, <3>4 DEF Scan
      <4>2. n \in 0 .. Cap
        BY <3>1, <3>4
      <4> QED
        BY <4>1, <4>2
    <3> QED
      BY <3>2, <3>3, <3>4
  <2>4. pos' \in 0 .. Cap /\ pc' \in Pc
    <3>1. pos' \in {p, 0} /\ \E q \in {"close", "read", "idle"} : Goto("message", q)
      BY <2>3 DEF Found, Nothing
    <3>2. pc' \in Pc
      BY <1>1, <3>1, GoMessage DEF StateT
    <3> QED
      BY <3>1, <3>2, SizeAssumption
  <2>5. BytesT' /\ QueueT'
    BY <1>1, <2>1, BytesStay, QueueStay DEF net, client
  <2>6. 0 \in -1 .. Cap
    BY SizeAssumption
  <2>7. StateT' /\ FlagT'
    BY <1>1, <2>1, <2>4, <2>6, FlagStay DEF StateT, FlagT, net, client
  <2> QED
    BY <2>5, <2>7, Parts
<1>11. CASE Close \/ Resolve
  <2>1. UNCHANGED <<net, client, ec, box, lookup, got, noticed, calm>> /\ open' \in {open, FALSE}
    BY <1>11 DEF Close, Resolve
  <2>2. pc' \in Pc
    BY <1>1, <1>11, GoMessage DEF Close, Resolve, StateT
  <2>3. BytesT' /\ QueueT'
    BY <1>1, <2>1, BytesStay, QueueStay DEF net, client
  <2>4. StateT' /\ FlagT'
    BY <1>1, <2>1, <2>2, StateStay, FlagStay DEF FlagT, net, client, lookup
  <2> QED
    BY <2>3, <2>4, Parts
<1>12. CASE Drain
  <2>1. PICK k \in Nat : k = Least(pos + 1, Len(ring)) /\ k <= Len(ring)
    <3>1. Len(ring) \in Nat /\ pos + 1 \in Nat
      BY <1>1, Sizes, SizeAssumption DEF StateT
    <3> QED
      BY <3>1 DEF Least
  <2>2. /\ got' = got \o SubSeq(ring, 1, k) /\ ring' = SubSeq(ring, k + 1, Len(ring))
        /\ paused' \in {paused, FALSE} /\ reads' \in {reads, reads + 1}
        /\ calm' \in {calm, calm /\ (ec \/ At("service", "idle"))} /\ Goto("message", "resolve")
        /\ UNCHANGED <<stream, taken, buf, done, broken, plain, usebuf, room, ec, box, lookup, open,
                       noticed>>
    BY <1>12, <2>1 DEF Drain, StartRead
  <2>3. BytesT'
    <3>1. /\ SubSeq(ring, 1, k) \in Seq(1 .. taken) /\ ring' \in Seq(1 .. taken)
          /\ Len(ring') = Len(ring) - k
      BY <1>1, <2>1, <2>2, PartTyped DEF BytesT
    <3>2. got' \in Seq(1 .. taken)
      BY <1>1, <2>2, <3>1, ConcatProperties DEF BytesT
    <3>3. Len(ring') <= room
      <4>1. Len(ring) \in Nat /\ Len(ring) <= room /\ room \in Nat
        BY <1>1, Sizes
      <4> QED
        BY <2>1, <3>1, <4>1
    <3> QED
      BY <1>1, <2>2, <3>1, <3>2, <3>3 DEF BytesT
  <2>4. QueueT'
    BY <1>1, <2>2 DEF QueueT
  <2>5. pc' \in Pc
    BY <1>1, <2>2, GoMessage DEF StateT
  <2>6. StateT'
    BY <1>1, <2>2, <2>5 DEF StateT, lookup
  <2>7. FlagT'
    BY <1>1, <2>2, FlagStay DEF FlagT, At
  <2> QED
    BY <2>3, <2>4, <2>6, <2>7, Parts
<1>13. CASE Copy
  <2>1. PICK k \in Nat : k = Least(pos + 1, plain) /\ k <= plain
    <3>1. plain \in Nat /\ pos + 1 \in Nat
      BY <1>1, Sizes, SizeAssumption DEF StateT
    <3> QED
      BY <3>1 DEF Least
  <2>2. /\ got' = got \o SubSeq(buf, 1, k) /\ plain' = plain - k
        /\ calm' = (calm /\ plain' = 0) /\ Goto("message", "resolve")
        /\ UNCHANGED <<net, usebuf, room, ring, paused, ec, box, lookup, open, noticed>>
    BY <1>13, <2>1 DEF Copy
  <2>3. BytesT'
    <3>1. plain \in Nat /\ plain <= Len(buf) /\ Len(buf) \in Nat
      BY <1>1, Sizes
    <3>2. SubSeq(buf, 1, k) \in Seq(1 .. taken)
      <4>1. k <= Len(buf)
        BY <2>1, <3>1
      <4> QED
        BY <1>1, <4>1, PartTyped DEF BytesT
    <3>3. got' \in Seq(1 .. taken)
      BY <1>1, <2>2, <3>2, ConcatProperties DEF BytesT
    <3>4. plain' \in 0 .. Len(buf)
      BY <2>1, <2>2, <3>1
    <3> QED
      BY <1>1, <2>2, <3>3, <3>4 DEF BytesT, net
  <2>4. QueueT'
    BY <1>1, <2>2, QueueStay DEF net
  <2>5. pc' \in Pc
    BY <1>1, <2>2, GoMessage DEF StateT
  <2>6. StateT' /\ FlagT'
    BY <1>1, <2>2, <2>5, StateStay, FlagStay DEF lookup, net, FlagT
  <2> QED
    BY <2>3, <2>4, <2>6, Parts
<1> QED
  BY <1>2, <1>3, <1>4, <1>5, <1>6, <1>7, <1>8, <1>9, <1>10, <1>11, <1>12, <1>13
     DEF Next, Asio, Service, Message, Main

-----------------------------------------------------------------------------
\* A step of one thread moves no other.
LEMMA Still ==
  ASSUME StateT, QueueT
  PROVE  /\ Break \/ Asio => pc' = pc
         /\ Service => pc'["main"] = pc["main"] /\ pc'["message"] = pc["message"]
         /\ Message => pc'["main"] = pc["main"] /\ pc'["service"] = pc["service"]
         /\ Main => pc'["message"] = pc["message"] /\ pc'["service"] = pc["service"]
<1>1. pc \in Pc
  BY DEF StateT
<1>2. Break \/ Asio => pc' = pc
  BY DEF Break, Asio, Complete, Abort
<1>3. Service => pc'["main"] = pc["main"] /\ pc'["message"] = pc["message"]
  BY <1>1, GoService DEF Service, Handle, Call, Again
<1>4. ASSUME Message PROVE pc'["main"] = pc["main"] /\ pc'["service"] = pc["service"]
  <2>1. \E p \in {"idle", "flag", "room", "size", "scan", "close", "read", "resolve"} : Goto("message", p)
    <3>1. Take => Goto("message", "flag") \/ Goto("message", "size") \/ Goto("message", "idle")
                    \/ Head(box) \notin {"connect", "receive", "close"}
      BY DEF Take
    <3>2. Take => Head(box) \in {"connect", "receive", "close"}
      BY HeadTailProperties DEF Take, QueueT
    <3>3. Size => Goto("message", "scan") \/ Goto("message", "idle")
      BY DEF Size
    <3>4. Scan => Goto("message", "close") \/ Goto("message", "read") \/ Goto("message", "idle")
      BY DEF Scan, Found, Nothing
    <3>5. UseFlag("message") \/ UseRoom("message") => Goto("message", "room") \/ Goto("message", "idle")
      BY DEF UseFlag, UseRoom
    <3>6. Close \/ Resolve => Goto("message", "size") \/ Goto("message", "close")
      BY DEF Close, Resolve
    <3>7. Drain \/ Copy => Goto("message", "resolve")
      BY DEF Drain, Copy
    <3> QED
      BY <1>4, <3>1, <3>2, <3>3, <3>4, <3>5, <3>6, <3>7 DEF Message
  <2> QED
    BY <1>1, <2>1, GoMessage
<1>5. Main => pc'["message"] = pc["message"] /\ pc'["service"] = pc["service"]
  BY <1>1, GoMain DEF Main, UseFlag, UseRoom
<1> QED
  BY <1>2, <1>3, <1>4, <1>5

\* The queue of completed reads holds at most one, and one at most is outstanding.
LEMMA OneAtMost ==
  ASSUME QueueT, Token
  PROVE  /\ reads \in Nat /\ Len(done) \in Nat /\ reads + Len(done) <= 1
         /\ reads > 0 => reads = 1 /\ done = << >>
         /\ done # << >> => reads = 0 /\ Len(done) = 1 /\ Tail(done) = << >>
         /\ done = << >> => Len(done) = 0 /\ Append(done, 0) = <<0>>
         /\ \A k \in 1 .. Pack : done = << >> => Append(done, k) = <<k>>
<1>1. reads \in Nat /\ Len(done) \in Nat /\ reads + Len(done) <= 1
  BY DEF QueueT, Token
<1>2. done = << >> <=> Len(done) = 0
  BY EmptySeq DEF QueueT
<1>a. reads > 0 => reads = 1 /\ Len(done) = 0
  BY <1>1
<1>3. reads > 0 => reads = 1 /\ done = << >>
  BY <1>a, <1>2, Zenon
<1>b. Len(done) # 0 => reads = 0 /\ Len(done) = 1
  <2>1. PICK r \in Nat, d \in Nat : r = reads /\ d = Len(done) /\ r + d <= 1
    BY <1>1
  <2>2. d # 0 => r = 0 /\ d = 1
    BY <2>1
  <2> QED
    BY <2>1, <2>2, Zenon
<1>4. done # << >> => reads = 0 /\ Len(done) = 1
  BY <1>b, <1>2, Zenon
<1>5. done # << >> => Tail(done) = << >>
  <2>1. done # << >> => Tail(done) \in Seq(0 .. Pack) /\ Len(Tail(done)) = Len(done) - 1
    BY HeadTailProperties DEF QueueT
  <2>2. Len(done) = 1 => Len(done) - 1 = 0
    OBVIOUS
  <2>3. done # << >> => Tail(done) \in Seq(0 .. Pack) /\ Len(Tail(done)) = 0
    BY <1>4, <2>1, <2>2, Zenon
  <2> QED
    BY <2>3, EmptySeq
<1>6. done = << >> => Len(done) = 0 /\ Append(done, 0) = <<0>>
  BY <1>2
<1>7. \A k \in 1 .. Pack : done = << >> => Append(done, k) = <<k>>
  OBVIOUS
<1> QED
  BY <1>1, <1>3, <1>4, <1>5, <1>6, <1>7

LEMMA TokenStay ==
  ASSUME Token, UNCHANGED <<reads, done, paused, ec>>, pc'["service"] = pc["service"],
         broken => broken', open' => open
  PROVE  Token'
<1>1. (reads + Len(done) <= 1)' <=> reads + Len(done) <= 1
  OBVIOUS
<1> QED
  BY <1>1 DEF Token, At

\* The token is passed on.
LEMMA TokenKeeps ==
  ASSUME RcvInv, calm, Next, calm'
  PROVE  Token'
<1>1. QueueT /\ StateT /\ FlagT /\ Token
  BY Parts DEF RcvInv, CalmInv
<1>2. CASE Break
  BY <1>1, <1>2, TokenStay DEF Break, client, FlagT
<1>3. CASE Complete
  <2>1. PICK k \in 1 .. Pack : done' = Append(done, k)
    BY <1>3 DEF Complete
  <2>2. /\ reads > 0 /\ reads' = reads - 1 /\ UNCHANGED <<broken, open, paused, pc, ec>>
    BY <1>3 DEF Complete, client
  <2>3. done' = <<k>> /\ reads' = 0 /\ reads = 1 /\ Len(done) = 0
    BY <1>1, <2>1, <2>2, OneAtMost
  <2>4. k # 0 /\ Len(<<k>>) = 1 /\ Head(<<k>>) = k
    BY SizeAssumption
  <2> QED
    BY <1>1, <2>2, <2>3, <2>4 DEF Token, At
<1>4. CASE Abort
  <2>1. /\ reads > 0 /\ reads' = reads - 1 /\ UNCHANGED <<broken, open, paused, pc, ec>>
        /\ done' = Append(done, 0) /\ (broken \/ ~open)
    BY <1>4 DEF Abort, client
  <2>2. done' = <<0>> /\ reads' = 0 /\ reads = 1 /\ Len(done) = 0
    BY <1>1, <2>1, OneAtMost
  <2>3. Len(<<0>>) = 1 /\ Head(<<0>>) = 0
    OBVIOUS
  <2> QED
    BY <1>1, <2>1, <2>2, <2>3 DEF Token, At
<1>5. CASE Handle
  <2>1. /\ done # << >> /\ done' = Tail(done) /\ At("service", "idle") /\ ec' = (Head(done) = 0)
        /\ UNCHANGED <<reads, broken, open>> /\ Goto("service", "call")
        /\ Head(done) = 0 => UNCHANGED paused
    BY <1>5 DEF Handle
  <2>2. reads = 0 /\ Len(done) = 1 /\ done' = << >> /\ Len(<< >>) = 0
    BY <1>1, <2>1, OneAtMost
  <2>3. ~paused /\ (Head(done) = 0 => broken \/ ~open)
    BY <1>1, <2>1, <2>2 DEF Token
  <2>4. pc'["service"] = "call"
    BY <1>1, <2>1, GoService DEF StateT
  <2>5. reads' = 0 /\ Len(done') = 0 /\ 0 + 0 = 0
    BY <2>1, <2>2
  <2>6. /\ paused' /\ ec' => FALSE
        /\ ec' => broken' \/ ~open'
    <3>1. CASE Head(done) = 0
      BY <2>1, <2>3, <3>1
    <3>2. CASE Head(done) # 0
      <4>1. ~ec'
        BY <2>1, <3>2
      <4> QED
        BY <4>1
    <3> QED
      BY <3>1, <3>2
  <2> QED
    BY <2>2, <2>1, <2>4, <2>5, <2>6 DEF Token, At
<1>6. CASE Call
  <2>1. UNCHANGED <<reads, done, broken, open, paused, ec>> /\ pc["service"] = "call"
    BY <1>6 DEF Call, net, client, At
  <2>2. pc'["service"] = "test"
    BY <1>1, <1>6, GoService DEF StateT, Call
  <2> QED
    BY <1>1, <2>1, <2>2 DEF Token, At
<1>7. CASE Again
  <2>1. /\ UNCHANGED <<done, broken, open, paused>> /\ pc["service"] = "test" /\ ec' = FALSE
        /\ reads' = IF ~ (ec \/ paused) /\ open THEN reads + 1 ELSE reads
    BY <1>7 DEF Again, StartRead, client, At
  <2>2. pc'["service"] = "idle"
    BY <1>1, <1>7, GoService DEF StateT, Again
  <2>3. reads = 0 /\ Len(done) = 0 /\ done = << >>
    <3>1. reads + Len(done) # 1
      BY <1>1, <2>1 DEF Token, At
    <3> QED
      BY <1>1, <3>1, OneAtMost
  <2>4. ec => ~paused /\ (broken \/ ~open)
    BY <1>1 DEF Token
  <2>5. CASE ~ (ec \/ paused) /\ open
    <3>1. reads' = 1 /\ Len(done') = 0 /\ 1 + 0 = 1
      BY <2>1, <2>3, <2>5
    <3> QED
      BY <2>1, <2>2, <2>3, <2>5, <3>1 DEF Token, At
  <2>6. CASE (ec \/ paused) \/ ~open
    <3>1. reads' = 0 /\ Len(done') = 0 /\ 0 + 0 = 0
      BY <2>1, <2>3, <2>6
    <3> QED
      BY <2>1, <2>2, <2>3, <2>4, <2>6, <3>1 DEF Token, At
  <2> QED
    BY <2>5, <2>6
<1>8. CASE Main \/ Take \/ Size \/ Scan \/ Copy \/ Resolve \/ Close \/ UseFlag("message") \/ UseRoom("message")
  <2>1. pc'["service"] = pc["service"]
    BY <1>1, <1>8, Still DEF Message
  <2>2. UNCHANGED <<reads, done, paused, ec, broken>> /\ (open' => open)
    <3>1. CASE Main \/ UseFlag("message") \/ UseRoom("message")
      <4>1. \A t \in {"main", "message"} : UseFlag(t) => UNCHANGED <<net, paused, ec, open>>
        BY DEF UseFlag
      <4>2. \A t \in {"main", "message"} : UseRoom(t) => UNCHANGED <<net, paused, ec, open>>
        BY DEF UseRoom
      <4>3. UNCHANGED <<net, paused, ec, open>>
        BY <3>1, <4>1, <4>2 DEF Main
      <4> QED
        BY <4>3 DEF net
    <3>2. CASE Take
      BY <3>2 DEF Take, net, client
    <3>6. CASE Size
      BY <3>6 DEF Size, net, client
    <3>3. CASE Scan
      BY <3>3 DEF Scan, net, client
    <3>4. CASE Copy
      BY <3>4 DEF Copy, net
    <3>5. CASE Resolve \/ Close
      BY <3>5 DEF Resolve, Close, net, client
    <3> QED
      BY <1>8, <3>1, <3>2, <3>3, <3>4, <3>5, <3>6
  <2> QED
    BY <1>1, <2>1, <2>2, TokenStay
<1>9. CASE Drain
  <2>1. pc'["service"] = pc["service"]
    BY <1>1, <1>9, Still DEF Message
  <2>2. UNCHANGED <<done, ec, broken, open>>
    BY <1>9 DEF Drain
  <2>3. CASE UNCHANGED <<paused, reads>>
    BY <1>1, <2>1, <2>2, <2>3, TokenStay
  <2>4. CASE paused /\ ~ UNCHANGED <<paused, reads>>
    <3>1. paused' = FALSE /\ reads' = (IF open THEN reads + 1 ELSE reads)
          /\ (ec \/ At("service", "idle"))
      BY <1>9, <2>4 DEF Drain, StartRead
    <3>2. reads = 0 /\ Len(done) = 0 /\ done = << >> /\ ~ec
      <4>1. reads + Len(done) # 1 /\ ~ec
        BY <1>1, <2>4 DEF Token
      <4> QED
        BY <1>1, <4>1, OneAtMost
    <3> QED
      BY <2>1, <2>2, <3>1, <3>2 DEF Token, At
  <2> QED
    BY <1>9, <2>3, <2>4 DEF Drain
<1> QED
  BY <1>2, <1>3, <1>4, <1>5, <1>6, <1>7, <1>8, <1>9 DEF Next, Asio, Service, Message

\* The message of the connection stays first until it is taken.
LEMMA SetupKeeps ==
  ASSUME RcvInv, calm, Next, calm'
  PROVE  Setup'
<1>1. QueueT /\ StateT /\ Setup
  BY Parts DEF RcvInv, CalmInv
<1>2. CASE UNCHANGED <<box, room>> /\ pc'["message"] \notin {"flag", "room"} /\ pc'["main"] = pc["main"]
  BY <1>1, <1>2 DEF Setup, At
<1>3. CASE UNCHANGED <<box, room>> /\ pc'["message"] = pc["message"] /\ pc'["main"] = pc["main"]
  BY <1>1, <1>3 DEF Setup, At
<1>4. CASE Break \/ Asio
  <2>1. UNCHANGED <<box, room, pc>>
    BY <1>4 DEF Break, Asio, Complete, Abort, client
  <2> QED
    BY <1>3, <2>1
<1>5. CASE Handle \/ Again
  <2>1. UNCHANGED <<box, room>> /\ pc'["message"] = pc["message"] /\ pc'["main"] = pc["main"]
    BY <1>1, <1>5, Still DEF Service, Handle, Again, client
  <2> QED
    BY <1>3, <2>1
<1>6. CASE Call
  <2>1. PICK e \in {"receive", "close"} : box' = Append(box, e)
    BY <1>6 DEF Call
  <2>2. pc'["message"] = pc["message"] /\ pc'["main"] = pc["main"] /\ UNCHANGED room
    BY <1>1, <1>6, Still DEF Service, Call, client
  <2>3. /\ Len(box') = Len(box) + 1 /\ Len(box) \in Nat
        /\ \A i \in 1 .. Len(box) : box'[i] = box[i]
        /\ box'[Len(box) + 1] = e
    BY <1>1, <2>1, AppendProperties DEF QueueT
  <2>4. ASSUME NEW i \in 1 .. Len(box'), box'[i] = "connect"
        PROVE  i \in 1 .. Len(box) /\ box[i] = "connect"
    BY <2>3, <2>4
  <2> QED
    BY <1>1, <2>2, <2>4 DEF Setup, At
<1>7. CASE Take
  <2>1. box' = Tail(box) /\ UNCHANGED room /\ box # << >>
    BY <1>7 DEF Take, client
  <2>2. /\ Len(box) \in Nat /\ Len(box) >= 1 /\ Len(Tail(box)) = Len(box) - 1 /\ Head(box) = box[1]
        /\ \A i \in 1 .. Len(Tail(box)) : Tail(box)[i] = box[i + 1]
    BY <1>1, <2>1, HeadTailProperties, EmptySeq DEF QueueT
  <2>3. \A i \in 1 .. Len(Tail(box)) : Tail(box)[i] # "connect"
    <3> TAKE i \in 1 .. Len(Tail(box))
    <3>1. i + 1 \in 1 .. Len(box) /\ i + 1 # 1 /\ Tail(box)[i] = box[i + 1]
      BY <2>2
    <3> QED
      BY <1>1, <3>1 DEF Setup
  <2>4. pc'["main"] = pc["main"] /\ (pc'["message"] = "flag" => Head(box) = "connect")
        /\ pc'["message"] # "room"
    <3>1. Head(box) \in {"connect", "receive", "close"}
      BY <1>1, <2>1, HeadTailProperties DEF QueueT
    <3>2. CASE Head(box) = "connect"
      BY <1>1, <1>7, <3>2, GoMessage DEF Take, StateT
    <3>3. CASE Head(box) = "receive"
      BY <1>1, <1>7, <3>3, GoMessage DEF Take, StateT
    <3>4. CASE Head(box) = "close"
      BY <1>1, <1>7, <3>4, GoMessage DEF Take, StateT
    <3> QED
      BY <3>1, <3>2, <3>3, <3>4
  <2>5. Head(box) = "connect" => At("main", "done") /\ room = 0
    <3>1. 1 \in 1 .. Len(box)
      BY <2>2
    <3> QED
      BY <1>1, <2>2, <3>1 DEF Setup
  <2> QED
    BY <2>1, <2>3, <2>4, <2>5 DEF Setup, At
<1>8. CASE Size \/ Scan \/ Close \/ Drain \/ Copy \/ Resolve
  <2>1. pc'["main"] = pc["main"] /\ pc'["message"] \notin {"flag", "room"}
    BY <1>1, <1>8, GoMessage DEF Size, Scan, Found, Nothing, Close, Drain, Copy, Resolve, StateT
  <2>2. UNCHANGED <<box, room>>
    BY <1>8 DEF Size, Scan, Close, Drain, Copy, Resolve, client
  <2> QED
    BY <1>2, <2>1, <2>2
<1>9. CASE UseFlag("message")
  <2>1. pc["message"] = "flag" /\ pc'["message"] = "room" /\ pc'["main"] = pc["main"]
    BY <1>1, <1>9, GoMessage DEF UseFlag, StateT, At
  <2>2. UNCHANGED <<box, room>>
    BY <1>9 DEF UseFlag
  <2> QED
    BY <1>1, <2>1, <2>2 DEF Setup, At
<1>10. CASE UseRoom("message")
  <2>1. pc["message"] = "room" /\ pc'["message"] = "idle" /\ pc'["main"] = pc["main"]
    BY <1>1, <1>10, GoMessage DEF UseRoom, StateT, At
  <2>2. UNCHANGED box
    BY <1>10 DEF UseRoom
  <2> QED
    BY <1>1, <2>1, <2>2 DEF Setup, At
<1>11. CASE Main
  <2>1. pc["main"] # "done" /\ pc'["message"] = pc["message"] /\ UNCHANGED box
    BY <1>1, <1>11, Still DEF Main, UseFlag, UseRoom, At
  <2> QED
    BY <1>1, <2>1 DEF Setup, At
<1> QED
  BY <1>4, <1>5, <1>6, <1>7, <1>8, <1>9, <1>10, <1>11 DEF Next, Service, Message

-----------------------------------------------------------------------------
\* The steps that leave alone what the threads share of the buffers.
LEMMA SharedStay ==
  /\ Break \/ Call \/ Take \/ Size \/ Scan \/ Close \/ Resolve => UNCHANGED <<buf, done, client, got>>
  /\ Again \/ Abort => UNCHANGED <<buf, client, got>>
  /\ \A t \in {"main", "message"} : UseFlag(t) \/ UseRoom(t) => UNCHANGED <<buf, done, plain, ring, paused, got>>
<1>1. Break \/ Call => UNCHANGED <<buf, done, client, got>>
  BY DEF Break, Call, net
<1>2. Take => UNCHANGED <<buf, done, client, got>>
  BY DEF Take, net
<1>3. Size => UNCHANGED <<buf, done, client, got>>
  BY DEF Size, net
<1>4. Scan => UNCHANGED <<buf, done, client, got>>
  BY DEF Scan, net
<1>5. Close \/ Resolve => UNCHANGED <<buf, done, client, got>>
  BY DEF Close, Resolve, net
<1>6. Again \/ Abort => UNCHANGED <<buf, client, got>>
  BY DEF Again, Abort
<1>7. \A t \in {"main", "message"} : UseFlag(t) => UNCHANGED <<buf, done, plain, ring, paused, got>>
  BY DEF UseFlag, net
<1>8. \A t \in {"main", "message"} : UseRoom(t) => UNCHANGED <<buf, done, plain, ring, paused, got>>
  BY DEF UseRoom, net
<1> QED
  BY <1>1, <1>2, <1>3, <1>4, <1>5, <1>6, <1>7, <1>8

\* A read that ended with bytes finds room for all of them.
LEMMA HandleAppends ==
  ASSUME RcvInv, calm, Handle, calm', Head(done) # 0
  PROVE  /\ plain = 0
         /\ Head(done) \in 1 .. Pack /\ Head(done) <= Len(buf) /\ reads = 0 /\ done' = << >>
         /\ usebuf => /\ ring' = ring \o SubSeq(buf, 1, Head(done)) /\ room = Cap /\ UNCHANGED plain
                      /\ paused' = Full(ring')
                      /\ ring' \in Bytes /\ Len(ring') = Len(ring) + Head(done)
                      /\ \A i \in 1 .. Len(ring) : ring'[i] = ring[i]
         /\ ~usebuf => plain' = Head(done) /\ UNCHANGED <<ring, paused>> /\ ring = << >>
<1>1. BytesT /\ QueueT /\ Token /\ RoomOK /\ DoneOK
  BY Parts DEF RcvInv, CalmInv
<1>2. /\ done # << >> /\ done' = Tail(done)
      /\ usebuf => room > 0 /\ UNCHANGED plain
                   /\ ring' = Last(ring \o SubSeq(buf, 1, Head(done)), room) /\ paused' = Full(ring')
      /\ ~usebuf => plain' = Head(done) /\ UNCHANGED <<ring, paused>>
  BY DEF Handle
<1>3. reads = 0 /\ Len(done) = 1 /\ done' = << >>
  BY <1>1, <1>2, OneAtMost
<1>4. Head(done) \in 1 .. Pack /\ Head(done) <= Len(buf) /\ plain = 0
  <2>1. Head(done) \in 0 .. Pack
    BY <1>1, <1>2, HeadTailProperties DEF QueueT
  <2>2. Head(done) <= Len(buf) /\ plain = 0
    BY <1>1, <1>2 DEF DoneOK
  <2> QED
    BY <2>1, <2>2, SizeAssumption
<1>5. ~paused
  BY <1>1, <1>3 DEF Token
<1>6. ASSUME usebuf
      PROVE  /\ ring' = ring \o SubSeq(buf, 1, Head(done)) /\ room = Cap
             /\ ring' \in Bytes /\ Len(ring') = Len(ring) + Head(done)
             /\ \A i \in 1 .. Len(ring) : ring'[i] = ring[i]
  <2>1. PICK x \in Bytes, k \in 1 .. Pack : x = SubSeq(buf, 1, k) /\ k = Head(done) /\ Len(x) = k
    <3>1. Head(done) \in Nat
      BY <1>4
    <3> QED
      BY <1>1, <1>4, <3>1, Sizes, Prefix
  <2>2. room = Cap /\ Cap - Len(ring) >= Pack
    <3>1. room = Cap
      BY <1>1, <1>2, <1>6, Sizes
    <3> QED
      BY <1>1, <1>5, <3>1, Sizes DEF RoomOK, Full
  <2>3. /\ ring \o x \in Bytes /\ Len(ring \o x) = Len(ring) + k
        /\ \A i \in 1 .. Len(ring) : (ring \o x)[i] = ring[i]
    <3>1. ring \in Bytes
      BY <1>1, Sizes
    <3> QED
      BY <2>1, <3>1, ConcatProperties DEF Bytes
  <2>4. Len(ring \o x) <= room
    <3>1. Len(ring) \in Nat /\ k \in Nat /\ k <= Pack /\ Pack \in Nat /\ Cap \in Nat
      BY <1>1, <2>1, Sizes
    <3>2. Len(ring) + k <= Cap
      BY <3>1, <2>2
    <3> QED
      BY <2>2, <2>3, <3>2
  <2>5. Last(ring \o x, room) = ring \o x
    <3>1. room \in Nat
      BY <1>1, Sizes
    <3> QED
      BY <2>3, <2>4, <3>1, LastTyped DEF Bytes
  <2>6. ring' = ring \o x
    BY <1>2, <1>6, <2>1, <2>5
  <2> QED
    BY <2>1, <2>2, <2>3, <2>6
<1>7. ~usebuf => ring = << >>
  BY <1>1 DEF RoomOK
<1> QED
  BY <1>2, <1>3, <1>4, <1>6, <1>7

\* Reading from the ring takes the line that Lookup has found.
LEMMA DrainTakes ==
  ASSUME RcvInv, calm, Drain
  PROVE  /\ usebuf /\ pos \in Nat /\ pos + 1 <= Len(ring)
         /\ got' = got \o SubSeq(ring, 1, pos + 1)
         /\ ring' = SubSeq(ring, pos + 2, Len(ring))
         /\ ring' \in Bytes /\ Len(ring') = Len(ring) - (pos + 1)
         /\ UNCHANGED <<stream, taken, buf, done, plain, usebuf, room, pos>>
<1>1. BytesT /\ StateT /\ ReadOK
  BY Parts DEF RcvInv, CalmInv
<1>2. usebuf /\ UNCHANGED <<stream, taken, buf, done, plain, usebuf, room, pos>>
      /\ got' = got \o SubSeq(ring, 1, Least(pos + 1, Len(ring)))
      /\ ring' = SubSeq(ring, Least(pos + 1, Len(ring)) + 1, Len(ring))
  BY DEF Drain, lookup
<1>3. pos \in Nat /\ pos < Len(ring)
  <2>1. pos < Len(ring)
    BY <1>1, <1>2 DEF Drain, ReadOK, FirstLine
  <2> QED
    BY <1>1, <2>1, SizeAssumption DEF StateT
<1>4. pos + 1 \in Nat /\ pos + 1 <= Len(ring) /\ Least(pos + 1, Len(ring)) = pos + 1 /\ pos + 1 + 1 = pos + 2
  <2>1. Len(ring) \in Nat
    BY <1>1, Sizes
  <2> QED
    BY <1>3, <2>1 DEF Least
<1>5. /\ SubSeq(ring, pos + 1 + 1, Len(ring)) \in Bytes
      /\ Len(SubSeq(ring, pos + 1 + 1, Len(ring))) = Len(ring) - (pos + 1)
  BY <1>1, <1>4, Sizes, Rest
<1> QED
  BY <1>2, <1>3, <1>4, <1>5

\* Reading before UseBuffer takes the line, which is all there is.
LEMMA CopyTakes ==
  ASSUME RcvInv, calm, Copy, calm'
  PROVE  /\ ~usebuf /\ pos \in Nat /\ plain = pos + 1 /\ plain' = 0 /\ ring = << >>
         /\ got' = got \o SubSeq(buf, 1, plain)
         /\ UNCHANGED <<stream, taken, buf, done, ring, usebuf, room, paused, pos>>
<1>1. BytesT /\ StateT /\ ReadOK /\ RoomOK
  BY Parts DEF RcvInv, CalmInv
<1>2. ~usebuf /\ UNCHANGED <<stream, taken, buf, done, ring, usebuf, room, paused, pos>>
      /\ got' = got \o SubSeq(buf, 1, Least(pos + 1, plain)) /\ plain' = plain - Least(pos + 1, plain)
      /\ plain' = 0
  BY DEF Copy, lookup, net
<1>3. pos \in Nat /\ pos < plain /\ plain \in Nat
  <2>1. pos < plain
    BY <1>1, <1>2 DEF Copy, ReadOK, FirstLine
  <2> QED
    BY <1>1, <2>1, Sizes, SizeAssumption DEF StateT
<1>4. Least(pos + 1, plain) = plain /\ plain = pos + 1
  <2>1. Least(pos + 1, plain) = pos + 1
    BY <1>3 DEF Least
  <2> QED
    BY <1>2, <1>3, <2>1
<1>5. ring = << >>
  BY <1>1, <1>2 DEF RoomOK
<1> QED
  BY <1>2, <1>3, <1>4, <1>5

\* There stays room for a packet, or the reading pauses.
LEMMA RoomKeeps ==
  ASSUME RcvInv, calm, Next, calm'
  PROVE  RoomOK'
<1>1. BytesT /\ QueueT /\ StateT /\ RoomOK /\ Setup
  BY Parts DEF RcvInv, CalmInv
<1>2. CASE UNCHANGED client
  BY <1>1, <1>2 DEF RoomOK, Full, client
<1>3. CASE Handle
  <2>1. UNCHANGED <<usebuf, room>>
    BY <1>3 DEF Handle
  <2>2. CASE Head(done) = 0
    <3>1. UNCHANGED <<plain, ring, paused>>
      BY <1>3, <2>2 DEF Handle
    <3> QED
      BY <1>2, <2>1, <3>1 DEF client
  <2>3. CASE Head(done) # 0 /\ usebuf
    <3>1. room = Cap /\ plain = 0 /\ UNCHANGED plain /\ paused' = Full(ring')
      BY <1>3, <2>3, HandleAppends
    <3>2. Full(ring)' <=> Full(ring')
      BY <2>1 DEF Full
    <3> QED
      BY <2>1, <2>3, <3>1, <3>2 DEF RoomOK
  <2>4. CASE Head(done) # 0 /\ ~usebuf
    <3>1. UNCHANGED <<ring, paused>> /\ ring = << >>
      BY <1>3, <2>4, HandleAppends
    <3> QED
      BY <1>1, <2>1, <2>4, <3>1 DEF RoomOK, Full
  <2> QED
    BY <2>2, <2>3, <2>4
<1>4. ASSUME NEW t \in {"main", "message"}, UseFlag(t)
      PROVE  RoomOK'
  <2>1. UNCHANGED <<plain, room, ring, paused>> /\ usebuf' = TRUE /\ plain = 0
    BY <1>4 DEF UseFlag
  <2> QED
    BY <1>1, <2>1 DEF RoomOK, Full
<1>5. ASSUME NEW t \in {"main", "message"}, UseRoom(t)
      PROVE  RoomOK'
  <2>1. UNCHANGED <<plain, usebuf, ring, paused>> /\ room' = Cap
    BY <1>5 DEF UseRoom
  <2>2. ~paused => Cap - Len(ring) >= Pack
    <3>1. CASE room = Cap
      BY <1>1, <3>1, Sizes DEF RoomOK, Full
    <3>2. CASE room = 0
      <4>1. Len(ring) = 0
        BY <1>1, <3>2, Sizes
      <4> QED
        BY <1>1, <4>1, Sizes
    <3> QED
      BY <1>1, <3>1, <3>2, Sizes
  <2>3. ~paused => ~ (Cap - Len(ring) < Pack)
    BY <1>1, <2>2, Sizes
  <2>4. paused => usebuf /\ Cap - Len(ring) < Pack
    BY <1>1 DEF RoomOK, Full
  <2> QED
    BY <1>1, <2>1, <2>3, <2>4 DEF RoomOK, Full
<1>6. CASE Drain
  <2>1. usebuf /\ Len(ring') = Len(ring) - (pos + 1) /\ pos \in Nat /\ UNCHANGED <<plain, usebuf, room>>
    BY <1>6, DrainTakes
  <2>2. /\ paused /\ ~ Full(ring') => ~paused' \/ paused' = paused
        /\ ~paused \/ Full(ring') => paused' = paused
        /\ paused' => paused
    BY <1>6 DEF Drain
  <2>3. paused /\ ~ Full(ring') => ~paused'
    <3>1. 0 < Least(pos + 1, Len(ring))
      <4>1. pos + 1 <= Len(ring) /\ Len(ring) \in Nat
        BY <1>1, <1>6, DrainTakes, Sizes
      <4> QED
        BY <2>1, <4>1 DEF Least
    <3>2. ring' = SubSeq(ring, Least(pos + 1, Len(ring)) + 1, Len(ring))
      BY <1>6 DEF Drain
    <3>3. Least(pos + 1, Len(ring)) > 0
      BY <3>1
    <3> QED
      BY <1>6, <3>2, <3>3 DEF Drain
  <2>4. Full(ring') => Full(ring)
    BY <1>1, <2>1, Sizes DEF Full
  <2>5. Full(ring)' <=> Full(ring')
    BY <2>1 DEF Full
  <2> QED
    BY <1>1, <2>1, <2>2, <2>3, <2>4, <2>5 DEF RoomOK
<1>7. CASE Copy
  BY <1>1, <1>7, CopyTakes DEF RoomOK, Full
<1>8. Complete => UNCHANGED client
  BY DEF Complete
<1> QED
  BY <1>2, <1>3, <1>4, <1>5, <1>6, <1>7, <1>8, SharedStay DEF Next, Asio, Service, Message, Main

\* A read that has ended finds bufrcv_ free.
LEMMA DoneKeeps ==
  ASSUME RcvInv, calm, Next, calm'
  PROVE  DoneOK'
<1>1. BytesT /\ QueueT /\ Token /\ DoneOK
  BY Parts DEF RcvInv, CalmInv
<1>2. CASE UNCHANGED <<done, buf, plain>>
  BY <1>1, <1>2 DEF DoneOK
<1>3. CASE Complete
  <2>1. PICK k \in 1 .. Pack : done' = Append(done, k) /\ buf' = Overwrite(k)
    BY <1>3 DEF Complete
  <2>2. reads > 0 /\ plain = 0 /\ UNCHANGED plain
    BY <1>3 DEF Complete, client
  <2>3. done' = <<k>> /\ Head(<<k>>) = k
    BY <1>1, <2>1, <2>2, OneAtMost
  <2>4. k <= Len(buf')
    <3>1. PICK m \in Nat : m = (IF k > Len(buf) THEN k ELSE Len(buf)) /\ k <= m
      BY <1>1, Sizes
    <3>2. buf' = [i \in 1 .. m |-> IF i <= k THEN taken + i ELSE buf[i]]
      BY <2>1, <3>1 DEF Overwrite
    <3>3. Len(buf') = m
      BY <3>2
    <3> QED
      BY <3>1, <3>3
  <2> QED
    BY <2>2, <2>3, <2>4 DEF DoneOK
<1>4. CASE Abort
  <2>1. done' = Append(done, 0) /\ reads > 0 /\ UNCHANGED buf
    BY <1>4 DEF Abort
  <2>2. done' = <<0>> /\ Head(<<0>>) = 0
    BY <1>1, <2>1, OneAtMost
  <2>3. 0 <= Len(buf)
    BY <1>1, Sizes
  <2> QED
    BY <2>1, <2>2, <2>3 DEF DoneOK
<1>5. CASE Handle
  <2>1. done # << >> /\ done' = Tail(done)
    BY <1>5 DEF Handle
  <2>2. done' = << >>
    BY <1>1, <2>1, OneAtMost
  <2> QED
    BY <2>2 DEF DoneOK
<1>6. CASE Copy
  <2>1. UNCHANGED <<done, buf>> /\ plain' = 0
    BY <1>6, CopyTakes
  <2> QED
    BY <1>1, <2>1 DEF DoneOK
<1>7. Drain => UNCHANGED <<done, buf, plain>>
  BY DEF Drain
<1>8. Again => UNCHANGED <<done, buf, plain>>
  BY DEF Again, client
<1>9. Break \/ Call \/ Take \/ Size \/ Scan \/ Close \/ Resolve => UNCHANGED <<done, buf, plain>>
  BY SharedStay DEF client
<1>10. \A t \in {"main", "message"} : UseFlag(t) \/ UseRoom(t) => UNCHANGED <<done, buf, plain>>
  BY SharedStay
<1> QED
  BY <1>2, <1>3, <1>4, <1>5, <1>6, <1>7, <1>8, <1>9, <1>10 DEF Next, Asio, Service, Message, Main

\* A ring that leaves no room for a packet holds more than one.
LEMMA FullHolds ==
  ASSUME BytesT, room = Cap, Full(ring)
  PROVE  Len(ring) - 1 >= Pack
BY Sizes DEF Full

\* The message thread will look at the ring while the reading pauses.
LEMMA WatchedKeeps ==
  ASSUME RcvInv, calm, Next, calm'
  PROVE  Watched'
<1>1. BytesT /\ QueueT /\ StateT /\ RoomOK /\ Token /\ Watched
  BY Parts DEF RcvInv, CalmInv
<1>2. CASE UNCHANGED <<paused, open, pc, n, box>>
  BY <1>1, <1>2 DEF Watched, At
<1>3. CASE Break \/ Asio
  <2>1. UNCHANGED <<paused, open, pc, n, box>>
    <3>1. Break => UNCHANGED <<paused, open, pc, n, box>>
      BY DEF Break, client, lookup
    <3>2. Complete => UNCHANGED <<paused, open, pc, n, box>>
      BY DEF Complete, client, lookup
    <3>3. Abort => UNCHANGED <<paused, open, pc, n, box>>
      BY DEF Abort, client, lookup
    <3> QED
      BY <1>3, <3>1, <3>2, <3>3 DEF Asio
  <2> QED
    BY <1>2, <2>1
<1>4. CASE Handle
  <2>1. pc'["service"] = "call"
    BY <1>1, <1>4, GoService DEF StateT, Handle
  <2> QED
    BY <2>1 DEF Watched, At
<1>5. CASE Call
  <2>1. box' = Append(box, IF ec THEN "close" ELSE "receive") /\ UNCHANGED paused
    BY <1>5 DEF Call, client
  <2>2. paused => ~ec
    BY <1>1 DEF Token
  <2>3. CASE ~ec
    <3>1. box' = Append(box, "receive")
      BY <2>1, <2>3
    <3>2. Len(box') \in Nat /\ Len(box') >= 1 /\ box'[Len(box')] = "receive"
      <4>1. Len(box') = Len(box) + 1 /\ Len(box) \in Nat /\ box'[Len(box) + 1] = "receive"
        BY <1>1, <3>1, AppendProperties DEF QueueT
      <4> QED
        BY <4>1
    <3>3. Len(box') \in 1 .. Len(box')
      BY <3>2
    <3> QED
      BY <3>2, <3>3 DEF Watched
  <2>4. CASE ec
    BY <2>1, <2>2, <2>4 DEF Watched
  <2> QED
    BY <2>3, <2>4
<1>6. CASE Again
  <2>1. UNCHANGED <<paused, open, n, box>> /\ ~At("service", "call")
    BY <1>6 DEF Again, client, lookup, At
  <2>2. pc'["message"] = pc["message"]
    BY <1>1, <1>6, Still DEF Service
  <2> QED
    BY <1>1, <2>1, <2>2 DEF Watched, At
<1>7. CASE Main
  <2>1. UNCHANGED <<paused, open, n, box>>
    <3>1. UseFlag("main") => UNCHANGED <<paused, open, n, box>>
      BY DEF UseFlag, lookup
    <3>2. UseRoom("main") => UNCHANGED <<paused, open, n, box>>
      BY DEF UseRoom, lookup
    <3> QED
      BY <1>7, <3>1, <3>2 DEF Main
  <2>2. pc'["message"] = pc["message"] /\ pc'["service"] = pc["service"]
    BY <1>1, <1>7, Still
  <2> QED
    BY <1>1, <2>1, <2>2 DEF Watched, At
<1>8. CASE UseFlag("message") \/ UseRoom("message")
  <2>1. UNCHANGED <<paused, open, n, box>> /\ (At("message", "flag") \/ At("message", "room"))
    <3>1. UseFlag("message") => UNCHANGED <<paused, open, n, box>> /\ At("message", "flag")
      BY DEF UseFlag, lookup
    <3>2. UseRoom("message") => UNCHANGED <<paused, open, n, box>> /\ At("message", "room")
      BY DEF UseRoom, lookup
    <3> QED
      BY <1>8, <3>1, <3>2
  <2>2. pc'["service"] = pc["service"]
    BY <1>1, <1>8, Still DEF Message
  <2> QED
    BY <1>1, <2>1, <2>2 DEF Watched, At
<1>9. CASE Take
  <2>1. UNCHANGED <<paused, open, n>> /\ At("message", "idle") /\ box # << >> /\ box' = Tail(box)
    BY <1>9 DEF Take, client, lookup
  <2>2. pc'["service"] = pc["service"]
    BY <1>1, <1>9, Still DEF Message
  <2>3. CASE Head(box) = "receive"
    <3>1. pc'["message"] = "size"
      BY <1>1, <1>9, <2>3, GoMessage DEF Take, StateT
    <3> QED
      BY <3>1 DEF Watched, At
  <2>4. CASE Head(box) # "receive"
    <3>1. ASSUME NEW i \in 1 .. Len(box), box[i] = "receive"
          PROVE  \E j \in 1 .. Len(box') : box'[j] = "receive"
      <4>1. /\ Len(box) \in Nat /\ Head(box) = box[1] /\ Len(box') = Len(box) - 1
            /\ \A j \in 1 .. Len(box') : box'[j] = box[j + 1]
        BY <1>1, <2>1, HeadTailProperties DEF QueueT
      <4>2. i # 1
        BY <2>4, <3>1, <4>1
      <4>3. i - 1 \in 1 .. Len(box') /\ i - 1 + 1 = i
        BY <4>1, <4>2
      <4> QED
        BY <3>1, <4>1, <4>3
    <3> QED
      BY <1>1, <2>1, <2>2, <3>1 DEF Watched, At
  <2> QED
    BY <2>3, <2>4
<1>10. CASE Size
  <2>1. UNCHANGED <<paused, open, ring>>
    BY <1>10 DEF Size, client
  <2>2. CASE open /\ paused
    <3>1. usebuf /\ Len(ring) - 1 >= Pack
      BY <1>1, <2>2, FullHolds DEF RoomOK
    <3>2. n' = Len(ring) - 1 /\ Goto("message", "scan")
      BY <1>10, <2>2, <3>1 DEF Size
    <3>3. pc'["message"] = "scan"
      BY <1>1, <3>2, GoMessage DEF StateT
    <3> QED
      BY <3>1, <3>2, <3>3 DEF Watched, At
  <2> QED
    BY <2>1, <2>2 DEF Watched
<1>11. CASE Scan
  <2>1. UNCHANGED <<paused, open, box>> /\ At("message", "scan")
    BY <1>11 DEF Scan, client
  <2>2. pc'["service"] = pc["service"]
    BY <1>1, <1>11, Still DEF Message
  <2>3. CASE n >= Pack
    <3>1. ~ (n < Pack)
      BY <1>1, <2>3, SizeAssumption DEF StateT
    <3>2. Goto("message", "close") \/ Goto("message", "read")
      BY <1>11, <3>1 DEF Scan, Found
    <3>3. pc'["message"] \in {"close", "read"}
      BY <1>1, <3>2, GoMessage DEF StateT
    <3> QED
      BY <3>3 DEF Watched, At
  <2>4. CASE ~ n >= Pack
    BY <1>1, <2>1, <2>2, <2>4 DEF Watched, At
  <2> QED
    BY <2>3, <2>4
<1>12. CASE Close \/ Resolve \/ Drain \/ Copy
  <2>1. Goto("message", "size") \/ Goto("message", "close") \/ Goto("message", "resolve")
    BY <1>12 DEF Close, Resolve, Drain, Copy
  <2>2. pc'["message"] \in {"size", "close", "resolve"}
    BY <1>1, <2>1, GoMessage DEF StateT
  <2> QED
    BY <2>2 DEF Watched, At
<1> QED
  BY <1>3, <1>4, <1>5, <1>6, <1>7, <1>8, <1>9, <1>10, <1>11, <1>12 DEF Next, Service, Message

\* What Lookup counted is still there when it looks for the terminator.
LEMMA ScanKeeps ==
  ASSUME RcvInv, calm, Next, calm'
  PROVE  ScanOK'
<1>1. BytesT /\ QueueT /\ StateT /\ ScanOK
  BY Parts DEF RcvInv, CalmInv
<1>2. CASE pc'["message"] = pc["message"] /\ UNCHANGED <<mode, n, usebuf, ring, plain>>
  BY <1>1, <1>2 DEF ScanOK, At
<1>3. CASE pc'["message"] # "scan"
  BY <1>3 DEF ScanOK, At
<1>4. CASE Break \/ Asio
  <2>1. UNCHANGED <<pc, mode, n, usebuf, ring, plain>>
    <3>1. Break => UNCHANGED <<pc, mode, n, usebuf, ring, plain>>
      BY DEF Break, client, lookup
    <3>2. Complete => UNCHANGED <<pc, mode, n, usebuf, ring, plain>>
      BY DEF Complete, client, lookup
    <3>3. Abort => UNCHANGED <<pc, mode, n, usebuf, ring, plain>>
      BY DEF Abort, client, lookup
    <3> QED
      BY <1>4, <3>1, <3>2, <3>3 DEF Asio
  <2> QED
    BY <1>2, <2>1
<1>5. CASE Handle
  <2>1. UNCHANGED <<mode, n, usebuf>>
    BY <1>5 DEF Handle, lookup
  <2>2. pc'["message"] = pc["message"]
    BY <1>1, <1>5, Still DEF Service
  <2>3. CASE Head(done) = 0
    <3>1. UNCHANGED <<ring, plain>>
      BY <1>5, <2>3 DEF Handle
    <3> QED
      BY <1>2, <2>1, <2>2, <3>1
  <2>4. CASE Head(done) # 0 /\ usebuf
    <3>1. Len(ring') = Len(ring) + Head(done) /\ Head(done) \in 1 .. Pack
      BY <1>5, <2>4, HandleAppends
    <3>2. n + 1 <= Len(ring) => n + 1 <= Len(ring')
      <4>1. Len(ring) \in Nat /\ Pack \in Nat /\ n \in Int
        BY <1>1, Sizes DEF StateT
      <4> QED
        BY <3>1, <4>1
    <3> QED
      BY <1>1, <2>1, <2>2, <2>4, <3>2 DEF ScanOK, At
  <2>5. CASE Head(done) # 0 /\ ~usebuf
    <3>1. plain = 0
      BY <1>5, <2>5, HandleAppends
    <3>2. n >= 0 => n + 1 # 0
      BY <1>1, SizeAssumption DEF StateT
    <3>3. At("message", "scan") => ~mode /\ ~ (n >= 0)
      BY <1>1, <2>5, <3>1, <3>2 DEF ScanOK
    <3> QED
      BY <2>1, <2>2, <3>3 DEF ScanOK, At
  <2> QED
    BY <2>3, <2>4, <2>5
<1>6. CASE Call \/ Again
  <2>1. UNCHANGED <<mode, n, usebuf, ring, plain>>
    <3>1. Call => UNCHANGED <<mode, n, usebuf, ring, plain>>
      BY DEF Call, client, lookup
    <3>2. Again => UNCHANGED <<mode, n, usebuf, ring, plain>>
      BY DEF Again, client, lookup
    <3> QED
      BY <1>6, <3>1, <3>2
  <2>2. pc'["message"] = pc["message"]
    BY <1>1, <1>6, Still DEF Service
  <2> QED
    BY <1>2, <2>1, <2>2
<1>7. CASE UseFlag("main")
  <2>1. UNCHANGED <<mode, n, ring, plain>> /\ plain = 0 /\ usebuf' = TRUE
    BY <1>7 DEF UseFlag, lookup
  <2>2. pc'["message"] = pc["message"]
    BY <1>1, <1>7, Still DEF Main
  <2>3. n >= 0 => n + 1 # 0
    BY <1>1, SizeAssumption DEF StateT
  <2>4. At("message", "scan") /\ ~mode => ~ (n >= 0)
    BY <1>1, <2>1, <2>3 DEF ScanOK
  <2> QED
    BY <1>1, <2>1, <2>2, <2>4 DEF ScanOK, At
<1>8. CASE UseRoom("main")
  <2>1. UNCHANGED <<mode, n, usebuf, ring, plain>>
    BY <1>8 DEF UseRoom, lookup
  <2>2. pc'["message"] = pc["message"]
    BY <1>1, <1>8, Still DEF Main
  <2> QED
    BY <1>2, <2>1, <2>2
<1>9. CASE Size
  <2>1. UNCHANGED <<ring, plain, usebuf>>
    BY <1>9 DEF Size, client
  <2>2. CASE open
    <3>1. mode' = usebuf /\ n' = (IF usebuf THEN Len(ring) ELSE plain) - 1
      BY <1>9, <2>2 DEF Size
    <3>2. Len(ring) - 1 + 1 = Len(ring) /\ plain - 1 + 1 = plain /\ Len(ring) <= Len(ring)
      BY <1>1, Sizes
    <3> QED
      BY <2>1, <3>1, <3>2 DEF ScanOK
  <2>3. CASE ~open
    <3>1. pc'["message"] = "idle"
      BY <1>1, <1>9, <2>3, GoMessage DEF Size, StateT
    <3> QED
      BY <1>3, <3>1
  <2> QED
    BY <2>2, <2>3
<1>10. CASE UseFlag("message") \/ UseRoom("message")
  <2>1. Goto("message", "room") \/ Goto("message", "idle")
    BY <1>10 DEF UseFlag, UseRoom
  <2> QED
    BY <1>1, <1>3, <2>1, GoMessage DEF StateT
<1>11. CASE Take
  <2>1. Head(box) \in {"connect", "receive", "close"}
    BY <1>1, <1>11, HeadTailProperties DEF QueueT, Take
  <2>2. Goto("message", "flag") \/ Goto("message", "size") \/ Goto("message", "idle")
    BY <1>11, <2>1 DEF Take
  <2> QED
    BY <1>1, <1>3, <2>2, GoMessage DEF StateT
<1>12. CASE Scan
  <2>1. Goto("message", "close") \/ Goto("message", "read") \/ Goto("message", "idle")
    BY <1>12 DEF Scan, Found, Nothing
  <2> QED
    BY <1>1, <1>3, <2>1, GoMessage DEF StateT
<1>13. CASE Close \/ Resolve \/ Drain \/ Copy
  <2>1. Goto("message", "size") \/ Goto("message", "close") \/ Goto("message", "resolve")
    BY <1>13 DEF Close, Resolve, Drain, Copy
  <2> QED
    BY <1>1, <1>3, <2>1, GoMessage DEF StateT
<1> QED
  BY <1>4, <1>5, <1>6, <1>7, <1>8, <1>9, <1>10, <1>11, <1>12, <1>13 DEF Next, Service, Message, Main

\* Lookup returns the first terminator of what it looks at.
LEMMA ScanFinds ==
  ASSUME RcvInv, calm, Scan, pc'["message"] = "read"
  PROVE  IF usebuf THEN FirstLine(ring, Len(ring))' ELSE FirstLine(buf, plain)'
<1>1. BytesT /\ StateT /\ ScanOK
  BY Parts DEF RcvInv, CalmInv
<1>2. UNCHANGED <<stream, buf, ring, plain, usebuf>> /\ At("message", "scan")
  BY DEF Scan, net, client
<1>3. Hits # {}
  <2>1. ASSUME Hits = {} PROVE FALSE
    <3>1. CASE n < Pack
      <4>1. Goto("message", "idle")
        BY <2>1, <3>1 DEF Scan, Nothing
      <4> QED
        BY <1>1, <4>1, GoMessage DEF StateT
    <3>2. CASE ~ (n < Pack)
      <4>1. n + 1 > Pack
        BY <1>1, <3>2, SizeAssumption DEF StateT
      <4>2. Goto("message", "close")
        BY <2>1, <3>2, <4>1 DEF Scan, Found
      <4> QED
        BY <1>1, <4>2, GoMessage DEF StateT
    <3> QED
      BY <3>1, <3>2
  <2> QED
    BY <2>1
<1>4. PICK p \in Hits : pos' = p /\ \A q \in Hits : p <= q
  <2>1. Hits \in SUBSET Nat
    BY DEF Hits
  <2>2. PICK p \in Hits : \A q \in Hits : p <= q
    BY <1>3, <2>1, LeastOf
  <2>3. pos' = CHOOSE p_1 \in Hits : \A q \in Hits : p_1 <= q
    BY <1>3 DEF Scan, Found
  <2> QED
    BY <2>2, <2>3
<1>5. p \in 0 .. n /\ n \in Int /\ n >= 0
  BY <1>1, <1>4, SizeAssumption DEF Hits, StateT
<1>6. CASE mode
  <2>1. usebuf /\ n + 1 <= Len(ring)
    BY <1>1, <1>2, <1>6 DEF ScanOK
  <2>2. p < Len(ring) /\ stream[ring[p + 1]]
    <3>1. p < Len(ring)
      BY <1>1, <1>5, <2>1, Sizes
    <3> QED
      BY <1>4, <1>6, <3>1 DEF Hits
  <2>3. ASSUME NEW i \in 1 .. p PROVE ~ stream[ring[i]]
    <3>1. i - 1 \in 0 .. n /\ ~ (p <= i - 1) /\ i - 1 + 1 = i
      BY <1>5
    <3>2. i - 1 \notin Hits
      BY <1>4, <3>1
    <3> QED
      BY <1>6, <3>1, <3>2 DEF Hits
  <2> QED
    BY <1>2, <1>4, <2>1, <2>2, <2>3 DEF FirstLine
<1>7. CASE ~mode
  <2>1. ~usebuf /\ n + 1 = plain
    BY <1>1, <1>2, <1>5, <1>7 DEF ScanOK
  <2>2. p < plain /\ stream[buf[p + 1]]
    <3>1. p < plain
      BY <1>5, <2>1
    <3> QED
      BY <1>4, <1>7, <3>1 DEF Hits
  <2>3. ASSUME NEW i \in 1 .. p PROVE ~ stream[buf[i]]
    <3>1. i - 1 \in 0 .. n /\ ~ (p <= i - 1) /\ i - 1 + 1 = i
      BY <1>5
    <3>2. i - 1 \notin Hits
      BY <1>4, <3>1
    <3> QED
      BY <1>7, <3>1, <3>2 DEF Hits
  <2> QED
    BY <1>2, <1>4, <2>1, <2>2, <2>3 DEF FirstLine
<1> QED
  BY <1>6, <1>7

\* The line that Lookup has found stays first until it is read.
LEMMA ReadKeeps ==
  ASSUME RcvInv, calm, Next, calm'
  PROVE  ReadOK'
<1>1. BytesT /\ QueueT /\ StateT /\ ReadOK
  BY Parts DEF RcvInv, CalmInv
<1>2. CASE pc'["message"] = pc["message"] /\ UNCHANGED <<pos, usebuf, stream, ring, buf, plain>>
  BY <1>1, <1>2 DEF ReadOK, FirstLine, At
<1>3. CASE pc'["message"] # "read"
  BY <1>3 DEF ReadOK, At
<1>4. CASE Break \/ Abort
  <2>1. UNCHANGED <<pc, pos, usebuf, stream, ring, buf, plain>>
    <3>1. Break => UNCHANGED <<pc, pos, usebuf, stream, ring, buf, plain>>
      BY DEF Break, client, lookup
    <3>2. Abort => UNCHANGED <<pc, pos, usebuf, stream, ring, buf, plain>>
      BY DEF Abort, client, lookup
    <3> QED
      BY <1>4, <3>1, <3>2
  <2> QED
    BY <1>2, <2>1
<1>5. CASE Complete
  <2>1. UNCHANGED <<pc, pos, usebuf, stream, ring, plain>> /\ plain = 0
    BY <1>5 DEF Complete, client, lookup
  <2>2. At("message", "read") => usebuf
    <3>1. ~ (pos < 0)
      BY <1>1, SizeAssumption DEF StateT
    <3> QED
      BY <1>1, <2>1, <3>1 DEF ReadOK, FirstLine
  <2> QED
    BY <1>1, <2>1, <2>2 DEF ReadOK, FirstLine, At
<1>6. CASE Handle
  <2>1. UNCHANGED <<pos, usebuf, stream, buf>>
    BY <1>6 DEF Handle, lookup
  <2>2. pc'["message"] = pc["message"]
    BY <1>1, <1>6, Still DEF Service
  <2>3. CASE Head(done) = 0
    <3>1. UNCHANGED <<ring, plain>>
      BY <1>6, <2>3 DEF Handle
    <3> QED
      BY <1>2, <2>1, <2>2, <3>1
  <2>4. CASE Head(done) # 0 /\ usebuf
    <3>1. /\ Len(ring') = Len(ring) + Head(done) /\ Head(done) \in 1 .. Pack
          /\ \A i \in 1 .. Len(ring) : ring'[i] = ring[i]
      BY <1>6, <2>4, HandleAppends
    <3>2. CASE At("message", "read")
      <4>1. /\ pos < Len(ring) /\ stream[ring[pos + 1]] /\ \A i \in 1 .. pos : ~ stream[ring[i]]
        BY <1>1, <2>4, <3>2 DEF ReadOK, FirstLine
      <4>2. pos \in Nat /\ Len(ring) \in Nat /\ Head(done) \in Nat
        BY <1>1, <3>1, Sizes, SizeAssumption DEF StateT
      <4>3. pos < Len(ring') /\ pos + 1 \in 1 .. Len(ring) /\ \A i \in 1 .. pos : i \in 1 .. Len(ring)
        BY <3>1, <4>1, <4>2
      <4>4. stream[ring'[pos + 1]] /\ \A i \in 1 .. pos : ~ stream[ring'[i]]
        BY <3>1, <4>1, <4>3
      <4> QED
        BY <2>1, <2>4, <4>3, <4>4 DEF ReadOK, FirstLine
    <3>3. CASE ~At("message", "read")
      BY <2>2, <1>3, <3>3 DEF At
    <3> QED
      BY <3>2, <3>3
  <2>5. CASE Head(done) # 0 /\ ~usebuf
    <3>1. plain = 0
      BY <1>6, <2>5, HandleAppends
    <3>2. ~ (pos < 0)
      BY <1>1, SizeAssumption DEF StateT
    <3>3. ~At("message", "read")
      BY <1>1, <2>5, <3>1, <3>2 DEF ReadOK, FirstLine
    <3> QED
      BY <2>2, <1>3, <3>3 DEF At
  <2> QED
    BY <2>3, <2>4, <2>5
<1>7. CASE Call \/ Again
  <2>1. UNCHANGED <<pos, usebuf, stream, ring, buf, plain>>
    <3>1. Call => UNCHANGED <<pos, usebuf, stream, ring, buf, plain>>
      BY DEF Call, net, client, lookup
    <3>2. Again => UNCHANGED <<pos, usebuf, stream, ring, buf, plain>>
      BY DEF Again, client, lookup
    <3> QED
      BY <1>7, <3>1, <3>2
  <2>2. pc'["message"] = pc["message"]
    BY <1>1, <1>7, Still DEF Service
  <2> QED
    BY <1>2, <2>1, <2>2
<1>8. CASE UseFlag("main")
  <2>1. UNCHANGED <<pos, stream, ring, buf, plain>> /\ plain = 0 /\ usebuf' = TRUE
    BY <1>8 DEF UseFlag, net, lookup
  <2>2. pc'["message"] = pc["message"]
    BY <1>1, <1>8, Still DEF Main
  <2>3. At("message", "read") => usebuf
    <3>1. ~ (pos < 0)
      BY <1>1, SizeAssumption DEF StateT
    <3> QED
      BY <1>1, <2>1, <3>1 DEF ReadOK, FirstLine
  <2> QED
    BY <1>1, <2>1, <2>2, <2>3 DEF ReadOK, FirstLine, At
<1>9. CASE UseRoom("main")
  <2>1. UNCHANGED <<pos, usebuf, stream, ring, buf, plain>>
    BY <1>9 DEF UseRoom, net, lookup
  <2>2. pc'["message"] = pc["message"]
    BY <1>1, <1>9, Still DEF Main
  <2> QED
    BY <1>2, <2>1, <2>2
<1>10. CASE UseFlag("message") \/ UseRoom("message")
  <2>1. Goto("message", "room") \/ Goto("message", "idle")
    BY <1>10 DEF UseFlag, UseRoom
  <2> QED
    BY <1>1, <1>3, <2>1, GoMessage DEF StateT
<1>11. CASE Take
  <2>1. Head(box) \in {"connect", "receive", "close"}
    BY <1>1, <1>11, HeadTailProperties DEF QueueT, Take
  <2>2. Goto("message", "flag") \/ Goto("message", "size") \/ Goto("message", "idle")
    BY <1>11, <2>1 DEF Take
  <2> QED
    BY <1>1, <1>3, <2>2, GoMessage DEF StateT
<1>12. CASE Scan
  <2>1. UNCHANGED <<usebuf>>
    BY <1>12 DEF Scan, client
  <2> QED
    BY <1>3, <1>12, <2>1, ScanFinds DEF ReadOK
<1>13. CASE Size \/ Close \/ Resolve \/ Drain \/ Copy
  <2>1. \/ Goto("message", "size") \/ Goto("message", "close") \/ Goto("message", "resolve")
        \/ Goto("message", "scan") \/ Goto("message", "idle")
    BY <1>13 DEF Size, Close, Resolve, Drain, Copy
  <2> QED
    BY <1>1, <1>3, <2>1, GoMessage DEF StateT
<1> QED
  BY <1>4, <1>5, <1>6, <1>7, <1>8, <1>9, <1>10, <1>11, <1>12, <1>13
     DEF Next, Asio, Service, Message, Main

\* A line appended to the bytes that were read is their end.
LEMMA LineEnds ==
  ASSUME NEW g \in Bytes, NEW s \in Bytes, NEW p \in Nat, p + 1 <= Len(s),
         NEW f, f[s[p + 1]], \A i \in 1 .. p : ~ f[s[i]]
  PROVE  LET h == g \o SubSeq(s, 1, p + 1)
         IN  /\ Len(h) > p /\ f[h[Len(h)]]
             /\ \A i \in Len(h) - p .. Len(h) - 1 : ~ f[h[i]]
<1>1. PICK x \in Bytes : x = SubSeq(s, 1, p + 1) /\ Len(x) = p + 1 /\ \A i \in 1 .. p + 1 : x[i] = s[i]
  <2>1. PICK k \in Nat : k = p + 1 /\ k <= Len(s)
    OBVIOUS
  <2>2. /\ SubSeq(s, 1, k) \in Bytes /\ Len(SubSeq(s, 1, k)) = k
        /\ \A i \in 1 .. k : SubSeq(s, 1, k)[i] = s[i]
    BY <2>1, Prefix
  <2> QED
    BY <2>1, <2>2
<1>2. PICK h \in Bytes : h = g \o x
  BY ConcatProperties DEF Bytes
<1>3. Len(h) = Len(g) + p + 1 /\ Len(g) \in Nat
  BY <1>1, <1>2, ConcatProperties DEF Bytes
<1>4. \A i \in 1 .. Len(h) : i > Len(g) => h[i] = x[i - Len(g)]
  BY <1>1, <1>2, <1>3, ConcatProperties DEF Bytes
<1>5. Len(h) > p /\ f[h[Len(h)]]
  <2>1. Len(h) \in 1 .. Len(h) /\ Len(h) > Len(g) /\ Len(h) - Len(g) = p + 1 /\ p + 1 \in 1 .. p + 1 /\ Len(h) > p
    BY <1>3
  <2>2. h[Len(h)] = s[p + 1]
    BY <1>1, <1>4, <2>1
  <2> QED
    BY <2>1, <2>2
<1>6. ASSUME NEW i \in Len(h) - p .. Len(h) - 1
      PROVE  ~ f[h[i]]
  <2>1. i \in 1 .. Len(h) /\ i > Len(g) /\ i - Len(g) \in 1 .. p /\ i - Len(g) \in 1 .. p + 1
    BY <1>3
  <2>2. h[i] = s[i - Len(g)]
    BY <1>1, <1>4, <2>1
  <2> QED
    BY <2>1, <2>2
<1> QED
  BY <1>1, <1>2, <1>5, <1>6

\* What Read has taken is one line.
LEMMA LineKeeps ==
  ASSUME RcvInv, calm, Next, calm'
  PROVE  LineRead'
<1>1. BytesT /\ QueueT /\ StateT /\ ReadOK /\ LineRead
  BY Parts DEF RcvInv, CalmInv
<1>2. CASE pc'["message"] = pc["message"] /\ UNCHANGED <<got, pos, stream>>
  BY <1>1, <1>2 DEF LineRead, At
<1>3. CASE pc'["message"] # "resolve"
  BY <1>3 DEF LineRead, At
<1>4. CASE Break \/ Asio \/ Service \/ Main
  <2>1. UNCHANGED <<got, pos, stream>>
    <3>1. Break \/ Call => UNCHANGED <<got, pos, stream>>
      BY DEF Break, Call, net, lookup
    <3>2. Complete => UNCHANGED <<got, pos, stream>>
      BY DEF Complete, lookup
    <3>3. Abort => UNCHANGED <<got, pos, stream>>
      BY DEF Abort, lookup
    <3>4. Handle => UNCHANGED <<got, pos, stream>>
      BY DEF Handle, lookup
    <3>5. Again => UNCHANGED <<got, pos, stream>>
      BY DEF Again, lookup
    <3>6. UseFlag("main") => UNCHANGED <<got, pos, stream>>
      BY DEF UseFlag, net, lookup
    <3>7. UseRoom("main") => UNCHANGED <<got, pos, stream>>
      BY DEF UseRoom, net, lookup
    <3> QED
      BY <1>4, <3>1, <3>2, <3>3, <3>4, <3>5, <3>6, <3>7 DEF Asio, Service, Main
  <2>2. pc'["message"] = pc["message"]
    BY <1>1, <1>4, Still
  <2> QED
    BY <1>2, <2>1, <2>2
<1>5. CASE Drain
  <2>1. /\ usebuf /\ pos \in Nat /\ pos + 1 <= Len(ring) /\ got' = got \o SubSeq(ring, 1, pos + 1)
        /\ UNCHANGED <<stream, pos>>
    BY <1>5, DrainTakes
  <2>2. stream[ring[pos + 1]] /\ \A i \in 1 .. pos : ~ stream[ring[i]]
    BY <1>1, <1>5, <2>1 DEF Drain, ReadOK, FirstLine
  <2>3. PICK h : h = got \o SubSeq(ring, 1, pos + 1)
    OBVIOUS
  <2>4. /\ Len(h) > pos /\ stream[h[Len(h)]]
        /\ \A i \in Len(h) - pos .. Len(h) - 1 : ~ stream[h[i]]
    BY <1>1, <2>1, <2>2, <2>3, Sizes, LineEnds
  <2> QED
    BY <2>1, <2>3, <2>4 DEF LineRead
<1>6. CASE Copy
  <2>1. /\ ~usebuf /\ pos \in Nat /\ plain = pos + 1 /\ got' = got \o SubSeq(buf, 1, plain)
        /\ UNCHANGED <<stream, pos>>
    BY <1>6, CopyTakes
  <2>2. stream[buf[pos + 1]] /\ (\A i \in 1 .. pos : ~ stream[buf[i]]) /\ pos + 1 <= Len(buf)
    BY <1>1, <1>6, <2>1, Sizes DEF Copy, ReadOK, FirstLine
  <2>3. PICK h : h = got \o SubSeq(buf, 1, pos + 1)
    OBVIOUS
  <2>4. /\ Len(h) > pos /\ stream[h[Len(h)]]
        /\ \A i \in Len(h) - pos .. Len(h) - 1 : ~ stream[h[i]]
    BY <1>1, <2>1, <2>2, <2>3, Sizes, LineEnds
  <2> QED
    BY <2>1, <2>3, <2>4 DEF LineRead
<1>7. CASE Take
  <2>1. Head(box) \in {"connect", "receive", "close"}
    BY <1>1, <1>7, HeadTailProperties DEF QueueT, Take
  <2>2. Goto("message", "flag") \/ Goto("message", "size") \/ Goto("message", "idle")
    BY <1>7, <2>1 DEF Take
  <2> QED
    BY <1>1, <1>3, <2>2, GoMessage DEF StateT
<1>8. CASE Scan
  <2>1. Goto("message", "close") \/ Goto("message", "read") \/ Goto("message", "idle")
    BY <1>8 DEF Scan, Found, Nothing
  <2> QED
    BY <1>1, <1>3, <2>1, GoMessage DEF StateT
<1>9. CASE UseFlag("message") \/ UseRoom("message") \/ Size \/ Close \/ Resolve
  <2>1. \/ Goto("message", "room") \/ Goto("message", "idle") \/ Goto("message", "scan")
        \/ Goto("message", "size") \/ Goto("message", "close")
    BY <1>9 DEF UseFlag, UseRoom, Size, Close, Resolve
  <2> QED
    BY <1>1, <1>3, <2>1, GoMessage DEF StateT
<1> QED
  BY <1>4, <1>5, <1>6, <1>7, <1>8, <1>9 DEF Next, Message

\* A prefix of no bytes.
LEMMA NoBytes ==
  ASSUME NEW s
  PROVE  SubSeq(s, 1, 0) = << >>
OBVIOUS

\* The bytes stay in order on their way.
LEMMA FlowKeeps ==
  ASSUME RcvInv, calm, Next, calm'
  PROVE  Flow'
<1>1. BytesT /\ QueueT /\ StateT /\ Token /\ RoomOK /\ DoneOK
  BY Parts DEF RcvInv, CalmInv
<1>2. got \o ring \o SubSeq(buf, 1, plain) \o Pending = Upto(taken)
  BY DEF RcvInv, CalmInv, Flow, Upto
<1>3. SUFFICES got' \o ring' \o SubSeq(buf', 1, plain') \o Pending' = Upto(taken')
  BY DEF Flow, Upto
<1>4. CASE UNCHANGED <<got, ring, buf, plain, done, taken>>
  BY <1>2, <1>4 DEF Pending
<1>t. got \in Bytes /\ ring \in Bytes /\ buf \in Bytes /\ taken \in Nat /\ << >> \in Bytes
      /\ SubSeq(buf, 1, plain) \in Bytes
  BY <1>1, Sizes, Prefix DEF Bytes
<1>r. PICK g \in Bytes, r \in Bytes : g = got /\ r = ring
  BY <1>t
<1>5. CASE Complete
  <2>1. PICK k \in 1 .. Pack : done' = Append(done, k) /\ buf' = Overwrite(k) /\ taken' = taken + k
    BY <1>5 DEF Complete
  <2>2. reads > 0 /\ plain = 0 /\ UNCHANGED <<plain, got, ring>>
    BY <1>5 DEF Complete, client
  <2>3. done = << >> /\ done' = <<k>> /\ done' # << >> /\ Head(done') = k
    BY <1>1, <2>1, <2>2, OneAtMost
  <2>4. got \o ring = Upto(taken)
    <3>1. Pending = << >> /\ SubSeq(buf, 1, plain) = << >>
      BY <2>2, <2>3, NoBytes DEF Pending
    <3>2. got \o ring \in Bytes
      BY <1>t, Joins
    <3>3. (got \o ring) \o << >> = got \o ring
      BY <3>2, Joins
    <3> QED
      BY <1>2, <3>1, <3>3
  <2>5. PICK b \in Bytes : b = buf' /\ k <= Len(b) /\ \A i \in 1 .. k : b[i] = taken + i
    <3>1. PICK m \in Nat : m = (IF k > Len(buf) THEN k ELSE Len(buf)) /\ k <= m
      BY <1>1, Sizes
    <3>2. buf' = [i \in 1 .. m |-> IF i <= k THEN taken + i ELSE buf[i]]
      BY <2>1, <3>1 DEF Overwrite
    <3>3. Len(buf') = m
      BY <3>2
    <3>4. \A i \in 1 .. m : (IF i <= k THEN taken + i ELSE buf[i]) \in Nat
      <4> TAKE i \in 1 .. m
      <4>1. CASE i <= k
        BY <4>1, <1>t
      <4>2. CASE ~ i <= k
        <5>1. i \in 1 .. Len(buf)
          BY <1>1, <3>1, <4>2, Sizes
        <5> QED
          BY <1>t, <4>2, <5>1 DEF Bytes
      <4> QED
        BY <4>1, <4>2
    <3>5. buf' \in Bytes
      BY <3>2, <3>4 DEF Bytes
    <3>6. \A i \in 1 .. k : i \in 1 .. m /\ i <= k
      BY <3>1
    <3>7. \A i \in 1 .. k : buf'[i] = taken + i
      BY <3>2, <3>6
    <3> QED
      BY <3>1, <3>3, <3>5, <3>7
  <2>6. PICK x \in Bytes : x = SubSeq(b, 1, k) /\ Len(x) = k /\ \A i \in 1 .. k : x[i] = taken + i
    <3>1. k \in Nat
      OBVIOUS
    <3>2. /\ SubSeq(b, 1, k) \in Bytes /\ Len(SubSeq(b, 1, k)) = k
          /\ \A i \in 1 .. k : SubSeq(b, 1, k)[i] = b[i]
      BY <2>5, <3>1, Prefix
    <3> QED
      BY <2>5, <3>2
  <2>7. Upto(taken) \o x = Upto(taken + k)
    <3>1. k \in Nat
      OBVIOUS
    <3> QED
      BY <1>t, <2>6, <3>1, UptoMore
  <2>8. Pending' = x
    BY <2>3, <2>5, <2>6 DEF Pending
  <2>9. SubSeq(buf', 1, plain') = << >>
    BY <2>2, NoBytes
  <2>10. got' \o ring' = Upto(taken) /\ Upto(taken) \o << >> = Upto(taken)
    <3>1. got \o ring \in Bytes
      BY <1>t, Joins
    <3> QED
      BY <2>2, <2>4, <3>1, Joins
  <2> QED
    BY <2>1, <2>7, <2>8, <2>9, <2>10
<1>6. CASE Abort
  <2>1. done' = Append(done, 0) /\ reads > 0 /\ UNCHANGED <<got, ring, buf, plain, taken>>
    BY <1>6 DEF Abort, client
  <2>2. done = << >> /\ done' = <<0>> /\ done' # << >> /\ Head(done') = 0
    BY <1>1, <2>1, OneAtMost
  <2>3. Pending = << >> /\ Pending' = << >>
    BY <2>2, NoBytes DEF Pending
  <2> QED
    BY <1>2, <2>1, <2>3
<1>7. CASE Handle
  <2>1. UNCHANGED <<got, buf, taken>> /\ done # << >> /\ done' = Tail(done)
    BY <1>7 DEF Handle
  <2>2. done' = << >> /\ Pending' = << >>
    <3>1. done' = << >>
      BY <1>1, <2>1, OneAtMost
    <3> QED
      BY <3>1 DEF Pending
  <2>3. Pending = SubSeq(buf, 1, Head(done))
    BY <2>1 DEF Pending
  <2>4. CASE Head(done) = 0
    <3>1. UNCHANGED <<ring, plain>>
      BY <1>7, <2>4 DEF Handle
    <3>2. Pending = << >>
      BY <2>3, <2>4, NoBytes
    <3> QED
      BY <1>2, <2>1, <2>2, <3>1, <3>2
  <2>5. CASE Head(done) # 0
    <3>1. plain = 0 /\ SubSeq(buf, 1, plain) = << >> /\ Head(done) \in Nat /\ Head(done) <= Len(buf)
      BY <1>7, <2>5, HandleAppends, NoBytes
    <3>2. PICK x \in Bytes : x = Pending
      BY <1>t, <2>3, <3>1, Prefix
    <3>3. (got \o ring) \o x = Upto(taken)
      <4>1. got \o ring \in Bytes
        BY <1>t, Joins
      <4>2. got \o ring \o << >> = got \o ring
        BY <4>1, Joins
      <4> QED
        BY <1>2, <3>1, <3>2, <4>2
    <3>4. (got \o ring) \o x \in Bytes
      <4>1. got \o ring \in Bytes
        BY <1>t, Joins
      <4> QED
        BY <3>2, <4>1, Joins
    <3>5. CASE usebuf
      <4>1. ring' = ring \o x /\ plain' = 0
        BY <1>7, <2>3, <2>5, <3>1, <3>2, <3>5, HandleAppends
      <4>2. SubSeq(buf', 1, plain') = << >>
        BY <4>1, NoBytes
      <4>3. got \o (ring \o x) = (got \o ring) \o x
        <5>1. (g \o r) \o x = g \o (r \o x)
          BY Assoc, Zenon
        <5> QED
          BY <1>r, <5>1
      <4>4. ((got \o ring) \o x) \o << >> = (got \o ring) \o x
        BY <3>4, Joins
      <4>5. got' \o ring' = Upto(taken) /\ Upto(taken) \o << >> = Upto(taken)
        BY <2>1, <3>3, <4>1, <4>3, <4>4
      <4> QED
        BY <2>1, <2>2, <4>2, <4>5
    <3>6. CASE ~usebuf
      <4>1. ring' = ring /\ plain' = Head(done)
        BY <1>7, <2>5, <3>6, HandleAppends
      <4>2. SubSeq(buf', 1, plain') = x
        BY <2>1, <2>3, <3>2, <4>1
      <4>3. ((got \o ring) \o x) \o << >> = (got \o ring) \o x
        BY <3>4, Joins
      <4> QED
        BY <2>1, <2>2, <3>3, <4>1, <4>2, <4>3
    <3> QED
      BY <3>5, <3>6
  <2> QED
    BY <2>4, <2>5
<1>8. CASE Drain
  <2>1. /\ pos \in Nat /\ pos + 1 <= Len(ring) /\ got' = got \o SubSeq(ring, 1, pos + 1)
        /\ ring' = SubSeq(ring, pos + 2, Len(ring)) /\ UNCHANGED <<buf, done, plain, taken>>
    BY <1>8, DrainTakes
  <2>2. PICK x \in Bytes, y \in Bytes :
           x = SubSeq(ring, 1, pos + 1) /\ y = SubSeq(ring, pos + 2, Len(ring)) /\ x \o y = ring
    <3>1. PICK k \in Nat : k = pos + 1 /\ k + 1 = pos + 2 /\ k <= Len(r)
      BY <1>r, <2>1
    <3>2. /\ SubSeq(r, 1, k) \in Bytes /\ SubSeq(r, k + 1, Len(r)) \in Bytes
          /\ SubSeq(r, 1, k) \o SubSeq(r, k + 1, Len(r)) = r
      BY <3>1, Prefix, Rest
    <3> QED
      BY <1>r, <3>1, <3>2
  <2>3. (got \o x) \o y = got \o ring
    <3>1. (g \o x) \o y = g \o (x \o y)
      BY Assoc, Zenon
    <3> QED
      BY <1>r, <2>2, <3>1
  <2>4. got' \o ring' = got \o ring
    BY <2>1, <2>2, <2>3
  <2>5. Pending' = Pending
    BY <2>1 DEF Pending
  <2> QED
    BY <1>2, <2>1, <2>4, <2>5
<1>9. CASE Copy
  <2>1. /\ plain' = 0 /\ ring = << >> /\ got' = got \o SubSeq(buf, 1, plain)
        /\ UNCHANGED <<buf, done, ring, taken>>
    BY <1>9, CopyTakes
  <2>2. PICK x \in Bytes : x = SubSeq(buf, 1, plain)
    BY <1>t
  <2>3. got \o x \in Bytes /\ (got \o x) \o << >> = got \o x /\ got \o << >> = got
    BY <1>t, Joins
  <2>4. got' \o ring' \o SubSeq(buf', 1, plain') = got \o ring \o SubSeq(buf, 1, plain)
    <3>1. SubSeq(buf', 1, plain') = << >>
      BY <2>1, NoBytes
    <3> QED
      BY <2>1, <2>2, <2>3, <3>1
  <2>5. Pending' = Pending
    BY <2>1 DEF Pending
  <2> QED
    BY <1>2, <2>1, <2>4, <2>5
<1>10. Break \/ Call => UNCHANGED <<got, ring, buf, plain, done, taken>>
  BY DEF Break, Call, net, client
<1>11. Again => UNCHANGED <<got, ring, buf, plain, done, taken>>
  BY DEF Again, client
<1>12. Take => UNCHANGED <<got, ring, buf, plain, done, taken>>
  BY DEF Take, net, client
<1>13. Size => UNCHANGED <<got, ring, buf, plain, done, taken>>
  BY DEF Size, net, client
<1>14. Scan => UNCHANGED <<got, ring, buf, plain, done, taken>>
  BY DEF Scan, net, client
<1>15. Close \/ Resolve => UNCHANGED <<got, ring, buf, plain, done, taken>>
  BY DEF Close, Resolve, net, client
<1>16. \A t \in {"main", "message"} : UseFlag(t) => UNCHANGED <<got, ring, buf, plain, done, taken>>
  BY DEF UseFlag, net
<1>17. \A t \in {"main", "message"} : UseRoom(t) => UNCHANGED <<got, ring, buf, plain, done, taken>>
  BY DEF UseRoom, net
<1> QED
  BY <1>4, <1>5, <1>6, <1>7, <1>8, <1>9, <1>10, <1>11, <1>12, <1>13, <1>14, <1>15, <1>16, <1>17
     DEF Next, Asio, Service, Message, Main

-----------------------------------------------------------------------------
LEMMA RcvInit == Init => RcvInv
<1> SUFFICES ASSUME Init PROVE RcvInv
  OBVIOUS
<1>1. /\ stream \in [1 .. NumBytes -> BOOLEAN] /\ taken = 0 /\ reads = 1 /\ buf = << >> /\ done = << >>
      /\ plain = 0 /\ usebuf = FALSE /\ room = 0 /\ ring = << >> /\ paused = FALSE
      /\ ec = FALSE /\ mode = FALSE /\ n = 0 /\ pos = 0 /\ got = << >>
      /\ open = TRUE /\ broken = FALSE /\ noticed = FALSE /\ calm = TRUE
  BY DEF Init
<1>2. /\ pc \in Pc /\ pc["message"] = "idle" /\ pc["service"] = "idle" /\ box \in {<< >>, <<"connect">>}
      /\ box = << >> \/ pc["main"] = "done"
  BY DEF Init, Pc
<1>3. TypeOK
  <2>1. BytesT
    <3>1. << >> \in Seq(1 .. taken) /\ Len(<< >>) = 0
      BY EmptySeq
    <3> QED
      BY <1>1, <3>1, BytesAssumption, SizeAssumption DEF BytesT
  <2>2. QueueT
    <3>1. << >> \in Seq(0 .. Pack) /\ reads \in Nat
      BY <1>1
    <3>2. box \in Seq({"connect", "receive", "close"}) /\ Len(box) <= 1
      <4>1. CASE box = << >>
        BY <4>1
      <4>2. CASE box = <<"connect">>
        BY <4>2
      <4> QED
        BY <1>2, <4>1, <4>2
    <3>3. Len(box) <= BoxSize
      BY <3>2, SizeAssumption
    <3> QED
      BY <1>1, <3>1, <3>2, <3>3 DEF QueueT
  <2>3. StateT /\ FlagT
    <3>1. 0 \in -1 .. Cap /\ 0 \in 0 .. Cap
      BY SizeAssumption
    <3> QED
      BY <1>1, <1>2, <3>1 DEF StateT, FlagT
  <2> QED
    BY <2>1, <2>2, <2>3, Parts
<1>4. Token
  <2>1. reads = 1 /\ Len(done) = 0 /\ 1 + 0 = 1
    BY <1>1
  <2> QED
    BY <1>1, <1>2, <2>1 DEF Token, At
<1>5. Setup
  <2>1. CASE box = << >>
    BY <1>2, <2>1 DEF Setup, At
  <2>2. CASE box = <<"connect">>
    <3>1. \A i \in 1 .. Len(box) : i = 1
      BY <2>2
    <3> QED
      BY <1>1, <1>2, <2>2, <3>1 DEF Setup, At
  <2> QED
    BY <1>2, <2>1, <2>2
<1>6. RoomOK
  <2>1. room # Cap
    BY <1>1, SizeAssumption
  <2> QED
    BY <1>1, <2>1 DEF RoomOK
<1>7. DoneOK /\ Watched
  BY <1>1 DEF DoneOK, Watched
<1>8. ScanOK /\ ReadOK /\ LineRead
  BY <1>2 DEF ScanOK, ReadOK, LineRead, At
<1>9. Flow
  <2>1. Upto(0) = << >>
    BY DEF Upto
  <2>2. SubSeq(buf, 1, plain) = << >> /\ Pending = << >> /\ << >> \in Bytes
    BY <1>1, NoBytes DEF Pending, Bytes
  <2>3. << >> \o << >> = << >>
    BY <2>2, Joins
  <2> QED
    BY <1>1, <2>1, <2>2, <2>3 DEF Flow, Upto
<1> QED
  BY <1>3, <1>4, <1>5, <1>6, <1>7, <1>8, <1>9 DEF RcvInv, CalmInv

LEMMA RcvStep == RcvInv /\ [CalmNext]_vars => RcvInv'
<1>1. CASE UNCHANGED vars
  <2>1. TypeOK' <=> TypeOK
    BY <1>1 DEF vars, net, client, lookup, TypeOK
  <2>2. (Token' <=> Token) /\ (Setup' <=> Setup)
    BY <1>1 DEF vars, net, client, lookup, Token, Setup, At
  <2>3. (RoomOK' <=> RoomOK) /\ (DoneOK' <=> DoneOK)
    BY <1>1 DEF vars, net, client, lookup, RoomOK, DoneOK, Full
  <2>4. (Watched' <=> Watched) /\ (ScanOK' <=> ScanOK)
    BY <1>1 DEF vars, net, client, lookup, Watched, ScanOK, At
  <2>5. (ReadOK' <=> ReadOK) /\ (LineRead' <=> LineRead)
    BY <1>1 DEF vars, net, client, lookup, ReadOK, FirstLine, LineRead, At
  <2>6. Flow' <=> Flow
    BY <1>1 DEF vars, net, client, lookup, Flow, Pending
  <2>7. calm' = calm
    BY <1>1 DEF vars
  <2> QED
    BY <2>1, <2>2, <2>3, <2>4, <2>5, <2>6, <2>7 DEF RcvInv, CalmInv
<1>2. ASSUME RcvInv, calm, Next PROVE RcvInv'
  <2>1. TypeOK'
    BY <1>2, TypeKeeps
  <2>2. calm' => CalmInv'
    BY <1>2, TokenKeeps, SetupKeeps, RoomKeeps, DoneKeeps, WatchedKeeps, ScanKeeps, ReadKeeps,
       FlowKeeps, LineKeeps DEF CalmInv
  <2> QED
    BY <2>1, <2>2 DEF RcvInv
<1> QED
  BY <1>1, <1>2 DEF CalmNext

LEMMA RcvAlways == CalmSpec => []RcvInv
BY RcvInit, RcvStep, PTL DEF CalmSpec

(***************************************************************************)
(* The counters, the buffers and the threads' places keep their types.     *)
(***************************************************************************)
THEOREM Types == CalmSpec => []TypeOK
<1>1. RcvInv => TypeOK
  BY DEF RcvInv
<1> QED
  BY <1>1, RcvAlways, PTL

(***************************************************************************)
(* No byte is lost, doubled or overtaken between the network and the       *)
(* protocol, for any lengths of the reads and any number of pauses.        *)
(***************************************************************************)
THEOREM EveryByteOnce == CalmSpec => []BytesKept
<1>1. RcvInv => BytesKept
  BY DEF RcvInv, CalmInv, Flow, BytesKept
<1> QED
  BY <1>1, RcvAlways, PTL

(***************************************************************************)
(* Resolve is given whole lines, one at a time.                            *)
(***************************************************************************)
THEOREM OneLineAtATime == CalmSpec => []WholeLine
<1>1. RcvInv => WholeLine
  BY DEF RcvInv, CalmInv, LineRead, WholeLine, At
<1> QED
  BY <1>1, RcvAlways, PTL

(***************************************************************************)
(* The pause never sticks: with all threads at rest a read is outstanding. *)
(***************************************************************************)
THEOREM PauseEnds == CalmSpec => []Listening
<1>1. RcvInv => Listening
  <2> SUFFICES ASSUME RcvInv, calm, open, ~broken, box = << >>, done = << >>,
                      pc["message"] = "idle", pc["service"] = "idle"
               PROVE  reads > 0
    BY DEF Listening
  <2>1. QueueT /\ Token /\ Watched
    BY Parts DEF RcvInv, CalmInv
  <2>2. ~paused
    <3>1. Len(box) = 0
      OBVIOUS
    <3>2. ~ \E i \in 1 .. Len(box) : box[i] = "receive"
      BY <3>1
    <3> QED
      BY <2>1, <3>2 DEF Watched, At
  <2>3. reads + Len(done) # 0
    BY <2>1, <2>2 DEF Token, At
  <2> QED
    BY <2>1, <2>3, OneAtMost
<1> QED
  BY <1>1, RcvAlways, PTL
=============================================================================
