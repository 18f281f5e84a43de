---------------------------- MODULE FinderProofs ----------------------------
(***************************************************************************)
(* Proofs about Finder, for any number of frames and frame numbers.        *)
(***************************************************************************)
EXTENDS Finder, SequenceTheorems, TLAPS

\* How many frames the thread has taken from its queue.
Taken == Len(fno) - Len(que)

\* The queue holds the frames not taken yet, in order.
QueueOK == /\ Len(que) <= Len(fno)
           /\ \A i \in 1 .. Len(que) : que[i] = Taken + i

\* The frame in hand is the one taken last.
FrameOK == /\ frame # None => frame = Taken
           /\ pc \in {"got", "open", "shift", "fill", "match"} => frame # None
           /\ pc \in {"loop", "park", "wait", "take", "idle", "doubt", "gone"} => frame = None

\* frmnow_ is the frame before the one in hand, frmprev_ the one before that.
WindowOK ==
  /\ now # None => now = IF frame # None /\ pc # "match" THEN Taken - 1 ELSE Taken
  /\ prev # None /\ pc # "fill" => now # None /\ now = prev + 1
  /\ pc = "fill" => prev = now
  /\ pc = "match" => now = frame
  /\ pc = "resetnow" => prev = None
  /\ pc \in {"open", "doubt"} => prev = None /\ now = None
  /\ now = None => can = {}

\* last_fno_ is the number of frmnow_.
LastOK ==
  /\ now # None /\ pc # "fill" => last = fno[now]
  /\ pc = "fill" => last = fno[frame]
  /\ now = None /\ pc \in {"loop", "park", "wait", "take", "idle", "got", "gone"} => last = INT_MAX
  /\ pc = "shift" /\ now # None => last <= fno[frame]

\* The frames in the window belong to the sequence opened last.
SeqOK ==
  /\ \A f \in 1 .. NumFrames :
       /\ seq[f] <= opened
       /\ seq[f] # 0 => f <= Taken
       /\ seq[f] # 0 /\ pc \notin {"fill", "match"} => f # frame
       /\ seq[f] = opened /\ opened # 0 /\ (now # None \/ pc = "fill") => fno[f] <= last
       /\ pc = "shift" /\ now = None => seq[f] # opened
  /\ pc \in {"shift", "fill"} \/ now # None => opened # 0
  /\ pc = "fill" => seq[frame] = opened
  /\ now # None => seq[now] = opened
  /\ prev # None => seq[prev] = opened

\* The numbers of a sequence do not go back.
NumbersRise ==
  \A f, g \in 1 .. NumFrames :
    seq[f] = seq[g] /\ seq[f] # 0 /\ f < g => fno[f] <= fno[g]

\* The followed candidate and the objects stay within a sequence.
TracksOK ==
  /\ \A f \in can : seq[f] = opened /\ opened # 0
  /\ \A o \in objects : Enough(o) /\ \A f, g \in o : seq[f] = seq[g] /\ seq[f] # 0

FInv == /\ TypeOK /\ QueueOK /\ FrameOK /\ WindowOK
        /\ LastOK /\ SeqOK /\ NumbersRise /\ TracksOK

-----------------------------------------------------------------------------
\* Every frame has a number.
LEMMA Numbered ==
  ASSUME TypeOK
  PROVE  \A f \in Given : fno[f] \in 0 .. MaxFno
<1>1. fno \in Seq(0 .. MaxFno)
  BY DEF TypeOK
<1> QED
  BY <1>1, ElementOfSeq DEF Given

\* The constructor establishes the invariant.
LEMMA InitInv == Init => FInv
<1> SUFFICES ASSUME Init PROVE FInv
  OBVIOUS
<1>1. TypeOK
  BY BoundsAssumption DEF Init, TypeOK, Given, Pcs, None, INT_MAX
<1>2. QueueOK /\ FrameOK /\ WindowOK /\ LastOK /\ SeqOK /\ NumbersRise /\ TracksOK
  BY DEF Init, QueueOK, Taken, FrameOK, WindowOK, LastOK, SeqOK, NumbersRise, TracksOK, None
<1> QED
  BY <1>1, <1>2 DEF FInv

\* A step that only moves the program counter or the main thread, and to a place
\* where the invariant asks for nothing more.
LEMMA QuietStep ==
  ASSUME FInv, UNCHANGED <<input, frame, last, prev, now, points, history>>,
         pc' \in Pcs, ask' \in {"off", "prev", "now", "over", "destroy"}, heard' \in 0 .. NumFrames,
         \/ pc' = pc
         \/ pc \in {"loop", "park", "wait"} /\ pc' \in {"park", "wait", "take", "gone"}
         \/ pc = "idle" /\ last # INT_MAX /\ pc' = "complete"
         \/ pc = "idle" /\ last = INT_MAX /\ pc' = "loop"
         \/ pc = "got" /\ fno[frame] >= last /\ pc' = "shift"
         \/ pc = "got" /\ fno[frame] < last /\ last # INT_MAX /\ pc' = "complete"
         \/ pc = "got" /\ last = INT_MAX /\ pc' = "open"
  PROVE  FInv'
<1> USE DEF FInv, input, points, history
<1>1. TypeOK'
  BY DEF TypeOK, Given
<1>2. QueueOK' /\ NumbersRise' /\ TracksOK'
  BY DEF QueueOK, Taken, NumbersRise, TracksOK
<1>3. FrameOK'
  BY DEF FrameOK, Taken
<1>4. /\ frame \in Given \cup {None}
      /\ now \in Given \cup {None}
      /\ \A f \in Given : fno[f] \in 0 .. MaxFno
  BY Numbered DEF TypeOK
<1>5. pc = "got" => /\ fno[frame] \in 0 .. MaxFno
                    /\ fno[frame] >= last => now # None /\ last = fno[now]
                    /\ last = INT_MAX => now = None /\ prev = None
  BY <1>4, BoundsAssumption DEF FrameOK, WindowOK, LastOK, INT_MAX, None
<1>6. WindowOK'
  BY <1>5 DEF WindowOK, Taken
<1>7. LastOK'
  BY <1>5 DEF LastOK
<1>8. SeqOK'
  BY <1>5 DEF SeqOK, Taken
<1> QED
  BY <1>1, <1>2, <1>3, <1>6, <1>7, <1>8

\* NewFrame keeps the invariant: the frames taken so far keep their numbers.
LEMMA NewFrameKeeps == FInv /\ NewFrame => FInv'
<1> SUFFICES ASSUME FInv, NewFrame PROVE FInv'
  OBVIOUS
<1> USE DEF FInv
<1>0. PICK n \in 0 .. MaxFno : fno' = Append(fno, n)
  BY DEF NewFrame
<1>1. /\ fno \in Seq(0 .. MaxFno) /\ fno' \in Seq(0 .. MaxFno)
      /\ Len(fno') = Len(fno) + 1 /\ Len(fno') <= NumFrames
      /\ \A f \in Given : fno'[f] = fno[f]
      /\ que \in Seq(1 .. Len(fno')) /\ que' \in Seq(1 .. Len(fno'))
      /\ Len(que') = Len(que) + 1
      /\ que'[Len(que) + 1] = Len(fno) + 1
      /\ \A i \in 1 .. Len(que) : que'[i] = que[i]
  BY <1>0, BoundsAssumption DEF TypeOK, NewFrame, Given
<1>2. Taken' = Taken /\ Taken \in Nat /\ Taken <= Len(fno)
  BY <1>1 DEF Taken, QueueOK, TypeOK
<1>3. UNCHANGED <<frame, last, prev, now, can, objects, seq, opened, ask, heard>>
  BY DEF NewFrame, points, history, main
<1>4. pc' = pc \/ (pc = "wait" /\ pc' = "take")
  BY DEF NewFrame
<1>5. TypeOK'
  <2>1. Given \subseteq Given'
    BY <1>1 DEF Given
  <2>2. pc' \in Pcs
    BY <1>4 DEF TypeOK, Pcs
  <2>3. frame' \in Given' \cup {None} /\ prev' \in Given' \cup {None} /\ now' \in Given' \cup {None}
    BY <1>3, <2>1 DEF TypeOK
  <2>4. can' \in SUBSET Given' /\ objects' \in SUBSET SUBSET Given'
    BY <1>3, <2>1 DEF TypeOK
  <2>5. fno' \in Seq(0 .. MaxFno) /\ Len(fno') <= NumFrames /\ que' \in Seq(Given')
    BY <1>1 DEF Given
  <2>6. last' \in 0 .. INT_MAX /\ seq' \in [1 .. NumFrames -> Nat] /\ opened' \in Nat
    BY <1>3 DEF TypeOK
  <2>7. ask' \in {"off", "prev", "now", "over", "destroy"} /\ heard' \in 0 .. NumFrames
    BY <1>3 DEF TypeOK
  <2> QED
    BY <2>2, <2>3, <2>4, <2>5, <2>6, <2>7 DEF TypeOK
<1>6. QueueOK'
  <2>1. Len(que) \in Nat /\ Len(fno) \in Nat /\ Len(que) <= Len(fno)
    BY <1>1 DEF QueueOK
  <2>2. \A i \in 1 .. Len(que') : que'[i] = Taken + i
    <3>1. \A i \in 1 .. Len(que) : que'[i] = Taken + i
      BY <1>1 DEF QueueOK
    <3>2. que'[Len(que) + 1] = Taken + (Len(que) + 1)
      BY <1>1, <2>1 DEF Taken
    <3>3. \A i \in 1 .. Len(que') : i \in 1 .. Len(que) \/ i = Len(que) + 1
      BY <1>1, <2>1
    <3> QED
      BY <3>1, <3>2, <3>3
  <2> QED
    BY <1>1, <1>2, <2>1, <2>2 DEF QueueOK
<1>7. FrameOK' /\ WindowOK'
  BY <1>2, <1>3, <1>4 DEF FrameOK, WindowOK
<1>8. LastOK'
  BY <1>1, <1>3, <1>4 DEF LastOK, FrameOK, TypeOK
<1>9. \A f \in 1 .. NumFrames : seq[f] # 0 => f \in Given
  BY <1>2, <1>1, BoundsAssumption DEF SeqOK, Given
<1>10. SeqOK'
  <2>1. \A f \in 1 .. NumFrames : seq[f] # 0 => fno'[f] = fno[f]
    BY <1>1, <1>9
  <2>2. /\ pc' \in {"fill", "match"} <=> pc \in {"fill", "match"}
        /\ pc' = "fill" <=> pc = "fill"
        /\ pc' = "shift" <=> pc = "shift"
    BY <1>4
  <2> QED
    BY <1>2, <1>3, <2>1, <2>2 DEF SeqOK
<1>11. NumbersRise' /\ TracksOK'
  BY <1>1, <1>3, <1>9 DEF NumbersRise, TracksOK, TypeOK
<1> QED
  BY <1>5, <1>6, <1>7, <1>8, <1>10, <1>11

\* Taking a frame keeps the invariant: it is the one after the last taken.
LEMMA TakeKeeps == FInv /\ Take => FInv'
<1> SUFFICES ASSUME FInv, Take PROVE FInv'
  OBVIOUS
<1> USE DEF FInv, points, history, main
<1>1. UNCHANGED <<fno, last, prev, now, can, objects, seq, opened, ask, heard>> /\ pc = "take"
  BY DEF Take
<1>2. fno \in Seq(0 .. MaxFno) /\ que \in Seq(1 .. Len(fno)) /\ Taken \in Nat
  BY DEF TypeOK, Given, Taken, QueueOK
<1>3. CASE que = <<>>
  <2>1. pc' = "idle" /\ frame' = None /\ que' = que
    BY <1>3 DEF Take
  <2>2. TypeOK' /\ QueueOK' /\ FrameOK' /\ NumbersRise' /\ TracksOK'
    BY <1>1, <2>1 DEF TypeOK, Given, Pcs, QueueOK, Taken, FrameOK, NumbersRise, TracksOK
  <2>3. WindowOK' /\ LastOK' /\ SeqOK'
    BY <1>1, <2>1 DEF FrameOK, WindowOK, LastOK, SeqOK, Taken, None
  <2> QED
    BY <2>2, <2>3
<1>4. CASE que # <<>>
  <2>1. /\ pc' = "got" /\ frame' = que[1] /\ que' = Tail(que)
        /\ frame' = Taken + 1 /\ frame' \in Given
    BY <1>2, <1>4 DEF Take, QueueOK, Given
  <2>2. /\ Len(que') = Len(que) - 1 /\ que' \in Seq(Given)
        /\ \A i \in 1 .. Len(que') : que'[i] = que[i + 1]
        /\ Taken' = Taken + 1
    BY <1>1, <1>2, <1>4, <2>1 DEF Taken, Given
  <2>3. TypeOK'
    BY <1>1, <2>1, <2>2 DEF TypeOK, Given, Pcs
  <2>4. QueueOK'
    <3>1. Len(que) \in Nat /\ Len(que') \in Nat /\ Len(que) <= Len(fno)
      BY <1>2, <2>2, <1>1 DEF QueueOK, TypeOK
    <3>2. \A i \in 1 .. Len(que') : que'[i] = Taken' + i
      BY <1>2, <2>2, <3>1 DEF QueueOK
    <3> QED
      BY <1>1, <1>2, <2>2, <3>1, <3>2 DEF QueueOK
  <2>5. FrameOK' /\ NumbersRise' /\ TracksOK'
    BY <1>1, <1>2, <2>1, <2>2 DEF FrameOK, NumbersRise, TracksOK, None
  <2>6. WindowOK' /\ LastOK'
    BY <1>1, <1>2, <2>1, <2>2 DEF FrameOK, WindowOK, LastOK, None
  <2>7. SeqOK'
    BY <1>1, <1>2, <2>1, <2>2 DEF SeqOK, TypeOK
  <2> QED
    BY <2>3, <2>4, <2>5, <2>6, <2>7
<1> QED
  BY <1>3, <1>4

\* Judging the candidates keeps the invariant: an object is a candidate whose
\* points are of the open sequence.
LEMMA CompleteKeeps == FInv /\ Complete => FInv'
<1> SUFFICES ASSUME FInv, Complete PROVE FInv'
  OBVIOUS
<1> USE DEF FInv, input, history, main
<1>1. /\ UNCHANGED <<fno, que, frame, last, prev, now, seq, opened, ask, heard>>
      /\ pc = "complete" /\ pc' = "resetprev"
      /\ \/ Enough(can) /\ objects' = objects \cup {can} /\ can' = can
         \/ objects' = objects /\ can' = {}
  BY DEF Complete
<1>2. TypeOK'
  BY <1>1 DEF TypeOK, Given, Pcs
<1>3. QueueOK' /\ FrameOK' /\ NumbersRise' /\ LastOK' /\ SeqOK'
  BY <1>1 DEF QueueOK, Taken, FrameOK, NumbersRise, LastOK, SeqOK
<1>4. WindowOK'
  BY <1>1 DEF WindowOK, Taken
<1>5. TracksOK'
  BY <1>1 DEF TracksOK, Enough
<1> QED
  BY <1>2, <1>3, <1>4, <1>5

\* Forgetting the window and the candidates keeps the invariant.
LEMMA ResetKeeps == FInv /\ (ResetPrev \/ ResetNow \/ Doubt) => FInv'
<1> SUFFICES ASSUME FInv, ResetPrev \/ ResetNow \/ Doubt PROVE FInv'
  OBVIOUS
<1> USE DEF FInv, input, points, history, main
<1>1. UNCHANGED <<fno, que, frame, objects, seq, opened, ask, heard>>
  BY DEF ResetPrev, ResetNow, Doubt
<1>2. QueueOK' /\ NumbersRise'
  BY <1>1 DEF QueueOK, Taken, NumbersRise
<1>3. CASE ResetPrev
  <2>1. UNCHANGED <<last, now, can>> /\ prev' = None /\ pc = "resetprev" /\ pc' = "resetnow"
    BY <1>3 DEF ResetPrev
  <2>2. TypeOK' /\ FrameOK' /\ WindowOK' /\ TracksOK'
    BY <1>1, <2>1 DEF TypeOK, Given, Pcs, FrameOK, WindowOK, TracksOK, Taken
  <2>3. LastOK' /\ SeqOK'
    BY <1>1, <2>1 DEF LastOK, SeqOK, Taken
  <2> QED
    BY <1>2, <2>2, <2>3
<1>4. CASE ResetNow
  <2>1. /\ UNCHANGED <<last, prev>> /\ now' = None /\ can' = {} /\ pc = "resetnow"
        /\ pc' = IF frame = None THEN "doubt" ELSE "open"
    BY <1>4 DEF ResetNow
  <2>2. TypeOK' /\ FrameOK' /\ WindowOK' /\ TracksOK'
    BY <1>1, <2>1 DEF TypeOK, Given, Pcs, FrameOK, WindowOK, TracksOK, Taken
  <2>3. LastOK' /\ SeqOK'
    BY <1>1, <2>1 DEF LastOK, SeqOK, Taken, WindowOK
  <2> QED
    BY <1>2, <2>2, <2>3
<1>5. CASE Doubt
  <2>1. UNCHANGED <<prev, now, can>> /\ last' = INT_MAX /\ pc = "doubt" /\ pc' = "loop"
    BY <1>5 DEF Doubt
  <2>2. TypeOK' /\ FrameOK' /\ WindowOK' /\ TracksOK'
    BY <1>1, <2>1, BoundsAssumption
    DEF TypeOK, Given, Pcs, INT_MAX, FrameOK, WindowOK, TracksOK, Taken
  <2>3. LastOK' /\ SeqOK'
    BY <1>1, <2>1 DEF LastOK, SeqOK, Taken, WindowOK
  <2> QED
    BY <1>2, <2>2, <2>3
<1> QED
  BY <1>3, <1>4, <1>5

\* A new sequence keeps the invariant: no frame is in it yet.
LEMMA OpenKeeps == FInv /\ Open => FInv'
<1> SUFFICES ASSUME FInv, Open PROVE FInv'
  OBVIOUS
<1> USE DEF FInv, input, points, main
<1>1. /\ UNCHANGED <<fno, que, frame, prev, now, can, objects, seq, ask, heard>>
      /\ last' = INT_MAX /\ opened' = opened + 1 /\ opened \in Nat
      /\ pc = "open" /\ pc' = "shift"
  BY DEF Open, TypeOK
<1>2. prev = None /\ now = None /\ can = {}
  BY <1>1 DEF WindowOK
<1>3. TypeOK'
  BY <1>1, BoundsAssumption DEF TypeOK, Given, Pcs, INT_MAX
<1>4. QueueOK' /\ FrameOK' /\ WindowOK' /\ NumbersRise' /\ TracksOK'
  BY <1>1, <1>2 DEF QueueOK, Taken, FrameOK, WindowOK, NumbersRise, TracksOK
<1>5. LastOK'
  BY <1>1, <1>2 DEF LastOK
<1>6. SeqOK'
  BY <1>1, <1>2 DEF SeqOK, Taken, TypeOK
<1> QED
  BY <1>3, <1>4, <1>5, <1>6

\* Taking the frame into the open sequence keeps the invariant: its number is not
\* below those of the sequence.
LEMMA ShiftKeeps == FInv /\ Shift => FInv'
<1> SUFFICES ASSUME FInv, Shift PROVE FInv'
  OBVIOUS
<1> USE DEF FInv, input, points, main
<1>1. /\ UNCHANGED <<fno, que, frame, now, can, objects, opened, ask, heard>>
      /\ last' = fno[frame] /\ prev' = now /\ seq' = [seq EXCEPT ![frame] = opened]
      /\ pc = "shift" /\ pc' = "fill"
  BY DEF Shift
<1>2. /\ frame \in Given /\ frame \in 1 .. NumFrames /\ frame = Taken
      /\ seq \in [1 .. NumFrames -> Nat] /\ opened \in Nat /\ opened # 0
      /\ \A f \in Given : fno[f] \in 0 .. MaxFno
      /\ last \in Nat /\ Given \subseteq 1 .. NumFrames
  <2>1. frame \in Given /\ frame = Taken
    BY <1>1 DEF FrameOK, TypeOK
  <2>2. Given \subseteq 1 .. NumFrames
    BY BoundsAssumption DEF TypeOK, Given
  <2>3. seq \in [1 .. NumFrames -> Nat] /\ opened \in Nat /\ last \in Nat
    BY BoundsAssumption DEF TypeOK, INT_MAX
  <2>4. opened # 0 /\ \A f \in Given : fno[f] \in 0 .. MaxFno
    BY <1>1, Numbered DEF SeqOK
  <2> QED
    BY <2>1, <2>2, <2>3, <2>4
<1>3. /\ seq' \in [1 .. NumFrames -> Nat] /\ seq'[frame] = opened
      /\ \A f \in 1 .. NumFrames : f # frame => seq'[f] = seq[f]
  BY <1>1, <1>2
<1>4. TypeOK'
  <2>1. fno[frame] \in 0 .. INT_MAX
    BY <1>2, BoundsAssumption DEF INT_MAX
  <2> QED
    BY <1>1, <1>3, <2>1 DEF TypeOK, Given, Pcs, INT_MAX
<1>5. QueueOK' /\ FrameOK' /\ WindowOK'
  BY <1>1 DEF QueueOK, Taken, FrameOK, WindowOK
<1>6. LastOK'
  BY <1>1 DEF LastOK
<1>7. \A f \in 1 .. NumFrames : /\ seq[f] # 0 => f < frame /\ f \in Given
                                /\ seq[f] = opened => fno[f] <= fno[frame]
  <2> SUFFICES ASSUME NEW f \in 1 .. NumFrames
               PROVE  /\ seq[f] # 0 => f < frame /\ f \in Given
                      /\ seq[f] = opened => fno[f] <= fno[frame]
    OBVIOUS
  <2>1. seq[f] # 0 => f < frame /\ f \in Given
    BY <1>1, <1>2, BoundsAssumption DEF SeqOK, Given
  <2>2. seq[f] = opened => now # None /\ fno[f] <= last /\ last <= fno[frame]
    BY <1>1, <1>2 DEF SeqOK, LastOK
  <2> QED
    BY <1>2, <2>1, <2>2
<1>8. SeqOK'
  <2>1. \A f \in 1 .. NumFrames : seq'[f] <= opened /\ (seq'[f] # 0 => f <= Taken)
    BY <1>2, <1>3 DEF SeqOK
  <2>2. \A f \in 1 .. NumFrames : seq'[f] = opened => fno[f] <= fno[frame]
    BY <1>2, <1>3, <1>7
  <2>3. now # None => now \in 1 .. NumFrames /\ now # frame /\ seq[now] = opened
    BY <1>1, <1>2 DEF WindowOK, SeqOK, TypeOK, None
  <2> QED
    BY <1>1, <1>2, <1>3, <2>1, <2>2, <2>3 DEF SeqOK, Taken
<1>9. NumbersRise'
  <2> SUFFICES ASSUME NEW f \in 1 .. NumFrames, NEW g \in 1 .. NumFrames,
                      seq'[f] = seq'[g], seq'[f] # 0, f < g
               PROVE  fno[f] <= fno[g]
    BY <1>1 DEF NumbersRise
  <2>1. CASE g = frame
    BY <1>2, <1>3, <1>7, <2>1
  <2>2. CASE f = frame
    <3>1. g # frame
      BY <2>2, BoundsAssumption
    <3>2. seq[g] # 0
      BY <1>3, <3>1
    <3> QED
      BY <1>2, <1>7, <2>2, <3>2, BoundsAssumption
  <2>3. CASE f # frame /\ g # frame
    BY <1>3, <2>3 DEF NumbersRise
  <2> QED
    BY <2>1, <2>2, <2>3
<1>10. TracksOK'
  <2>1. \A f \in can : f \in 1 .. NumFrames /\ seq'[f] = opened
    BY <1>2, <1>3 DEF TracksOK, TypeOK
  <2>2. \A o \in objects : \A f \in o : f \in 1 .. NumFrames /\ seq'[f] = seq[f]
    BY <1>2, <1>3, <1>7 DEF TracksOK, TypeOK
  <2> QED
    BY <1>1, <1>2, <2>1, <2>2 DEF TracksOK, Enough
<1> QED
  BY <1>4, <1>5, <1>6, <1>8, <1>9, <1>10

\* Filling frmnow_ keeps the invariant: its neighbour is the frame before.
LEMMA FillKeeps == FInv /\ Fill => FInv'
<1> SUFFICES ASSUME FInv, Fill PROVE FInv'
  OBVIOUS
<1> USE DEF FInv, input, points, history, main
<1>1. /\ UNCHANGED <<fno, que, frame, last, prev, can, objects, seq, opened, ask, heard>>
      /\ now' = frame /\ pc = "fill" /\ pc' = "match"
  BY DEF Fill
<1>2. frame \in Given /\ frame # None /\ frame = Taken /\ prev = now /\ Taken \in Nat
  BY <1>1 DEF FrameOK, WindowOK, TypeOK, Given, None
<1>3. TypeOK'
  BY <1>1 DEF TypeOK, Given, Pcs
<1>4. QueueOK' /\ FrameOK' /\ NumbersRise' /\ TracksOK'
  BY <1>1 DEF QueueOK, Taken, FrameOK, NumbersRise, TracksOK
<1>5. WindowOK'
  BY <1>1, <1>2 DEF WindowOK, Taken
<1>6. LastOK' /\ SeqOK'
  BY <1>1, <1>2 DEF LastOK, SeqOK, Taken
<1> QED
  BY <1>3, <1>4, <1>5, <1>6

\* Matching keeps the invariant: the points come from the two neighbours.
LEMMA MatchKeeps == FInv /\ Match => FInv'
<1> SUFFICES ASSUME FInv, Match PROVE FInv'
  OBVIOUS
<1> USE DEF FInv, input, history, main
<1>1. /\ UNCHANGED <<fno, que, last, prev, now, seq, opened, ask, heard>>
      /\ frame' = None /\ pc = "match" /\ pc' = "loop"
  BY DEF Match
<1>2. now \in Given /\ now # None /\ now = Taken /\ seq[now] = opened /\ opened # 0
  BY <1>1 DEF WindowOK, FrameOK, SeqOK, TypeOK
<1>3. /\ objects' = objects \/ (Enough(can) /\ objects' = objects \cup {can})
      /\ \/ can' = can \/ can' = {} \/ can' = can \cup {now} \/ can' = {now}
         \/ prev # None /\ can' = {prev, now}
  BY DEF Match, points, Recheck, Extend, Unique
<1>4. TypeOK'
  BY <1>1, <1>2, <1>3 DEF TypeOK, Given, Pcs
<1>5. QueueOK' /\ FrameOK' /\ NumbersRise'
  BY <1>1 DEF QueueOK, Taken, FrameOK, NumbersRise
<1>6. WindowOK'
  BY <1>1, <1>2 DEF WindowOK, Taken
<1>7. LastOK' /\ SeqOK'
  BY <1>1, <1>2 DEF LastOK, SeqOK, Taken, FrameOK, WindowOK, TypeOK, Given, None
<1>8. TracksOK'
  BY <1>1, <1>2, <1>3 DEF TracksOK, SeqOK
<1> QED
  BY <1>4, <1>5, <1>6, <1>7, <1>8

\* Every other step of the threads is quiet.
LEMMA NextKeeps == FInv /\ [Next]_vars => FInv'
<1> SUFFICES ASSUME FInv, [Next]_vars PROVE FInv'
  OBVIOUS
<1> USE DEF FInv
<1>0. pc \in Pcs /\ ask \in {"off", "prev", "now", "over", "destroy"} /\ heard \in 0 .. NumFrames
  BY DEF TypeOK
<1>1. CASE UNCHANGED vars
  BY <1>0, <1>1, QuietStep DEF vars, input, points, history
<1>2. CASE NewFrame
  BY <1>2, NewFrameKeeps
<1>3. CASE Main
  <2>1. /\ UNCHANGED <<input, pc, frame, last, prev, now, points, history>>
        /\ ask' \in {"off", "prev", "now", "over", "destroy"}
        /\ heard' = heard \/ heard' = Len(fno)
    BY <1>3 DEF Main, AskQueue, AskPrev, AskNow, Destroy
  <2>2. heard' \in 0 .. NumFrames
    BY <1>0, <2>1, BoundsAssumption DEF TypeOK
  <2> QED
    BY <1>0, <2>1, <2>2, QuietStep
<1>4. CASE Join
  BY <1>0, <1>4, QuietStep DEF Join, main, Pcs
<1>5. CASE TestQueue \/ Park \/ TimeOut
  BY <1>0, <1>5, QuietStep DEF TestQueue, Park, TimeOut, Goto, main, Pcs
<1>6. CASE NoFrame
  BY <1>0, <1>6, QuietStep DEF NoFrame, Goto, main, Pcs
<1>7. CASE GotFrame
  <2>1. fno[frame] \in Nat /\ last \in Nat
    BY <1>7, Numbered, BoundsAssumption DEF GotFrame, FrameOK, TypeOK, INT_MAX
  <2>2. fno[frame] >= last \/ fno[frame] < last
    BY <2>1
  <2> QED
    BY <1>0, <1>7, <2>2, QuietStep DEF GotFrame, Goto, main, Pcs
<1>8. CASE Take
  BY <1>8, TakeKeeps
<1>9. CASE Complete
  BY <1>9, CompleteKeeps
<1>10. CASE ResetPrev \/ ResetNow \/ Doubt
  BY <1>10, ResetKeeps
<1>11. CASE Open
  BY <1>11, OpenKeeps
<1>12. CASE Shift
  BY <1>12, ShiftKeeps
<1>13. CASE Fill
  BY <1>13, FillKeeps
<1>14. CASE Match
  BY <1>14, MatchKeeps
<1> QED
  BY <1>1, <1>2, <1>3, <1>4, <1>5, <1>6, <1>7, <1>8, <1>9, <1>10, <1>11, <1>12, <1>13, <1>14
  DEF Next, Thread

\* The invariant gives the properties: a sequence's numbers do not go back, and
\* the window and the tracks stay within a sequence.
LEMMA Consequences == FInv => TypeOK /\ NeighboursOnly /\ ObjectsInOneSequence
<1> SUFFICES ASSUME FInv PROVE NeighboursOnly /\ ObjectsInOneSequence
  BY DEF FInv
<1> USE DEF FInv
<1>1. Given \subseteq 1 .. NumFrames
  BY BoundsAssumption DEF TypeOK, Given
<1>2. NeighboursOnly
  <2> SUFFICES ASSUME pc = "match", prev # None
               PROVE  /\ now = prev + 1 /\ seq[prev] = opened /\ seq[now] = opened
                      /\ fno[prev] <= fno[now]
    BY DEF NeighboursOnly
  <2>1. now # None /\ now = prev + 1 /\ seq[prev] = opened /\ seq[now] = opened /\ opened # 0
    BY DEF WindowOK, SeqOK
  <2>2. prev \in 1 .. NumFrames /\ now \in 1 .. NumFrames
    BY <1>1, <2>1 DEF TypeOK
  <2>3. prev < now
    BY <2>1, <2>2, BoundsAssumption
  <2> QED
    BY <2>1, <2>2, <2>3 DEF NumbersRise
<1>3. ObjectsInOneSequence
  <2> SUFFICES ASSUME NEW o \in objects
               PROVE  /\ Enough(o)
                      /\ \A f, g \in o : seq[f] = seq[g] /\ (f < g => fno[f] <= fno[g])
    BY DEF ObjectsInOneSequence
  <2>1. \A f \in o : f \in 1 .. NumFrames
    BY <1>1 DEF TypeOK
  <2> QED
    BY <2>1 DEF TracksOK, NumbersRise
<1> QED
  BY <1>2, <1>3

\* The invariant holds of every behaviour.
THEOREM Invariant == Spec => []FInv
<1> QED
  BY InitInv, NextKeeps, PTL DEF Spec

\* The finder's state keeps its types.
THEOREM FinderTyped == Spec => []TypeOK
<1> QED
  BY Invariant, Consequences, PTL

\* cross_match compares neighbours of the open sequence only.
THEOREM MatchesNeighbours == Spec => []NeighboursOnly
<1> QED
  BY Invariant, Consequences, PTL

\* No object links frames of two sequences, or frames whose numbers go back.
THEOREM ObjectsStayInSequence == Spec => []ObjectsInOneSequence
<1> QED
  BY Invariant, Consequences, PTL
-----------------------------------------------------------------------------
\* Every frame taken from the queue has its sequence, but for the one in hand; and
\* what IsOver could see has been taken.
TakenOK ==
  /\ heard <= Taken
  /\ \A f \in 1 .. Taken :
       \/ seq[f] # 0
       \/ f = frame /\ pc \in {"got", "complete", "resetprev", "resetnow", "open", "shift"}

\* A step that takes no frame and gives none its sequence.
LEMMA StillTaken ==
  ASSUME FInv, TakenOK, Taken' = Taken, UNCHANGED seq,
         heard' = heard \/ heard' = Taken,
         \/ frame' = frame /\ pc' = pc
         \/ frame' = frame /\ pc' \in {"got", "complete", "resetprev", "resetnow", "open", "shift"}
         \/ pc \notin {"got", "complete", "resetprev", "resetnow", "open", "shift"}
         \/ frame = None
  PROVE  TakenOK'
<1>1. Taken \in Nat
  BY DEF FInv, TypeOK, QueueOK, Taken
<1>2. heard' <= Taken
  BY <1>1 DEF TakenOK
<1>3. \A f \in 1 .. Taken :
        seq[f] # 0 \/ (f = frame' /\ pc' \in {"got", "complete", "resetprev", "resetnow", "open", "shift"})
  BY <1>1 DEF TakenOK, None
<1> QED
  BY <1>2, <1>3 DEF TakenOK

\* Whatever a thread does, no frame is passed over.
LEMMA TakenKeeps == FInv /\ TakenOK /\ Next => TakenOK'
<1> SUFFICES ASSUME FInv, TakenOK, Next PROVE TakenOK'
  OBVIOUS
<1> USE DEF input, points, history, main
<1>0. /\ fno \in Seq(0 .. MaxFno) /\ que \in Seq(Given)
      /\ Len(fno) \in Nat /\ Len(que) \in Nat /\ Len(que) <= Len(fno) /\ Taken \in Nat
  BY DEF FInv, TypeOK, QueueOK, Taken
<1>1. CASE NewFrame
  <2>1. Len(fno') = Len(fno) + 1 /\ Len(que') = Len(que) + 1
    <3>1. PICK n \in 0 .. MaxFno : fno' = Append(fno, n)
      BY <1>1 DEF NewFrame
    <3> QED
      BY <1>0, <1>1, <3>1 DEF NewFrame
  <2>2. Taken' = Taken
    BY <1>0, <2>1 DEF Taken
  <2>3. UNCHANGED <<frame, seq, heard>> /\ (pc' = pc \/ pc = "wait")
    BY <1>1 DEF NewFrame
  <2> QED
    BY <2>2, <2>3, StillTaken
<1>2. CASE AskQueue
  <2>1. Taken' = Taken /\ heard' = Taken /\ UNCHANGED <<frame, seq, pc>>
    BY <1>0, <1>2 DEF AskQueue, Taken
  <2> QED
    BY <2>1, StillTaken
<1>3. CASE AskPrev \/ AskNow \/ Destroy \/ Join
  <2>1. Taken' = Taken /\ UNCHANGED <<frame, seq, heard>> /\ (pc' = pc \/ pc = "wait")
    BY <1>3 DEF AskPrev, AskNow, Destroy, Join, Taken
  <2> QED
    BY <2>1, StillTaken
<1>4. CASE TestQueue \/ Park \/ TimeOut \/ NoFrame
  <2>1. Taken' = Taken /\ UNCHANGED <<frame, seq, heard>> /\ pc \in {"loop", "park", "wait", "idle"}
    BY <1>4 DEF TestQueue, Park, TimeOut, NoFrame, Goto, Taken
  <2> QED
    BY <2>1, StillTaken
<1>5. CASE GotFrame \/ Complete \/ ResetPrev
  <2>1. /\ Taken' = Taken /\ UNCHANGED <<frame, seq, heard>>
        /\ pc' \in {"complete", "shift", "open", "resetprev", "resetnow"}
    BY <1>5 DEF GotFrame, Goto, Complete, ResetPrev, Taken
  <2> QED
    BY <2>1, StillTaken
<1>6. CASE ResetNow \/ Open
  <2>1. /\ Taken' = Taken /\ UNCHANGED <<frame, seq, heard>>
        /\ frame = None \/ pc' \in {"open", "shift"}
    BY <1>6 DEF ResetNow, Open, Taken
  <2> QED
    BY <2>1, StillTaken
<1>7. CASE Doubt \/ Fill \/ Match
  <2>1. Taken' = Taken /\ UNCHANGED <<seq, heard>> /\ pc \in {"doubt", "fill", "match"}
    BY <1>7 DEF Doubt, Fill, Match, Taken
  <2> QED
    BY <2>1, StillTaken
<1>8. CASE Take
  <2>1. CASE que = <<>>
    <3>1. Taken' = Taken /\ UNCHANGED <<seq, heard>> /\ pc = "take"
      BY <1>8, <2>1 DEF Take, Taken
    <3> QED
      BY <3>1, StillTaken
  <2>2. CASE que # <<>>
    <3>1. frame' = Taken + 1 /\ pc = "take" /\ pc' = "got" /\ UNCHANGED <<seq, heard>>
      BY <1>0, <1>8, <2>2 DEF Take, FInv, QueueOK
    <3>2. Taken' = Taken + 1
      BY <1>0, <1>8, <2>2 DEF Take, Taken
    <3>3. \A f \in 1 .. Taken : seq[f] # 0
      BY <3>1 DEF TakenOK
    <3>4. heard <= Taken + 1
      BY <1>0 DEF TakenOK, FInv, TypeOK
    <3> QED
      BY <1>0, <3>1, <3>2, <3>3, <3>4 DEF TakenOK
  <2> QED
    BY <2>1, <2>2
<1>9. CASE Shift
  <2>1. /\ Taken' = Taken /\ UNCHANGED heard /\ pc = "shift"
        /\ seq' = [seq EXCEPT ![frame] = opened]
    BY <1>9 DEF Shift, Taken
  <2>2. /\ opened # 0 /\ frame \in 1 .. NumFrames /\ Taken <= NumFrames
        /\ seq \in [1 .. NumFrames -> Nat]
    BY <1>0, <2>1, BoundsAssumption DEF FInv, TypeOK, SeqOK, FrameOK, Given, Taken, None
  <2>3. \A f \in 1 .. Taken : seq'[f] # 0
    BY <1>0, <2>1, <2>2 DEF TakenOK
  <2> QED
    BY <2>1, <2>3 DEF TakenOK
<1> QED
  BY <1>1, <1>2, <1>3, <1>4, <1>5, <1>6, <1>7, <1>8, <1>9 DEF Next, Main, Thread

\* When the destructor's join returns, nothing IsOver could see is thrown away unread:
\* the thread ends at its wait, with no frame in hand (~AFindPV, thread_newframe).
THEOREM NothingThrownAway == Spec => []GoneHasTaken
<1>1. Init => TakenOK
  BY DEF Init, TakenOK, Taken
<1>2. FInv /\ FInv' /\ TakenOK /\ [Next]_vars => TakenOK'
  <2>1. FInv /\ TakenOK /\ UNCHANGED vars => TakenOK'
    BY DEF vars, input, points, history, main, TakenOK, Taken
  <2> QED
    BY <2>1, TakenKeeps
<1>3. FInv /\ TakenOK => GoneHasTaken
  <2> SUFFICES ASSUME FInv, TakenOK, pc = "gone" PROVE \A f \in 1 .. heard : seq[f] # 0
    BY DEF GoneHasTaken
  <2>1. heard <= Taken /\ heard \in Nat /\ Taken \in Nat
    BY BoundsAssumption DEF FInv, TypeOK, QueueOK, TakenOK, Taken
  <2> QED
    BY <2>1 DEF TakenOK
<1> QED
  BY <1>1, <1>2, <1>3, Invariant, PTL DEF Spec
=============================================================================
