-------------------------- MODULE FrameLineProofs --------------------------
(***************************************************************************)
(* What the chain promises, proved of FrameLine for any number of frames.  *)
(***************************************************************************)
EXTENDS FrameLine, SequenceTheorems, TLAPS

Inv == TypeOK /\ InOrder /\ NothingLost

-----------------------------------------------------------------------------
\* Taking the head off a line leaves its other frames, all newer.
LEMMA TailLine ==
  ASSUME NEW q \in Seq(Frame), q # <<>>
  PROVE  /\ Head(q) \in Frame
         /\ Tail(q) \in Seq(Frame)
         /\ Frames(q) = {Head(q)} \cup Frames(Tail(q))
         /\ Rising(q) => Rising(Tail(q)) /\ Ahead({Head(q)}, Frames(Tail(q)))
<1>1. /\ Head(q) = q[1] /\ q[1] \in Frame /\ Tail(q) \in Seq(Frame)
      /\ Len(q) \in Nat \ {0} /\ Len(Tail(q)) = Len(q) - 1
      /\ \A i \in 1 .. Len(Tail(q)) : Tail(q)[i] = q[i + 1]
  OBVIOUS
<1>2. Frames(q) = {Head(q)} \cup Frames(Tail(q))
  <2>1. \A i \in 1 .. Len(q) : i = 1 \/ (i - 1 \in 1 .. Len(Tail(q)) /\ Tail(q)[i - 1] = q[i])
    BY <1>1
  <2>2. \A i \in 1 .. Len(Tail(q)) : i + 1 \in 1 .. Len(q) /\ Tail(q)[i] = q[i + 1]
    BY <1>1
  <2>3. \A i \in 1 .. Len(q) : q[i] = Head(q) \/ q[i] \in Frames(Tail(q))
    BY <1>1, <2>1 DEF Frames
  <2>4. \A x \in Frames(Tail(q)) : x \in Frames(q)
    BY <1>1, <2>2 DEF Frames
  <2>5. Head(q) \in Frames(q)
    BY <1>1 DEF Frames
  <2> QED
    BY <2>3, <2>4, <2>5 DEF Frames
<1>3. Rising(q) => Rising(Tail(q)) /\ Ahead({Head(q)}, Frames(Tail(q)))
  BY <1>1 DEF Rising, Ahead, Frames
<1> QED
  BY <1>1, <1>2, <1>3

\* Appending a newer frame to a line keeps its order.
LEMMA AppendLine ==
  ASSUME NEW q \in Seq(Frame), NEW f \in Frame
  PROVE  /\ Append(q, f) \in Seq(Frame)
         /\ Frames(Append(q, f)) = Frames(q) \cup {f}
         /\ Rising(q) /\ Ahead(Frames(q), {f}) => Rising(Append(q, f))
<1>1. /\ Append(q, f) \in Seq(Frame) /\ Len(q) \in Nat
      /\ Len(Append(q, f)) = Len(q) + 1
      /\ \A i \in 1 .. Len(q) : Append(q, f)[i] = q[i]
      /\ Append(q, f)[Len(q) + 1] = f
  OBVIOUS
<1>2. \A i \in 1 .. Len(q) + 1 : i \in 1 .. Len(q) \/ i = Len(q) + 1
  BY <1>1
<1>3. Frames(Append(q, f)) = Frames(q) \cup {f}
  BY <1>1, <1>2 DEF Frames
<1>4. Rising(q) /\ Ahead(Frames(q), {f}) => Rising(Append(q, f))
  BY <1>1, <1>2 DEF Rising, Ahead, Frames
<1> QED
  BY <1>1, <1>3, <1>4

\* The empty chain is in order.
LEMMA InitInv == Init => Inv
<1> SUFFICES ASSUME Init PROVE Inv
  OBVIOUS
<1>1. \A s \in Stage : line[s] = <<>>
  BY DEF Init
<1>2. Frames(<<>>) = {} /\ Rising(<<>>)
  BY DEF Frames, Rising
<1>3. InLine = {}
  BY <1>1, <1>2 DEF InLine
<1> QED
  BY <1>1, <1>2, <1>3, NumFramesAssumption
  DEF Init, Inv, TypeOK, InOrder, NothingLost, Ahead, Frame

\* A frame that enters is newer than all others.
LEMMA EnterKeeps == Inv /\ Enter => Inv'
<1> SUFFICES ASSUME Inv, Enter PROVE Inv'
  OBVIOUS
<1> USE DEF Inv
<1> DEFINE f == count + 1
<1>1. /\ count \in Nat /\ f \in Frame /\ count' = f /\ f <= NumFrames
      /\ out' = out /\ left' = left
      /\ line \in [Stage -> Seq(Frame)]
      /\ line' \in [Stage -> Seq(Frame)]
      /\ line'["reduct"] = Append(line["reduct"], f)
      /\ \A s \in Stage : s # "reduct" => line'[s] = line[s]
      /\ "reduct" \in Stage
  BY NumFramesAssumption, AppendLine DEF Enter, TypeOK, Frame, Stage
<1>2. Frames(line'["reduct"]) = Frames(line["reduct"]) \cup {f}
  BY <1>1, AppendLine
<1>3. InLine' = InLine \cup {f}
  BY <1>1, <1>2 DEF InLine
<1>4. \A g \in InLine \cup Frames(out) \cup left : g < f
  BY <1>1 DEF NothingLost
<1>5. TypeOK'
  BY <1>1, NumFramesAssumption DEF TypeOK
<1>6. NothingLost'
  BY <1>1, <1>3, <1>4 DEF NothingLost
<1>7. Rising(line'["reduct"])
  BY <1>1, <1>4, AppendLine DEF InLine, InOrder, Ahead
<1>8. InOrder'
  <2>1. \A s \in Stage : Rising(line'[s]) /\ Frames(line'[s]) \subseteq Frames(line[s]) \cup {f}
    BY <1>1, <1>2, <1>7 DEF InOrder
  <2>2. \A s \in Stage : Ahead(Frames(out), Frames(line'[s]))
    BY <1>4, <2>1 DEF InOrder, Ahead
  <2>3. ASSUME NEW s \in Stage, NEW t \in Stage, Place[s] < Place[t]
        PROVE  Ahead(Frames(line'[t]), Frames(line'[s]))
    <3>1. t # "reduct"
      BY <2>3 DEF Place, Stage
    <3>2. line'[t] = line[t] /\ Frames(line[t]) \subseteq InLine
      BY <1>1, <3>1 DEF InLine
    <3> QED
      BY <1>4, <2>1, <2>3, <3>2 DEF InOrder, Ahead
  <2> QED
    BY <1>1, <2>1, <2>2, <2>3 DEF InOrder
<1> QED
  BY <1>5, <1>6, <1>8

\* The head of a line leaves it: what is left of the chain stays in order.
LEMMA HeadLeaves ==
  ASSUME Inv, NEW s \in Stage, line[s] # <<>>
  PROVE  LET h == Head(line[s])
             Rest == [line EXCEPT ![s] = Tail(@)]
         IN  /\ h \in Frame /\ h \in InLine
             /\ Rest \in [Stage -> Seq(Frame)]
             /\ Frames(line[s]) = {h} \cup Frames(Tail(line[s]))
             /\ \A t \in Stage : Rising(Rest[t]) /\ Frames(Rest[t]) \subseteq Frames(line[t])
             /\ \A t \in Stage : Place[t] =< Place[s] => Ahead({h}, Frames(Rest[t]))
             /\ \A t \in Stage : Place[s] < Place[t] => Ahead(Frames(Rest[t]), {h})
             /\ Ahead(Frames(out), {h})
<1> DEFINE h == Head(line[s])
           Rest == [line EXCEPT ![s] = Tail(@)]
<1> USE DEF Inv
<1>1. line \in [Stage -> Seq(Frame)] /\ line[s] \in Seq(Frame)
  BY DEF TypeOK
<1>2. /\ h \in Frame /\ Tail(line[s]) \in Seq(Frame)
      /\ Frames(line[s]) = {h} \cup Frames(Tail(line[s]))
      /\ Rising(Tail(line[s])) /\ Ahead({h}, Frames(Tail(line[s])))
  BY <1>1, TailLine DEF InOrder
<1>3. /\ Rest \in [Stage -> Seq(Frame)] /\ Rest[s] = Tail(line[s])
      /\ \A t \in Stage : t # s => Rest[t] = line[t]
  BY <1>1, <1>2
<1>4. \A t \in Stage : Rising(Rest[t]) /\ Frames(Rest[t]) \subseteq Frames(line[t])
  BY <1>2, <1>3 DEF InOrder
<1>5. ASSUME NEW t \in Stage, Place[t] =< Place[s] PROVE Ahead({h}, Frames(Rest[t]))
  <2>1. t = s \/ Place[t] < Place[s]
    BY <1>5 DEF Place, Stage
  <2> QED
    BY <1>2, <1>3, <2>1 DEF InOrder, Ahead
<1>6. ASSUME NEW t \in Stage, Place[s] < Place[t] PROVE Ahead(Frames(Rest[t]), {h})
  BY <1>2, <1>4, <1>6 DEF InOrder, Ahead
<1>7. Ahead(Frames(out), {h}) /\ h \in InLine
  BY <1>2 DEF InOrder, Ahead, InLine
<1> QED
  BY <1>2, <1>3, <1>4, <1>5, <1>6, <1>7

\* A delivered frame is newer than those delivered before and older than those
\* still in the chain.
LEMMA DeliverKeeps == Inv /\ Deliver => Inv'
<1> SUFFICES ASSUME Inv, Deliver PROVE Inv'
  OBVIOUS
<1> USE DEF Inv
<1> DEFINE s == "photo"
           h == Head(line[s])
<1>0. s \in Stage /\ \A t \in Stage : Place[t] =< Place[s]
  BY DEF Stage, Place
<1>1. /\ line' = [line EXCEPT ![s] = Tail(@)] /\ line[s] # <<>>
      /\ out' = Append(out, h) /\ left' = left /\ count' = count
  BY DEF Deliver
<1>2. /\ h \in Frame /\ h \in InLine /\ line' \in [Stage -> Seq(Frame)]
      /\ Frames(line[s]) = {h} \cup Frames(Tail(line[s]))
      /\ \A t \in Stage : Rising(line'[t]) /\ Frames(line'[t]) \subseteq Frames(line[t])
      /\ \A t \in Stage : Ahead({h}, Frames(line'[t]))
      /\ Ahead(Frames(out), {h})
  BY <1>0, <1>1, HeadLeaves
<1>3. /\ out' \in Seq(Frame) /\ Frames(out') = Frames(out) \cup {h} /\ Rising(out')
  BY <1>1, <1>2, AppendLine DEF TypeOK, InOrder
<1>4. TypeOK'
  BY <1>1, <1>2, <1>3 DEF TypeOK
<1>5. InOrder'
  BY <1>2, <1>3 DEF InOrder, Ahead
<1>6. InLine \cup Frames(out) = InLine' \cup Frames(out')
  <2>1. /\ \A t \in Stage : t # s => line'[t] = line[t]
        /\ Frames(line[s]) = {h} \cup Frames(line'[s])
    BY <1>0, <1>1, <1>2 DEF TypeOK
  <2> QED
    BY <1>0, <1>2, <1>3, <2>1 DEF InLine
<1>7. NothingLost'
  BY <1>1, <1>6 DEF NothingLost
<1> QED
  BY <1>4, <1>5, <1>7

\* A frame that leaves the chain is in none of its lines.
LEMMA DropKeeps == ASSUME NEW s \in Stage, Inv, Drop(s) PROVE Inv'
<1> USE DEF Inv
<1> DEFINE h == Head(line[s])
<1>1. /\ line' = [line EXCEPT ![s] = Tail(@)] /\ line[s] # <<>>
      /\ out' = out /\ left' = left \cup {h} /\ count' = count
  BY DEF Drop
<1>2. /\ h \in Frame /\ h \in InLine /\ line' \in [Stage -> Seq(Frame)]
      /\ Frames(line[s]) = {h} \cup Frames(Tail(line[s]))
      /\ \A t \in Stage : Rising(line'[t]) /\ Frames(line'[t]) \subseteq Frames(line[t])
      /\ \A t \in Stage : Place[t] =< Place[s] => Ahead({h}, Frames(line'[t]))
      /\ \A t \in Stage : Place[s] < Place[t] => Ahead(Frames(line'[t]), {h})
      /\ Ahead(Frames(out), {h})
  BY <1>1, HeadLeaves
<1>3. TypeOK'
  BY <1>1, <1>2 DEF TypeOK
<1>4. InOrder'
  BY <1>1, <1>2 DEF InOrder, Ahead
<1>5. /\ \A t \in Stage : t # s => line'[t] = line[t]
      /\ Frames(line[s]) = {h} \cup Frames(line'[s])
  BY <1>1, <1>2 DEF TypeOK
<1>6. InLine = InLine' \cup {h}
  BY <1>2, <1>5 DEF InLine
<1>7. h \notin InLine' /\ h \notin Frames(out')
  <2>1. h < h => FALSE
    BY <1>2 DEF Frame
  <2>2. \A t \in Stage : Place[t] =< Place[s] \/ Place[s] < Place[t]
    BY DEF Place, Stage
  <2> QED
    BY <1>1, <1>2, <2>1, <2>2 DEF InLine, Ahead
<1>8. NothingLost'
  BY <1>1, <1>6, <1>7 DEF NothingLost
<1> QED
  BY <1>3, <1>4, <1>8

\* A frame that moves on is newer than those of the stage it comes to and older
\* than those it leaves behind.
LEMMA AdvanceKeeps == ASSUME NEW s \in Stage, Inv, Advance(s) PROVE Inv'
<1> USE DEF Inv
<1> DEFINE h == Head(line[s])
           n == NextStage[s]
           Rest == [line EXCEPT ![s] = Tail(@)]
<1>0. /\ n \in Stage /\ n # s /\ Place[s] < Place[n]
      /\ \A t \in Stage : Place[t] < Place[n] => Place[t] =< Place[s]
      /\ \A t \in Stage : Place[n] < Place[t] => Place[s] < Place[t]
  BY DEF Advance, NextStage, Stage, Place
<1>1. /\ line' = [line EXCEPT ![s] = Tail(@), ![n] = Append(@, h)] /\ line[s] # <<>>
      /\ out' = out /\ left' = left /\ count' = count
      /\ line \in [Stage -> Seq(Frame)]
  BY DEF Advance, TypeOK
<1>2. /\ h \in Frame /\ h \in InLine /\ Rest \in [Stage -> Seq(Frame)]
      /\ Frames(line[s]) = {h} \cup Frames(Tail(line[s]))
      /\ \A t \in Stage : Rising(Rest[t]) /\ Frames(Rest[t]) \subseteq Frames(line[t])
      /\ \A t \in Stage : Place[t] =< Place[s] => Ahead({h}, Frames(Rest[t]))
      /\ \A t \in Stage : Place[s] < Place[t] => Ahead(Frames(Rest[t]), {h})
      /\ Ahead(Frames(out), {h})
  BY <1>1, HeadLeaves
<1>3. /\ line' \in [Stage -> Seq(Frame)]
      /\ line'[n] = Append(line[n], h) /\ line[n] = Rest[n]
      /\ \A t \in Stage : t # n => line'[t] = Rest[t]
  <2>1. Append(line[n], h) \in Seq(Frame) /\ Tail(line[s]) \in Seq(Frame)
    BY <1>0, <1>1, <1>2, AppendLine, TailLine
  <2> QED
    BY <1>0, <1>1, <2>1
<1>4. /\ Frames(line'[n]) = Frames(line[n]) \cup {h}
      /\ Rising(line'[n])
  BY <1>0, <1>1, <1>2, <1>3, AppendLine
<1>5. TypeOK'
  BY <1>1, <1>3 DEF TypeOK
<1>6. InOrder'
  <2>1. \A t \in Stage : Rising(line'[t]) /\ Ahead(Frames(out), Frames(line'[t]))
    BY <1>2, <1>3, <1>4 DEF InOrder, Ahead
  <2>2. ASSUME NEW a \in Stage, NEW b \in Stage, Place[a] < Place[b]
        PROVE  Ahead(Frames(line'[b]), Frames(line'[a]))
    <3>1. a # b
      BY <2>2 DEF Place, Stage
    <3>2. Ahead(Frames(line[b]), Frames(line[a]))
      BY <2>2 DEF InOrder
    <3>3. CASE a = n
      <4>1. line'[b] = Rest[b] /\ Frames(line'[a]) = Frames(line[a]) \cup {h}
        BY <1>3, <1>4, <3>1, <3>3
      <4>2. Ahead(Frames(Rest[b]), {h})
        BY <1>0, <1>2, <2>2, <3>3
      <4>3. Ahead(Frames(Rest[b]), Frames(line[a]))
        BY <1>2, <3>2 DEF Ahead
      <4> QED
        BY <4>1, <4>2, <4>3 DEF Ahead
    <3>4. CASE b = n
      <4>1. line'[a] = Rest[a] /\ Frames(line'[b]) = Frames(line[b]) \cup {h}
        BY <1>3, <1>4, <3>1, <3>4
      <4>2. Ahead({h}, Frames(Rest[a]))
        BY <1>0, <1>2, <2>2, <3>4
      <4>3. Ahead(Frames(line[b]), Frames(Rest[a]))
        BY <1>2, <3>2 DEF Ahead
      <4> QED
        BY <4>1, <4>2, <4>3 DEF Ahead
    <3>5. CASE a # n /\ b # n
      BY <1>2, <1>3, <3>2, <3>5 DEF Ahead
    <3> QED
      BY <3>3, <3>4, <3>5
  <2> QED
    BY <1>1, <2>1, <2>2 DEF InOrder
<1>7. InLine' = InLine
  <2>1. Rest[s] = Tail(line[s]) /\ \A t \in Stage : t # s => Rest[t] = line[t]
    BY <1>1
  <2>2. \A t \in Stage : Frames(line'[t]) \subseteq InLine
    BY <1>2, <1>3, <1>4, <2>1 DEF InLine
  <2>3. \A t \in Stage : Frames(line[t]) \subseteq Frames(line'[t]) \cup {h}
    BY <1>2, <1>3, <1>4, <2>1
  <2>4. h \in Frames(line'[n])
    BY <1>4
  <2> QED
    BY <1>0, <2>2, <2>3, <2>4 DEF InLine
<1>8. NothingLost'
  BY <1>1, <1>7 DEF NothingLost
<1> QED
  BY <1>5, <1>6, <1>8

\* Every step keeps the chain in order and complete.
LEMMA NextKeeps == Inv /\ [Next]_vars => Inv'
<1> SUFFICES ASSUME Inv, [Next]_vars PROVE Inv'
  OBVIOUS
<1>1. CASE UNCHANGED vars
  BY <1>1 DEF vars, Inv, TypeOK, InOrder, NothingLost, InLine
<1>2. CASE Enter
  BY <1>2, EnterKeeps
<1>3. CASE Deliver
  BY <1>3, DeliverKeeps
<1>4. CASE \E s \in Stage : Advance(s) \/ Drop(s)
  BY <1>4, AdvanceKeeps, DropKeeps
<1> QED
  BY <1>1, <1>2, <1>3, <1>4 DEF Next

\* Frames reach the finder in the order they were submitted, each at most once,
\* and no stage ever holds a newer frame than the stage before it.
THEOREM NoOvertaking == Spec => []InOrder
<1>1. Inv => InOrder
  BY DEF Inv
<1> QED
  BY <1>1, InitInv, NextKeeps, PTL DEF Spec

\* Every submitted frame is in a line, at a finder, or has left the chain.
THEOREM NoLoss == Spec => []NothingLost
<1>1. Inv => NothingLost
  BY DEF Inv
<1> QED
  BY <1>1, InitInv, NextKeeps, PTL DEF Spec
=============================================================================
