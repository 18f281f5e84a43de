----------------------------- MODULE FrameLine -----------------------------
(***************************************************************************)
(* What the processing chain of airs promises: every stage has a line of   *)
(* frames, a frame leaves a stage only from the head of its line, and then *)
(* it joins the tail of the next line, is delivered to the moving-object   *)
(* finder, or leaves the chain because its processing failed or the        *)
(* configuration ends the chain there.                                     *)
(***************************************************************************)
EXTENDS Stages, Sequences

VARIABLES line,    \* line[s]: the frames waiting for or in stage s, oldest first
          out,     \* the frames delivered to a finder, in order
          left,    \* the frames that left the chain on the way
          count    \* how many frames have entered the chain

vars == <<line, out, left, count>>

Init == /\ line = [s \in Stage |-> <<>>]
        /\ out = <<>>
        /\ left = {}
        /\ count = 0

Enter == /\ count < NumFrames
         /\ count' = count + 1
         /\ line' = [line EXCEPT !["reduct"] = Append(@, count + 1)]
         /\ UNCHANGED <<out, left>>

Advance(s) == /\ s # "photo"
              /\ FeedsNext(s)
              /\ line[s] # <<>>
              /\ line' = [line EXCEPT ![s] = Tail(@),
                                      ![NextStage[s]] = Append(@, Head(line[s]))]
              /\ UNCHANGED <<out, left, count>>

Deliver == /\ line["photo"] # <<>>
           /\ line' = [line EXCEPT !["photo"] = Tail(@)]
           /\ out' = Append(out, Head(line["photo"]))
           /\ UNCHANGED <<left, count>>

Drop(s) == /\ line[s] # <<>>
           /\ line' = [line EXCEPT ![s] = Tail(@)]
           /\ left' = left \cup {Head(line[s])}
           /\ UNCHANGED <<out, count>>

Next == \/ Enter
        \/ Deliver
        \/ \E s \in Stage : Advance(s) \/ Drop(s)

Spec == Init /\ [][Next]_vars
-----------------------------------------------------------------------------
\* The place of a stage in the chain.
Place == [reduct |-> 1, astro |-> 2, match |-> 3, photo |-> 4]

Frames(q) == {q[i] : i \in 1 .. Len(q)}
Rising(q) == \A i, j \in 1 .. Len(q) : i < j => q[i] < q[j]
Ahead(F, G) == \A f \in F, g \in G : f < g

TypeOK == /\ line \in [Stage -> Seq(Frame)]
          /\ out \in Seq(Frame)
          /\ left \in SUBSET Frame
          /\ count \in 0 .. NumFrames

\* No frame overtakes an older one and none is doubled: the lines rise, and the
\* frames of a stage are older than those of the stages before it.
InOrder ==
  /\ Rising(out)
  /\ \A s \in Stage : /\ Rising(line[s])
                      /\ Ahead(Frames(out), Frames(line[s]))
                      /\ \A t \in Stage : Place[s] < Place[t] =>
                           Ahead(Frames(line[t]), Frames(line[s]))

\* No frame is lost: each frame that entered is in a line, delivered or has left.
InLine == UNION {Frames(line[s]) : s \in Stage}
NothingLost == /\ InLine \cup Frames(out) \cup left = 1 .. count
               /\ left \cap (InLine \cup Frames(out)) = {}
=============================================================================
