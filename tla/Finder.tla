------------------------------- MODULE Finder -------------------------------
(***************************************************************************)
(* One AFindPV: the queue PhotometryResult fills with NewFrame, the thread *)
(* thread_newframe that works it off, the IsOver the main thread polls,    *)
(* and the destructor StopService forces.                                  *)
(*                                                                         *)
(* The thread splits its frames into sequences.  A sequence ends when a    *)
(* frame number drops, or when a wait of 30 s finds no frame.  The mutex   *)
(* of the wait is local to the thread, so a notify can be lost here too;   *)
(* the timeout makes up for it.                                            *)
(*                                                                         *)
(* Frames are numbered in the order NewFrame gets them.  Of the candidates *)
(* (cans_) the model follows one, an arbitrary one: the candidates do not  *)
(* look at each other here.                                                *)
(***************************************************************************)
EXTENDS Naturals, Sequences, FiniteSets

CONSTANTS NumFrames,  \* bound: how many frames NewFrame gets
          MaxFno,     \* bound: the frame numbers are 0 .. MaxFno
          MinFrame,   \* MINFRAME: the least number of points of an object
          Ending      \* how it may end: destroyed when IsOver says "over", or
                      \* at any moment after a "signal"

ASSUME BoundsAssumption == NumFrames \in Nat /\ MaxFno \in Nat
ASSUME MinFrameAssumption == MinFrame \in Nat \ {0, 1}
ASSUME EndingAssumption == Ending \subseteq {"over", "signal"}

VARIABLES
  fno,      \* fno[f]: the frame number of the f-th frame (FRAMENO, 0 if absent)
  que,      \* frmque_
  pc,       \* the next statement of thread_newframe
  frame,    \* its local variable frame
  last,     \* last_fno_
  prev,     \* frmprev_
  now,      \* frmnow_
  can,      \* the frames that gave the followed candidate its points
  objects,  \* the candidates converted to objects, by their frames (history)
  seq,      \* seq[f]: the sequence frame f was taken into, 0 before (history)
  opened,   \* how many sequences were opened (history)
  ask,      \* what the main thread does: which read of IsOver comes next
  heard     \* how many frames were given when IsOver was called (history)

vars == <<fno, que, pc, frame, last, prev, now, can, objects, seq, opened, ask, heard>>
input == <<fno, que>>
points == <<can, objects>>
history == <<seq, opened>>
main == <<ask, heard>>

None == 0
INT_MAX == MaxFno + 1

Given == 1 .. Len(fno)
Pcs == {"loop", "park", "wait", "take", "idle", "got", "complete", "resetprev", "resetnow",
        "doubt", "open", "shift", "fill", "match", "gone"}

Init == /\ fno = <<>>
        /\ que = <<>>
        /\ pc = "loop"
        /\ frame = None
        /\ last = INT_MAX
        /\ prev = None
        /\ now = None
        /\ can = {}
        /\ objects = {}
        /\ seq = [f \in 1 .. NumFrames |-> 0]
        /\ opened = 0
        /\ ask = "off"
        /\ heard = 0
-----------------------------------------------------------------------------
(***************************************************************************)
(* The other threads.                                                      *)
(***************************************************************************)
\* push_back and notify_one under mtx_frmque_.  The finder still exists: the
\* callback holds a pointer to it.
NewFrame == /\ ask # "destroy"
            /\ Len(fno) < NumFrames
            /\ \E n \in 0 .. MaxFno : fno' = Append(fno, n)
            /\ que' = Append(que, Len(fno) + 1)
            /\ pc' = IF pc = "wait" THEN "take" ELSE pc
            /\ UNCHANGED <<frame, last, prev, now, points, history, main>>

\* unique(): this pointer is the only owner of the frame's data.
Unique(mine, other) == mine # None /\ mine # other

\* Mutant: IsOver does not look at the queue.
AskQueue_Not == /\ ask = "off" /\ "over" \in Ending
                /\ ask' = "prev"
                /\ heard' = Len(fno)
                /\ UNCHANGED <<input, pc, frame, last, prev, now, points, history>>

\* The three reads of IsOver; one that finds work ends the call.
AskQueue == /\ ask = "off" /\ "over" \in Ending
            /\ que = <<>>
            /\ ask' = "prev"
            /\ heard' = Len(fno)
            /\ UNCHANGED <<input, pc, frame, last, prev, now, points, history>>

AskPrev == /\ ask = "prev"
           /\ ask' = IF Unique(prev, now) THEN "off" ELSE "now"
           /\ UNCHANGED <<input, pc, frame, last, prev, now, points, history, heard>>

AskNow == /\ ask = "now"
          /\ ask' = IF Unique(now, prev) THEN "off" ELSE "over"
          /\ UNCHANGED <<input, pc, frame, last, prev, now, points, history, heard>>

\* The last pointer to the finder is reset: interrupt.
Destroy == /\ \/ "signal" \in Ending /\ ask = "off"
              \/ ask = "over"
           /\ ask' = "destroy"
           /\ UNCHANGED <<input, pc, frame, last, prev, now, points, history, heard>>

\* join: an interrupted thread ends at its wait and nowhere else.
Join == /\ ask = "destroy"
        /\ pc = "wait"
        /\ pc' = "gone"
        /\ UNCHANGED <<input, frame, last, prev, now, points, history, main>>
-----------------------------------------------------------------------------
(***************************************************************************)
(* thread_newframe.                                                        *)
(***************************************************************************)
Goto(p) == /\ pc' = p
           /\ UNCHANGED <<input, frame, last, prev, now, points, history, main>>

\* Mutant: the thread never waits.
TestQueue_Spin == /\ pc = "loop"
                  /\ Goto("take")

\* if (frmque_.empty()), with no lock
TestQueue == /\ pc = "loop"
             /\ Goto(IF que = <<>> THEN "park" ELSE "take")

Park == /\ pc = "park"
        /\ Goto("wait")

\* Mutant: wait, not wait_for.
TimeOut_Never == FALSE /\ UNCHANGED vars

\* wait_for ends after 30 s, or spuriously.
TimeOut == /\ pc = "wait" /\ ask # "destroy"
           /\ Goto("take")

Take == /\ pc = "take"
        /\ IF que = <<>>
           THEN /\ pc' = "idle"
                /\ frame' = None
                /\ UNCHANGED que
           ELSE /\ pc' = "got"
                /\ frame' = Head(que)
                /\ que' = Tail(que)
        /\ UNCHANGED <<fno, last, prev, now, points, history, main>>

\* Mutant: an idle wait does not end the sequence.
NoFrame_Leave == /\ pc = "idle"
                 /\ Goto("loop")

NoFrame == /\ pc = "idle"
           /\ Goto(IF last # INT_MAX THEN "complete" ELSE "loop")

GotFrame == /\ pc = "got"
            /\ Goto(IF fno[frame] >= last THEN "shift"
                    ELSE IF last # INT_MAX THEN "complete" ELSE "open")

\* Whether the followed candidate has the points complete() asks for.
Enough(c) == Cardinality(c) >= MinFrame

\* end_sequence: complete_candidates converts what complete() accepts and
\* erases the rest.
Complete == /\ pc = "complete"
            /\ \/ Enough(can) /\ objects' = objects \cup {can} /\ UNCHANGED can
               \/ objects' = objects /\ can' = {}
            /\ pc' = "resetprev"
            /\ UNCHANGED <<input, frame, last, prev, now, history, main>>

ResetPrev == /\ pc = "resetprev"
             /\ prev' = None
             /\ pc' = "resetnow"
             /\ UNCHANGED <<input, frame, last, now, points, history, main>>

\* Mutant: frmnow_ is kept.
ResetNow_Kept == /\ pc = "resetnow"
                 /\ can' = {}
                 /\ pc' = IF frame = None THEN "doubt" ELSE "open"
                 /\ UNCHANGED <<input, frame, last, prev, now, objects, history, main>>

\* frmnow_.reset() and cans_.clear()
ResetNow == /\ pc = "resetnow"
            /\ now' = None
            /\ can' = {}
            /\ pc' = IF frame = None THEN "doubt" ELSE "open"
            /\ UNCHANGED <<input, frame, last, prev, objects, history, main>>

\* After an idle wait: recheck_doubt, then last_fno_ = INT_MAX.
Doubt == /\ pc = "doubt"
         /\ last' = INT_MAX
         /\ pc' = "loop"
         /\ UNCHANGED <<input, frame, prev, now, points, history, main>>

\* new_sequence and create_dir
Open == /\ pc = "open"
        /\ last' = INT_MAX
        /\ opened' = opened + 1
        /\ pc' = "shift"
        /\ UNCHANGED <<input, frame, prev, now, points, seq, main>>

\* new_frame first makes frmprev_ and frmnow_ the same pointer ...
Shift == /\ pc = "shift"
         /\ last' = fno[frame]
         /\ prev' = now
         /\ seq' = [seq EXCEPT ![frame] = opened]
         /\ pc' = "fill"
         /\ UNCHANGED <<input, frame, now, points, opened, main>>

\* ... then allocates the new frmnow_.
Fill == /\ pc = "fill"
        /\ now' = frame
        /\ pc' = "match"
        /\ UNCHANGED <<input, frame, last, prev, points, history, main>>

\* recheck_candidates: a candidate whose next position leaves the image is
\* converted, if complete() accepts it, and erased.
Recheck(c) == \/ c = can /\ UNCHANGED objects
              \/ c = {} /\ UNCHANGED objects
              \/ c = {} /\ Enough(can) /\ objects' = objects \cup {can}

\* append_candidates may give a candidate a point of this frame;
\* create_candidates starts one from a point of each neighbour.
Extend(c) == \/ can' = c
             \/ c # {} /\ can' = c \cup {now}
             \/ c = {} /\ can' = {prev, now}

\* Mutant: nobody asks whether there is a neighbour.
Match_NoPrev == /\ pc = "match"
                /\ \/ UNCHANGED points
                   \/ \E c \in {can, {}} : Recheck(c) /\ Extend(c)
                /\ pc' = "loop"
                /\ frame' = None
                /\ UNCHANGED <<input, last, prev, now, history, main>>

\* cross_match, and end_frame unless the frame has no neighbour or all its
\* points match.
Match == /\ pc = "match"
         /\ \/ UNCHANGED points
            \/ /\ Unique(prev, now)
               /\ \E c \in {can, {}} : Recheck(c) /\ Extend(c)
         /\ pc' = "loop"
         /\ frame' = None
         /\ UNCHANGED <<input, last, prev, now, history, main>>
-----------------------------------------------------------------------------
Thread == \/ TestQueue \/ Park \/ TimeOut \/ Take \/ NoFrame \/ GotFrame
          \/ Complete \/ ResetPrev \/ ResetNow \/ Doubt \/ Open
          \/ Shift \/ Fill \/ Match

Main == AskQueue \/ AskPrev \/ AskNow \/ Destroy

Next == NewFrame \/ Main \/ Join \/ Thread

Spec == Init /\ [][Next]_vars

\* The scheduler runs the threads; the destructor goes on once it has begun.
FairSpec == Spec /\ WF_vars(Thread) /\ WF_vars(Join)
-----------------------------------------------------------------------------
TypeOK == /\ fno \in Seq(0 .. MaxFno)
          /\ Len(fno) <= NumFrames
          /\ que \in Seq(Given)
          /\ pc \in Pcs
          /\ frame \in Given \cup {None}
          /\ last \in 0 .. INT_MAX
          /\ prev \in Given \cup {None}
          /\ now \in Given \cup {None}
          /\ can \in SUBSET Given
          /\ objects \in SUBSET SUBSET Given
          /\ seq \in [1 .. NumFrames -> Nat]
          /\ opened \in Nat
          /\ ask \in {"off", "prev", "now", "over", "destroy"}
          /\ heard \in 0 .. NumFrames

\* cross_match compares only frames that are neighbours in the queue and belong
\* to the sequence that is open: nothing of an older sequence stays in frmprev_.
NeighboursOnly ==
  pc = "match" /\ prev # None => /\ now = prev + 1
                                 /\ seq[prev] = opened
                                 /\ seq[now] = opened
                                 /\ fno[prev] <= fno[now]

\* An object links frames of one sequence only, whose numbers do not go back,
\* and has MINFRAME points or more.
ObjectsInOneSequence ==
  \A o \in objects :
    /\ Enough(o)
    /\ \A f, g \in o : seq[f] = seq[g] /\ (f < g => fno[f] <= fno[g])

\* When main destroys the finder because IsOver said so, the thread has taken
\* every frame that the call of IsOver could see: those in the queue are the
\* thread's own work, it ends only at its wait, and none is thrown away unread.
GoneHasTaken == pc = "gone" => \A f \in 1 .. heard : seq[f] # 0

Closed(f) == seq[f] # 0 /\ (seq[f] = opened => prev = None /\ now = None)

\* IsOver says "processing is complete" (AFindPV.h): when it answers true, every
\* frame it had been given when it was called is in a sequence that is closed.
OverMeansDone == ask = "over" => \A f \in 1 .. heard : Closed(f)

\* A frame is taken into a sequence even when its notify was lost, unless the
\* finder is destroyed first.
EveryFrameTaken ==
  \A f \in 1 .. NumFrames : f \in Given ~> (seq[f] # 0 \/ ask = "destroy")

\* Every sequence is closed in the end, so every candidate is judged and IsOver
\* comes to hold (unless the finder is destroyed first).
EverySequenceCloses == now # None ~> (now = None \/ ask = "destroy")

\* The destructor's join returns: the thread comes to its wait, the only place
\* where it can be interrupted.
DestroyReturns == ask = "destroy" ~> pc = "gone"
=============================================================================
