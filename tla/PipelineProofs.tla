--------------------------- MODULE PipelineProofs ---------------------------
(***************************************************************************)
(* Proofs about Pipeline, for any number of frames and cameras and any     *)
(* configuration.  The first part is about every run of the pipeline       *)
(* (Spec).  The second is about runs in which a stage's worker takes no    *)
(* further frame while the stage's result is being reported (PromptSpec):  *)
(* every callback hands on its own frame, and the pipeline is the chain of *)
(* first-in first-out lines of FrameLine.                                  *)
(*                                                                         *)
(* The argument of the second part: under Prompt only the thread a stage   *)
(* launched last can be short of its hand-over, so frame_ is that thread's *)
(* frame until then.                                                       *)
(***************************************************************************)
EXTENDS Pipeline, SequenceTheorems, TLAPS

(* ------------------------------ every run ------------------------------- *)

\* The type invariant and the facts every step relies on.
IInv == TypeOK /\ OneAtATime /\ RunsItsFrame /\ StartHasWork /\ FramesKnown

\* The objects create_objects makes satisfy the invariant.
LEMMA InitInv == Init => IInv
  BY NumFramesAssumption
     DEF Init, IInv, TypeOK, OneAtATime, RunsItsFrame, StartHasWork, FramesKnown, Stage, Frame,
         WorkerPc, FinderState, NoFrame

\* Replacing one job of one stage keeps jobs well typed.
LEMMA JobUpdate ==
  ASSUME jobs \in [Stage -> Seq(Job)], NEW s \in Stage, NEW k \in 1 .. Len(jobs[s]),
         NEW j \in Job, jobs' = [jobs EXCEPT ![s][k] = j]
  PROVE  /\ jobs' \in [Stage -> Seq(Job)]
         /\ \A t \in Stage : Len(jobs'[t]) = Len(jobs[t])
         /\ jobs'[s][k] = j
         /\ \A t \in Stage : \A i \in 1 .. Len(jobs[t]) :
              (t # s \/ i # k) => jobs'[t][i] = jobs[t][i]
<1>1. jobs[s] \in Seq(Job)
  OBVIOUS
<1>2. [jobs[s] EXCEPT ![k] = j] \in Seq(Job) /\ Len([jobs[s] EXCEPT ![k] = j]) = Len(jobs[s])
  BY <1>1, ExceptSeq
<1>3. jobs' = [jobs EXCEPT ![s] = [jobs[s] EXCEPT ![k] = j]]
  OBVIOUS
<1>4. jobs' \in [Stage -> Seq(Job)]
  BY <1>2, <1>3
<1>5. ASSUME NEW t \in Stage
      PROVE  Len(jobs'[t]) = Len(jobs[t])
  BY <1>2, <1>3
<1>6. jobs'[s] = [jobs[s] EXCEPT ![k] = j]
  BY <1>3
<1>7. jobs'[s][k] = j
  BY <1>1, <1>6
<1>8. ASSUME NEW t \in Stage, NEW i \in 1 .. Len(jobs[t]), t # s \/ i # k
      PROVE  jobs'[t][i] = jobs[t][i]
  BY <1>1, <1>3, <1>6, <1>8
<1> QED
  BY <1>4, <1>5, <1>7, <1>8

\* A thread past its "run" phase that moves on to another late phase disturbs
\* neither working_ nor frame_.
LEMMA LateJobMoves ==
  ASSUME IInv, NEW s \in Stage, NEW k \in 1 .. Len(jobs[s]), NEW j \in Job,
         jobs[s][k].phase # "run", j.phase # "run",
         j.phase = "push" => j.frame \in Frame,
         jobs' = [jobs EXCEPT ![s][k] = j], UNCHANGED <<working, cur>>
  PROVE  OneAtATime' /\ RunsItsFrame' /\ FramesKnown' /\ jobs' \in [Stage -> Seq(Job)]
<1>1. jobs \in [Stage -> Seq(Job)]
  BY DEF IInv, TypeOK
<1>2. /\ jobs' \in [Stage -> Seq(Job)]
      /\ \A t \in Stage : Len(jobs'[t]) = Len(jobs[t])
      /\ jobs'[s][k] = j
      /\ \A t \in Stage : \A i \in 1 .. Len(jobs[t]) :
           (t # s \/ i # k) => jobs'[t][i] = jobs[t][i]
  BY <1>1, JobUpdate
<1>3. \A t \in Stage : \A i \in 1 .. Len(jobs[t]) :
        /\ jobs'[t][i].phase = "run" <=> jobs[t][i].phase = "run"
        /\ jobs'[t][i].phase = "run" => jobs'[t][i] = jobs[t][i]
  BY <1>2
<1>4. OneAtATime'
  BY <1>2, <1>3 DEF IInv, OneAtATime
<1>5. RunsItsFrame'
  BY <1>2, <1>3 DEF IInv, RunsItsFrame
<1>6. FramesKnown'
  <2>1. \A t \in Stage : jobs'[t] # <<>> => jobs[t] # <<>>
    BY <1>1, <1>2
  <2> QED
    BY <1>2, <2>1 DEF IInv, FramesKnown
<1> QED
  BY <1>2, <1>4, <1>5, <1>6

\* A notify never makes a worker start without work, nor does a push.
LEMMA NotifyKeeps ==
  ASSUME IInv, NEW s \in Stage, Notify(s), UNCHANGED <<queue, working>>
  PROVE  wpc' \in [Stage -> WorkerPc] /\ StartHasWork'
<1>1. wpc' \in [Stage -> WorkerPc]
  BY DEF IInv, TypeOK, Notify, Woken, WorkerPc
<1>2. \A t \in Stage : wpc'[t] = "start" => wpc[t] = "start"
  BY DEF IInv, TypeOK, Notify, Woken
<1> QED
  BY <1>1, <1>2 DEF IInv, StartHasWork

\* Pushing a frame onto a queue under its mutex, with the notify.
LEMMA PushKeeps ==
  ASSUME IInv, NEW s \in Stage, NEW f \in Frame, PushFrame(s, f), UNCHANGED working
  PROVE  /\ queue' \in [Stage -> Seq(Frame)]
         /\ wpc' \in [Stage -> WorkerPc]
         /\ StartHasWork'
<1>1. queue' \in [Stage -> Seq(Frame)]
  BY DEF IInv, TypeOK, PushFrame
<1>2. wpc' \in [Stage -> WorkerPc]
  BY DEF IInv, TypeOK, PushFrame, Notify, Woken, WorkerPc
<1>3. \A t \in Stage : wpc'[t] = "start" => wpc[t] = "start"
  BY DEF IInv, TypeOK, PushFrame, Notify, Woken
<1>4. \A t \in Stage : queue[t] # <<>> => queue'[t] # <<>>
  <2>1. queue'[s] = Append(queue[s], f) /\ \A t \in Stage : t # s => queue'[t] = queue[t]
    BY DEF IInv, TypeOK, PushFrame
  <2>2. queue[s] \in Seq(Frame)
    BY DEF IInv, TypeOK
  <2>3. Append(queue[s], f) # <<>>
    BY <2>2, AppendProperties
  <2> QED
    BY <2>1, <2>3
<1> QED
  BY <1>1, <1>2, <1>3, <1>4 DEF IInv, StartHasWork

\* The steps of a processing thread.
LEMMA ProcessingStep ==
  ASSUME IInv, NEW s \in Stage, NEW k \in 1 .. Len(jobs[s]), Processing(s, k)
  PROVE  IInv'
<1> DEFINE job == jobs[s][k]
<1>1. /\ TypeOK /\ OneAtATime /\ RunsItsFrame /\ StartHasWork /\ FramesKnown
      /\ jobs \in [Stage -> Seq(Job)]
  BY DEF IInv, TypeOK
<1>j. job \in Job
  BY <1>1
<1>2. CASE Finish(s, k)
  <2>1. PICK ok \in BOOLEAN :
          /\ good' = IF ok THEN [good EXCEPT ![s] = @ \cup {cur[s]}] ELSE good
          /\ jobs' = [jobs EXCEPT ![s][k].phase = IF s = "reduct" THEN "judge" ELSE "report",
                                  ![s][k].ok = ok /\ s # "reduct"]
    BY <1>2 DEF Finish
  <2> DEFINE j == [job EXCEPT !.phase = IF s = "reduct" THEN "judge" ELSE "report",
                              !.ok = ok /\ s # "reduct"]
  <2>2. j \in Job /\ j.phase # "run"
    BY <1>j DEF Job, Phase
  <2>3. jobs' = [jobs EXCEPT ![s][k] = j]
    BY <2>1, <1>1 DEF TypeOK
  <2> HIDE DEF j
  <2>4. job.phase = "run" /\ k = Len(jobs[s]) /\ cur[s] = job.target
    BY <1>1, <1>2 DEF Finish, InPhase, OneAtATime, RunsItsFrame
  <2>5. /\ jobs' \in [Stage -> Seq(Job)]
        /\ \A t \in Stage : Len(jobs'[t]) = Len(jobs[t])
        /\ jobs'[s][k] = j
        /\ \A t \in Stage : \A i \in 1 .. Len(jobs[t]) :
             (t # s \/ i # k) => jobs'[t][i] = jobs[t][i]
    BY <1>1, <2>2, <2>3, JobUpdate
  <2>6. cur[s] \in Frame
    BY <1>j, <2>4 DEF Job
  <2>7. good' \in [Stage -> SUBSET Frame]
    BY <1>1, <2>1, <2>6 DEF TypeOK
  <2>8. TypeOK'
    BY <1>1, <1>2, <2>5, <2>7 DEF TypeOK, Finish, history, mainVars
  <2>9. OneAtATime'
    <3>1. ~working'[s] /\ \A t \in Stage : t # s => working'[t] = working[t]
      BY <1>1, <1>2 DEF TypeOK, Finish
    <3>2. \A i \in 1 .. Len(jobs'[s]) : jobs'[s][i].phase # "run"
      <4>1. \A i \in 1 .. Len(jobs[s]) : i # k => jobs[s][i].phase # "run"
        BY <1>1, <2>4 DEF OneAtATime
      <4> QED
        BY <2>2, <2>5, <4>1
    <3>3. \A t \in Stage : t # s =>
            /\ Len(jobs'[t]) = Len(jobs[t])
            /\ \A i \in 1 .. Len(jobs'[t]) : jobs'[t][i] = jobs[t][i]
      BY <2>5
    <3> QED
      BY <1>1, <3>1, <3>2, <3>3 DEF OneAtATime
  <2>10. RunsItsFrame'
    BY <1>1, <1>2, <2>2, <2>5 DEF RunsItsFrame, Finish
  <2>11. StartHasWork'
    BY <1>1, <1>2 DEF StartHasWork, TypeOK, Finish
  <2>12. FramesKnown'
    <3>1. \A t \in Stage : jobs'[t] # <<>> => jobs[t] # <<>>
      BY <1>1, <2>5
    <3>2. j.phase # "push"
      BY <1>j DEF j, Job
    <3>3. cur' = cur
      BY <1>2 DEF Finish
    <3> QED
      BY <1>1, <2>5, <3>1, <3>2, <3>3 DEF FramesKnown
  <2> QED
    BY <2>8, <2>9, <2>10, <2>11, <2>12 DEF IInv
<1> DEFINE Moved(j) == /\ j \in Job /\ j.phase # "run"
                       /\ j.phase = "push" => j.frame \in Frame
                       /\ jobs' = [jobs EXCEPT ![s][k] = j]
                       /\ UNCHANGED <<working, cur>>
<1>m. ASSUME NEW j, Moved(j), job.phase # "run"
      PROVE  OneAtATime' /\ RunsItsFrame' /\ FramesKnown' /\ jobs' \in [Stage -> Seq(Job)]
  BY <1>m, LateJobMoves
<1>s. ASSUME UNCHANGED <<queue, wpc, working>>
      PROVE  StartHasWork'
  BY <1>1, <1>s DEF StartHasWork
<1>3. CASE JudgeReduct(s, k)
  <2> DEFINE j == [job EXCEPT !.phase = "report", !.ok = cur[s] \in good[s]]
  <2>a. j \in Job /\ j.phase = "report"
    <3>1. \A ok \in BOOLEAN : LET i == [job EXCEPT !.phase = "report", !.ok = ok]
                              IN i \in Job /\ i.phase = "report"
      BY <1>j DEF Job, Phase
    <3>2. (cur[s] \in good[s]) \in BOOLEAN
      OBVIOUS
    <3> QED
      BY <3>1, <3>2, Zenon
  <2>b. jobs' = [jobs EXCEPT ![s][k] = j] /\ UNCHANGED <<working, cur>>
    BY <1>3, <1>1 DEF JudgeReduct
  <2>1. Moved(j)
    BY <2>a, <2>b
  <2>2. OneAtATime' /\ RunsItsFrame' /\ FramesKnown' /\ jobs' \in [Stage -> Seq(Job)]
    BY <1>3, <1>m, <2>1 DEF JudgeReduct, InPhase
  <2>3. TypeOK' /\ StartHasWork'
    BY <1>1, <1>3, <1>s, <2>2 DEF TypeOK, JudgeReduct, history, mainVars
  <2> QED
    BY <2>2, <2>3 DEF IInv
<1>4. CASE TakeFrame(s, k)
  <2>0. cur[s] \in Frame
    BY <1>1 DEF FramesKnown
  <2> DEFINE j == [job EXCEPT !.phase = "push", !.frame = cur[s]]
  <2>a. j \in Job /\ j.phase = "push" /\ j.frame \in Frame
    BY <1>j, <2>0 DEF Job, Phase
  <2>b. jobs' = [jobs EXCEPT ![s][k] = j] /\ UNCHANGED <<working, cur>>
    BY <1>4, <1>1 DEF TakeFrame
  <2>1. Moved(j)
    BY <2>a, <2>b
  <2>2. OneAtATime' /\ RunsItsFrame' /\ FramesKnown' /\ jobs' \in [Stage -> Seq(Job)]
    BY <1>4, <1>m, <2>1 DEF TakeFrame, InPhase
  <2>3. TypeOK' /\ StartHasWork'
    BY <1>1, <1>4, <1>s, <2>2 DEF TypeOK, TakeFrame, history, mainVars
  <2> QED
    BY <2>2, <2>3 DEF IInv
<1>a. ASSUME Acked(s, k), job.phase # "run", UNCHANGED <<working, cur>>
      PROVE  OneAtATime' /\ RunsItsFrame' /\ FramesKnown' /\ jobs' \in [Stage -> Seq(Job)]
  <2>1. Moved([job EXCEPT !.phase = "ack"])
    BY <1>j, <1>1, <1>a DEF Acked, Job, Phase
  <2> QED
    BY <1>m, <1>a, <2>1
<1>5. CASE HandOn(s, k)
  <2>1. OneAtATime' /\ RunsItsFrame' /\ FramesKnown' /\ jobs' \in [Stage -> Seq(Job)]
    BY <1>a, <1>5 DEF HandOn, InPhase
  <2>2. NextStage[s] \in Stage
    BY <1>5 DEF HandOn, NextStage, Stage
  <2>3. job.frame \in Frame
    BY <1>1, <1>5 DEF FramesKnown, HandOn, InPhase
  <2>4. /\ queue' \in [Stage -> Seq(Frame)]
        /\ wpc' \in [Stage -> WorkerPc]
        /\ StartHasWork'
    BY <1>5, <2>2, <2>3, PushKeeps DEF HandOn
  <2>5. TypeOK'
    BY <1>1, <1>5, <2>1, <2>4 DEF TypeOK, HandOn, history, mainVars
  <2> QED
    BY <2>1, <2>4, <2>5 DEF IInv
<1>6. CASE HandOnNothing(s, k)
  <2>1. OneAtATime' /\ RunsItsFrame' /\ FramesKnown' /\ jobs' \in [Stage -> Seq(Job)]
    BY <1>a, <1>6 DEF HandOnNothing, InPhase
  <2>2. TypeOK' /\ StartHasWork'
    BY <1>1, <1>j, <1>6, <1>s, <2>1 DEF TypeOK, HandOnNothing, mainVars, Job
  <2> QED
    BY <2>1, <2>2 DEF IInv
<1>7. CASE HandToFinder(s, k)
  <2>1. OneAtATime' /\ RunsItsFrame' /\ FramesKnown' /\ jobs' \in [Stage -> Seq(Job)]
    BY <1>a, <1>7 DEF HandToFinder, InPhase
  <2>2. job.frame \in Frame
    BY <1>1, <1>7 DEF FramesKnown, HandToFinder, InPhase
  <2>3. finder' \in [Camera -> FinderState]
    BY <1>1, <1>7 DEF TypeOK, HandToFinder, FinderState
  <2>5. delivered' = Append(delivered, job.frame) /\ delivered \in Seq(Frame)
    BY <1>1, <1>7 DEF TypeOK, HandToFinder
  <2>6. delivered' \in Seq(Frame)
    BY <2>2, <2>5, AppendProperties
  <2>4. TypeOK' /\ StartHasWork'
    BY <1>1, <1>7, <1>s, <2>1, <2>3, <2>6 DEF TypeOK, HandToFinder, mainVars
  <2> QED
    BY <2>1, <2>4 DEF IInv
<1>8. CASE FinderGone(s, k)
  BY <1>1, <1>8 DEF IInv, FinderGone, TypeOK, OneAtATime, RunsItsFrame, StartHasWork,
                    FramesKnown, jobVars, history
<1>9. CASE Ack(s, k)
  <2> DEFINE j == [job EXCEPT !.phase = "end", !.ok = FALSE, !.frame = NoFrame]
  <2>1. j \in Job /\ j.phase = "end"
    BY <1>j DEF Job, Phase
  <2>2. jobs' = [jobs EXCEPT ![s][k] = j] /\ UNCHANGED <<working, cur>>
    BY <1>1, <1>9 DEF Ack
  <2>3. Moved(j)
    BY <2>1, <2>2
  <2>4. OneAtATime' /\ RunsItsFrame' /\ FramesKnown' /\ jobs' \in [Stage -> Seq(Job)]
    BY <1>9, <1>m, <2>3 DEF Ack, InPhase
  <2>5. wpc' \in [Stage -> WorkerPc] /\ StartHasWork'
    BY <1>9, NotifyKeeps DEF Ack
  <2>6. TypeOK'
    BY <1>1, <1>9, <2>4, <2>5 DEF TypeOK, Ack, history, mainVars
  <2> QED
    BY <2>4, <2>5, <2>6 DEF IInv
<1> QED
  BY <1>2, <1>3, <1>4, <1>5, <1>6, <1>7, <1>8, <1>9 DEF Processing

\* A step that leaves the queues, the worker counters and the jobs alone.
LEMMA JobsUntouched ==
  ASSUME IInv, TypeOK', UNCHANGED <<queue, wpc, jobVars>>
  PROVE  IInv'
BY DEF IInv, jobVars, OneAtATime, RunsItsFrame, StartHasWork, FramesKnown

\* A step that leaves the jobs alone and starts no worker.
LEMMA WorkerKeeps ==
  ASSUME IInv, TypeOK', StartHasWork', UNCHANGED <<working, cur, jobs>>
  PROVE  IInv'
BY DEF IInv, OneAtATime, RunsItsFrame, FramesKnown

\* Taking the head of a queue.
LEMMA PopKeeps ==
  ASSUME IInv, NEW s \in Stage, PopHead(s)
  PROVE  /\ queue' \in [Stage -> Seq(Frame)]
         /\ wpc' \in [Stage -> WorkerPc]
         /\ Head(queue[s]) \in Frame
         /\ wpc'[s] = "test"
         /\ \A t \in Stage : t # s => wpc'[t] = wpc[t] /\ queue'[t] = queue[t]
<1>1. queue[s] \in Seq(Frame) /\ queue[s] # <<>>
  BY DEF IInv, TypeOK, PopHead
<1>2. Head(queue[s]) \in Frame /\ Tail(queue[s]) \in Seq(Frame)
  BY <1>1, HeadTailProperties
<1> QED
  BY <1>2 DEF IInv, TypeOK, PopHead, WorkerPc

\* The steps of a worker.
LEMMA WorkerStep ==
  ASSUME IInv, NEW s \in Stage, Worker(s) \/ SpuriousWake(s)
  PROVE  IInv'
<1>1. TypeOK /\ OneAtATime /\ RunsItsFrame /\ StartHasWork /\ FramesKnown
  BY DEF IInv
<1>2. CASE Test(s)
  <2>1. TypeOK'
    BY <1>1, <1>2 DEF TypeOK, Test, jobVars, history, mainVars, WorkerPc
  <2>2. StartHasWork'
    BY <1>1, <1>2 DEF TypeOK, StartHasWork, Test, jobVars, HasWork
  <2> QED
    BY <1>2, <2>1, <2>2, WorkerKeeps DEF Test, jobVars
<1>3. CASE Park(s) \/ SpuriousWake(s)
  <2>1. TypeOK'
    BY <1>1, <1>3 DEF TypeOK, Park, SpuriousWake, jobVars, history, mainVars, WorkerPc
  <2>2. StartHasWork'
    BY <1>1, <1>3 DEF TypeOK, StartHasWork, Park, SpuriousWake, jobVars
  <2> QED
    BY <1>3, <2>1, <2>2, WorkerKeeps DEF Park, SpuriousWake, jobVars
<1>4. ASSUME PopHead(s), left' \in {left, left \cup {Head(queue[s])}},
             UNCHANGED <<working, jobs>>,
             cur' = cur \/ (cur' = [cur EXCEPT ![s] = Head(queue[s])] /\ ~working[s])
      PROVE  IInv'
  <2>1. Head(queue[s]) \in Frame
    BY <1>4, PopKeeps
  <2>2. TypeOK'
    <3>1. queue' \in [Stage -> Seq(Frame)] /\ wpc' \in [Stage -> WorkerPc]
      BY <1>4, PopKeeps
    <3>2. cur' \in [Stage -> Frame \cup {NoFrame}] /\ left' \in SUBSET Frame
      BY <1>1, <1>4, <2>1 DEF TypeOK
    <3>3. UNCHANGED <<working, jobs, good, finder, delivered, submitted, main, at>>
      BY <1>4 DEF PopHead, mainVars
    <3> QED
      BY <1>1, <3>1, <3>2, <3>3 DEF TypeOK
  <2>3. StartHasWork'
    BY <1>1, <1>4, PopKeeps DEF StartHasWork
  <2>4. RunsItsFrame'
    BY <1>1, <1>4, <2>1 DEF RunsItsFrame, OneAtATime, TypeOK
  <2>5. FramesKnown'
    BY <1>1, <1>4, <2>1 DEF FramesKnown, TypeOK
  <2>6. OneAtATime'
    BY <1>1, <1>4 DEF OneAtATime
  <2> QED
    BY <2>2, <2>3, <2>4, <2>5, <2>6 DEF IInv
<1>5. CASE s = "reduct" /\ Reject
  BY <1>4, <1>5 DEF Reject
<1>6. CASE ForkFails(s)
  BY <1>1, <1>4, <1>6 DEF ForkFails, StartHasWork, PopHead
<1>7. CASE Launch(s)
  <2>1. PopHead(s) /\ ~working[s]
    BY <1>1, <1>7 DEF Launch, StartHasWork, PopHead
  <2> DEFINE f == Head(queue[s])
             j == NewJob(f)
  <2>2. f \in Frame
    BY <2>1, PopKeeps
  <2>3. j \in Job /\ j.phase = "run" /\ j.target = f
    BY <2>2 DEF NewJob, Job, Phase
  <2>4. /\ cur' = [cur EXCEPT ![s] = f]
        /\ working' = [working EXCEPT ![s] = TRUE]
        /\ jobs' = [jobs EXCEPT ![s] = Append(@, j)]
        /\ left' = left
    BY <1>7, <2>1 DEF Launch
  <2> HIDE DEF f, j
  <2>5. jobs[s] \in Seq(Job)
    BY <1>1 DEF TypeOK
  <2>6. /\ Append(jobs[s], j) \in Seq(Job)
        /\ Len(Append(jobs[s], j)) = Len(jobs[s]) + 1
        /\ \A i \in 1 .. Len(jobs[s]) : Append(jobs[s], j)[i] = jobs[s][i]
        /\ Append(jobs[s], j)[Len(jobs[s]) + 1] = j
    BY <2>3, <2>5, AppendProperties
  <2>7. /\ jobs'[s] = Append(jobs[s], j)
        /\ \A t \in Stage : t # s => jobs'[t] = jobs[t]
        /\ jobs' \in [Stage -> Seq(Job)]
        /\ working'[s] /\ cur'[s] = f
        /\ \A t \in Stage : t # s => working'[t] = working[t] /\ cur'[t] = cur[t]
    BY <1>1, <2>4, <2>6 DEF TypeOK
  <2>8. \A i \in 1 .. Len(jobs[s]) : jobs[s][i].phase # "run"
    BY <1>1, <2>1 DEF OneAtATime
  <2>9. Len(jobs[s]) \in Nat /\ Len(jobs'[s]) = Len(jobs[s]) + 1
    BY <2>5, <2>6, <2>7
  <2>10. \A i \in 1 .. Len(jobs'[s]) :
           IF i = Len(jobs'[s]) THEN jobs'[s][i] = j
           ELSE i \in 1 .. Len(jobs[s]) /\ jobs'[s][i] = jobs[s][i]
    BY <2>6, <2>7, <2>9
  <2>11. TypeOK'
    <3>1. queue' \in [Stage -> Seq(Frame)] /\ wpc' \in [Stage -> WorkerPc]
      BY <2>1, PopKeeps
    <3>2. cur' \in [Stage -> Frame \cup {NoFrame}] /\ working' \in [Stage -> BOOLEAN]
      BY <1>1, <2>2, <2>4 DEF TypeOK
    <3>3. UNCHANGED <<left, good, finder, delivered, submitted, main, at>>
      BY <2>1, <2>4 DEF PopHead, mainVars
    <3> QED
      BY <1>1, <2>7, <3>1, <3>2, <3>3 DEF TypeOK
  <2>12. OneAtATime'
    <3>1. \A i \in 1 .. Len(jobs'[s]) : jobs'[s][i].phase = "run" => i = Len(jobs'[s])
      BY <2>8, <2>10
    <3>2. \E i \in 1 .. Len(jobs'[s]) : jobs'[s][i].phase = "run"
      <4>1. Len(jobs'[s]) \in 1 .. Len(jobs'[s])
        BY <2>9
      <4> QED
        BY <2>3, <2>10, <4>1
    <3>3. \A t \in Stage : t # s =>
            /\ \A i \in 1 .. Len(jobs'[t]) : jobs'[t][i].phase = "run" => i = Len(jobs'[t])
            /\ working'[t] <=> \E i \in 1 .. Len(jobs'[t]) : jobs'[t][i].phase = "run"
      BY <1>1, <2>7 DEF OneAtATime
    <3>4. working'[s] <=> \E i \in 1 .. Len(jobs'[s]) : jobs'[s][i].phase = "run"
      BY <2>7, <3>2
    <3> QED
      BY <3>1, <3>3, <3>4 DEF OneAtATime
  <2>13. RunsItsFrame'
    BY <1>1, <2>3, <2>7, <2>8, <2>10 DEF RunsItsFrame
  <2>14. StartHasWork'
    BY <1>1, <2>1, <2>7, PopKeeps DEF StartHasWork
  <2>15. FramesKnown'
    BY <1>1, <2>2, <2>3, <2>7, <2>10 DEF FramesKnown
  <2> QED
    BY <2>11, <2>12, <2>13, <2>14, <2>15 DEF IInv
<1> QED
  BY <1>2, <1>3, <1>5, <1>6, <1>7 DEF Worker

\* The steps of the main thread, the file feeder and the finders.
LEMMA MainStep ==
  ASSUME IInv, Submit \/ Signal \/ MainThread \/ \E c \in Camera : FinderIdle(c)
  PROVE  IInv'
<1>1. TypeOK /\ StartHasWork
  BY DEF IInv
<1>2. CASE Submit
  <2>1. submitted + 1 \in Frame
    BY <1>1, <1>2, NumFramesAssumption DEF TypeOK, Submit, Frame
  <2>2. "reduct" \in Stage
    BY DEF Stage
  <2>3. /\ queue' \in [Stage -> Seq(Frame)]
        /\ wpc' \in [Stage -> WorkerPc]
        /\ StartHasWork'
    BY <1>2, <2>1, <2>2, PushKeeps DEF Submit, jobVars
  <2>4. TypeOK'
    BY <1>1, <1>2, <2>1, <2>3 DEF TypeOK, Submit, jobVars, history, mainVars, Frame
  <2> QED
    BY <1>2, <2>3, <2>4, WorkerKeeps DEF Submit, jobVars
<1>3. CASE JoinWorker
  <2> DEFINE w == Order[at]
  <2>a. w \in Stage
    BY <1>1, <1>3 DEF TypeOK, JoinWorker, Order, Stage
  <2>b. wpc' = [wpc EXCEPT ![w] = "exit"]
    BY <1>3 DEF JoinWorker
  <2> HIDE DEF w
  <2>c. /\ wpc' \in [Stage -> WorkerPc]
        /\ \A s \in Stage : wpc'[s] = "start" => wpc[s] = "start"
    BY <1>1, <2>a, <2>b DEF TypeOK, WorkerPc
  <2>1. TypeOK'
    BY <1>1, <1>3, <2>c DEF TypeOK, JoinWorker, jobVars, history
  <2>2. StartHasWork'
    BY <1>1, <1>3, <2>c DEF StartHasWork, JoinWorker, jobVars
  <2> QED
    BY <1>3, <2>1, <2>2, WorkerKeeps DEF JoinWorker, jobVars
<1>4. CASE Signal \/ Fed \/ PollQueue \/ PollFinders
  <2>1. TypeOK'
    BY <1>1, <1>4 DEF TypeOK, Signal, Fed, PollQueue, PollFinders, jobVars, history
  <2> QED
    BY <1>4, <2>1, JobsUntouched DEF Signal, Fed, PollQueue, PollFinders
<1>5. CASE ResetFinders \/ \E c \in Camera : FinderIdle(c)
  <2>1. TypeOK'
    BY <1>1, <1>5 DEF TypeOK, ResetFinders, FinderIdle, FinderState, jobVars, history, mainVars
  <2> QED
    BY <1>5, <2>1, JobsUntouched DEF ResetFinders, FinderIdle
<1> QED
  BY <1>2, <1>3, <1>4, <1>5 DEF MainThread

\* Every step of every thread preserves the invariant.
LEMMA NextKeeps == IInv /\ [Next]_vars => IInv'
<1> SUFFICES ASSUME IInv, [Next]_vars
             PROVE  IInv'
  OBVIOUS
<1>1. CASE UNCHANGED vars
  BY <1>1 DEF vars, IInv, TypeOK, OneAtATime, RunsItsFrame, StartHasWork, FramesKnown
<1>2. CASE Next
  BY <1>2, MainStep, WorkerStep, ProcessingStep DEF Next
<1> QED
  BY <1>1, <1>2

\* In every state, in any interleaving: the types, and each stage processes one
\* frame at a time with working_ telling so (working_ is shared without a lock).
THEOREM Invariance == Spec => []IInv
BY InitInv, NextKeeps, PTL DEF Spec

\* Queues, flags, frame pointers and thread phases stay in their types.
THEOREM TypeCorrect == Spec => []TypeOK
BY Invariance, PTL DEF IInv

\* Each stage processes one frame at a time and working_ says whether it does.
THEOREM StagesExclusive == Spec => []OneAtATime
BY Invariance, PTL DEF IInv

\* The results of a processing thread go to the frame it was launched for.
THEOREM ResultsToTheRightFrame == Spec => []RunsItsFrame
BY Invariance, PTL DEF IInv

\* The unlocked test of a worker is still true when it takes the frame: pop_front
\* never finds the queue empty and DoIt never finds the stage busy.
THEOREM TestStaysTrue == Spec => []StartHasWork
BY Invariance, PTL DEF IInv
-----------------------------------------------------------------------------
\* StopService: the workers it has joined are gone for good.
Joined == /\ main = "stop" => \A i \in 1 .. at - 1 : wpc[Order[i]] = "exit"
          /\ main = "stopped" => \A s \in Stage : wpc[s] = "exit"

\* A worker that has ended never comes back, whatever is notified.
LEMMA ExitIsFinal ==
  ASSUME TypeOK, Next, NEW s \in Stage, wpc[s] = "exit"
  PROVE  wpc'[s] = "exit"
<1>1. wpc \in [Stage -> WorkerPc]
  BY DEF TypeOK
<1>2. ASSUME NEW t \in Stage, Notify(t) PROVE wpc'[s] = "exit"
  BY <1>1, <1>2 DEF Notify, Woken
<1>3. CASE Submit
  <2>1. "reduct" \in Stage /\ Notify("reduct")
    BY <1>3 DEF Submit, PushFrame, Stage
  <2> QED
    BY <1>2, <2>1
<1>4. CASE Signal \/ MainThread \/ \E c \in Camera : FinderIdle(c)
  BY <1>1, <1>4 DEF Signal, MainThread, Fed, PollQueue, PollFinders, JoinWorker, ResetFinders,
                    FinderIdle
<1>5. ASSUME NEW t \in Stage, Worker(t) \/ SpuriousWake(t) PROVE wpc'[s] = "exit"
  BY <1>1, <1>5 DEF Worker, Test, Park, Reject, ForkFails, Launch, PopHead, SpuriousWake
<1>6. ASSUME NEW t \in Stage, NEW k \in 1 .. Len(jobs[t]), Processing(t, k)
      PROVE  wpc'[s] = "exit"
  <2>1. CASE UNCHANGED wpc
    BY <2>1
  <2>2. CASE HandOn(t, k)
    <3>1. NextStage[t] \in Stage /\ Notify(NextStage[t])
      BY <2>2 DEF HandOn, PushFrame, NextStage, Stage
    <3> QED
      BY <1>2, <3>1
  <2>3. CASE Ack(t, k)
    BY <1>2, <2>3 DEF Ack
  <2> QED
    BY <1>6, <2>1, <2>2, <2>3 DEF Processing, Finish, JudgeReduct, TakeFrame, HandOnNothing,
                                  HandToFinder, FinderGone
<1> QED
  BY <1>3, <1>4, <1>5, <1>6 DEF Next

\* Only StopService's own steps move main and at once it runs.
LEMMA StopSteps ==
  ASSUME Next, main \in {"stop", "stopped"}, main' \in {"stop", "stopped"}
  PROVE  JoinWorker \/ ResetFinders \/ UNCHANGED <<main, at>>
<1>1. CASE Submit \/ Signal \/ MainThread \/ \E c \in Camera : FinderIdle(c)
  BY <1>1 DEF Submit, Signal, MainThread, Fed, PollQueue, PollFinders, FinderIdle, mainVars
<1>2. ASSUME NEW t \in Stage, Worker(t) \/ SpuriousWake(t) PROVE UNCHANGED <<main, at>>
  BY <1>2 DEF Worker, Test, Park, Reject, ForkFails, Launch, PopHead, SpuriousWake, mainVars
<1>3. ASSUME NEW t \in Stage, NEW k \in 1 .. Len(jobs[t]), Processing(t, k)
      PROVE  UNCHANGED <<main, at>>
  BY <1>3 DEF Processing, Finish, JudgeReduct, TakeFrame, HandOn, HandOnNothing, HandToFinder,
              FinderGone, Ack, mainVars
<1> QED
  BY <1>1, <1>2, <1>3 DEF Next

\* Every step keeps the joined workers gone.
LEMMA JoinedKeeps ==
  ASSUME IInv, Joined, Next
  PROVE  Joined'
<1>1. TypeOK /\ wpc \in [Stage -> WorkerPc] /\ at \in 1 .. 5
  BY DEF IInv, TypeOK
<1>2. /\ \A i \in 1 .. 4 : Order[i] \in Stage
      /\ \A s \in Stage : \E i \in 1 .. 4 : s = Order[i]
  BY DEF Order, Stage
<1>3. \A s \in Stage : wpc[s] = "exit" => wpc'[s] = "exit"
  BY <1>1, ExitIsFinal
<1>4. CASE main \in {"stop", "stopped"} /\ main' \in {"stop", "stopped"}
  <2>1. CASE JoinWorker
    <3>1. /\ main = "stop" /\ main' = "stop" /\ at \in 1 .. 4 /\ at' = at + 1
          /\ wpc' = [wpc EXCEPT ![Order[at]] = "exit"]
      BY <1>1, <2>1 DEF JoinWorker
    <3>2. wpc'[Order[at]] = "exit"
      BY <1>1, <1>2, <3>1
    <3>3. \A i \in 1 .. at' - 1 : wpc'[Order[i]] = "exit"
      <4> TAKE i \in 1 .. at' - 1
      <4>1. i = at \/ i \in 1 .. at - 1
        BY <1>1, <3>1
      <4>2. i \in 1 .. 4
        BY <3>1
      <4> QED
        BY <1>2, <1>3, <3>1, <3>2, <4>1, <4>2 DEF Joined
    <3> QED
      BY <3>1, <3>3 DEF Joined
  <2>2. CASE ResetFinders
    <3>1. main = "stop" /\ main' = "stopped" /\ at = 5 /\ wpc' = wpc
      BY <2>2 DEF ResetFinders
    <3> QED
      BY <1>2, <3>1 DEF Joined
  <2>3. CASE UNCHANGED <<main, at>>
    <3>1. main = "stop" => \A i \in 1 .. at - 1 : i \in 1 .. 4
      BY <1>1
    <3> QED
      BY <1>2, <1>3, <2>3, <3>1 DEF Joined
  <2> QED
    BY <1>4, <2>1, <2>2, <2>3, StopSteps
<1>5. CASE main \notin {"stop", "stopped"} /\ main' \in {"stop", "stopped"}
  <2>1. main' = "stop" /\ at' = 1
    <3>1. CASE Submit \/ Signal \/ MainThread \/ \E c \in Camera : FinderIdle(c)
      BY <1>5, <3>1 DEF Submit, Signal, MainThread, Fed, PollQueue, PollFinders, JoinWorker,
                        ResetFinders, FinderIdle, mainVars
    <3>2. ASSUME NEW t \in Stage, Worker(t) \/ SpuriousWake(t) PROVE main' = main
      BY <3>2 DEF Worker, Test, Park, Reject, ForkFails, Launch, PopHead, SpuriousWake, mainVars
    <3>3. ASSUME NEW t \in Stage, NEW k \in 1 .. Len(jobs[t]), Processing(t, k)
          PROVE  main' \notin {"stop", "stopped"}
      BY <1>5, <3>3 DEF Processing, Finish, JudgeReduct, TakeFrame, HandOn, HandOnNothing,
                        HandToFinder, FinderGone, Ack, mainVars
    <3> QED
      BY <1>5, <3>1, <3>2, <3>3 DEF Next
  <2> QED
    BY <2>1 DEF Joined
<1>6. CASE main' \notin {"stop", "stopped"}
  BY <1>6 DEF Joined
<1> QED
  BY <1>4, <1>5, <1>6

\* Only a worker that is past its test begins a frame.
LEMMA StartNeedsWorker ==
  ASSUME IInv, Next, \A s \in Stage : wpc[s] # "start"
  PROVE  cur' = cur
<1>1. CASE Submit \/ Signal \/ MainThread \/ \E c \in Camera : FinderIdle(c)
  BY <1>1 DEF Submit, Signal, MainThread, Fed, PollQueue, PollFinders, JoinWorker, ResetFinders,
              FinderIdle, jobVars
<1>2. ASSUME NEW t \in Stage, Worker(t) \/ SpuriousWake(t) PROVE cur' = cur
  BY <1>2 DEF Worker, Test, Park, Reject, ForkFails, Launch, PopHead, SpuriousWake, jobVars
<1>3. ASSUME NEW t \in Stage, NEW k \in 1 .. Len(jobs[t]), Processing(t, k) PROVE cur' = cur
  BY <1>3 DEF Processing, Finish, JudgeReduct, TakeFrame, HandOn, HandOnNothing, HandToFinder,
              FinderGone, Ack, jobVars
<1> QED
  BY <1>1, <1>2, <1>3 DEF Next

\* Once StopService has joined the four workers and returned, no stage begins a frame,
\* though callbacks of threads still processing push and notify.
THEOREM StopIsFinal == Spec => NoStartAfterStop
<1>1. Init => Joined
  BY DEF Init, Joined
<1>2. IInv /\ Joined /\ [Next]_vars => Joined'
  <2>1. IInv /\ Joined /\ Next => Joined'
    BY JoinedKeeps
  <2>2. Joined /\ UNCHANGED vars => Joined'
    BY DEF vars, Joined
  <2> QED
    BY <2>1, <2>2
<1>3. IInv /\ Joined /\ [Next]_vars => [main = "stopped" => cur' = cur]_vars
  <2> SUFFICES ASSUME IInv, Joined, Next, main = "stopped"
               PROVE  cur' = cur
    OBVIOUS
  <2>1. \A s \in Stage : wpc[s] # "start"
    BY DEF Joined
  <2> QED
    BY <2>1, StartNeedsWorker
<1> QED
  BY <1>1, <1>2, <1>3, Invariance, PTL DEF Spec, NoStartAfterStop

(* ------------------------------ prompt runs ----------------------------- *)

\* The phases of a thread that has not handed its frame on.
Busy == {"run"} \cup Late

\* The stages before s in the chain.
Before == [reduct |-> {}, astro |-> {"reduct"}, match |-> {"reduct", "astro"},
           photo |-> {"reduct", "astro", "match"}]

Passed(f, s) == \A t \in Before[s] : f \in good[t]

\* What holds of a thread that is short of its hand-over.
BusyOK(s, k) == /\ k = Len(jobs[s])
                /\ cur[s] = jobs[s][k].target
                /\ jobs[s][k].phase = "push" => jobs[s][k].frame = jobs[s][k].target
                /\ jobs[s][k].phase \in Late /\ jobs[s][k].ok => jobs[s][k].target \in good[s]
                /\ Passed(jobs[s][k].target, s)

BusyJobs == \A s \in Stage : \A k \in 1 .. Len(jobs[s]) :
              jobs[s][k].phase \in Busy => BusyOK(s, k)

QueuedPassed == \A s \in Stage : \A i \in 1 .. Len(queue[s]) : Passed(queue[s][i], s)

PromptInv == IInv /\ BusyJobs /\ QueuedPassed /\ DeliveredIsGood

Idle(s) == \A k \in 1 .. Len(jobs[s]) : jobs[s][k].phase \notin Busy

-----------------------------------------------------------------------------
\* What IInv says of the types, for the steps below.
LEMMA Typed ==
  ASSUME IInv
  PROVE  /\ queue \in [Stage -> Seq(Frame)] /\ jobs \in [Stage -> Seq(Job)]
         /\ cur \in [Stage -> Frame \cup {NoFrame}] /\ good \in [Stage -> SUBSET Frame]
         /\ delivered \in Seq(Frame) /\ submitted \in 0 .. NumFrames
         /\ \A s \in Stage : \A k \in 1 .. Len(jobs[s]) : jobs[s][k] \in Job
         /\ \A s \in Stage : Len(jobs[s]) \in Nat /\ Len(queue[s]) \in Nat
  BY DEF IInv, TypeOK

\* The stages are four and different.
LEMMA StageNames ==
  /\ Stage = {"reduct", "astro", "match", "photo"}
  /\ \A s \in Stage : Before[s] \subseteq Stage
  /\ \A s \in Stage : s # "photo" =>
       NextStage[s] \in Stage /\ NextStage[s] # s /\ Before[NextStage[s]] = Before[s] \cup {s}
  /\ Before["reduct"] = {} /\ Stage = Before["photo"] \cup {"photo"}
  BY DEF Stage, Before, NextStage

\* The worker that takes a frame under Prompt finds no thread short of its hand-over.
LEMMA PopIdle ==
  ASSUME IInv, Prompt, NEW s \in Stage, PopHead(s)
  PROVE  Idle(s) /\ ~working[s]
<1>1. queue[s] \in Seq(Frame) /\ queue[s] # << >> /\ queue'[s] = Tail(queue[s])
  BY Typed DEF PopHead
<1>2. Len(queue'[s]) = Len(queue[s]) - 1 /\ Len(queue[s]) \in Nat
  BY <1>1
<1>3. ~IsLate(s)
  BY <1>2 DEF Prompt
<1>4. ~working[s]
  BY DEF IInv, StartHasWork, PopHead
<1>5. \A k \in 1 .. Len(jobs[s]) : jobs[s][k].phase # "run"
  BY <1>4 DEF IInv, OneAtATime
<1> QED
  BY <1>3, <1>4, <1>5 DEF Idle, Busy, IsLate

-----------------------------------------------------------------------------
\* A processing thread moves on, its target stays.
LEMMA BusyMoves ==
  ASSUME PromptInv, NEW s \in Stage, NEW k \in 1 .. Len(jobs[s]), NEW j \in Job,
         jobs' = [jobs EXCEPT ![s][k] = j], cur' = cur,
         \A t \in Stage : good[t] \subseteq good'[t],
         j.target = jobs[s][k].target,
         j.phase \in Busy => jobs[s][k].phase \in Busy,
         j.phase = "push" => j.frame = j.target,
         j.phase \in Late /\ j.ok => j.target \in good'[s]
  PROVE  BusyJobs'
<1>1. /\ \A t \in Stage : Len(jobs'[t]) = Len(jobs[t])
      /\ jobs'[s][k] = j
      /\ \A t \in Stage : \A i \in 1 .. Len(jobs[t]) :
           (t # s \/ i # k) => jobs'[t][i] = jobs[t][i]
  BY Typed, JobUpdate DEF PromptInv
<1>2. \A t \in Stage, f \in Frame : Passed(f, t) => Passed(f, t)'
  BY StageNames DEF Passed
<1>3. \A t \in Stage : \A i \in 1 .. Len(jobs[t]) : jobs[t][i].target \in Frame
  BY Typed DEF PromptInv, Job
<1> SUFFICES ASSUME NEW t \in Stage, NEW i \in 1 .. Len(jobs[t]), jobs'[t][i].phase \in Busy
             PROVE  BusyOK(t, i)'
  BY <1>1 DEF BusyJobs
<1>4. jobs[t][i].phase \in Busy /\ jobs'[t][i].target = jobs[t][i].target
  BY <1>1
<1>5. BusyOK(t, i)
  BY <1>4 DEF PromptInv, BusyJobs
<1>6. Passed(jobs[t][i].target, t)'
  BY <1>2, <1>3, <1>5 DEF BusyOK
<1>7. CASE t = s /\ i = k
  BY <1>1, <1>4, <1>5, <1>6, <1>7 DEF BusyOK
<1>8. CASE t # s \/ i # k
  BY <1>1, <1>4, <1>5, <1>6, <1>8 DEF BusyOK
<1> QED
  BY <1>7, <1>8

\* What stays in the queues and what was delivered stays good.
LEMMA QueuesStay ==
  ASSUME PromptInv, queue' = queue, \A t \in Stage : good[t] \subseteq good'[t]
  PROVE  QueuedPassed'
  BY StageNames DEF PromptInv, QueuedPassed, Passed

\* A step that delivers nothing and forgets nothing that went well keeps what was
\* delivered good.
LEMMA OutStays ==
  ASSUME PromptInv, delivered' = delivered, \A t \in Stage : good[t] \subseteq good'[t]
  PROVE  DeliveredIsGood'
  BY DEF PromptInv, DeliveredIsGood

\* A frame that passed the stages before s joins the queue of s.
LEMMA PushPassed ==
  ASSUME PromptInv, good' = good, NEW s \in Stage, NEW f \in Frame, PushFrame(s, f), Passed(f, s)
  PROVE  QueuedPassed'
<1>1. /\ queue[s] \in Seq(Frame) /\ queue'[s] = Append(queue[s], f)
      /\ \A t \in Stage : t # s => queue'[t] = queue[t]
  BY Typed DEF PromptInv, PushFrame
<1>2. /\ Len(queue'[s]) = Len(queue[s]) + 1 /\ Len(queue[s]) \in Nat
      /\ \A i \in 1 .. Len(queue[s]) : queue'[s][i] = queue[s][i]
      /\ queue'[s][Len(queue[s]) + 1] = f
  BY <1>1, AppendProperties
<1>3. \A t \in Stage, g \in Frame : Passed(g, t) => Passed(g, t)'
  BY DEF Passed
<1>4. ASSUME NEW i \in 1 .. Len(queue'[s])
      PROVE  Passed(queue[s][i], s)'
  <2>1. CASE i = Len(queue[s]) + 1
    BY <1>2, <1>3, <2>1
  <2>2. CASE i # Len(queue[s]) + 1
    <3>1. i \in 1 .. Len(queue[s]) /\ queue'[s][i] = queue[s][i]
      BY <1>2, <1>4, <2>2
    <3>2. Passed(queue[s][i], s)
      BY <3>1 DEF PromptInv, QueuedPassed
    <3> QED
      BY <3>1, <3>2 DEF Passed
  <2> QED
    BY <2>1, <2>2
<1>5. ASSUME NEW t \in Stage, t # s, NEW i \in 1 .. Len(queue'[t])
      PROVE  Passed(queue[t][i], t)'
  BY <1>1, <1>5 DEF PromptInv, QueuedPassed, Passed
<1> QED
  BY <1>4, <1>5 DEF QueuedPassed

\* The queues after the head of one was taken.
LEMMA PopPassed ==
  ASSUME PromptInv, NEW s \in Stage, PopHead(s)
  PROVE  QueuedPassed' /\ Passed(Head(queue[s]), s)
<1>1. /\ queue[s] \in Seq(Frame) /\ queue[s] # << >> /\ queue'[s] = Tail(queue[s])
      /\ \A t \in Stage : t # s => queue'[t] = queue[t]
      /\ good' = good
  BY Typed DEF PromptInv, PopHead
<1>2. /\ Len(queue'[s]) = Len(queue[s]) - 1 /\ Len(queue[s]) \in Nat \ {0}
      /\ \A i \in 1 .. Len(queue'[s]) : queue'[s][i] = queue[s][i + 1]
      /\ Head(queue[s]) = queue[s][1]
  BY <1>1
<1>3. \A i \in 1 .. Len(queue'[s]) : Passed(queue[s][i], s)'
  <2> TAKE i \in 1 .. Len(queue'[s])
  <2>1. i + 1 \in 1 .. Len(queue[s]) /\ queue'[s][i] = queue[s][i + 1]
    BY <1>2
  <2>2. Passed(queue[s][i + 1], s)
    BY <2>1 DEF PromptInv, QueuedPassed
  <2> QED
    BY <1>1, <2>1, <2>2 DEF Passed
<1>4. ASSUME NEW t \in Stage, t # s, NEW i \in 1 .. Len(queue'[t])
      PROVE  Passed(queue[t][i], t)'
  BY <1>1, <1>4 DEF PromptInv, QueuedPassed, Passed
<1>5. Passed(Head(queue[s]), s)
  BY <1>2 DEF PromptInv, QueuedPassed
<1> QED
  BY <1>3, <1>4, <1>5 DEF QueuedPassed

-----------------------------------------------------------------------------
\* The steps of a processing thread, for the part of the invariant Prompt adds.
LEMMA ThreadKeeps ==
  ASSUME PromptInv, NEW s \in Stage, NEW k \in 1 .. Len(jobs[s]), Processing(s, k)
  PROVE  BusyJobs' /\ QueuedPassed' /\ DeliveredIsGood'
<1> DEFINE job == jobs[s][k]
<1>1. /\ jobs \in [Stage -> Seq(Job)] /\ job \in Job /\ job.target \in Frame
      /\ good \in [Stage -> SUBSET Frame] /\ delivered \in Seq(Frame)
  BY Typed DEF PromptInv, Job
<1>2. job.phase \in Busy => BusyOK(s, k)
  BY DEF PromptInv, BusyJobs
<1>3. CASE Finish(s, k)
  <2>1. job.phase = "run" /\ UNCHANGED <<queue, cur, delivered>>
    BY <1>3 DEF Finish, InPhase, history
  <2>2. PICK ok \in BOOLEAN :
          /\ good' = IF ok THEN [good EXCEPT ![s] = @ \cup {cur[s]}] ELSE good
          /\ jobs' = [jobs EXCEPT ![s][k].phase = IF s = "reduct" THEN "judge" ELSE "report",
                                  ![s][k].ok = ok /\ s # "reduct"]
    BY <1>3 DEF Finish
  <2> DEFINE j == [job EXCEPT !.phase = IF s = "reduct" THEN "judge" ELSE "report",
                              !.ok = ok /\ s # "reduct"]
  <2>3. /\ j \in Job /\ j.phase \in {"judge", "report"} /\ j.target = job.target
        /\ j.ok => ok
    BY <1>1 DEF Job, Phase
  <2>4. jobs' = [jobs EXCEPT ![s][k] = j]
    BY <1>1, <2>2
  <2> HIDE DEF j
  <2>5. job.phase \in Busy /\ cur[s] = job.target
    BY <1>2, <2>1 DEF Busy, BusyOK
  <2>6. \A t \in Stage : good[t] \subseteq good'[t]
    BY <1>1, <2>2
  <2>7. ok => job.target \in good'[s]
    BY <1>1, <2>2, <2>5
  <2>8. BusyJobs'
    BY <2>1, <2>3, <2>4, <2>5, <2>6, <2>7, BusyMoves
  <2> QED
    BY <2>1, <2>6, <2>8, QueuesStay, OutStays
<1>g. ASSUME good' = good PROVE \A t \in Stage : good[t] \subseteq good'[t]
  BY <1>g
<1>4. CASE JudgeReduct(s, k)
  <2>1. /\ job.phase = "judge" /\ UNCHANGED <<queue, cur, delivered, good>>
        /\ jobs' = [jobs EXCEPT ![s][k].phase = "report", ![s][k].ok = cur[s] \in good[s]]
    BY <1>4 DEF JudgeReduct, InPhase, history
  <2>2. PICK ok \in BOOLEAN : ok <=> cur[s] \in good[s]
    OBVIOUS
  <2> DEFINE j == [job EXCEPT !.phase = "report", !.ok = ok]
  <2>3. j \in Job /\ j.phase = "report" /\ j.target = job.target /\ j.ok = ok
    BY <1>1 DEF Job, Phase
  <2>4. jobs' = [jobs EXCEPT ![s][k] = j]
    <3>1. jobs' = [jobs EXCEPT ![s][k].phase = "report", ![s][k].ok = ok]
      <4>1. ok = (cur[s] \in good[s])
        BY <2>2
      <4> QED
        BY <2>1, <4>1, Zenon
    <3> QED
      BY <1>1, <3>1
  <2> HIDE DEF j
  <2>5. job.phase \in Busy /\ cur[s] = job.target
    BY <1>2, <2>1 DEF Busy, Late, BusyOK
  <2>6. BusyJobs'
    <3>1. cur' = cur /\ \A t \in Stage : good[t] \subseteq good'[t]
      BY <1>g, <2>1
    <3>2. /\ j.phase \in Busy => job.phase \in Busy
          /\ j.phase = "push" => j.frame = j.target
          /\ j.phase \in Late /\ j.ok => j.target \in good'[s]
      BY <2>1, <2>2, <2>3, <2>5
    <3> QED
      BY <2>3, <2>4, <3>1, <3>2, BusyMoves
  <2> QED
    BY <1>g, <2>1, <2>6, QueuesStay, OutStays
<1>5. CASE TakeFrame(s, k)
  <2>1. /\ job.phase = "report" /\ UNCHANGED <<queue, cur, delivered, good>>
        /\ jobs' = [jobs EXCEPT ![s][k].phase = "push", ![s][k].frame = cur[s]]
    BY <1>5 DEF TakeFrame, InPhase, history
  <2>2. job.phase \in Busy /\ cur[s] = job.target /\ (job.ok => job.target \in good[s])
    BY <1>2, <2>1 DEF Busy, Late, BusyOK
  <2> DEFINE j == [job EXCEPT !.phase = "push", !.frame = job.target]
  <2>3. /\ j \in Job /\ j.phase = "push" /\ j.target = job.target /\ j.frame = job.target
        /\ j.ok = job.ok
    BY <1>1 DEF Job, Phase
  <2>4. jobs' = [jobs EXCEPT ![s][k] = j]
    BY <1>1, <2>1, <2>2
  <2> HIDE DEF j
  <2>5. BusyJobs'
    <3>1. cur' = cur /\ \A t \in Stage : good[t] \subseteq good'[t]
      BY <1>g, <2>1
    <3>2. /\ j.phase \in Busy => job.phase \in Busy
          /\ j.phase = "push" => j.frame = j.target
          /\ j.phase \in Late /\ j.ok => j.target \in good'[s]
      BY <2>1, <2>2, <2>3
    <3> QED
      BY <2>3, <2>4, <3>1, <3>2, BusyMoves
  <2> QED
    BY <1>g, <2>1, <2>5, QueuesStay, OutStays
<1>a. ASSUME Acked(s, k), UNCHANGED <<cur, good>> PROVE BusyJobs'
  <2> DEFINE j == [job EXCEPT !.phase = "ack"]
  <2>1. j \in Job /\ j.phase = "ack" /\ j.target = job.target
    BY <1>1 DEF Job, Phase
  <2>2. jobs' = [jobs EXCEPT ![s][k] = j]
    BY <1>1, <1>a DEF Acked
  <2>3. j.phase \notin Busy
    BY <2>1 DEF Busy, Late
  <2> HIDE DEF j
  <2> QED
    BY <1>a, <1>g, <2>1, <2>2, <2>3, BusyMoves DEF Busy, Late
<1>p. ASSUME InPhase(s, k, "push"), job.ok
      PROVE  job.frame = job.target /\ job.target \in good[s] /\ Passed(job.target, s)
  BY <1>2, <1>p DEF InPhase, Busy, Late, BusyOK
<1>6. CASE HandOn(s, k)
  <2>1. /\ InPhase(s, k, "push") /\ s # "photo" /\ job.ok
        /\ PushFrame(NextStage[s], job.frame) /\ Acked(s, k)
        /\ UNCHANGED <<cur, good, delivered>>
    BY <1>6 DEF HandOn, history
  <2>2. NextStage[s] \in Stage /\ Passed(job.target, NextStage[s])
    BY <1>p, <2>1, StageNames DEF Passed
  <2>3. QueuedPassed'
    BY <1>1, <1>p, <2>1, <2>2, PushPassed
  <2> QED
    BY <1>a, <1>g, <2>1, <2>3, OutStays
<1>7. CASE HandOnNothing(s, k)
  <2>1. Acked(s, k) /\ UNCHANGED <<queue, cur, good, delivered>>
    BY <1>7 DEF HandOnNothing
  <2> QED
    BY <1>a, <1>g, <2>1, QueuesStay, OutStays
<1>8. CASE HandToFinder(s, k)
  <2>1. /\ InPhase(s, k, "push") /\ s = "photo" /\ job.ok /\ Acked(s, k)
        /\ delivered' = Append(delivered, job.frame)
        /\ UNCHANGED <<queue, cur, good>>
    BY <1>8 DEF HandToFinder
  <2>2. \A t \in Stage : job.frame \in good[t]
    BY <1>p, <2>1, StageNames DEF Passed
  <2>3. DeliveredIsGood'
    <3>1. /\ Len(delivered') = Len(delivered) + 1 /\ Len(delivered) \in Nat
          /\ \A i \in 1 .. Len(delivered) : delivered'[i] = delivered[i]
          /\ delivered'[Len(delivered) + 1] = job.frame
      <4>1. job.frame \in Frame
        BY <1>1, <1>p, <2>1
      <4> QED
        BY <1>1, <2>1, <4>1, AppendProperties
    <3>2. \A i \in 1 .. Len(delivered') : i \in 1 .. Len(delivered) \/ i = Len(delivered) + 1
      BY <3>1
    <3> QED
      BY <2>1, <2>2, <3>1, <3>2 DEF PromptInv, DeliveredIsGood
  <2> QED
    BY <1>a, <1>g, <2>1, <2>3, QueuesStay
<1>9. CASE FinderGone(s, k)
  BY <1>9 DEF PromptInv, FinderGone, jobVars, history, BusyJobs, BusyOK, QueuedPassed, Passed,
              DeliveredIsGood
<1>10. CASE Ack(s, k)
  <2>1. /\ UNCHANGED <<queue, cur, good, delivered>>
        /\ jobs' = [jobs EXCEPT ![s][k].phase = "end", ![s][k].ok = FALSE,
                                ![s][k].frame = NoFrame]
    BY <1>10 DEF Ack, history
  <2> DEFINE j == [job EXCEPT !.phase = "end", !.ok = FALSE, !.frame = NoFrame]
  <2>2. j \in Job /\ j.phase = "end" /\ j.target = job.target
    BY <1>1 DEF Job, Phase
  <2>3. jobs' = [jobs EXCEPT ![s][k] = j]
    BY <1>1, <2>1
  <2>4. j.phase \notin Busy
    BY <2>2 DEF Busy, Late
  <2> HIDE DEF j
  <2>5. BusyJobs'
    <3>1. cur' = cur /\ \A t \in Stage : good[t] \subseteq good'[t]
      BY <1>g, <2>1
    <3>2. j.phase # "push" /\ j.phase \notin Late
      BY <2>2 DEF Late
    <3> QED
      BY <2>2, <2>3, <2>4, <3>1, <3>2, BusyMoves
  <2> QED
    BY <1>g, <2>1, <2>5, QueuesStay, OutStays
<1> QED
  BY <1>3, <1>4, <1>5, <1>6, <1>7, <1>8, <1>9, <1>10 DEF Processing

\* The steps of a worker: the frame it launches is its stage's only busy one.
LEMMA WorkerPromptKeeps ==
  ASSUME PromptInv, Prompt, NEW s \in Stage, Worker(s) \/ SpuriousWake(s)
  PROVE  BusyJobs' /\ QueuedPassed' /\ DeliveredIsGood'
<1>1. CASE Test(s) \/ Park(s) \/ SpuriousWake(s)
  BY <1>1 DEF PromptInv, Test, Park, SpuriousWake, jobVars, history, BusyJobs, BusyOK,
              QueuedPassed, Passed, DeliveredIsGood
<1>2. ASSUME PopHead(s)
      PROVE  /\ QueuedPassed' /\ DeliveredIsGood' /\ Idle(s) /\ ~working[s]
             /\ Head(queue[s]) \in Frame /\ Passed(Head(queue[s]), s)
             /\ good' = good
  <2>1. good' = good /\ delivered' = delivered
    BY <1>2 DEF PopHead
  <2>2. DeliveredIsGood'
    BY <2>1 DEF PromptInv, DeliveredIsGood
  <2>3. Idle(s) /\ ~working[s] /\ Head(queue[s]) \in Frame
    BY <1>2, PopIdle, PopKeeps DEF PromptInv
  <2> QED
    BY <1>2, <2>1, <2>2, <2>3, PopPassed
<1>3. ASSUME PopHead(s), jobs' = jobs, \A t \in Stage : t # s => cur'[t] = cur[t]
      PROVE  BusyJobs'
  <2>1. Idle(s) /\ good' = good
    BY <1>2, <1>3
  <2> SUFFICES ASSUME NEW t \in Stage, NEW k \in 1 .. Len(jobs[t]), jobs[t][k].phase \in Busy
               PROVE  BusyOK(t, k)'
    BY <1>3 DEF BusyJobs
  <2>2. t # s
    BY <2>1 DEF Idle
  <2> QED
    BY <1>3, <2>1, <2>2 DEF PromptInv, BusyJobs, BusyOK, Passed
<1>4. CASE s = "reduct" /\ Reject
  BY <1>2, <1>3, <1>4 DEF Reject
<1>5. CASE ForkFails(s)
  <2>1. PopHead(s) /\ jobs' = jobs /\ \A t \in Stage : t # s => cur'[t] = cur[t]
    BY <1>5, Typed DEF ForkFails, PromptInv
  <2> QED
    BY <1>2, <1>3, <2>1
<1>6. CASE Launch(s)
  <2> DEFINE f == Head(queue[s])
             j == NewJob(f)
  <2>1. PopHead(s)
    BY <1>6 DEF Launch
  <2>2. /\ QueuedPassed' /\ DeliveredIsGood' /\ Idle(s) /\ ~working[s]
        /\ f \in Frame /\ Passed(f, s) /\ good' = good
    BY <1>2, <2>1
  <2>3. /\ cur' = [cur EXCEPT ![s] = f]
        /\ jobs' = [jobs EXCEPT ![s] = Append(@, j)]
    BY <1>6, <2>2 DEF Launch
  <2>4. j \in Job /\ j.phase = "run" /\ j.target = f
    BY <2>2 DEF NewJob, Job, Phase
  <2> HIDE DEF f, j
  <2>5. /\ jobs[s] \in Seq(Job) /\ jobs'[s] = Append(jobs[s], j) /\ cur'[s] = f
        /\ \A t \in Stage : t # s => jobs'[t] = jobs[t] /\ cur'[t] = cur[t]
    BY <2>3, Typed DEF PromptInv
  <2>6. /\ Len(jobs'[s]) = Len(jobs[s]) + 1 /\ Len(jobs[s]) \in Nat
        /\ \A i \in 1 .. Len(jobs[s]) : jobs'[s][i] = jobs[s][i]
        /\ jobs'[s][Len(jobs[s]) + 1] = j
    BY <2>4, <2>5, AppendProperties
  <2>7. ASSUME NEW i \in 1 .. Len(jobs'[s]), jobs'[s][i].phase \in Busy
        PROVE  BusyOK(s, i)'
    <3>1. i \in 1 .. Len(jobs[s]) \/ i = Len(jobs[s]) + 1
      BY <2>6
    <3>2. i = Len(jobs'[s]) /\ jobs'[s][i] = j
      BY <2>2, <2>6, <2>7, <3>1 DEF Idle
    <3>3. Passed(jobs[s][i].target, s)'
      BY <2>2, <2>4, <3>2 DEF Passed
    <3> QED
      BY <2>4, <2>5, <3>2, <3>3 DEF BusyOK, Late
  <2>8. ASSUME NEW t \in Stage, t # s, NEW i \in 1 .. Len(jobs'[t]), jobs'[t][i].phase \in Busy
        PROVE  BusyOK(t, i)'
    <3>1. jobs'[t] = jobs[t] /\ cur'[t] = cur[t] /\ BusyOK(t, i)
      BY <2>5, <2>8 DEF PromptInv, BusyJobs
    <3> QED
      BY <2>2, <3>1 DEF BusyOK, Passed
  <2> QED
    BY <2>2, <2>7, <2>8 DEF BusyJobs
<1> QED
  BY <1>1, <1>4, <1>5, <1>6 DEF Worker

\* The steps of the feeder, the main thread and the finders.
LEMMA MainPromptKeeps ==
  ASSUME PromptInv, Submit \/ Signal \/ MainThread \/ \E c \in Camera : FinderIdle(c)
  PROVE  BusyJobs' /\ QueuedPassed' /\ DeliveredIsGood'
<1>1. UNCHANGED <<jobs, cur, good, delivered>>
  BY DEF Submit, Signal, MainThread, Fed, PollQueue, PollFinders, JoinWorker, ResetFinders,
         FinderIdle, jobVars, history
<1>2. BusyJobs' /\ DeliveredIsGood'
  BY <1>1 DEF PromptInv, BusyJobs, BusyOK, Passed, DeliveredIsGood
<1>3. CASE Submit
  <2>1. PushFrame("reduct", submitted + 1) /\ submitted + 1 \in Frame /\ "reduct" \in Stage
    BY <1>3, Typed, NumFramesAssumption DEF PromptInv, Submit, Frame, Stage
  <2>2. Passed(submitted + 1, "reduct")
    BY StageNames DEF Passed
  <2> QED
    BY <1>1, <1>2, <2>1, <2>2, PushPassed
<1>4. CASE Signal \/ MainThread \/ \E c \in Camera : FinderIdle(c)
  <2>1. queue' = queue
    BY <1>4 DEF Signal, MainThread, Fed, PollQueue, PollFinders, JoinWorker, ResetFinders,
                FinderIdle
  <2> QED
    BY <1>1, <1>2, <2>1 DEF PromptInv, QueuedPassed, Passed
<1> QED
  BY <1>3, <1>4

\* The objects create_objects makes satisfy it.
LEMMA PromptInit == Init => PromptInv
<1> SUFFICES ASSUME Init PROVE PromptInv
  OBVIOUS
<1>1. /\ \A s \in Stage : Len(queue[s]) = 0 /\ Len(jobs[s]) = 0
      /\ Len(delivered) = 0
  BY DEF Init
<1> QED
  BY <1>1, InitInv DEF PromptInv, BusyJobs, QueuedPassed, DeliveredIsGood

\* The invariant is inductive under Prompt.
LEMMA PromptKeeps == PromptInv /\ [PromptNext]_vars => PromptInv'
<1> SUFFICES ASSUME PromptInv, [PromptNext]_vars PROVE PromptInv'
  OBVIOUS
<1>1. IInv'
  BY NextKeeps DEF PromptInv, PromptNext
<1>2. CASE UNCHANGED vars
  BY <1>1, <1>2 DEF vars, PromptInv, BusyJobs, BusyOK, QueuedPassed, Passed, DeliveredIsGood
<1>3. CASE PromptNext
  <2>1. BusyJobs' /\ QueuedPassed' /\ DeliveredIsGood'
    BY <1>3, MainPromptKeeps, WorkerPromptKeeps, ThreadKeeps DEF PromptNext, Next
  <2> QED
    BY <1>1, <2>1 DEF PromptInv
<1> QED
  BY <1>2, <1>3

\* So it holds throughout prompt runs.
LEMMA PromptInvariance == PromptSpec => []PromptInv
BY PromptInit, PromptKeeps, PTL DEF PromptSpec

\* Each callback hands on the frame its result is about, though it asks the stage for it
\* after working_ was cleared (DoProcess.cpp, ImageReductResult to PhotometryResult).
THEOREM OwnFrameHandedOn == PromptSpec => []HandsOnItsFrame
<1>1. PromptInv => HandsOnItsFrame
  BY DEF PromptInv, BusyJobs, BusyOK, HandsOnItsFrame, Busy, Late
<1> QED
  BY <1>1, PromptInvariance, PTL

\* Every frame a finder gets has passed reduction, astrometry, matching and photometry.
THEOREM OnlyGoodFramesDelivered == PromptSpec => []DeliveredIsGood
BY PromptInvariance, PTL DEF PromptInv
-----------------------------------------------------------------------------
(***************************************************************************)
(* The refinement of FrameLine.                                            *)
(***************************************************************************)
\* The frame the last of the threads in J has in hand.
HandOf(J) == IF J # << >> /\ J[Len(J)].phase \in Busy THEN <<J[Len(J)].target>> ELSE << >>

\* The lines the pipeline stands for.
Chain == [s \in Stage |-> InHand(s) \o queue[s]]

\* The line of one stage.
LEMMA ChainAt ==
  /\ Chain = [s \in Stage |-> HandOf(jobs[s]) \o queue[s]]
  /\ Chain' = [s \in Stage |-> HandOf(jobs'[s]) \o queue'[s]]
BY DEF Chain, HandOf, InHand, Busy

\* A line whose first frame is in hand.
LEMMA HandFirst ==
  ASSUME NEW q \in Seq(Frame), NEW f \in Frame
  PROVE  /\ <<f>> \o q # << >> /\ Head(<<f>> \o q) = f /\ Tail(<<f>> \o q) = q
         /\ << >> \o q = q
         /\ q # << >> => <<Head(q)>> \o Tail(q) = q
<1>1. <<f>> \in Seq(Frame) /\ Len(<<f>>) = 1 /\ <<f>>[1] = f
  OBVIOUS
<1>2. /\ <<f>> \o q \in Seq(Frame) /\ Len(<<f>> \o q) = 1 + Len(q) /\ (<<f>> \o q)[1] = f
      /\ \A i \in 1 .. Len(q) : (<<f>> \o q)[i + 1] = q[i]
  OBVIOUS
<1>3. Tail(<<f>> \o q) = q
  <2>1. /\ Tail(<<f>> \o q) \in Seq(Frame) /\ Len(Tail(<<f>> \o q)) = Len(q)
        /\ \A i \in 1 .. Len(q) : Tail(<<f>> \o q)[i] = (<<f>> \o q)[i + 1]
    BY <1>2
  <2> QED
    BY <1>2, <2>1, SeqEqual
<1>4. << >> \o q = q
  BY ConcatEmptySeq
<1>5. ASSUME q # << >> PROVE <<Head(q)>> \o Tail(q) = q
  <2>1. /\ Head(q) = q[1] /\ q[1] \in Frame /\ Tail(q) \in Seq(Frame)
        /\ Len(q) \in Nat \ {0} /\ Len(Tail(q)) = Len(q) - 1
        /\ \A i \in 1 .. Len(q) - 1 : Tail(q)[i] = q[i + 1]
    BY <1>5
  <2>2. /\ <<q[1]>> \o Tail(q) \in Seq(Frame) /\ Len(<<q[1]>> \o Tail(q)) = Len(q)
        /\ \A i \in 1 .. Len(q) : (<<q[1]>> \o Tail(q))[i] = q[i]
    BY <2>1
  <2> QED
    BY <2>1, <2>2, SeqEqual
<1> QED
  BY <1>2, <1>3, <1>4, <1>5

\* A frame that joins the queue joins the line.
LEMMA JoinsLine ==
  ASSUME NEW h \in Seq(Frame), NEW q \in Seq(Frame), NEW f \in Frame
  PROVE  h \o Append(q, f) = Append(h \o q, f)
<1>1. <<f>> \in Seq(Frame) /\ Append(q, f) = q \o <<f>> /\ h \o q \in Seq(Frame)
  BY AppendIsConcat, ConcatProperties
<1>2. Append(h \o q, f) = (h \o q) \o <<f>>
  BY <1>1, AppendIsConcat
<1> QED
  BY <1>1, <1>2, ConcatAssociative

\* A line is what the stage has in hand, then its queue.
LEMMA HandTyped == ASSUME PromptInv, NEW s \in Stage
                   PROVE  HandOf(jobs[s]) \in Seq(Frame) /\ Chain[s] = HandOf(jobs[s]) \o queue[s]
<1>1. jobs[s] \in Seq(Job)
  BY Typed DEF PromptInv
<1>2. jobs[s] # << >> => jobs[s][Len(jobs[s])] \in Job
  BY <1>1
<1>3. jobs[s] # << >> => <<jobs[s][Len(jobs[s])].target>> \in Seq(Frame)
  BY <1>2 DEF Job
<1>4. HandOf(jobs[s]) \in Seq(Frame)
  BY <1>3 DEF HandOf
<1>5. Chain[s] = HandOf(jobs[s]) \o queue[s]
  BY ChainAt
<1> QED
  BY <1>4, <1>5

\* The thread short of its hand-over has the head of its line in hand; an idle stage has none.
LEMMA HandOfBusy ==
  ASSUME PromptInv, NEW s \in Stage, NEW k \in 1 .. Len(jobs[s]), jobs[s][k].phase \in Busy
  PROVE  k = Len(jobs[s]) /\ HandOf(jobs[s]) = <<jobs[s][k].target>>
<1>1. k = Len(jobs[s])
  BY DEF PromptInv, BusyJobs, BusyOK
<1>2. jobs[s] # << >>
  BY Typed DEF PromptInv
<1> QED
  BY <1>1, <1>2 DEF HandOf

\* A stage without a thread short of its hand-over has nothing in hand.
LEMMA HandOfIdle ==
  ASSUME PromptInv, NEW s \in Stage, Idle(s)
  PROVE  HandOf(jobs[s]) = << >>
<1>1. jobs[s] \in Seq(Job)
  BY Typed DEF PromptInv
<1>2. jobs[s] # << >> => Len(jobs[s]) \in 1 .. Len(jobs[s])
  BY <1>1
<1> QED
  BY <1>2 DEF HandOf, Idle

\* A thread that moves on short of its hand-over, or after it, keeps its stage's hand.
LEMMA HandStays ==
  ASSUME PromptInv, NEW s \in Stage, NEW k \in 1 .. Len(jobs[s]), NEW j \in Job,
         jobs' = [jobs EXCEPT ![s][k] = j], j.target = jobs[s][k].target,
         j.phase \in Busy <=> jobs[s][k].phase \in Busy, queue' = queue
  PROVE  Chain' = Chain
<1>1. /\ \A t \in Stage : Len(jobs'[t]) = Len(jobs[t])
      /\ jobs'[s][k] = j
      /\ \A t \in Stage : \A i \in 1 .. Len(jobs[t]) :
           (t # s \/ i # k) => jobs'[t][i] = jobs[t][i]
      /\ jobs' \in [Stage -> Seq(Job)]
  BY Typed, JobUpdate DEF PromptInv
<1>2. ASSUME NEW t \in Stage PROVE HandOf(jobs'[t]) = HandOf(jobs[t])
  <2>1. /\ jobs[t] \in Seq(Job) /\ jobs'[t] \in Seq(Job) /\ Len(jobs'[t]) = Len(jobs[t])
    BY <1>1, Typed DEF PromptInv
  <2>2. jobs'[t] # << >> <=> jobs[t] # << >>
    BY <2>1
  <2>3. CASE jobs[t] = << >>
    BY <2>2, <2>3 DEF HandOf
  <2>4. CASE jobs[t] # << >>
    <3>1. Len(jobs[t]) \in 1 .. Len(jobs[t])
      BY <2>1, <2>4
    <3>2. /\ jobs'[t][Len(jobs[t])].target = jobs[t][Len(jobs[t])].target
          /\ jobs'[t][Len(jobs[t])].phase \in Busy <=> jobs[t][Len(jobs[t])].phase \in Busy
      BY <1>1, <3>1
    <3> QED
      BY <2>1, <2>2, <2>4, <3>2 DEF HandOf
  <2> QED
    BY <2>3, <2>4
<1>3. \A t \in Stage : HandOf(jobs'[t]) \o queue'[t] = HandOf(jobs[t]) \o queue[t]
  BY <1>2
<1> QED
  BY <1>3, ChainAt

\* The thread that hands its frame on empties its stage's hand and no other.
LEMMA HandEmpties ==
  ASSUME PromptInv, NEW s \in Stage, NEW k \in 1 .. Len(jobs[s]),
         InPhase(s, k, "push"), Acked(s, k)
  PROVE  /\ HandOf(jobs[s]) = <<jobs[s][k].target>> /\ jobs[s][k].target \in Frame
         /\ HandOf(jobs'[s]) = << >>
         /\ \A t \in Stage : t # s => HandOf(jobs'[t]) = HandOf(jobs[t])
<1> DEFINE j == [jobs[s][k] EXCEPT !.phase = "ack"]
<1>1. /\ jobs \in [Stage -> Seq(Job)] /\ jobs[s][k] \in Job /\ jobs[s][k].target \in Frame
  BY Typed DEF PromptInv, Job
<1>2. j \in Job /\ j.phase = "ack" /\ jobs' = [jobs EXCEPT ![s][k] = j]
  BY <1>1 DEF Job, Phase, Acked
<1> HIDE DEF j
<1>3. k = Len(jobs[s]) /\ HandOf(jobs[s]) = <<jobs[s][k].target>>
  BY HandOfBusy DEF InPhase, Busy, Late
<1>4. Len(jobs'[s]) = Len(jobs[s]) /\ jobs'[s][k] = j
  BY <1>1, <1>2, JobUpdate
<1>5. HandOf(jobs'[s]) = << >>
  BY <1>2, <1>3, <1>4 DEF HandOf, Busy, Late
<1>6. \A t \in Stage : t # s => jobs'[t] = jobs[t]
  BY <1>1, <1>2
<1> QED
  BY <1>1, <1>3, <1>5, <1>6
-----------------------------------------------------------------------------
\* The steps of FrameLine, in terms of Chain.
LEMMA LineNames ==
  /\ FL!Stage = Stage /\ FL!NextStage = NextStage
  /\ \A s \in Stage : FL!FeedsNext(s) <=> FeedsNext(s)
  /\ FL!vars = <<Chain, delivered, left, submitted>>
BY DEF FL!Stage, Stage, FL!NextStage, NextStage, FL!FeedsNext, FeedsNext, FL!vars, Chain

\* A frame leaves the first of a line: the abstract Drop.
LEMMA IsDrop ==
  ASSUME NEW s \in Stage, Chain[s] # << >>, Chain' = [Chain EXCEPT ![s] = Tail(@)],
         left' = left \cup {Head(Chain[s])}, UNCHANGED <<delivered, submitted>>
  PROVE  FL!Next
<1>1. FL!Drop(s)
  BY DEF FL!Drop, Chain
<1> QED
  BY <1>1, LineNames DEF FL!Next

\* A frame goes from one line to the next: the abstract Advance.
LEMMA IsAdvance ==
  ASSUME NEW s \in Stage, s # "photo", FeedsNext(s), Chain[s] # << >>,
         Chain' = [Chain EXCEPT ![s] = Tail(@), ![NextStage[s]] = Append(@, Head(Chain[s]))],
         UNCHANGED <<delivered, left, submitted>>
  PROVE  FL!Next
<1>1. FL!Advance(s)
  BY LineNames DEF FL!Advance, Chain
<1> QED
  BY <1>1, LineNames DEF FL!Next

\* A frame leaves the last line: the abstract Deliver.
LEMMA IsDeliver ==
  ASSUME Chain["photo"] # << >>, Chain' = [Chain EXCEPT !["photo"] = Tail(@)],
         delivered' = Append(delivered, Head(Chain["photo"])), UNCHANGED <<left, submitted>>
  PROVE  FL!Next
BY DEF FL!Next, FL!Deliver, Chain

\* A frame joins the first line: the abstract Enter.
LEMMA IsEnter ==
  ASSUME submitted < NumFrames, submitted' = submitted + 1,
         Chain' = [Chain EXCEPT !["reduct"] = Append(@, submitted + 1)],
         UNCHANGED <<delivered, left>>
  PROVE  FL!Next
BY DEF FL!Next, FL!Enter, Chain

\* Nothing moves.
LEMMA IsStutter ==
  ASSUME Chain' = Chain, UNCHANGED <<delivered, left, submitted>>
  PROVE  UNCHANGED FL!vars
BY DEF FL!vars, Chain
-----------------------------------------------------------------------------
\* The lines after a step in which the lines of some stages only changed.
LEMMA ChainBy ==
  ASSUME PromptInv,
         NEW L \in [Stage -> Seq(Frame)],
         \A t \in Stage : HandOf(jobs'[t]) \o queue'[t] = L[t]
  PROVE  Chain' = L
BY ChainAt

\* The lines are sequences of frames.
LEMMA ChainTyped == ASSUME PromptInv PROVE Chain \in [Stage -> Seq(Frame)]
<1>1. \A s \in Stage : HandOf(jobs[s]) \o queue[s] \in Seq(Frame)
  BY HandTyped, Typed, ConcatProperties DEF PromptInv
<1> QED
  BY <1>1, ChainAt

\* Each step of a processing thread moves the head of its stage's line, or nothing.
LEMMA ThreadRefines ==
  ASSUME PromptInv, NEW s \in Stage, NEW k \in 1 .. Len(jobs[s]), Processing(s, k)
  PROVE  FL!Next \/ UNCHANGED FL!vars
<1> DEFINE job == jobs[s][k]
           f == job.target
           q == queue[s]
<1>1. /\ jobs \in [Stage -> Seq(Job)] /\ job \in Job /\ f \in Frame /\ q \in Seq(Frame)
      /\ queue \in [Stage -> Seq(Frame)] /\ Chain \in [Stage -> Seq(Frame)]
  BY Typed, ChainTyped DEF PromptInv, Job
<1>2. \A t \in Stage : Chain[t] = HandOf(jobs[t]) \o queue[t]
  BY ChainAt
<1>3. CASE Finish(s, k)
  <2>1. PICK ok \in BOOLEAN :
          jobs' = [jobs EXCEPT ![s][k].phase = IF s = "reduct" THEN "judge" ELSE "report",
                               ![s][k].ok = ok /\ s # "reduct"]
    BY <1>3 DEF Finish
  <2> DEFINE j == [job EXCEPT !.phase = IF s = "reduct" THEN "judge" ELSE "report",
                              !.ok = ok /\ s # "reduct"]
  <2>2. j \in Job /\ j.phase \in {"judge", "report"} /\ j.target = f
    BY <1>1 DEF Job, Phase
  <2>3. jobs' = [jobs EXCEPT ![s][k] = j]
    BY <1>1, <2>1
  <2>4. job.phase = "run" /\ UNCHANGED <<queue, delivered, left, submitted>>
    BY <1>3 DEF Finish, InPhase, history
  <2> HIDE DEF j
  <2>5. j.phase \in Busy <=> job.phase \in Busy
    BY <2>2, <2>4 DEF Busy, Late
  <2>6. queue' = queue
    BY <2>4
  <2>7. Chain' = Chain
    BY <2>2, <2>3, <2>5, <2>6, HandStays
  <2> QED
    BY <2>4, <2>7, IsStutter
<1>4. CASE JudgeReduct(s, k)
  <2>1. /\ job.phase = "judge" /\ UNCHANGED <<queue, delivered, left, submitted>>
        /\ jobs' = [jobs EXCEPT ![s][k].phase = "report", ![s][k].ok = cur[s] \in good[s]]
    BY <1>4 DEF JudgeReduct, InPhase, history
  <2> DEFINE j == [job EXCEPT !.phase = "report", !.ok = cur[s] \in good[s]]
  <2>2. j \in Job /\ j.phase = "report" /\ j.target = f
    <3>1. \A ok \in BOOLEAN : LET i == [job EXCEPT !.phase = "report", !.ok = ok]
                              IN i \in Job /\ i.phase = "report" /\ i.target = f
      BY <1>1 DEF Job, Phase
    <3>2. (cur[s] \in good[s]) \in BOOLEAN
      OBVIOUS
    <3> QED
      BY <3>1, <3>2, Zenon
  <2>3. jobs' = [jobs EXCEPT ![s][k] = j]
    BY <1>1, <2>1
  <2> HIDE DEF j
  <2>5. j.phase \in Busy <=> job.phase \in Busy
    BY <2>1, <2>2 DEF Busy, Late
  <2>6. queue' = queue
    BY <2>1
  <2>7. Chain' = Chain
    BY <2>2, <2>3, <2>5, <2>6, HandStays
  <2> QED
    BY <2>1, <2>7, IsStutter
<1>5. CASE TakeFrame(s, k)
  <2>1. /\ job.phase = "report" /\ UNCHANGED <<queue, delivered, left, submitted>>
        /\ jobs' = [jobs EXCEPT ![s][k].phase = "push", ![s][k].frame = cur[s]]
    BY <1>5 DEF TakeFrame, InPhase, history
  <2> DEFINE j == [job EXCEPT !.phase = "push", !.frame = cur[s]]
  <2>2. j \in Job /\ j.phase = "push" /\ j.target = f
    BY <1>1, Typed DEF PromptInv, Job, Phase
  <2>3. jobs' = [jobs EXCEPT ![s][k] = j]
    BY <1>1, <2>1
  <2> HIDE DEF j
  <2>5. j.phase \in Busy <=> job.phase \in Busy
    BY <2>1, <2>2 DEF Busy, Late
  <2>6. queue' = queue
    BY <2>1
  <2>7. Chain' = Chain
    BY <2>2, <2>3, <2>5, <2>6, HandStays
  <2> QED
    BY <2>1, <2>7, IsStutter
<1>6. CASE Ack(s, k)
  <2>1. /\ job.phase = "ack" /\ UNCHANGED <<queue, delivered, left, submitted>>
        /\ jobs' = [jobs EXCEPT ![s][k].phase = "end", ![s][k].ok = FALSE,
                                ![s][k].frame = NoFrame]
    BY <1>6 DEF Ack, InPhase, history
  <2> DEFINE j == [job EXCEPT !.phase = "end", !.ok = FALSE, !.frame = NoFrame]
  <2>2. j \in Job /\ j.phase = "end" /\ j.target = f
    BY <1>1 DEF Job, Phase
  <2>3. jobs' = [jobs EXCEPT ![s][k] = j]
    BY <1>1, <2>1
  <2> HIDE DEF j
  <2>5. j.phase \in Busy <=> job.phase \in Busy
    BY <2>1, <2>2 DEF Busy, Late
  <2>6. queue' = queue
    BY <2>1
  <2>7. Chain' = Chain
    BY <2>2, <2>3, <2>5, <2>6, HandStays
  <2> QED
    BY <2>1, <2>7, IsStutter
<1>7. CASE FinderGone(s, k)
  <2>1. UNCHANGED <<jobs, queue, delivered, left, submitted>>
    BY <1>7 DEF FinderGone, jobVars, history
  <2>2. Chain' = Chain
    BY <2>1, ChainAt
  <2> QED
    BY <2>1, <2>2, IsStutter
<1>p. ASSUME InPhase(s, k, "push"), Acked(s, k)
      PROVE  /\ Chain[s] # << >> /\ Head(Chain[s]) = f /\ Tail(Chain[s]) = q
             /\ job.frame = f /\ HandOf(jobs'[s]) = << >> /\ << >> \o q = q
             /\ \A t \in Stage : t # s => HandOf(jobs'[t]) = HandOf(jobs[t])
  <2>1. HandOf(jobs[s]) = <<f>> /\ HandOf(jobs'[s]) = << >>
        /\ \A t \in Stage : t # s => HandOf(jobs'[t]) = HandOf(jobs[t])
    BY <1>p, HandEmpties
  <2>2. job.frame = f
    BY <1>p DEF PromptInv, BusyJobs, BusyOK, InPhase, Busy, Late
  <2>3. /\ <<f>> \o q # << >> /\ Head(<<f>> \o q) = f /\ Tail(<<f>> \o q) = q
        /\ << >> \o q = q
    BY <1>1, HandFirst
  <2>4. Chain[s] = <<f>> \o q
    BY <1>2, <2>1
  <2> QED
    BY <2>1, <2>2, <2>3, <2>4
<1>8. CASE HandOn(s, k)
  <2> DEFINE n == NextStage[s]
             L == [Chain EXCEPT ![s] = Tail(@), ![n] = Append(@, Head(Chain[s]))]
  <2>1. /\ InPhase(s, k, "push") /\ s # "photo" /\ FeedsNext(s) /\ Acked(s, k)
        /\ queue' = [queue EXCEPT ![n] = Append(@, job.frame)]
        /\ UNCHANGED <<delivered, left, submitted>>
    BY <1>8 DEF HandOn, PushFrame, history
  <2>2. n \in Stage /\ n # s
    BY <2>1, StageNames
  <2>3. /\ L[s] = q /\ L[n] = Append(Chain[n], f)
        /\ \A t \in Stage : t # s /\ t # n => L[t] = Chain[t]
    BY <1>1, <1>p, <2>1, <2>2
  <2>4. L \in [Stage -> Seq(Frame)]
    <3>1. Append(Chain[n], f) \in Seq(Frame)
      BY <1>1, <2>2
    <3> QED
      BY <1>1, <2>3, <3>1
  <2> HIDE DEF n
  <2>5. queue'[s] = q /\ queue'[n] = Append(queue[n], f)
        /\ \A t \in Stage : t # s /\ t # n => queue'[t] = queue[t]
    BY <1>1, <1>p, <2>1, <2>2
  <2>6. HandOf(jobs[n]) \o Append(queue[n], f) = Append(Chain[n], f)
    <3>1. PICK h \in Seq(Frame), w \in Seq(Frame) : h = HandOf(jobs[n]) /\ w = queue[n]
      BY <1>1, <2>2, HandTyped
    <3>2. Chain[n] = h \o w
      BY <1>2, <2>2, <3>1
    <3>3. h \o Append(w, f) = Append(h \o w, f)
      BY <1>1, JoinsLine
    <3> QED
      BY <3>1, <3>2, <3>3
  <2> HIDE DEF L
  <2>7. \A t \in Stage : HandOf(jobs'[t]) \o queue'[t] = L[t]
    BY <1>2, <1>p, <2>1, <2>2, <2>3, <2>5, <2>6
  <2>8. Chain' = L
    BY <2>4, <2>7, ChainBy
  <2> QED
    BY <1>p, <2>1, <2>8, IsAdvance DEF L, n
<1>l. ASSUME InPhase(s, k, "push"), Acked(s, k), queue' = queue
      PROVE  Chain' = [Chain EXCEPT ![s] = Tail(@)]
  <2> DEFINE L == [Chain EXCEPT ![s] = Tail(@)]
  <2>1. /\ L \in [Stage -> Seq(Frame)] /\ L[s] = q
        /\ \A t \in Stage : t # s => L[t] = Chain[t]
    BY <1>1, <1>p, <1>l
  <2> HIDE DEF L
  <2>2. \A t \in Stage : HandOf(jobs'[t]) \o queue'[t] = L[t]
    BY <1>2, <1>p, <1>l, <2>1
  <2>3. Chain' = L
    BY <2>1, <2>2, ChainBy
  <2> QED
    BY <2>3 DEF L
<1>9. CASE HandOnNothing(s, k)
  <2>1. /\ InPhase(s, k, "push") /\ Acked(s, k) /\ left' = left \cup {f}
        /\ UNCHANGED <<queue, delivered, submitted>>
    BY <1>9 DEF HandOnNothing
  <2> QED
    BY <1>p, <1>l, <2>1, IsDrop
<1>10. CASE HandToFinder(s, k)
  <2>1. /\ InPhase(s, k, "push") /\ Acked(s, k) /\ s = "photo"
        /\ delivered' = Append(delivered, job.frame)
        /\ UNCHANGED <<queue, left, submitted>>
    BY <1>10 DEF HandToFinder
  <2> QED
    BY <1>p, <1>l, <2>1, IsDeliver
<1> QED
  BY <1>3, <1>4, <1>5, <1>6, <1>7, <1>8, <1>9, <1>10 DEF Processing

\* A worker moves the head of its queue into its stage's hand, or drops it.
LEMMA WorkerRefines ==
  ASSUME PromptInv, Prompt, NEW s \in Stage, Worker(s) \/ SpuriousWake(s)
  PROVE  FL!Next \/ UNCHANGED FL!vars
<1> DEFINE q == queue[s]
<1>1. /\ jobs \in [Stage -> Seq(Job)] /\ q \in Seq(Frame)
      /\ queue \in [Stage -> Seq(Frame)] /\ Chain \in [Stage -> Seq(Frame)]
      /\ \A t \in Stage : Chain[t] = HandOf(jobs[t]) \o queue[t]
  BY Typed, ChainTyped, ChainAt DEF PromptInv
<1>2. CASE Test(s) \/ Park(s) \/ SpuriousWake(s)
  <2>1. UNCHANGED <<jobs, queue, delivered, left, submitted>>
    BY <1>2 DEF Test, Park, SpuriousWake, jobVars, history
  <2>2. Chain' = Chain
    BY <2>1, ChainAt
  <2> QED
    BY <2>1, <2>2, IsStutter
<1>3. ASSUME PopHead(s)
      PROVE  /\ Idle(s) /\ ~working[s] /\ q # << >> /\ Chain[s] = q /\ Head(q) \in Frame
             /\ queue' = [queue EXCEPT ![s] = Tail(@)] /\ UNCHANGED <<delivered, submitted>>
             /\ << >> \o Tail(q) = Tail(q) /\ <<Head(q)>> \o Tail(q) = q /\ HandOf(jobs[s]) = << >>
  <2>1. /\ q # << >> /\ queue' = [queue EXCEPT ![s] = Tail(@)]
        /\ UNCHANGED <<delivered, submitted>>
    BY <1>3 DEF PopHead
  <2>2. Idle(s) /\ ~working[s]
    BY <1>3, PopIdle DEF PromptInv
  <2>3. HandOf(jobs[s]) = << >>
    BY <2>2, HandOfIdle
  <2>4. Head(q) \in Frame /\ Tail(q) \in Seq(Frame)
    BY <1>1, <2>1
  <2>5. << >> \o q = q /\ <<Head(q)>> \o Tail(q) = q /\ << >> \o Tail(q) = Tail(q)
    BY <1>1, <2>1, <2>4, HandFirst
  <2> QED
    BY <1>1, <2>1, <2>2, <2>3, <2>4, <2>5
<1>4. ASSUME PopHead(s), jobs' = jobs, left' = left \cup {Head(q)}
      PROVE  FL!Next
  <2> DEFINE L == [Chain EXCEPT ![s] = Tail(@)]
  <2>1. /\ L \in [Stage -> Seq(Frame)] /\ L[s] = Tail(q)
        /\ \A t \in Stage : t # s => L[t] = Chain[t]
    BY <1>1, <1>3, <1>4
  <2>2. queue'[s] = Tail(q) /\ \A t \in Stage : t # s => queue'[t] = queue[t]
    BY <1>1, <1>3, <1>4
  <2> HIDE DEF L
  <2>3. \A t \in Stage : HandOf(jobs'[t]) \o queue'[t] = L[t]
    BY <1>1, <1>3, <1>4, <2>1, <2>2
  <2>4. Chain' = L
    BY <2>1, <2>3, ChainBy
  <2> QED
    BY <1>3, <1>4, <2>4, IsDrop DEF L
<1>5. CASE s = "reduct" /\ Reject
  BY <1>4, <1>5 DEF Reject
<1>6. CASE ForkFails(s)
  BY <1>4, <1>6 DEF ForkFails
<1>7. CASE Launch(s)
  <2> DEFINE f == Head(q)
             j == NewJob(f)
  <2>1. PopHead(s)
    BY <1>7 DEF Launch
  <2>2. jobs' = [jobs EXCEPT ![s] = Append(@, j)] /\ left' = left
    BY <1>3, <1>7, <2>1 DEF Launch
  <2>3. j \in Job /\ j.phase \in Busy /\ j.target = f /\ f \in Frame
    BY <1>3, <2>1 DEF NewJob, Job, Phase, Busy
  <2>4. <<f>> \o Tail(q) = q /\ Chain[s] = q /\ queue'[s] = Tail(q)
        /\ \A t \in Stage : t # s => queue'[t] = queue[t]
    BY <1>1, <1>3, <2>1
  <2> HIDE DEF f, j
  <2>5. /\ jobs[s] \in Seq(Job) /\ jobs'[s] = Append(jobs[s], j)
        /\ \A t \in Stage : t # s => jobs'[t] = jobs[t]
    BY <1>1, <2>2
  <2>6. HandOf(jobs'[s]) = <<f>>
    <3>1. /\ Append(jobs[s], j) # << >>
          /\ Append(jobs[s], j)[Len(Append(jobs[s], j))] = j
      BY <2>3, <2>5, AppendProperties
    <3> QED
      BY <2>3, <2>5, <3>1 DEF HandOf
  <2>7. \A t \in Stage : HandOf(jobs'[t]) \o queue'[t] = Chain[t]
    BY <1>1, <2>4, <2>5, <2>6
  <2>8. Chain' = Chain
    BY <1>1, <2>7, ChainBy
  <2> QED
    BY <1>3, <2>1, <2>2, <2>8, IsStutter
<1> QED
  BY <1>2, <1>5, <1>6, <1>7 DEF Worker

\* A frame that is submitted enters the chain; the other threads do not touch it.
LEMMA MainRefines ==
  ASSUME PromptInv, Submit \/ Signal \/ MainThread \/ \E c \in Camera : FinderIdle(c)
  PROVE  FL!Next \/ UNCHANGED FL!vars
<1>1. CASE Submit
  <2> DEFINE r == "reduct"
             f == submitted + 1
             L == [Chain EXCEPT ![r] = Append(@, f)]
  <2>1. /\ submitted < NumFrames /\ submitted' = f /\ jobs' = jobs
        /\ queue' = [queue EXCEPT ![r] = Append(@, f)] /\ UNCHANGED <<delivered, left>>
    BY <1>1 DEF Submit, PushFrame, jobVars, history
  <2>2. f \in Frame /\ r \in Stage /\ Chain \in [Stage -> Seq(Frame)]
        /\ queue \in [Stage -> Seq(Frame)]
    <3>1. f \in Frame /\ r \in Stage
      BY <2>1, Typed, NumFramesAssumption DEF PromptInv, Frame, Stage
    <3> QED
      BY <3>1, Typed, ChainTyped DEF PromptInv
  <2> HIDE DEF r, f
  <2>3. /\ L \in [Stage -> Seq(Frame)] /\ L[r] = Append(Chain[r], f)
        /\ \A t \in Stage : t # r => L[t] = Chain[t]
    <3>1. Append(Chain[r], f) \in Seq(Frame)
      BY <2>2
    <3> QED
      BY <2>2, <3>1
  <2>4. queue'[r] = Append(queue[r], f) /\ \A t \in Stage : t # r => queue'[t] = queue[t]
    BY <2>1, <2>2
  <2>5. HandOf(jobs[r]) \o Append(queue[r], f) = Append(Chain[r], f)
    <3>1. /\ HandOf(jobs[r]) \in Seq(Frame) /\ queue[r] \in Seq(Frame)
          /\ Chain[r] = HandOf(jobs[r]) \o queue[r]
      BY <2>2, HandTyped
    <3> QED
      BY <2>2, <3>1, JoinsLine
  <2> HIDE DEF L
  <2>6. \A t \in Stage : HandOf(jobs'[t]) \o queue'[t] = L[t]
    BY <2>1, <2>2, <2>3, <2>4, <2>5, ChainAt
  <2>7. Chain' = L
    BY <2>3, <2>6, ChainBy
  <2> QED
    BY <2>1, <2>7, IsEnter DEF L, r, f
<1>2. CASE Signal \/ MainThread \/ \E c \in Camera : FinderIdle(c)
  <2>1. UNCHANGED <<jobs, queue, delivered, left, submitted>>
    BY <1>2 DEF Signal, MainThread, Fed, PollQueue, PollFinders, JoinWorker, ResetFinders,
                FinderIdle, jobVars, history
  <2>2. Chain' = Chain
    BY <2>1, ChainAt
  <2> QED
    BY <2>1, <2>2, IsStutter
<1> QED
  BY <1>1, <1>2

\* With prompt callbacks the pipeline implements FrameLine: whatever the threads do, the
\* frames wait in four first-in first-out lines, the frame in hand ahead of the queue.
THEOREM PipelineIsFrameLine == PromptSpec => IsFrameLine
<1>1. Init => FL!Init
  <2> SUFFICES ASSUME Init PROVE FL!Init
    OBVIOUS
  <2>1. \A s \in Stage : InHand(s) \o queue[s] = << >>
    BY DEF Init, InHand
  <2> QED
    BY <2>1, LineNames DEF FL!Init, Init
<1>2. PromptInv /\ [PromptNext]_vars => [FL!Next]_(FL!vars)
  <2> SUFFICES ASSUME PromptInv, [PromptNext]_vars PROVE FL!Next \/ UNCHANGED FL!vars
    OBVIOUS
  <2>1. CASE UNCHANGED vars
    <3>1. UNCHANGED <<jobs, queue, delivered, left, submitted>>
      BY <2>1 DEF vars
    <3>2. Chain' = Chain
      BY <3>1, ChainAt
    <3> QED
      BY <3>1, <3>2, IsStutter
  <2>2. CASE PromptNext
    BY <2>2, MainRefines, WorkerRefines, ThreadRefines DEF PromptNext, Next
  <2> QED
    BY <2>1, <2>2
<1> QED
  BY <1>1, <1>2, PromptInvariance, PTL DEF PromptSpec, IsFrameLine, FL!Spec

\* What FrameLineProofs proves of the lines therefore holds of the pipeline.
Lines == INSTANCE FrameLineProofs WITH line <- [s \in Stage |-> InHand(s) \o queue[s]],
                                       out <- delivered,
                                       count <- submitted

\* The instance of the proofs is the instance of the model.
LEMMA LinesAreFL ==
  /\ Lines!Init <=> FL!Init
  /\ [Lines!Next]_(Lines!vars) <=> [FL!Next]_(FL!vars)
  /\ Lines!InOrder <=> FL!InOrder
  /\ Lines!NothingLost <=> FL!NothingLost
<1>1. /\ Lines!Stage = FL!Stage /\ Lines!NextStage = FL!NextStage
      /\ \A s \in Stage : Lines!FeedsNext(s) <=> FL!FeedsNext(s)
      /\ Lines!vars = FL!vars
  BY DEF Lines!Stage, FL!Stage, Lines!NextStage, FL!NextStage, Lines!FeedsNext, FL!FeedsNext,
         Lines!vars, FL!vars
<1>2. Lines!Init <=> FL!Init
  BY <1>1 DEF Lines!Init, FL!Init
<1>3. Lines!Next <=> FL!Next
  <2>1. Lines!Enter <=> FL!Enter
    BY DEF Lines!Enter, FL!Enter
  <2>2. Lines!Deliver <=> FL!Deliver
    BY DEF Lines!Deliver, FL!Deliver
  <2>3. ASSUME NEW s \in Stage PROVE Lines!Advance(s) <=> FL!Advance(s)
    BY <1>1 DEF Lines!Advance, FL!Advance
  <2>4. ASSUME NEW s \in Stage PROVE Lines!Drop(s) <=> FL!Drop(s)
    BY DEF Lines!Drop, FL!Drop
  <2> QED
    BY <1>1, <2>1, <2>2, <2>3, <2>4, LineNames DEF Lines!Next, FL!Next
<1>4. Lines!InOrder <=> FL!InOrder
  <2>1. \A q : Lines!Frames(q) = FL!Frames(q) /\ (Lines!Rising(q) <=> FL!Rising(q))
    BY DEF Lines!Frames, FL!Frames, Lines!Rising, FL!Rising
  <2>2. \A F, G : Lines!Ahead(F, G) <=> FL!Ahead(F, G)
    BY DEF Lines!Ahead, FL!Ahead
  <2>3. Lines!Place = FL!Place
    BY DEF Lines!Place, FL!Place
  <2> QED
    BY <1>1, <2>1, <2>2, <2>3 DEF Lines!InOrder, FL!InOrder
<1>5. Lines!NothingLost <=> FL!NothingLost
  BY <1>1 DEF Lines!NothingLost, FL!NothingLost, Lines!InLine, FL!InLine, Lines!Frames, FL!Frames
<1>6. [Lines!Next]_(Lines!vars) <=> [FL!Next]_(FL!vars)
  BY <1>3 DEF Lines!vars, FL!vars
<1> QED
  BY <1>2, <1>4, <1>5, <1>6

\* Until it is delivered or leaves the chain, no frame is lost, doubled or overtaken by a
\* newer one, however the workers and the processing threads of the stages interleave.
THEOREM FramesInOrder == PromptSpec => [](FL!InOrder /\ FL!NothingLost)
<1>1. Lines!Spec => []Lines!InOrder
  BY Lines!NoOvertaking, NumFramesAssumption, SwitchAssumption
<1>2. Lines!Spec => []Lines!NothingLost
  BY Lines!NoLoss, NumFramesAssumption, SwitchAssumption
<1>3. FL!Spec => Lines!Spec
  BY LinesAreFL, PTL DEF FL!Spec, Lines!Spec
<1> QED
  BY <1>1, <1>2, <1>3, LinesAreFL, PipelineIsFrameLine, PTL DEF IsFrameLine
=============================================================================
