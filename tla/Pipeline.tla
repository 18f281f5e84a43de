------------------------------ MODULE Pipeline ------------------------------
(***************************************************************************)
(* The frame-processing pipeline of DoProcess: four stages, each with a    *)
(* queue, a worker thread that waits on a condition variable, and a        *)
(* processing object (AstroDIP, AstroMetry, MatchCatalog, PhotoMetry) that *)
(* runs one frame in a thread of its own and reports through a callback.   *)
(*                                                                         *)
(* A step of this module is what one thread does between two points where  *)
(* another thread can interfere; a critical section under a queue mutex is *)
(* one step.  The mutex a worker waits with is local to it, so a notify    *)
(* that comes between the worker's last test and its wait is lost.         *)
(***************************************************************************)
EXTENDS Stages, Sequences

CONSTANTS Camera,    \* the cameras (gid, uid, cid) the frames come from
          CameraOf,  \* CameraOf[f]: the camera of frame f
          Ending,    \* how the run may end: a batch of files when IsOver
                     \* says "over", a service by a "signal"
          Spurious   \* bound: the stages whose worker may wake spuriously

ASSUME CameraAssumption == CameraOf \in [Frame -> Camera]
ASSUME EndingAssumption == Ending \subseteq {"over", "signal"}

VARIABLES
  queue,      \* queue[s]: queReduct_, queAstro_, queMatch_, quePhoto_
  wpc,        \* wpc[s]: where the worker thread of s is
  working,    \* working[s]: working_ of the stage's object
  cur,        \* cur[s]: frame_ of the stage's object, NoFrame before the first
  jobs,       \* jobs[s]: the processing threads DoIt launched, oldest first
  good,       \* good[s]: the frames stage s has processed with success
  finder,     \* finder[c]: the AFindPV of camera c in finders_
  delivered,  \* the frames handed to a finder, in order (history)
  left,       \* the frames that left the chain before a finder (history)
  submitted,  \* how many frames have been pushed by ProcessImage
  main,       \* what the main thread does
  at          \* which step of IsOver or StopService comes next

vars == <<queue, wpc, working, cur, jobs, good, finder, delivered, left,
          submitted, main, at>>
jobVars == <<working, cur, jobs, good>>
mainVars == <<main, at>>
history == <<delivered, left>>

NoFrame == 0

\* The life of a processing thread: "run" until it clears working_, "judge"
\* until AstroDIP has decided success, "report" until the callback has called GetFrame, "push" until it has handed
\* the frame on, "ack" until it has notified its own worker.
Phase == {"run", "judge", "report", "push", "ack", "end"}
Late == {"judge", "report", "push"}

Job == [target : Frame, phase : Phase, ok : BOOLEAN, frame : Frame \cup {NoFrame}]

NewJob(f) == [target |-> f, phase |-> "run", ok |-> FALSE, frame |-> NoFrame]

WorkerPc == {"wait", "test", "start", "park", "exit"}
FinderState == {"none", "busy", "idle", "null"}

\* The order in which IsOver reads the queues and StopService joins the workers.
Order == <<"reduct", "astro", "match", "photo">>

Init == /\ queue = [s \in Stage |-> <<>>]
        /\ wpc = [s \in Stage |-> "wait"]
        /\ working = [s \in Stage |-> FALSE]
        /\ cur = [s \in Stage |-> NoFrame]
        /\ jobs = [s \in Stage |-> <<>>]
        /\ good = [s \in Stage |-> {}]
        /\ finder = [c \in Camera |-> "none"]
        /\ delivered = <<>>
        /\ left = {}
        /\ submitted = 0
        /\ main = "feed"
        /\ at = 1
-----------------------------------------------------------------------------
\* notify_one: wakes the worker if it waits, is lost otherwise.
Woken(p) == IF p = "wait" THEN "test" ELSE p

Notify(s) == wpc' = [wpc EXCEPT ![s] = Woken(@)]

\* Mutant: the frame is pushed and nobody is notified.
PushFrame_Silent(s, f) == /\ queue' = [queue EXCEPT ![s] = Append(@, f)]
                          /\ UNCHANGED wpc

\* Mutant: push_front.
PushFrame_Front(s, f) == /\ queue' = [queue EXCEPT ![s] = <<f>> \o @]
                         /\ Notify(s)

\* push_back and notify_one under the queue's mutex.
PushFrame(s, f) == /\ queue' = [queue EXCEPT ![s] = Append(@, f)]
                   /\ Notify(s)

\* ProcessImage (batch), or the file server's message (daemon).
Submit == /\ main = "feed"
          /\ submitted < NumFrames
          /\ submitted' = submitted + 1
          /\ PushFrame("reduct", submitted + 1)
          /\ UNCHANGED <<jobVars, finder, history, mainVars>>
-----------------------------------------------------------------------------
(***************************************************************************)
(* The worker thread of stage s.                                           *)
(***************************************************************************)
\* Mutant: the worker does not ask IsWorking.
HasWork_AnyTime(s) == queue[s] # <<>>

HasWork(s) == ~working[s] /\ queue[s] # <<>>

\* while (!IsWorking() && size()), read without the queue's mutex
Test(s) == /\ wpc[s] = "test"
           /\ wpc' = [wpc EXCEPT ![s] = IF HasWork(s) THEN "start" ELSE "park"]
           /\ UNCHANGED <<queue, jobVars, finder, history, submitted, mainVars>>

\* Entering cv.wait.
Park(s) == /\ wpc[s] = "park"
           /\ wpc' = [wpc EXCEPT ![s] = "wait"]
           /\ UNCHANGED <<queue, jobVars, finder, history, submitted, mainVars>>

SpuriousWake(s) == /\ s \in Spurious
                   /\ wpc[s] = "wait"
                   /\ wpc' = [wpc EXCEPT ![s] = "test"]
                   /\ UNCHANGED <<queue, jobVars, finder, history, submitted, mainVars>>

\* The critical section: front(), pop_front(), check_image and DoIt.
PopHead(s) == /\ wpc[s] = "start"
              /\ queue[s] # <<>>
              /\ queue' = [queue EXCEPT ![s] = Tail(@)]
              /\ wpc' = [wpc EXCEPT ![s] = "test"]
              /\ UNCHANGED <<good, finder, delivered, submitted, mainVars>>

\* check_image found no usable FITS header: the frame goes no further.
Reject == /\ PopHead("reduct")
          /\ left' = left \cup {Head(queue["reduct"])}
          /\ UNCHANGED <<working, cur, jobs>>

\* DoIt could not fork the external program: frame_ is set, nothing runs.
ForkFails(s) == /\ s \in {"reduct", "astro"}
                /\ PopHead(s)
                /\ cur' = [cur EXCEPT ![s] = Head(queue[s])]
                /\ left' = left \cup {Head(queue[s])}
                /\ UNCHANGED <<working, jobs>>

\* Mutant: DoIt forgets to set working_.
Launch_NoFlag(s) ==
  /\ PopHead(s)
  /\ cur' = [cur EXCEPT ![s] = Head(queue[s])]
  /\ jobs' = [jobs EXCEPT ![s] = Append(@, NewJob(Head(queue[s])))]
  /\ UNCHANGED <<working, left>>

\* Mutant: DoIt keeps the frame_ it already has.
Launch_OldFrame(s) ==
  /\ PopHead(s)
  /\ cur' = [cur EXCEPT ![s] = IF @ = NoFrame THEN Head(queue[s]) ELSE @]
  /\ working' = [working EXCEPT ![s] = TRUE]
  /\ jobs' = [jobs EXCEPT ![s] = Append(@, NewJob(Head(queue[s])))]
  /\ UNCHANGED left

\* DoIt sets frame_ and working_ and launches the processing thread; it drops
\* the frame when working_ is set, which StartHasWork shows never to happen.
Launch(s) ==
  /\ PopHead(s)
  /\ IF working[s]
     THEN /\ left' = left \cup {Head(queue[s])}
          /\ UNCHANGED <<cur, working, jobs>>
     ELSE /\ cur' = [cur EXCEPT ![s] = Head(queue[s])]
          /\ working' = [working EXCEPT ![s] = TRUE]
          /\ jobs' = [jobs EXCEPT ![s] = Append(@, NewJob(Head(queue[s])))]
          /\ UNCHANGED left
-----------------------------------------------------------------------------
(***************************************************************************)
(* The k-th processing thread of stage s.                                  *)
(***************************************************************************)
InPhase(s, k, p) == k \in 1 .. Len(jobs[s]) /\ jobs[s][k].phase = p

\* The frame is processed and working_ cleared, before the result is reported.
\* ok: load_catalog found more than 20 stars, load_wcs read a solution, ProcessFit
\* converged, do_match and do_fit succeeded.  AstroDIP keeps no flag of it, it
\* counts the stars of frame_ in its next statement.
Finish(s, k) ==
  /\ InPhase(s, k, "run")
  /\ working' = [working EXCEPT ![s] = FALSE]
  /\ \E ok \in BOOLEAN :
       /\ good' = IF ok THEN [good EXCEPT ![s] = @ \cup {cur[s]}] ELSE good
       /\ jobs' = [jobs EXCEPT ![s][k].phase = IF s = "reduct" THEN "judge" ELSE "report",
                               ![s][k].ok = ok /\ s # "reduct"]
  /\ UNCHANGED <<queue, wpc, cur, finder, history, submitted, mainVars>>

\* AstroDIP: success = frame_->nfobjs.size() > 20, of whatever frame_ is now.
JudgeReduct(s, k) ==
  /\ InPhase(s, k, "judge")
  /\ jobs' = [jobs EXCEPT ![s][k].phase = "report", ![s][k].ok = cur[s] \in good[s]]
  /\ UNCHANGED <<queue, wpc, working, cur, good, finder, history, submitted, mainVars>>

\* Mutant: AstrometryResult asks reduct_, not astro_, for its frame.
TakeFrame_OtherStage(s, k) ==
  /\ InPhase(s, k, "report")
  /\ jobs' = [jobs EXCEPT ![s][k].phase = "push",
                          ![s][k].frame = cur[IF s = "astro" THEN "reduct" ELSE s]]
  /\ UNCHANGED <<queue, wpc, working, cur, good, finder, history, submitted, mainVars>>

\* The callback's first line: frame = GetFrame().
TakeFrame(s, k) ==
  /\ InPhase(s, k, "report")
  /\ jobs' = [jobs EXCEPT ![s][k].phase = "push", ![s][k].frame = cur[s]]
  /\ UNCHANGED <<queue, wpc, working, cur, good, finder, history, submitted, mainVars>>

Acked(s, k) == jobs' = [jobs EXCEPT ![s][k].phase = "ack"]

\* Mutant: the callback does not look at rslt.
HandOn_Unchecked(s, k) ==
  /\ InPhase(s, k, "push") /\ s # "photo"
  /\ FeedsNext(s)
  /\ PushFrame(NextStage[s], jobs[s][k].frame)
  /\ Acked(s, k)
  /\ UNCHANGED <<working, cur, good, finder, history, submitted, mainVars>>

\* Mutant: the callback asks the next stage, not its own, for the frame.
HandOn_NextFrame(s, k) ==
  /\ InPhase(s, k, "push") /\ s # "photo"
  /\ jobs[s][k].ok /\ FeedsNext(s)
  /\ PushFrame(NextStage[s], cur[NextStage[s]])
  /\ Acked(s, k)
  /\ UNCHANGED <<working, cur, good, finder, history, submitted, mainVars>>

\* The callback pushes a successful frame onto the next queue.
HandOn(s, k) ==
  /\ InPhase(s, k, "push") /\ s # "photo"
  /\ jobs[s][k].ok /\ FeedsNext(s)
  /\ PushFrame(NextStage[s], jobs[s][k].frame)
  /\ Acked(s, k)
  /\ UNCHANGED <<working, cur, good, finder, history, submitted, mainVars>>

\* The frame failed, or the configuration ends the chain at this stage.
HandOnNothing(s, k) ==
  /\ InPhase(s, k, "push")
  /\ ~ (jobs[s][k].ok /\ (s = "photo" \/ FeedsNext(s)))
  /\ left' = left \cup {jobs[s][k].target}
  /\ Acked(s, k)
  /\ UNCHANGED <<queue, wpc, working, cur, good, finder, delivered, submitted, mainVars>>

\* PhotometryResult: get_finder, then NewFrame wakes that finder.
HandToFinder(s, k) ==
  /\ InPhase(s, k, "push") /\ s = "photo"
  /\ jobs[s][k].ok
  /\ \A c \in Camera : finder[c] # "null"
  /\ finder' = [finder EXCEPT ![CameraOf[jobs[s][k].frame]] = "busy"]
  /\ delivered' = Append(delivered, jobs[s][k].frame)
  /\ Acked(s, k)
  /\ UNCHANGED <<queue, wpc, working, cur, good, left, submitted, mainVars>>

\* get_finder walks finders_ and calls IsMatched through a pointer that
\* StopService has reset: the program ends there.
FinderGone(s, k) ==
  /\ InPhase(s, k, "push") /\ s = "photo"
  /\ jobs[s][k].ok
  /\ \E c \in Camera : finder[c] = "null"
  /\ main' = "crashed"
  /\ UNCHANGED <<queue, wpc, jobVars, finder, history, submitted, at>>

\* Mutant: the callback does not wake the stage's own worker.
Ack_Silent(s, k) ==
  /\ InPhase(s, k, "ack")
  /\ jobs' = [jobs EXCEPT ![s][k].phase = "end", ![s][k].ok = FALSE,
                          ![s][k].frame = NoFrame]
  /\ UNCHANGED <<queue, wpc, working, cur, good, finder, history, submitted, mainVars>>

\* The callback's last line: notify the stage's own worker.
Ack(s, k) ==
  /\ InPhase(s, k, "ack")
  /\ Notify(s)
  /\ jobs' = [jobs EXCEPT ![s][k].phase = "end", ![s][k].ok = FALSE,
                          ![s][k].frame = NoFrame]
  /\ UNCHANGED <<queue, working, cur, good, finder, history, submitted, mainVars>>
-----------------------------------------------------------------------------
(***************************************************************************)
(* The finders and the main thread.                                        *)
(***************************************************************************)
\* A finder has worked off its queue and closed its sequence (AFindPV::IsOver).
FinderIdle(c) == /\ finder[c] = "busy"
                 /\ finder' = [finder EXCEPT ![c] = "idle"]
                 /\ UNCHANGED <<queue, wpc, jobVars, history, submitted, mainVars>>

\* All files are submitted: main starts polling IsOver.
Fed == /\ main = "feed" /\ "over" \in Ending
       /\ submitted = NumFrames
       /\ main' = "poll" /\ at' = 1
       /\ UNCHANGED <<queue, wpc, jobVars, finder, history, submitted>>

\* IsOver reads the four queue sizes one after another, then asks the finders.
\* A size that is not zero ends this call; the next one comes 30 s later.
PollQueue == /\ main = "poll" /\ at <= 4
             /\ at' = IF queue[Order[at]] = <<>> THEN at + 1 ELSE 1
             /\ UNCHANGED <<queue, wpc, jobVars, finder, history, submitted, main>>

PollFinders == /\ main = "poll" /\ at = 5
               /\ at' = 1
               /\ main' = IF \E c \in Camera : finder[c] = "busy"
                          THEN "poll" ELSE "stop"
               /\ UNCHANGED <<queue, wpc, jobVars, finder, history, submitted>>

\* A signal ends the service's io_service::run.
Signal == /\ main = "feed" /\ "signal" \in Ending
          /\ main' = "stop" /\ at' = 1
          /\ UNCHANGED <<queue, wpc, jobVars, finder, history, submitted>>

\* Mutant: the worker is interrupted and not joined.
JoinWorker_NoJoin == /\ main = "stop" /\ at <= 4
                     /\ at' = at + 1
                     /\ UNCHANGED <<queue, wpc, jobVars, finder, history, submitted, main>>

\* interrupt_thread: the worker ends at its wait and is joined.
JoinWorker == /\ main = "stop" /\ at <= 4
              /\ wpc[Order[at]] = "wait"
              /\ wpc' = [wpc EXCEPT ![Order[at]] = "exit"]
              /\ at' = at + 1
              /\ UNCHANGED <<queue, jobVars, finder, history, submitted, main>>

\* The last step of StopService resets the pointers in finders_.
ResetFinders == /\ main = "stop" /\ at = 5
                /\ finder' = [c \in Camera |-> IF finder[c] = "none" THEN "none" ELSE "null"]
                /\ main' = "stopped"
                /\ UNCHANGED <<queue, wpc, jobVars, history, submitted, at>>
-----------------------------------------------------------------------------
Worker(s) == \/ Test(s)
             \/ Park(s)
             \/ s = "reduct" /\ Reject
             \/ ForkFails(s)
             \/ Launch(s)

Processing(s, k) == \/ Finish(s, k)
                    \/ JudgeReduct(s, k)
                    \/ TakeFrame(s, k)
                    \/ HandOn(s, k)
                    \/ HandOnNothing(s, k)
                    \/ HandToFinder(s, k)
                    \/ FinderGone(s, k)
                    \/ Ack(s, k)

MainThread == Fed \/ PollQueue \/ PollFinders \/ JoinWorker \/ ResetFinders

Running == main # "crashed"

Next == \/ Running /\ Submit
        \/ Running /\ Signal
        \/ Running /\ MainThread
        \/ \E s \in Stage : Running /\ (Worker(s) \/ SpuriousWake(s))
        \/ \E s \in Stage : \E k \in 1 .. Len(jobs[s]) : Running /\ Processing(s, k)
        \/ \E c \in Camera : Running /\ FinderIdle(c)

Spec == Init /\ [][Next]_vars
-----------------------------------------------------------------------------
(***************************************************************************)
(* Timing assumptions.  The code does not enforce them: a run or a theorem *)
(* that needs one names the specification that makes it.                   *)
(***************************************************************************)
IsLate(s) == \E k \in 1 .. Len(jobs[s]) : jobs[s][k].phase \in Late

\* While a stage's result is being reported its worker takes no further frame.
Prompt == \A s \in Stage : IsLate(s) => Len(queue'[s]) >= Len(queue[s])

\* A worker that found nothing to do is in its wait before anyone notifies it.
SwiftWait == \A s \in Stage : wpc[s] = "park" => wpc'[s] = "wait"

PromptNext == Next /\ Prompt
PromptSpec == Init /\ [][PromptNext]_vars

Timely == Prompt /\ SwiftWait
TimelyNext == Next /\ Timely
TimelySpec == Init /\ [][TimelyNext]_vars

\* The scheduler runs every thread that can run, and the external programs
\* sex and solve-field end; a spurious wakeup or a signal may never come.
FairThreads ==
  /\ WF_vars(Running /\ Submit)
  /\ WF_vars(Running /\ MainThread)
  /\ \A s \in Stage : WF_vars(Running /\ Worker(s))
  /\ \A s \in Stage, k \in Frame : WF_vars(Running /\ Processing(s, k))
  /\ \A c \in Camera : WF_vars(Running /\ FinderIdle(c))

FairSpec == Spec /\ FairThreads

TimelyFairThreads ==
  /\ WF_vars(Running /\ Submit /\ Timely)
  /\ WF_vars(Running /\ MainThread /\ Timely)
  /\ \A s \in Stage : WF_vars(Running /\ Worker(s) /\ Timely)
  /\ \A s \in Stage, k \in Frame : WF_vars(Running /\ Processing(s, k) /\ Timely)
  /\ \A c \in Camera : WF_vars(Running /\ FinderIdle(c) /\ Timely)

TimelyFairSpec == TimelySpec /\ TimelyFairThreads
-----------------------------------------------------------------------------
TypeOK == /\ queue \in [Stage -> Seq(Frame)]
          /\ wpc \in [Stage -> WorkerPc]
          /\ working \in [Stage -> BOOLEAN]
          /\ cur \in [Stage -> Frame \cup {NoFrame}]
          /\ jobs \in [Stage -> Seq(Job)]
          /\ good \in [Stage -> SUBSET Frame]
          /\ finder \in [Camera -> FinderState]
          /\ delivered \in Seq(Frame)
          /\ left \in SUBSET Frame
          /\ submitted \in 0 .. NumFrames
          /\ main \in {"feed", "poll", "stop", "stopped", "crashed"}
          /\ at \in 1 .. 5

\* A stage processes one frame at a time: only the thread it launched last can
\* be processing, and working_ says exactly whether it is.  working_ is read
\* and written by two threads with no lock.
OneAtATime ==
  \A s \in Stage :
    /\ \A k \in 1 .. Len(jobs[s]) : jobs[s][k].phase = "run" => k = Len(jobs[s])
    /\ working[s] <=> \E k \in 1 .. Len(jobs[s]) : jobs[s][k].phase = "run"

\* While a thread processes a frame, frame_ is that frame: load_catalog,
\* load_wcs, the match and the fit write their results to the right one.
RunsItsFrame ==
  \A s \in Stage : \A k \in 1 .. Len(jobs[s]) :
    jobs[s][k].phase = "run" => cur[s] = jobs[s][k].target

\* A worker that passed its unlocked test and then took the queue's mutex still
\* finds a frame at the head of the queue and the stage free.
StartHasWork ==
  \A s \in Stage : wpc[s] = "start" => ~working[s] /\ queue[s] # <<>>

\* No null frame pointer: a stage that has launched a thread has a frame_, and
\* what a callback pushes is a frame.
FramesKnown ==
  \A s \in Stage :
    /\ jobs[s] # <<>> => cur[s] \in Frame
    /\ \A k \in 1 .. Len(jobs[s]) : jobs[s][k].phase = "push" => jobs[s][k].frame \in Frame

\* Once StopService has returned no stage begins another frame, though the
\* threads still processing one go on and report it.
NoStartAfterStop == [][main = "stopped" => cur' = cur]_vars

\* A callback hands on the frame its result is about.  (DoProcess.h: each
\* callback's rslt is the result of "this" processing.)
HandsOnItsFrame ==
  \A s \in Stage : \A k \in 1 .. Len(jobs[s]) :
    jobs[s][k].phase = "push" => jobs[s][k].frame = jobs[s][k].target

\* Only a frame that passed all four stages reaches a finder.
DeliveredIsGood ==
  \A i \in 1 .. Len(delivered) : \A s \in Stage : delivered[i] \in good[s]

Settled(f) == f \in left \/ \E i \in 1 .. Len(delivered) : delivered[i] = f

\* IsOver "completes all processing" (DoProcess.h): when main goes on to
\* StopService every submitted frame has been delivered or has left.
IsOverMeansFinished ==
  Ending = {"over"} /\ main \in {"stop", "stopped"} => \A f \in 1 .. submitted : Settled(f)

\* A submitted frame is processed to its end, as long as the service runs.
EveryFrameSettles ==
  \A f \in Frame : submitted >= f ~> (Settled(f) \/ main # "feed")

\* A batch run ends by itself: main leaves its polling loop.
BatchEnds == <>(main \notin {"feed", "poll"})
-----------------------------------------------------------------------------
\* The frames of stage s as FrameLine sees them: the one whose result is not
\* handed on yet, if any, and the queue.
InHand(s) == IF jobs[s] # <<>> /\ jobs[s][Len(jobs[s])].phase \in {"run"} \cup Late
             THEN <<jobs[s][Len(jobs[s])].target>>
             ELSE <<>>

FL == INSTANCE FrameLine WITH line <- [s \in Stage |-> InHand(s) \o queue[s]],
                              out <- delivered,
                              count <- submitted

\* With prompt callbacks the pipeline is a chain of first-in first-out lines:
\* no frame is lost, duplicated or overtaken on its way to the finder.
IsFrameLine == FL!Spec
=============================================================================
