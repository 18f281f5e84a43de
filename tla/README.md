# A TLA+ verification of airs

`airs` (Astronomical Image Reduction Software) takes FITS images from the
command line, or as a daemon from a file server, and takes each one through four
stages: image reduction (SExtractor), astrometry (astrometry.net), matching with
the UCAC4 catalogue, and photometry. The frames of one camera then go to a finder
that links moving objects across neighbouring frames. The program is a handful of
threads around queues, and most of what is hard in it is how these threads
interleave; the rest is state that lives from one frame to the next: caches, fitted
models, buffers, marks. `airs1` is a sequential rewrite that has just begun.

## 1. Inventory

| Part | State | Operations | Interaction | Hard |
|---|---|---|---|---|
| `DoProcess` pipeline (`DoProcess.cpp:51-378`) | four queues, four workers, `finders_` | `ProcessImage`, four result callbacks, four workers, `IsOver`, `StopService` | workers wait on condition variables; callbacks run in processing threads | lost notify, unlocked tests, shutdown with work in progress |
| `AstroDIP`, `AstroMetry`, `MatchCatalog`, `PhotoMetry` | `working_`, `frame_`, one processing thread | `DoIt`, `GetFrame`, `IsWorking`, the thread | called by a worker, call back into `DoProcess` | `working_` and `frame_` shared with no lock; `working_` cleared before the callback |
| `AFindPV` (one per camera) | queue, `last_fno_`, `frmprev_`, `frmnow_`, candidates, output numbers, doubtful pixels | `NewFrame`, `IsOver`, `thread_newframe`, destructor | fed by `PhotometryResult`, polled by `IsOver`, destroyed by `StopService` | timeout against a late frame, windows in `IsOver`, end of a sequence |
| Candidates in `AFindPV.h` | points, `related` counts | `create`, `add_point`, `update`, `complete` | one set per sequence | points shared by candidates |
| Bad columns and doubtful pixels (`AFindPV.cpp`, `Parameter.h`) | counts, columns per camera | `test_badcol`, `recheck_doubt`, `AddBadcol`, `SaveBadmark` | `Parameter` is shared by all finders | thresholds, resets, two finders at once |
| Network of `DoProcess` (`DoProcess.cpp:380-541`), `MessageQueue` | clients, reconnection threads, message queue | connect, reconnect, `on_*`, `PostMessage`, `Stop` | client callbacks post, the message thread handles | reconnection against interruption, a full queue, quit before older messages |
| `TCPClient` | receive and send rings, `pause_rcv_` | `Read`, `Lookup`, `Write`, `handle_*`, `UseBuffer` | service thread against the caller's | pause and restart of reading, bytes before `UseBuffer`, a full ring |
| `AsciiProtocol` | ring of ten output buffers | `Compact*`, `Resolve` | called by callbacks and the message thread | some thirty messages written and read by different code; buffers reused while in use |
| `ATimeSpace` | one instant, one site, `values_[]` and `valid_[]` | `SetUTC`, `SetSite`, some twenty getters, calendar, sexagesimal text | used by astrometry and the finder | stale values, boundaries of months, years and leap seconds |
| `AMath`, `WCSTNX` | matrices; one model with its samples | LU, inverse, fit; `PrepareFit`, `AddSample`, `ProcessFit`, load, write | one object fits one frame after the other | a failed fit or load leaves parts of another model |
| `ADIReduct` of `airs1` | buffers, labels, candidates | background, filter, labelling, merging | one object for a sequence of images | buffers of another image or size; chains of merged labels |
| `DBCurl`, `GLog`, `LogCalibrated`, `daemon` | small | upload, daily file, process lock | shared by finders and threads | shared result code, day of month |
| Catalogues, projections, photometric fit | files, coefficients | formulas | sequential | floating point, out of TLC's reach |

What makes each part correct:

- *Pipeline*: a result goes to the frame it is about; a stage works on one frame
  at a time; frames keep their order and none is lost, doubled or overtaken; every
  submitted frame is processed to its end; `IsOver` tells the truth; a batch run
  ends; nothing begins after `StopService`.
- *Finder*: every frame it is given is taken into a sequence; only neighbouring
  frames of one sequence are compared; an object links points of one sequence; the
  last sequence is closed although no frame follows it; the destructor returns.
- *Candidates*: the `related` count of a point is the number of candidates that
  hold it past their first two points; a point that was added to an object, past its first
  two, was added to no other.
- *Bad columns, doubtful pixels*: a pixel that crosses the threshold becomes a
  column, is saved, and its objects are removed; finders do not disturb each other.
- *Network*: a lost connection is made again, once; `StopService` returns from any
  state of the reconnection; posted messages are handled in order.
- *`TCPClient`*: no byte is lost, doubled or reordered; the pause never sticks; a
  message is sent whole or not at all.
- *`AsciiProtocol`*: what one end writes the other reads back; a buffer is not reused
  while it is being sent.
- *`ATimeSpace`*: an answer is of the present instant and of a site in force since it was
  set, whatever was asked before; a date converts to a day and back; leap seconds step where they step.
- *`WCSTNX`*: an accepted model is the model of its frame, and all of it is.
- *`ADIReduct`*: an image is reduced from itself alone; every pixel that has a label
  is summed in one candidate, once; no dark pixel is, and what was rejected stays out.

The hazards, each at its line and with the properties that watch it, are listed in
`PROJECT.json`.

## 2. Modules

The order is by importance: first the path of a frame, then what feeds it and what
comes of it, then the classes the stages compute with.

| Module | Models | Composed in | Section |
|---|---|---|---|
| `Stages` | the four stages and their chain | `FrameLine`, `Pipeline` | 3 |
| `FrameLine` | abstract: what the chain of stages promises | refined by `Pipeline` | 3, proved |
| `Pipeline` | the threads of `DoProcess` and of the four processing classes | `MCPipeline` | 3, safety and refinement proved |
| `Finder` | one `AFindPV` with its thread | | 4, safety proved |
| `Candidates` | the candidates of one sequence and the points they share | `MCParts` | 4, safety proved |
| `BadMarks` | bad columns and doubtful pixels, with restarts and days | `MCParts` | 4, safety proved |
| `TcpReceive` | receive half of a `TCPClient` with `on_receive_fileserver` | | 5, safety proved |
| `TcpSend` | send half, from `output_compacted` to the socket | `MCParts` | 5, safety proved |
| `TcpLink` | `MessageQueue` and the reconnection of `DoProcess` | `MCParts` | 5, safety proved |
| `AsciiProtocol` | every message, written and read | `MCParts` | 6 |
| `TimeSpace`, `Calendar` | `ATimeSpace`: its cache; its conversions | `MCParts` | 6, proved |
| `LinearAlgebra`, `TnxTerms`, `TnxFit`, `TnxModel` | `AMath` and `WCSTNX` | `MCParts` | 6, `TnxFit` and `TnxModel` proved |
| `Reduct`, `GlobLabel` | `airs1`: `ADIReduct` with its driver; its labelling | `MCParts` | 6, proved |
| `MCLabels` | small pictures for `GlobLabel` | `MCParts` | 6 |
| `PipelineProofs`, `FrameLineProofs` | theorems about the pipeline | | 7 |
| `FinderProofs`, `TcpReceiveProofs` | theorems about `Finder`; about `TcpReceive` | | 7 |
| `ServiceProofs` | theorems about `Candidates`, `BadMarks`, `TcpLink` and `TcpSend` | | 7 |
| `AstroProofs` | theorems about `TimeSpace`, `Calendar`, `TnxModel` and `TnxFit` | | 7 |
| `ReductProofs` | theorems about `Reduct` and `GlobLabel` | | 7 |
| `Loops` | lemmas only: a fold over a sequence is a loop | the three before | 7 |

`MCParts` holds the parts that share no state. One run checks them side by side: the
initial state picks the part that moves and the others stay parked, so the number of
states is the sum of the parts' and not their product. The modules with theorems are
extended, so that a run and a theorem speak of the same definition and TLC evaluates the
assumptions of the theorem; the others are instantiated.

Left for later: what `LinearAlgebra` and the text of `Calendar` compute, as far as it can
be proved without induction over data; the buffers of `TnxTerms`; a byte channel that
`TcpReceive` and `TcpSend` implement.

## 3. Pipeline

### State and actions

`Pipeline` has one step for what a thread does between two points where another one
can interfere; a critical section under a queue's mutex is one step.

| Model | Code |
|---|---|
| `queue[s]` | `queReduct_`, `queAstro_`, `queMatch_`, `quePhoto_` |
| `wpc[s]` | where `thread_reduct/astro/match/photo` is: in `cv.wait`, before its test, after it with work ("start") or without ("park") |
| `working[s]`, `cur[s]` | `working_`, `frame_` of the stage's object |
| `jobs[s]` | the threads `DoIt` launched, with their phase; several can be alive at once because `working_` is cleared first and the callback runs after |
| `good[s]` | the frames the stage processed with success |
| `finder[c]` | the entry of `finders_` for camera `c`: absent, at work, idle, reset |
| `main`, `at` | the loop of `main` and its place in `IsOver` and `StopService` |
| `delivered`, `left` | history: the frames given to a finder; those that left before |

A worker is `Test` (the unlocked `while`), then `Launch`, `ForkFails` or `Reject`
(`front`, `pop_front`, `check_image`, `DoIt`), or `Park` (it enters the wait). A
processing thread is `Finish` (work and `working_ = false`), `JudgeReduct`
(`AstroDIP` counts the stars of `frame_` only afterwards), `TakeFrame` (the callback's
`GetFrame`), `HandOn`, `HandOnNothing` or `HandToFinder`, and `Ack` (it notifies its own
worker). `Submit` is `ProcessImage` for a batch and the file server's message for a
daemon. `PollQueue`, `PollFinders`, `JoinWorker` and `ResetFinders` are the reads of
`IsOver` and the steps of `StopService`.

The mutex of `cv.wait` is local to each worker, so it excludes nobody: `Notify` wakes
a worker in `wait` and is lost otherwise. That is the heart of the model.

What a stage computes is abstracted to success or failure. A finder is one of four
states here; section 4 has it in full.

### Timing assumptions

The code does not enforce these. A run or a theorem that needs one says so by the
specification it uses.

- `Prompt`: while a stage's result is being reported its worker takes no further
  frame. The gap is from `working_ = false` to the end of the callback's push, a few
  instructions, and a worker must be woken in it by the stage before. Used by
  `PromptSpec`, `TimelySpec`, `TimelyFairSpec`. Run `pipeline_wrong` shows what happens
  without it.
- `SwiftWait`: a worker that found nothing to do is in its wait before anybody
  notifies it. Used by `TimelySpec` and `TimelyFairSpec`. Run `pipeline_stuck` shows
  what happens without it.

`Spec` has neither. What is proved is proved of `Spec`, or of `PromptSpec` where the run
needs `Prompt` too.

Fairness (`FairThreads`) is weak fairness of each thread: the operating system runs a
thread that can run, and `sex` and `solve-field`, which a thread waits for, end. A
signal and a spurious wakeup are not assumed to come. `TimelyFairThreads` is the same
for the steps that `Timely` allows. The finder's return to idle is fair because of
what `EverySequenceCloses` shows of `Finder`.

### Runs

| Run | Bounds | Distinct states | Shows |
|---|---|---|---|
| `pipeline_free` | 2 frames of 2 cameras, astrometry on, photometry off, both endings, spurious wakeups in the first stage, no timing assumption | 197 186 | `TypeOK`, `OneAtATime`, `RunsItsFrame`, `StartHasWork`, `NoStartAfterStop` |
| `pipeline_one` | 1 frame, 4 stages, a signal at any moment | 21 656 | `EveryFrameSettles` with no timing assumption |
| `pipeline_prompt` | 2 frames, 4 stages, `Prompt` | 1 049 035 | `HandsOnItsFrame`, `DeliveredIsGood`, and the refinement `IsFrameLine` |
| `pipeline_live` | 3 frames, 2 stages, `Prompt` and `SwiftWait` | 75 625 | `EveryFrameSettles` |
| `pipeline_over` | 2 frames, 4 stages, batch, both timing assumptions | violated | `IsOverMeansFinished` |
| `pipeline_stuck` | 2 frames, 2 stages, batch, fair threads | violated | `BatchEnds` |
| `pipeline_wrong` | 2 frames, 4 stages | violated | `HandsOnItsFrame` |

Why this is enough. A stage shares nothing with another but the queue between them,
and all four have the same code, so two stages show what a stage does to its
neighbour and four show the chain. Two frames are the least that can meet in one
object, one in its callback and one being launched; the third of `pipeline_live` lets a frame
wait behind another in a queue while a third is processed. Two cameras are the least
for which a late frame meets the reset finder of another camera. The safety
properties of `pipeline_free` and of `pipeline_prompt`, with the refinement, are also proved
for every number of frames and cameras.

With spurious wakeups even a single frame can get stuck: a worker woken for nothing
can be between test and wait when the frame's notify comes. `pipeline_one` therefore
has none.

## 4. Finder

| Model | Code |
|---|---|
| `que`, `fno[f]` | `frmque_`; the frame number of the f-th frame given |
| `pc`, `frame` | the statement of `thread_newframe` and its local `frame` |
| `last`, `prev`, `now` | `last_fno_` (`INT_MAX` above every number), `frmprev_`, `frmnow_` |
| `can`, `objects` | one candidate of `cans_`, by the frames of its points; the candidates converted to objects |
| `seq`, `opened` | history: which sequence a frame was taken into |
| `ask`, `heard` | where the main thread is in `IsOver` or the destructor; what had been given when it asked |

Every read of `IsOver` is a step, and so is every assignment of `end_sequence` and
`new_frame` to the shared pointers, since `IsOver` reads them with no lock. `Match` is
`cross_match` with `end_frame`: whether points match is left open; whether there is a
neighbour to match with is not. A frame's number is any of `0 .. MaxFno`, so numbers
repeat (a file given twice, or no `FRAMENO`), drop (the next sequence) and are missing.
`TimeOut` stands for the 30 s and for a spurious wakeup, which the code cannot tell
apart either.

`FairSpec` is weak fairness of the thread and of the destructor's `join`: the timeout
belongs to the thread, and the clock runs. Main's polling is not assumed to come.

| Run | Bounds | Distinct states | Shows |
|---|---|---|---|
| `finder` | 4 frames, numbers 0 and 1, `MinFrame` 3, destroyed after `IsOver`, by a signal, or never | 127 945 | `TypeOK`, `NeighboursOnly`, `ObjectsInOneSequence`, `GoneHasTaken`, `EveryFrameTaken`, `EverySequenceCloses`, `DestroyReturns` |

Four frames make two sequences of two, or one object of three points and a frame
after it; two numbers make every comparison with `last_fno_`. In the code `MINFRAME`
is larger, and the proofs hold for every value above 1.

What the model also tells, and nothing in the repository denies: a finder destroyed by
a signal drops its open sequence, and a frame whose notify was lost.

### Candidates

| Model | Code |
|---|---|
| `fno`, `at` | the frame in hand; the step of `end_frame` |
| `matched`, `related[p]` | `pv_point::matched`, `pv_point::related` |
| `cans`, `objects` | `cans_`, each by its points; the candidates `complete` accepted |

`new_frame` is `new_frame` with `cross_match`, whose two counts decide whether the frame
is followed up; `recheck_candidates`, `append_candidates` and `create_candidates` are
`end_frame`; `end_sequence` is `complete_candidates`. Judging is sequential, as in the
code: a candidate that is given up returns its points before the next is judged.
Positions are left open: which points are near, which candidate expects which point,
who leaves the field and who moves steadily are free choices, so the result does not
depend on thresholds. Bounds: 4 frames of 2 points, 3 candidates at a time, `MINFRAME`
3 (5 in the code): two candidates that share a third or fourth point, in either order
of judgement, before and at the end of the sequence. `OneObjectPerPoint` leaves the first
two points of an object out, because `complete` neither counts nor tests them.

### BadMarks

| Model | Code |
|---|---|
| `service` | where the service is: down, up, or past `SaveBadmark` in `StopService` |
| `marks`, `file`, `dirty` | `badColSet` for this camera, the marks file, `Parameter::dirty` |
| `clean` | the columns `remove_badpix` took out of the frames |
| `unc`, `doubt` | `uncbadcol_`, `doubtPixSet_` |
| `day`, `idpv` | `mjdold_`, `idpv_` |
| `objs` | history: the objects that stood still, and whether their file was written, skipped or removed |

`candidate2object` takes a candidate that stays in its column all the way: the test of
the column, the doubtful pixel, the file. `recheck_doubt` is the idle wait; its sort is
any order by column, because the comparator `<=` is not a strict order. `LoadFile` is a
restart. Bounds: columns 1 and 4 (apart, but near to the ones between), one row, `BADCNT` 4
(5 in the code), 4 objects, 2 days, arcs that overlap or not.

## 5. The network

### TcpReceive

One connection with the file server, from the moment its first read is started:

| Model | Code |
|---|---|
| `stream`, `taken`, `broken` | what the server sends (which byte is a line end), how much asio has received, whether the server has ended it |
| `reads`, `buf`, `done` | outstanding `async_read_some`, `bufrcv_`, completed reads whose handler has not run |
| `plain`, `usebuf`, `room`, `ring`, `paused` | `bytercv_`, `usebuf_`, capacity and contents of `crcrcv_`, `pause_rcv_` |
| `box` | the messages waiting in `MessageQueue` |
| `pc` | the step of the main thread (`UseBuffer` after `Connect`), the message thread (`on_receive_fileserver`: `Lookup`, `Read`, `Resolve`, `Close`) and the service thread (`handle_read`) |
| `got`, `calm`, `noticed` | history |

`handle_read` is `Handle` (under `mtxrcv_`), `Call` (the callback, which blocks while
the message queue is full) and `Again` (the test of `pause_rcv_` after the unlock).
`Lookup` is `Size` and `Scan`, both without a lock. A byte is its position, so
"not lost, not doubled, in order" is one equation (`BytesKept`). Whether
a line is accepted is left open.

`calm` turns false when a byte that came before the ring had its room was not read in time, or
when `Read` starts a read while `handle_read` is on its way to the test of the pause.
After either, the code's stream is damaged; `CalmSpec` follows a connection up to there.
Both happen, and a comment denies each: `tcp_two_reads`, which uses `Spec`, shows the second;
for the first see `KeptBeforeRing` in section 8.

`CalmFairSpec` assumes that the three threads run and that a read whose socket is gone
ends. The next byte may never come.

| Run | Bounds | Distinct states | Shows |
|---|---|---|---|
| `tcp_receive` | 5 bytes, every placing of line ends, packets of 2, a ring of 4, a message queue of 2 | 240 508 | `TypeOK`, `BytesKept`, `Listening`, `WholeLine`, `EveryLineRead` |
| `tcp_two_reads` | the same, `Spec` | violated | `OneRead` |

A ring of two packets fills and drains within five bytes, so a pause begins, ends and
begins again; lines of one byte, of a packet and of more than a packet occur; the
queue of two messages makes the service thread wait.

### TcpSend

`output_compacted` writes a line into one of `Slots` buffers and hands out a pointer;
`Write` copies it into the ring and starts a write if the ring was empty;
`handle_write` erases what was sent and writes the rest. `flight` holds the bytes each
outstanding write was given, so a second write, or a ring that changed below one, would
show on `wire`. `Write` takes what there is room for, as the code does: a line can be
cut. Assumption, stated in the guard of `output_compacted`: no thread holds a buffer
while `Slots` further lines are composed. Bounds: two threads, 5 lines of 2 bytes, 3
buffers (10), a ring of 3 bytes, so that a second line never fits whole.

### TcpLink

| Model | Code |
|---|---|
| `client` | state of `tcpc_gc_` or `tcpc_fs_`; which of the two is a matter of name, the code is the same |
| `queue` | the messages of `MessageQueue` not received yet |
| `handle`, `threads`, `intr` | `thrd_reconn_*`; the threads that run; those interrupted |
| `joining` | somebody is in the `join` of `interrupt_thread` |
| `proc`, `up` | `StopService`; whether the server answers |

The server comes and goes at any moment. `Post` blocks while the queue is full and does
nothing once `Stop` has removed it; the quit message overtakes the others. Assumption
`Prompt`: the minute a reconnection thread sleeps is not over between a connection and
the handling of its `MSG_CONNECT`. Without it `LinkIsTended` fails, see section 8. Bounds:
a queue of 3 (1024), 6 threads made.

The two halves, `TcpLink`, and `Candidates` and `BadMarks` of section 4 are checked in
the run `parts`, listed in section 6.

## 6. The sequential classes

Nothing interleaves here; what is hard is what one call leaves behind for the next.

- `TimeSpace`: the value of a quantity is its provenance, the set of formulas and inputs
  it was computed from. A stale intermediate then shows as a value that differs from the
  one computed afresh (`CachedIsCurrent`), and `CacheIsClosed` says that a valid quantity
  has valid parts. Actions: `SetUTC` accepted or refused, `SetSite` at any time, every getter
  in the order it asks for others, the readers of several quantities, and the sums of the
  annual aberration, whose `t` starts as memory had it. `SetSite` drops nothing, so a local
  sidereal time asked for before it stays that of the site before: `places`, a history
  variable, holds the sites in force since the instant was set, and `CachedIsCurrent` asks
  that all valid quantities be of one of them. Two instants, one refused, two sites.
- `Calendar`: a walk day by day from 17 November 1858, day 0 of the Modified Julian Date, to
  2101 (begun a second time on 31 December 2016, the day of the last leap second), with the
  Gregorian rules as reference for `ModifiedJulianDay`, `Mjd2Cal` and `SetUTC`, and the leap
  seconds; every combination of boundary degrees, sixtieths and thousandths, written and read back. Hours are printed to
  the nearest thousandth of a second and capped at 59.999, degrees to the nearest hundredth and
  capped at 59.99; a double meant to be a whole number of milliseconds may lie in the second half
  of the one before (`late`), which at a whole minute prints 59.999 of the minute before.
  `TextReadsBack` therefore asks for an angle of the same minute, off by no more than the
  last digit and, under the cap, a hundredth.
- `LinearAlgebra`: all matrices of two rows over -1, 0, 1, 2 and of three over 0, 1, in exact
  fractions, against the expansion of the determinant; with the uninitialised `imax` of
  `LUdcmp` as a free value.
- `TnxTerms`: orders 1 to 5, 7, 10 and 11 with every cross term, in any sequence of settings;
  1 and 11 are the two that the code refuses.
- `TnxFit`: two frames of up to four stars through one model with two coefficients; any
  star may be clipped and any fit may fail.
- `TnxModel`: loads from two texts, one of them without the lines `ypixref` and `latref`, and
  from headers with and without a matrix and residuals, complete or cut short; writes, which
  fitsio may stop after any set of keys (`torn`), in any order. `ValidIsOneSource` excepts the
  coordinate a text has no line for, which stays that of the model before, and what is loaded
  from a torn header.
- `AsciiProtocol`: one table of what the `Compact*` functions write, one of what the
  `resolve_*` functions read, one of the presets. Every message with up to two fields
  that differ from the presets; lines no `Compact*` function wrote. `ReadsBack` names the
  values that do not survive.
- `GlobLabel`: every set of bright pixels in pictures of 4 x 3, the first pixel with a value below
  the background, with and without the rejection, least area 3, in zeroed memory. What is
  bright is asked of the filtered image and what is summed are the values before the filter,
  so a value says nothing of the other; `Reject` is the test of peak against flux. The history
  `pix` of a candidate is what was summed into it, `out` what of it was rejected.
  `PixelsCountedOnce` takes the labelled pixels as its reference: the sums that are left
  divide them, none is left over and none is summed twice, through every chain of
  redirections, and `npix` leaves out what was rejected. The proof has any values and any
  memory.
- `Reduct`: sequences of three images of up to 2 x 2 cells of two pixels through the same
  buffers, with nothing, a pixel or everything masked, and a last cell of which a
  single pixel may count (`lone`). A number is the set of images it comes from, `Garbage` for
  memory nobody wrote: also for what the interpolation reads beside a grid of one row or one
  column and for the mean that `back_guess` does not set. `ReducedFromItself` is about images
  of two rows and two columns at least, without such a cell.

| Run | Bounds | Distinct states | Shows |
|---|---|---|---|
| `parts` | as above and in sections 4 and 5 | 988 593 | `CachedIsCurrent`, `CacheIsClosed`, `DatesConvert`, `LeapSeconds`, `TextReadsBack`, `InverseInverts`, `FitFindsCoefficients`, `ItemsFillTheBuffers`, `ModelOfItsFrame`, `ValidIsOneSource`, `ReadsBack`, `PixelsCountedOnce`, `ReducedFromItself`; of the services `OneObjectPerPoint`, `OnlyHotFilesRemoved`, `SavedMarksComeBack`, `LinkIsTended`, `WireHoldsLines` |
| `labels_dirty` | pictures of 2 x 2, cells of 0 or 1 | violated | that `OnlyBrightCounted` fails when `flagmap_` is not zero to begin with |

Every case distinction of these classes is reached: a row exchange needs two rows and a
chain of them three; a label that is redirected twice needs four columns; a buffer that
is too small, too large or just right needs three images; a whole image needs two rows and two
columns of cells, and thin ones before it leave their garbage in the same buffers.

## 7. What is proved

Checked by TLAPS, for every value of the constants that the assumptions allow.

| Theorem | Module | Statement |
|---|---|---|
| `TypeCorrect` | `PipelineProofs` | `Spec => []TypeOK` |
| `StagesExclusive` | `PipelineProofs` | `Spec => []OneAtATime` |
| `ResultsToTheRightFrame` | `PipelineProofs` | `Spec => []RunsItsFrame` |
| `TestStaysTrue` | `PipelineProofs` | `Spec => []StartHasWork` |
| `StopIsFinal` | `PipelineProofs` | `Spec => NoStartAfterStop` |
| `OwnFrameHandedOn` | `PipelineProofs` | `PromptSpec => []HandsOnItsFrame` |
| `OnlyGoodFramesDelivered` | `PipelineProofs` | `PromptSpec => []DeliveredIsGood` |
| `PipelineIsFrameLine` | `PipelineProofs` | `PromptSpec => IsFrameLine`, that is, `FrameLine!Spec` under the refinement mapping |
| `FramesInOrder` | `PipelineProofs` | `PromptSpec => [](FL!InOrder /\ FL!NothingLost)` |
| `NoOvertaking`, `NoLoss` | `FrameLineProofs` | `FrameLine!Spec => []InOrder`, `[]NothingLost` |
| `FinderTyped` | `FinderProofs` | `Spec => []TypeOK` |
| `MatchesNeighbours` | `FinderProofs` | `Spec => []NeighboursOnly` |
| `ObjectsStayInSequence` | `FinderProofs` | `Spec => []ObjectsInOneSequence` |
| `NothingThrownAway` | `FinderProofs` | `Spec => []GoneHasTaken` |
| `PointHasOneObject` | `ServiceProofs` | `CNSpec => []OneObjectPerPoint` |
| `SavedIsKnown` | `ServiceProofs` | `BMSpec => SavedMarksComeBack` |
| `RemovedWereHot` | `ServiceProofs` | `BMSpec => []OnlyHotFilesRemoved` |
| `Types`, `EveryByteOnce`, `PauseEnds`, `OneLineAtATime` | `TcpReceiveProofs` | `CalmSpec => []TypeOK`, `[]BytesKept`, `[]Listening`, `[]WholeLine` |
| `LinkTended` | `ServiceProofs` | `LKSpec => []LinkIsTended`, assuming `Prompt` |
| `LinesReachTheWire` | `ServiceProofs` | `SDSpec => []WireHoldsLines`, assuming that there is a buffer and that sizes are natural numbers |
| `CacheIsCurrent`, `PartsAreThere` | `AstroProofs` | `TSSpec => []CachedIsCurrent`, `[]CacheIsClosed` |
| `EveryDayConverts` | `AstroProofs` | `CalSpec => []DatesConvert` |
| `LeapsStep` | `AstroProofs` | `CalSpec => LeapSeconds` |
| `EveryTextReadsBack` | `AstroProofs` | `CalSpec => []TextReadsBack` |
| `ModelOfOneSource` | `AstroProofs` | `TMSpec => []ValidIsOneSource` |
| `AcceptedIsOfItsFrame` | `AstroProofs` | `TFSpec => []ModelOfItsFrame` |
| `ImageOfItself` | `ReductProofs` | `RDSpec => []ReducedFromItself` |
| `EveryPixelOnce` | `ReductProofs` | `GLSpec => []PixelsCountedOnce` |

The assumptions on constants, all evaluated by TLC on the runs: numbers of frames, points,
bytes and images are natural numbers; a packet and a message queue have some room, and the ring
of `TcpReceive` holds two packets (the code gives it a hundred); an image has at least one pixel; the
lines a text has are among the four it may have; places are integers, rows
from 1 on; the angles that are tried have up to 359 degrees, 59 minutes, 59 seconds and 999
thousandths; and in `TimeSpace` the quantities computed from the Julian day or the Julian century alone
are not the derived ones, nor each other's.

*Pipeline.* The constants are any number of frames and cameras, either setting of the
two switches, any ending, spurious wakeups anywhere. The inductive invariant is
`IInv == TypeOK /\ OneAtATime /\ RunsItsFrame /\ StartHasWork /\ FramesKnown`. Each part
needs the others. The worker's test reads `working_` and the size with no
lock; it stays true (`StartHasWork`) because only the worker itself pops and only
`Launch`, also the worker's, sets `working_`. With `StartHasWork`, `Launch` always finds
the stage free, which gives `OneAtATime`; and since `frame_` changes at a launch only,
`OneAtATime` gives `RunsItsFrame`. `FramesKnown` keeps the frame pointers from being
null. The lemmas treat the worker, the processing thread and the main thread in turn.
`NoStartAfterStop` needs in addition that the workers `StopService` has joined are gone for
good (`Joined`); a thread still processing can push and notify, but nobody is left to pop.

*Prompt runs of the pipeline.* `PromptInv` adds to `IInv` what the callbacks rely on: among
the threads a stage has launched, only the one launched last can be short of its hand-over,
and `frame_` is its frame until then (`BusyJobs`). So the frame `GetFrame` returns is the one
the result is about. `QueuedPassed` says that the frames in a queue have passed the stages
before it; it needs `BusyJobs`, because without it the wrong frame is pushed (run
`pipeline_wrong`). For the refinement the line of a stage is the frame in hand, if any,
followed by its queue (`Chain`); each step of a thread is then `Enter`, `Advance`, `Drop`,
`Deliver` or a stutter of `FrameLine`, whose invariants carry over (`FramesInOrder`).

*FrameLine.* `Inv == TypeOK /\ InOrder /\ NothingLost`. `InOrder` compares the lines
of any two stages, and not of neighbours only, because a line may be empty.
`NothingLost` says that the lines, the delivered frames and those that left are
together exactly the frames submitted.

*Finder.* `FInv` adds to the type invariant: the queue holds the frames not taken yet,
in order (`QueueOK`); the frame in hand is the last one taken (`FrameOK`); `frmnow_` and
`frmprev_` are the frames before it, statement by statement (`WindowOK`); `last_fno_` is
the number of `frmnow_` (`LastOK`); the window belongs to the sequence opened last
(`SeqOK`); and the numbers of a sequence do not go back (`NumbersRise`). From these the
followed candidate stays within a sequence (`TracksOK`). The followed candidate is
arbitrary, so the result is about all. `TakenOK`, on top of `FInv`, says that a frame taken has
its sequence unless it is the one in hand, and that what `IsOver` could see has been taken.

*Candidates.* `CNInv`: `related` of a point is at least the number of candidates and objects
that were given the point after their first two (`Counted`). `complete` accepts a candidate
only if its later points count exactly 1, so an accepted candidate is their only holder. The
loop of `recheck_candidates` changes the counts it tests, so the invariant is carried through
it one candidate at a time (`JudgeStep`): the candidates still ahead, those left and those made
objects together stay within the counts. `Judge` is a fold of the community modules; the
lemmas `UnfoldAll` and `JudgeRuns` turn it into the sequence of states of that loop.

*BadMarks.* For the marks, `MarksInv`: the columns of a camera lie more than two apart, in
memory and in the file, so `LoadBadmark`, which drops a column near one it has, reads back
what was saved; and unless `dirty` is set, memory and file agree while the service is up, so it
is safe that `SaveBadmark` then writes nothing. For the files, `PixInv`: a doubtful pixel
counts no more objects than stood by it on its day, and the files it notes are of such
objects (`PixelOK`). A pixel is bad at three, and objects near one pixel are near each
other, so whatever an idle wait removes is hot. A new day drops the pixels, which
the invariant needs: `PixelOK` is about the present day.

*TcpReceive.* `CalmInv` follows one token (`Token`). It is the outstanding read, the completed one,
the service thread that handles it, or the pause; there is never a second, and it is lost only with the
connection. While it is the pause, the message thread is on its way to the ring or has a
message that sends it there (`Watched`), which is why the pause ends. `Flow` says that what was
read, the ring, the plain buffer and the completed read are together the bytes that came, in
order; it needs that `bufrcv_` belongs to the token's holder (`DoneOK`), that nothing is
written into a full ring (`RoomOK`) and that the ring has its room before the first line is
looked for (`Setup`). `ScanOK` and `ReadOK` carry what `Lookup` has seen, without a lock, to the
`Read` that takes it. All of it holds as long as `calm` does.

*TcpLink.* `LinkInv` looks at the messages not handled yet. Connections and breaks
alternate, so their messages do (`Alternate`). The next message is a connection exactly
if a thread tries to make one; if there is no message, the client is open exactly if no
thread runs; and if there is, the client is open exactly if the last one is a connection
(`ClientOK`). A client that is down with no message waiting therefore has its thread. The
handle and the thread it names go together through an interruption (`HandleOK`).
With `Prompt` a thread never tries while the client is open, so that no client is
replaced unnoticed.

*TcpSend.* `SendInv`: a buffer holds the line of the thread that has it (`HeldOK`), which
needs that no line is composed into a buffer in use; the write under way sends the front
of the ring as it was when the write began, and later bytes go behind (`FlightOK`). What
the socket took is then what is erased, and `wire \o crcsnd = taken` is kept.

*TimeSpace.* Each getter is an operator from caches to caches, so the proof has a lemma for
each: it maps a good cache to a good one that keeps what it had and has what was asked for
(`Serves`). Good is `Right`, every valid quantity has its reference value, and `Closed`, its
parts are valid too. Neither would do alone: a getter that finds a valid quantity asks for
nothing else, and its caller reads the parts. A cache is good for one place. `TSInv` says
which: the present one, unless the local mean sidereal time is valid, which the apparent one
is made of and which alone reads the site; after `SetSite` it stays that of its own place.

*Calendar.* The walk goes on without end in the theorem: `LastYear` is any number. `CalInv`:
the date is a date of its month, and `ModifiedJulianDay` of it is the number of days walked.
The step from a day to the next needs the formula at the ends of months and years; with the
years counted from March, as the code counts them, the day that comes and goes is the last
one of the year, so that what the sum of month lengths rounds to is a matter of twelve cases
and what the leap years add a matter of the remainders by 4, 100 and 400. `Mjd2Cal` is then
inverted one division after the other: century, year in the century, month in the year. Each
quotient is pinned between two bounds that follow from the same counts.

*Leap seconds.* `DeltaAT` takes the last entry of the table that is not after the month. The
months of the entries rise (`KeysRise`), and from one day to the next the month stays or moves
on by one (`DateKeys`); so the entry stays or moves on by one, the latter on a first of January
or July.

*Texts.* A text is read character by character, the state of the parser carried along, so what is
read of a text put together is read part by part (`FoldGoesOn`). A part that has room takes two
digits, a colon closes it with the number they write and empties the buffer (`PartRead`), and
the last part keeps its dot and takes two or three digits more, which `atof` reads as
thousandths. The first part has two digits in hours and one to three in degrees. No part that
is written has more digits than the reader allows it, so it is always the colon that closes a part
and no digit passes into the next. The sum of the three parts is then the angle with its
seconds rounded and capped, and the cap keeps it in its minute: the seconds never come to 60.
The invariant is that the angle is below a turn (`BelowTurn`). A buffer that is not emptied at
a colon breaks the property, which the mutant of this property does.

*GlobLabel.* The pixels are labelled row by row: a bright pixel gets a label that is not 0, and
a dark one keeps what the memory held (`LabelInv`). Step 1 goes over all pixels once, and
after each the candidate of a label has been given just the pixels of that label seen so far
(`GatherInv`). Step 2 marks what it rejects as `out`, whatever the values are. Merging
(`MergeInv`) walks the pixels once more; at each point of the walk the redirections go down to
lesser labels, whose chain ends at one that is not redirected, the sums of a redirected label
have moved, once, and the labels not redirected divide the labelled pixels among them, each with
`npix` of what it has and was not rejected. A pixel is summed twice or not at all as soon as
a redirection moves sums that have moved before, which the mutant of this property does. Of
the memory nothing is assumed but what the code needs to run: a label beyond the last one
is an index beyond the candidates, and `Group` is not taken.

*Loops.* Body and invariant are constants of the module, so that its lemmas need no operator
as a parameter: `FoldRuns` gives the states a fold passes through and `FoldKeeps` carries an
invariant along them. Instances for the three scans of `ADIReduct` (`LabelLoop`, `GatherLoop`,
`MergeLoop`) and for the loop of `LoadBadmark` (`MarkLoop`) leave only two obligations each:
the invariant at the start, and over one turn. `FoldFew` and `FoldGoesOn` take a fold apart, for
the reader of texts (`HourLoop`, `DegLoop`, `DigitLoop`). The induction itself is on the length
of the sequence, by the least length that fails. None of this says anything of the code by
itself.

*TnxModel, TnxFit, Reduct.* A header that has a matrix and is not torn has it with the pixel it
was loaded with (`HeaderOK`), so the flag that rises at the end of a load rises over a matrix
and a pixel of one load; what a text lacks a line for is excepted on both sides, in the
model and in the header it is written to. While
the loop of `ProcessFit` runs, matrix, coefficients and error are of the samples left
(`FitOK`), which is what acceptance with the automatic reference hands over. A step of the
reduction reads cells of the present grid only, where the grid has two rows and two columns,
and an image with enough good pixels everywhere has had all of them written (`GridOK`); what
earlier images left lies beyond. The garbage that a thin image or a lone cell leaves in the
buffers is within the theorem: it is overwritten before the next whole image is read from them.

Every inductive invariant was checked by TLC on the run's instance before it was proved.

Model-checked only:

- everything that must eventually happen (`EveryFrameSettles`, `EveryFrameTaken`,
  `EverySequenceCloses`, `DestroyReturns`, `EveryLineRead`), because TLAPS does not do liveness
  under fairness;
- `InverseInverts`, `FitFindsCoefficients`: they compare an elimination with the recursive
  expansion of a determinant, so that a proof would be an induction over matrices;
- `ItemsFillTheBuffers`, a count of the terms of a polynomial, checked for the small orders, for both
  ends of what the code takes (2 to 10) and for the refused order beyond each;
- `ReadsBack`: a fact about finite tables, which enumeration settles.

## 8. Where the code and its documentation differ

With a run that shows it:

1. `IsOver` of `DoProcess` (`DoProcess.h:111`, "all processing is complete") looks at
   queues and finders only. A frame a stage has popped is in neither, so a batch can
   stop with its last frames unfinished. (`pipeline_over`)
2. A worker waits with a mutex of its own, so a notify between its test and its wait
   is lost. Another frame would make up for it; after the last one the batch polls for
   ever. (`pipeline_stuck`)
3. The processing threads clear `working_` before they report, and the callback asks
   the object for its frame: a worker that wakes in between makes it hand on the next,
   unprocessed frame, and the finished one is lost. (`pipeline_wrong`)
4. `handle_read` tests `pause_rcv_` after it has released the mutex, so two reads can
   be started into the one `bufrcv_`. (`tcp_two_reads`)
5. `ADIReduct` makes `flagmap_` with `new int[]` and writes the cells of pixels above the
   threshold only (`ADIReduct.cpp:725`, 731). A cell that is not zero to begin with lets a
   dark pixel take part in a candidate, and an index can be out of range
   (`ADIReduct.cpp:750`). (`labels_dirty`)

Against a comment or a name, in the models' actions but in no run of their own:

- `AFindPV::IsOver` (`AFindPV.h:531-534`) is true while the thread holds the first frame
  of a sequence, and in the moment `frmprev_` and `frmnow_` are one pointer.
- `Close` while the reading pauses finds no read that could fail, so `MSG_CLOSE` is never
  posted and the client is not connected again. The message thread must be 99 packets
  behind.
- A singular matrix is to be refused (`AMath.h:647`, `AMath.h:662`), but `LUdcmp` refuses
  only a matrix that begins with a row of zeros; of any other a zero pivot is replaced by
  1E-30 and the result used. `SingularIsRefused` in `LinearAlgebra` fails.
- `ProcessFit` returns 1 for too few samples (`WCSTNX.h:330`), but it counts them before
  the clipping only. `AcceptedHasSamples` in `TnxFit` fails.
- `LoadImage` reads `CRVAL2` into `ref_wcsx` (`WCSTNX.cpp:246`), so the point keeps the
  second coordinate of the model before. `PointIsLoaded` in `TnxModel` fails. `WriteImage` of
  a model without residuals leaves the `WAT` cards of a former one in the file. The first
  coordinate is taken for automatic when `refy`, not `refx`, is beyond `xmax`
  (`WCSTNX.cpp:544`).
- `Resolve` compares types and keywords without regard to case, but their first letter with
  it. In `resolve_object`, `ch = keyword[0] == 'o'` leaves `plan_sn` and `plan_type` unread
  (`AsciiProtocol.cpp:724`). A malformed number leaves `Resolve` as an exception.
- `HourDbl2Str` is to bring hours into 0..24 (`ATimeSpace.h:834`) and wraps at 36. `DeltaAT`
  of a date before 1960 reads in front of its table. `SetMJD`, `SetJD` and `SetEpoch` ignore
  what `SetUTC` answers, so a refused date keeps the one before. `AnnualAberration` adds to
  a `t` that nobody initialises.
- `group_glob` rejects false signals (`ADIReduct.cpp:759`) and is to leave them out of the
  merging (`ADIReduct.cpp:774`), but asks this of the label that is redirected only, not of the
  one it is redirected to. A rejected candidate whose label is the least around a pixel of
  another one gets that one's sums (`ADIReduct.cpp:782`) and is an object again, with the flux it
  was rejected for: `RejectedStayOut` in `GlobLabel` fails, in pictures of 3 x 2 already. It takes
  a candidate of several pixels whose peak is not below its flux, which a pixel below the
  background makes, bright in the filtered image only (`FirstBelow` in `MCLabels`). With all
  values 1 single pixels alone are rejected, and TLC revives none in any picture of 4 x 3.
- `UseBuffer` is to come before the connection (`tcpasio.cpp:72`) and comes after it, in
  `connect_server_fileserver` (`DoProcess.cpp:413`) and in the handlers of the connect messages
  (482, 493). A byte that arrives between its two statements finds a ring without room and is
  dropped, and the pause is set with nothing to read, so that nobody starts the reading again;
  one that arrives before it is lost unless it is read before the next. `KeptBeforeRing` in
  `TcpReceive` fails under `Spec`, in four states.
- `LoadText` reports success when the first surface is whole (`WCSTNX.cpp:364-375`), also where
  the text has no line `xpixref` or `ypixref` (309-312): the matrix then stands beside the
  reference pixel of the model before. A first surface of too few items has no coefficients,
  and lines 365-368 read them all the same. A `WriteImage` that fails half way leaves a header
  whose keys are of two models, and closes it.
- In `airs1`, `sub_back` (513-531) sets a masked pixel to zero and then copies a buffer
  over it (`MaskedIsZero` in `Reduct` fails); `back_make` skips a cell it cannot measure, whose
  mean stays what the buffer held; a filter with `NONORM` never stores its size, its limit is
  tested after the write, and `foconv_.loaded` and the `pixels` of a new frame start as
  memory had them. `group_glob` is to join a star image that was split
  (`ADIReduct.cpp:767`); one whose two arms meet only at the bottom stays split, because a
  pixel looks at its own row and the one above (`SplitStarsMerge` in `GlobLabel` fails). A label
  that is redirected a second time leaves its sums where the first one put them, so that,
  from pictures of 5 x 5 on, an object can be of two parts that only pixels of another object
  connect. In the first column `init_label` takes the pixel itself for its left neighbour.
- `recheck_doubt` sorts with `<=`, which is not an order `stable_sort`
  accepts (`AFindPV.cpp:292`).

Steps of the code that no line of the repository denies, so that no property does:

- A late `PhotometryResult` after `StopService` meets a finder pointer that was reset
  (`FinderGone`); the general-control branch uses `ascproto_`, which is made for the file
  server (`DoProcess.cpp:101`).
- A finder that a signal destroys drops its open sequence, and a frame whose notify was
  lost. `SaveBadmark` comes before the finders are destroyed (`DoProcess.cpp:59-63`): what
  they learn until then is not saved.
- `AddBadcol` adds the first column of a camera that is not in the file to a local copy
  (`Parameter.h:395`).
- `cross_match` compares the number of points left over with the number of pairs
  (`AFindPV.cpp:156`); where the two are equal, `end_frame` is skipped. `create_dir` of a new day resets doubtful pixels whose objects
  an idle wait would have removed. Point numbers of an `.obj` file are copied before
  `upload_ot` sets them (`AFindPV.cpp:100`, 411).
- Object numbers start from 1 with every finder, and `SID_` starts again after 999: a file
  of the same name is overwritten.
- Without `Prompt`, `LinkIsTended` fails: a thread whose minute ends between the posting of
  `MSG_CONNECT` and its handling replaces the connected client by a new one; handling the
  message then ends the thread; the new client's attempt fails, posts nothing, and nobody
  tries again. Two reads (item 4) can post two `MSG_CLOSE`, of which the second replaces the
  handle of a running thread.
- A line that does not fit the send ring is cut and joined with the next one.
- `SetSite` keeps the cache (`ATimeSpace.cpp:23-28`): a local sidereal time asked for before
  it is answered again for the former site, until the next `SetUTC`.
- An image of `airs1` with one row or one column of cells: `line_splint2` and `image_splint` step
  back to row or place -1 (`ADIReduct.cpp:173-184`, 111-114), and the spline of one point reads
  `u[-1]` (101). A cell whose histogram has a single level gets a mean from `back_guess` that was
  never set (394-426).
- `copy_sexcfg` may throw before the `try` of `check_image` (`DoProcess.cpp:208`), when a
  directory cannot be written; the exception would end the worker's thread and the program.
  `Reject` of `Pipeline` stands for the ordinary refusals only.
- `GLog` and `LogCalibrated` compare the day of the month only, so the file of the same day
  of another month is kept; `GLog` writes to a file that did not open, and `LogCalibrated`
  does not try a failed one again that day. `DBCurl` shares its result code among threads.

## 9. What is not modelled

- *Formulas*: precession, nutation, projection, the photometric fit, the spline of the
  background, positions and magnitudes in `MatchCatalog`, `PhotoMetry` and `AFindPV`. They
  are floating point with no state; TLC cannot evaluate them. The models keep which of
  them use what (`TimeSpace`, `TnxFit`, `Reduct`) or leave their outcome open.
- *Catalogue readers, XML configuration, daemon set-up*: sequential input and output, with
  nothing that interleaves or is kept between calls. A missing configuration leaves the
  parameters as they were (`Parameter.h`).
- *`TCPServer`* and the empty classes of `airs1`: used by nothing.
- *`DBCurl`, `GLog`, `LogCalibrated`*: text written and uploaded; nothing reads it back.
- *`IOServiceKeep`*: the threads it owns are in `TcpReceive`, `TcpSend` and `TcpLink`, the
  destruction of a client with a callback under way is not.
- *Text*: wording of logs and reports. The FWHM and guide messages to the general-control
  server count as lines of `TcpSend`; when they are sent is not modelled.
- *Several cameras at `Parameter`*: a growth of its vector under another thread's pointer
  is a data race with no list of outcomes.
- *Memory model*: the shared flags are plain variables in the code; the models treat a
  read or a write of one as atomic and seen at once, the most favourable reading.

## 10. How to run

    tlc -config PipelinePrompt.cfg MCPipeline.tla
    tlc -config Finder.cfg Finder.tla
    tlc -config TcpReceive.cfg TcpReceive.tla
    tlc -config Parts.cfg MCParts.tla
    tlapm PipelineProofs.tla

The same for the other `Pipeline*` configurations, with `MCPipeline`, and the other seven
proof modules. `PipelineOver.cfg`, `PipelineStuck.cfg`, `PipelineWrong.cfg`,
`TcpTwoReads.cfg` (with `TcpReceive`) and `Labels.cfg` (with `MCLabels`) end with a
counterexample by design. Deadlock is not checked, because
every system here may come to rest: a pipeline that has stopped, a finder that is
gone, a connection whose server is silent. `pipeline_prompt` and `parts` take some
minutes with two workers, the others a minute or less. `PROJECT.json` maps every definition to the lines
it models and gives, for every property, a plausible change of the code that breaks it.
