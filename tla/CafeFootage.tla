---------------------------- MODULE CafeFootage ----------------------------
(***************************************************************************)
(* The frames of one camera as cafe_tracking.py hands them to the analysis: *)
(* numbered segments, some of them missing, empty or marked as a scene cut, *)
(* and the sampler that picks the frames a state is published for.          *)
(* Times are in frame units (a frame number apart is one tick).             *)
(***************************************************************************)
EXTENDS Integers, Sequences, SequencesExt

CONSTANTS FramesEach,   \* framesEach of the annotation: ticks a last frame lasts
          Interval      \* the output interval, in ticks

FootageConstants == FramesEach \in Nat \ {0} /\ Interval \in Nat \ {0}

ASSUME FootageAssumption == FootageConstants

NoTime == -1

\* A segment directory: its number, whether scene_cuts names it, and the frame
\* numbers of its images in ascending order.
Segment(n, cut, frames) == [number |-> n, cut |-> cut, frames |-> frames]
Segments == [number : Nat \ {0}, cut : BOOLEAN, frames : Seq(Nat)]
InFrameOrder(segment) ==
    \A i, j \in DOMAIN segment.frames : i < j => segment.frames[i] < segment.frames[j]

Reason(previous, segment) ==
    IF previous = 0 THEN "initial"
    ELSE IF segment.number # previous + 1 THEN "segment_gap"
    ELSE IF segment.cut THEN "scene_cut" ELSE "none"

\* The samples of one segment that begins at time "elapsed" after segment
\* "previous" (0: none before it).
SegmentSamples(segment, elapsed, previous) ==
    [i \in 1..Len(segment.frames) |->
        [segment |-> segment.number,
         at      |-> elapsed + segment.frames[i] - segment.frames[1],
         reason  |-> IF i = 1 THEN Reason(previous, segment) ELSE "none"]]

\* Empty segments are passed over: they take no time and do not become the
\* previous one.
Filmed(acc, segment) ==
    IF segment.frames = <<>> THEN acc
    ELSE [samples  |-> acc.samples \o SegmentSamples(segment, acc.elapsed, acc.previous),
          elapsed  |-> acc.elapsed + segment.frames[Len(segment.frames)] - segment.frames[1] + FramesEach,
          previous |-> segment.number]
CameraFrames(footage) ==
    FoldLeft(Filmed, [samples |-> <<>>, elapsed |-> 0, previous |-> 0], footage).samples

ResetBefore(sample) == sample.reason # "none"

-----------------------------------------------------------------------------
\* should_emit: a frame that begins a scene is always published; else the first
\* frame at or after the next multiple of the interval.
ShouldEmit(nextOut, at, force) == nextOut = NoTime \/ force \/ at >= nextOut

\* Mutant of NextOutput: one interval on, however late the frame is.
NextOutputOnce(nextOut, at, force) ==
    IF nextOut = NoTime \/ force THEN at + Interval
    ELSE IF at < nextOut THEN nextOut ELSE nextOut + Interval

NextOutput(nextOut, at, force) ==
    IF nextOut = NoTime \/ force THEN at + Interval
    ELSE IF at < nextOut THEN nextOut
         ELSE nextOut + Interval * (((at - nextOut) \div Interval) + 1)
=============================================================================
