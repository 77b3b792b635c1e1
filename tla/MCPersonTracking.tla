-------------------------- MODULE MCPersonTracking --------------------------
(* Three pieces of footage with a plain boundary, a cut, and a cut that falls *)
(* on an empty segment; a counter, the queue beside it and a table.            *)
EXTENDS PersonTracking, StaffEvaluation, TrackingEvaluation

Place(x, foot, overlap, zone) == [x |-> x, foot |-> foot, overlap |-> overlap, zone |-> zone]

Counter == Place(0, TRUE, 2, "staff")
Edge    == Place(1, FALSE, 1, "waiting")
Table   == Place(3, FALSE, 0, "seating")

MCRawIds == 1..2
MCSightings == {<<Counter, "stand">>, <<Edge, "stand">>, <<Edge, "sit">>, <<Table, "sit">>}

MCFootages ==
    { << Segment(1, FALSE, <<1, 3>>), Segment(2, FALSE, <<2>>) >>,
      << Segment(1, FALSE, <<1>>), Segment(2, TRUE, <<1, 2, 6>>) >>,
      << Segment(1, FALSE, <<1, 3>>), Segment(2, TRUE, <<>>), Segment(3, FALSE, <<1>>) >> }

Policy(max, overlap, locked, grace) ==
    [max |-> max, overlap |-> overlap, lockedOverlap |-> locked, grace |-> grace, useBox |-> TRUE]
MCPolicies == {Policy(0, 2, 2, 0), Policy(1, 1, 1, 1)}

-----------------------------------------------------------------------------
(* The offline evaluations, over every film of a few frames.  They keep nothing *)
(* between two runs, so they are checked in one initial state for each policy.   *)

Film(footage) == CameraFrames(footage)

\* Plain boundary, cut, gap, and a named cut whose segment is empty.
Films == { Film(<<Segment(1, FALSE, <<1, 3>>), Segment(2, FALSE, <<1, 2, 4>>)>>),
           Film(<<Segment(1, FALSE, <<1, 3>>), Segment(2, TRUE, <<1, 2, 4>>)>>),
           Film(<<Segment(1, FALSE, <<1>>), Segment(2, TRUE, <<1, 3>>), Segment(4, FALSE, <<1, 3>>)>>),
           Film(<<Segment(1, FALSE, <<1, 3>>), Segment(2, TRUE, <<>>), Segment(3, FALSE, <<1, 2>>)>>) }
Cuts(film) == {film[k].segment : k \in {j \in DOMAIN film : film[j].reason = "scene_cut"}}
HasGap(film) == \E k \in DOMAIN film : film[k].reason = "segment_gap"

Begins == done = 0 /\ samples = Film(CHOOSE f \in MCFootages : Len(f) = 3)

Box(id, place) == [id |-> id, place |-> place, pose |-> "stand"]
Views == { [readable |-> FALSE, boxes |-> <<>>],
           [readable |-> TRUE, boxes |-> <<>>],
           [readable |-> TRUE, boxes |-> <<Box(1, Counter)>>],
           [readable |-> TRUE, boxes |-> <<Box(1, Edge), Box(2, Counter)>>],
           [readable |-> TRUE, boxes |-> <<Box(NoId, Counter), Box(NoId, Edge)>>] }
MCWindows == { [start |-> 0, end |-> 8, expected |-> 1] }

\* Of every film and everything seen in it: a second has one row, the rows replay
\* to the counts they were kept with, and the summaries add up
\* (evaluate_staff_role.py and replay_staff_validation.py agree).
StaffIsReplayed ==
    Begins =>
      (\A film \in Films, window \in MCWindows :
         \A pictures \in [DOMAIN film -> Views] :
           LET rows == EvaluateWindow(film, pictures, window, policy)
           IN  /\ RowsAreSeconds(rows, window)
               /\ ReplaysWhatWasSeen(rows, window, policy, Cuts(film), HasGap(film))
               /\ SummaryAddsUp(rows, window))

BoxA == <<0, 0, 2, 4>>
BoxB == <<1, 0, 3, 4>>
BoxC == <<8, 0, 10, 4>>
Nil  == <<5, 5, 5, 5>>
LabelRow(l, box) == [local |-> l, box |-> box]
LabelSets == { <<>>, <<LabelRow(1, BoxA)>>, <<LabelRow(1, BoxB), LabelRow(2, BoxA)>>,
               <<LabelRow(2, BoxA), LabelRow(1, BoxC)>>, <<LabelRow(1, Nil), LabelRow(2, BoxB)>> }
MCCost(a, b) == 10 * (Joint(a, b) - Shared(a, b)) + Abs(a[1] - b[1])
MCLocalIds == 1..2

\* Identities of the labels, over every film and labelling
\* (build_labeled_frames and stitch_segment_identities).
LabelsArePeople ==
    (Begins /\ policy.max = 0) =>
      (\A film \in Films : \A given \in [DOMAIN film -> LabelSets] :
         IdentitiesArePeople(LabeledFrames(film, given).frames))

Score(idf1, hota, fp, idsw, error) ==
    [idf1 |-> idf1, hota |-> hota, fp |-> fp, idsw |-> idsw, countError |-> error,
     precision |-> 900, byCamera |-> [c \in {5, 21} |-> idf1]]
Scores == {Score(idf1, hota, fp, idsw, 2) : idf1 \in {600, 630}, hota \in {500, 510},
                                            fp \in {1, 2}, idsw \in {0, 7}}

\* Trackers are judged by scene, on the windows there may be of a film and for
\* whatever a tracker says, and chosen by rank (run_tracker, tracker_result, main).
TrackersAreJudged ==
    (Begins /\ policy.max = 0) =>
      (/\ \A film \in Films :
            LET labels == LabeledFrames(film, [k \in DOMAIN film |-> <<LabelRow(1, BoxA)>>])
            IN  \A start \in 0..2, count \in 1..3, category \in {"scene_cut", "normal"} :
                  LET window == [start |-> start, count |-> count, category |-> category]
                      part == WindowFrames(window, labels.frames)
                  IN  Materialized(window, labels.frames) =>
                        \A tracks \in [1..count -> SUBSET (1..2)] :
                          WindowIsJudgedByScene(part, labels.audit, tracks)
       /\ \A a, b, c \in Scores, base \in {Score(600, 500, 1, n, 2) : n \in {0, 10}} :
            ChoiceIsJust(<<a, b, c>>, base))

\* The offline evaluations measure what was tracked: staff, identities, trackers.
EvaluationsMeasure == StaffIsReplayed /\ LabelsArePeople /\ TrackersAreJudged
=============================================================================
