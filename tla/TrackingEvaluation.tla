------------------------- MODULE TrackingEvaluation -------------------------
(***************************************************************************)
(* evaluate_mot_tracking.py: the identities people have in the labelled     *)
(* footage of a camera, the windows trackers are judged on, the numbers a   *)
(* tracker's output is given, and the choice and verdict between trackers.  *)
(*                                                                          *)
(* A label row is [local, box]; a box is <<x1, y1, x2, y2>>.  The scores of *)
(* TrackEval (IDF1, HOTA, IDSW, FP, precision) are inputs.                  *)
(***************************************************************************)
EXTENDS CafeFootage, FiniteSets

CONSTANTS LocalIds,        \* numbers the labels use within a segment
          MatchCost(_, _), \* what pairing two boxes costs; only its order counts
          FootReach,       \* squared distance of feet that may be one person's
          Multiplier       \* TRACK_ID_EPOCH_MULTIPLIER

ASSUME LabelAssumption ==
    /\ LocalIds \subseteq Nat \ {0} /\ FootReach \in Nat /\ Multiplier \in Nat \ {0}

Abs(n) == IF n < 0 THEN 0 - n ELSE n
Larger(a, b) == IF a > b THEN a ELSE b
Smaller(a, b) == IF a < b THEN a ELSE b
NoIdentity == 0

-----------------------------------------------------------------------------
(* Boxes. *)

Width(b) == Larger(b[3] - b[1], 0)
Height(b) == Larger(b[4] - b[2], 0)

\* box_iou_matrix for one pair, as a fraction.
Shared(a, b) ==
    Width(<<Larger(a[1], b[1]), 0, Smaller(a[3], b[3]), 0>>)
      * Height(<<0, Larger(a[2], b[2]), 0, Smaller(a[4], b[4])>>)
Joint(a, b) == (Width(a) * Height(a)) + (Width(b) * Height(b)) - Shared(a, b)

\* Overlap of a tenth, or feet and heights close together: e^0.5 is 33/20.
SamePerson(a, b) ==
    LET dx == (a[1] + a[3]) - (b[1] + b[3])
        dy == 2 * (a[4] - b[4])
    IN  \/ Joint(a, b) > 0 /\ 10 * Shared(a, b) >= Joint(a, b)
        \/ /\ (dx * dx) + (dy * dy) <= 4 * FootReach
           /\ 20 * Larger(Height(a), Height(b)) <= 33 * Smaller(Height(a), Height(b))

\* linear_sum_assignment: as many pairs as there can be, at the least cost.
Pairings(m, n) ==
    {p \in SUBSET ((1..m) \X (1..n)) :
        /\ Cardinality(p) = Smaller(m, n)
        /\ \A a, b \in p : a # b => a[1] # b[1] /\ a[2] # b[2]}

Assignment(before, after) ==
    LET cost(p) == FoldSet(LAMBDA pair, sum : sum + MatchCost(before[pair[1]], after[pair[2]]), 0, p)
        all == Pairings(Len(before), Len(after))
    IN  CHOOSE p \in all : \A q \in all : cost(p) <= cost(q)

-----------------------------------------------------------------------------
(* Labels. *)

\* normalized_gt_rows: rows whose box has no extent are no people.
Labels(rows) == SelectSeq(rows, LAMBDA r : r.box[3] > r.box[1] /\ r.box[4] > r.box[2])

Unmapped == [l \in LocalIds |-> NoIdentity]
BoxesOf(rows) == [k \in DOMAIN rows |-> rows[k].box]

\* Numbers for the rows whose person has none yet, in the order of the rows.
Allocated(mapping, used, rows) ==
    FoldLeft(LAMBDA acc, r :
        IF acc.mapping[r.local] # NoIdentity THEN acc
        ELSE [mapping |-> [acc.mapping EXCEPT ![r.local] = acc.used + 1], used |-> acc.used + 1],
        [mapping |-> mapping, used |-> used], rows)

\* Mutant of Stitched: a pair is taken however far apart it is, and again.
StitchedNearest(frame, rows) ==
    [l \in LocalIds |->
        IF frame.boxes # <<>> /\ \E k \in DOMAIN rows : rows[k].local = l
        THEN LET box == rows[CHOOSE k \in DOMAIN rows : rows[k].local = l].box
             IN  frame.ids[CHOOSE i \in DOMAIN frame.boxes :
                     \A j \in DOMAIN frame.boxes :
                        MatchCost(frame.boxes[i], box) <= MatchCost(frame.boxes[j], box)]
        ELSE NoIdentity]

\* stitch_segment_identities: who of the next segment is somebody of the last
\* frame; a pair that is assigned but too different is not.
Stitched(frame, rows) ==
    LET pairs == {p \in Assignment(frame.boxes, BoxesOf(rows)) :
                     SamePerson(frame.boxes[p[1]], rows[p[2]].box)}
        of(l) == {p \in pairs : rows[p[2]].local = l}
    IN  [l \in LocalIds |->
            IF of(l) = {} THEN NoIdentity ELSE frame.ids[(CHOOSE p \in of(l) : TRUE)[1]]]

\* One frame of build_labeled_frames: at a segment's first frame the identities
\* start afresh (a cut) or are stitched to those of the frame before, with a note.
LabelFrame(acc, sample, given) ==
    LET rows == Labels(given)
        cut == ResetBefore(sample)
        begins == sample.segment # acc.segment
        joins == begins /\ ~ cut /\ acc.frames # <<>>
        mapping == IF begins /\ cut THEN Unmapped
                   ELSE IF joins THEN Stitched(acc.frames[Len(acc.frames)], rows)
                   ELSE acc.mapping
        done == Allocated(mapping, acc.used, rows)
        epoch == acc.epoch + (IF begins /\ cut THEN 1 ELSE 0)
    IN  [frames  |-> Append(acc.frames,
                       [sample |-> sample, epoch |-> epoch,
                        locals |-> [k \in DOMAIN rows |-> rows[k].local],
                        boxes  |-> BoxesOf(rows),
                        ids    |-> [k \in DOMAIN rows |-> done.mapping[rows[k].local]]]),
         epoch   |-> epoch,
         segment |-> sample.segment,
         mapping |-> done.mapping,
         used    |-> done.used,
         audit   |-> acc.audit \cup (IF joins THEN {<<acc.segment, sample.segment>>} ELSE {})]

LabeledFrames(samples, given) ==
    FoldLeft(LAMBDA acc, k : LabelFrame(acc, samples[k], given[k]),
        [frames |-> <<>>, epoch |-> -1, segment |-> 0, mapping |-> Unmapped, used |-> 0,
         audit |-> {}],
        [k \in DOMAIN samples |-> k])

-----------------------------------------------------------------------------
(* Windows: [category, start, count]; frames are numbered from 0. *)

Transitions(frames) ==
    {k \in DOMAIN frames : frames[k].sample.reason \in {"scene_cut", "segment_gap"}}

\* materialize_windows: within the film, with one change of scene if and only if
\* the window is for that.
WindowFrames(window, frames) == SubSeq(frames, window.start + 1, window.start + window.count)

Materialized(window, frames) ==
    /\ window.start >= 0 /\ window.start + window.count <= Len(frames)
    /\ Cardinality(Transitions(WindowFrames(window, frames)))
         = (IF window.category = "scene_cut" THEN 1 ELSE 0)

\* selected_identity_boundaries: the plain boundaries inside a window.
Boundaries(frames) ==
    {<<frames[k-1].sample.segment, frames[k].sample.segment>> :
        k \in {j \in 2..Len(frames) : /\ frames[j-1].sample.segment # frames[j].sample.segment
                                      /\ ~ ResetBefore(frames[j].sample)}}

-----------------------------------------------------------------------------
(* Predictions. *)

\* A change of scene the evaluation itself sees: never at a window's first frame.
Discontinuity(frames, k) ==
    k > 1 /\ ResetBefore(frames[k].sample) /\ frames[k].sample.reason # "initial"

\* Mutant of PredictionEpoch: only named cuts begin an epoch.
PredictionEpochNamed(frames, k) ==
    Cardinality({j \in 2..k : frames[j].sample.reason = "scene_cut"})

PredictionEpoch(frames, k) == Cardinality({j \in 1..k : Discontinuity(frames, j)})

PredictionId(local, epoch, reset) == IF reset THEN local + (epoch * Multiplier) ELSE local

\* run_tracker: the numbers of each frame, from those the tracker gives.
Predictions(frames, tracks, reset) ==
    [k \in DOMAIN frames |->
        {PredictionId(i, PredictionEpoch(frames, k), reset) : i \in tracks[k]}]

\* discontinuity_id_reuse
Reuse(frames, predicted, reasons) ==
    LET at == {k \in DOMAIN frames : Discontinuity(frames, k) /\ frames[k].sample.reason \in reasons}
        sum(Of(_)) == FoldSet(LAMBDA k, n : n + Of(k), 0, at)
    IN  [boundaries |-> Cardinality(at),
         reused     |-> sum(LAMBDA k : Cardinality(predicted[k-1] \cap predicted[k])),
         possible   |-> sum(LAMBDA k : Smaller(Cardinality(predicted[k-1]),
                                              Cardinality(predicted[k])))]

AnyReason == {"scene_cut", "segment_gap"}

\* compact_ids: the numbers in use, renumbered from 0 in their order.
CompactIds(idFrames) ==
    LET used == UNION {idFrames[k] : k \in DOMAIN idFrames}
    IN  [i \in used |-> Cardinality({j \in used : j < i})]

\* The count part of combine: the sum of the errors in how many people there are.
CountError(frames, predicted) ==
    FoldLeft(LAMBDA n, k : n + Abs(Len(frames[k].ids) - Cardinality(predicted[k])), 0,
             [k \in DOMAIN frames |-> k])

-----------------------------------------------------------------------------
(* Choice and verdict.  Scores in tenths of a percent. *)

\* The sort key of the candidates.
Ranks(a, b) ==
    \/ a.idf1 > b.idf1
    \/ a.idf1 = b.idf1 /\ a.hota > b.hota
    \/ a.idf1 = b.idf1 /\ a.hota = b.hota /\ a.fp <= b.fp

\* The first of the best: the sort keeps the order of equals.
Selected(candidates) ==
    candidates[CHOOSE k \in DOMAIN candidates :
        /\ \A j \in DOMAIN candidates : Ranks(candidates[k], candidates[j])
        /\ \A j \in 1..k-1 : ~ Ranks(candidates[j], candidates[k])]

GatePassed(base, candidate, cutReuse) ==
    /\ candidate.idf1 - base.idf1 >= 30
    /\ 10 * (base.idsw - candidate.idsw) >= 3 * Larger(base.idsw, 1)
    /\ \A c \in DOMAIN base.byCamera : candidate.byCamera[c] >= base.byCamera[c]
    /\ cutReuse = 0
    /\ candidate.precision - base.precision >= 0 - 10
    /\ candidate.countError <= base.countError

-----------------------------------------------------------------------------
(* Properties, of one film. *)

\* An identity is one person: two of a frame have two, a person keeps it within a
\* segment, nobody has one of an earlier scene, and over a plain boundary it goes
\* to a box like the one it had.
IdentitiesArePeople(frames) ==
    \A j, k \in DOMAIN frames :
      LET a == frames[j]
          b == frames[k]
          one(m, n) == a.ids[m] = b.ids[n]
      IN  \A m \in DOMAIN a.ids, n \in DOMAIN b.ids :
            /\ j = k /\ m # n => ~ one(m, n)
            /\ a.sample.segment = b.sample.segment => (one(m, n) <=> a.locals[m] = b.locals[n])
            /\ a.epoch # b.epoch => ~ one(m, n)
            /\ (k = j + 1 /\ a.sample.segment # b.sample.segment /\ one(m, n))
                 => SamePerson(a.boxes[m], b.boxes[n])

\* Of every window: the boundaries picked for review have been noted, the epochs
\* the tracker run counts are those of the labels, and a run that resets uses no
\* number of the scene before, so long as a scene has fewer than Multiplier.
WindowIsJudgedByScene(frames, audit, tracks) ==
    LET reset == Predictions(frames, tracks, TRUE)
        shared == Reuse(frames, reset, AnyReason)
        compact == CompactIds(reset)
        plain == Predictions(frames, tracks, FALSE)
    IN  /\ Boundaries(frames) \subseteq audit
        /\ \A k \in DOMAIN frames : PredictionEpoch(frames, k) = frames[k].epoch - frames[1].epoch
        /\ shared.reused = 0
        /\ shared.boundaries = Cardinality(Transitions(frames) \ {1})
        /\ \A j, k \in DOMAIN frames :
             frames[j].epoch # frames[k].epoch => reset[j] \cap reset[k] = {}
        /\ CountError(frames, reset) = CountError(frames, plain)
        /\ {compact[i] : i \in DOMAIN compact} = 0..(Cardinality(DOMAIN compact) - 1)

\* No candidate ranks above the one recommended.  The gate lets through whatever
\* is no worse than something it lets through, and nothing where the baseline
\* never mistook one person for another, itself included.
ChoiceIsJust(candidates, base) ==
    LET best == Selected(candidates)
        asGood(a, b) == /\ a.idf1 >= b.idf1 /\ a.idsw <= b.idsw
                        /\ a.precision >= b.precision /\ a.countError <= b.countError
                        /\ \A c \in DOMAIN b.byCamera : a.byCamera[c] >= b.byCamera[c]
    IN  /\ \A k \in DOMAIN candidates : Ranks(candidates[k], best) => Ranks(best, candidates[k])
        /\ \A k \in DOMAIN candidates : Ranks(candidates[k], best) =>
              candidates[k].fp = best.fp /\ candidates[k].idf1 = best.idf1
        /\ \A a, b \in {candidates[k] : k \in DOMAIN candidates} :
              asGood(a, b) /\ GatePassed(base, b, 0) => GatePassed(base, a, 0)
        /\ \A k \in DOMAIN candidates : GatePassed(base, candidates[k], 0) => base.idsw > 0
        /\ ~ GatePassed(base, base, 0)
=============================================================================
