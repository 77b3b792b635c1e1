-------------------------- MODULE StaffEvaluation --------------------------
(***************************************************************************)
(* The two offline checks of who is taken for staff.                        *)
(*                                                                          *)
(* evaluate_staff_role.py runs a window of footage through the tracker once *)
(* a second, counts the staff in four ways and keeps a row per second;      *)
(* replay_staff_validation.py applies the present policy again to the rows  *)
(* kept, without the pictures.  A picture is [readable, boxes], the boxes   *)
(* as in StaffRoles.  Times are in ticks.                                   *)
(***************************************************************************)
EXTENDS CafeFootage, StaffRoles

CONSTANTS Second,         \* ticks of the second a vote is taken for
          Slack,          \* how early a frame may be (0.11 s)
          SampleEvery,    \* sample_every_seconds, in seconds
          DefaultOverlap  \* overlap_threshold of StaffVoteState

ASSUME EvaluationAssumption ==
    /\ Second \in Nat \ {0} /\ Slack \in Nat /\ Slack < Second
    /\ SampleEvery \in Nat \ {0}

(* A window: [start, end, expected]. *)

FootOnly == [useBox |-> FALSE, overlap |-> DefaultOverlap]
FootOrBox == [useBox |-> TRUE, overlap |-> DefaultOverlap]

NoVotes == [i \in RawIds |-> <<>>]

\* StaffVoteState.update: the history it leaves and how many boxes are flagged.
Vote(history, boxes, mode) ==
    LET voted == Voted(history, boxes, mode)
    IN  [history |-> voted, staff |-> Cardinality(ByVotes(voted, boxes, mode))]

\* The boxes as presence takes them: who they are, and no more of what they do.
RolePositions(boxes, staff) ==
    [k \in DOMAIN boxes |->
        [id       |-> IF boxes[k].id = NoId THEN NoPublicId ELSE <<boxes[k].id>>,
         x        |-> boxes[k].place.x,
         type     |-> IF k \in staff THEN "staff" ELSE "customer",
         state    |-> IF k \in staff THEN "working" ELSE "unknown",
         occluded |-> FALSE]]

-----------------------------------------------------------------------------
(* evaluate_window. *)

Fresh == [foot |-> NoVotes, hybrid |-> NoVotes, roles |-> NoRoles,
          presence |-> NoPresence]

Row(sample, kept, vote, foot, hybrid, roles, presence, boxes) ==
    [second   |-> vote,
     at       |-> sample.at,
     segment  |-> sample.segment,
     epoch    |-> kept.epoch,
     foot     |-> foot.staff,
     hybrid   |-> hybrid.staff,
     raw      |-> Cardinality(roles.staff),
     smoothed |-> presence.staff,
     details  |-> boxes]

\* One frame: the resets of a scene, then a vote where the second has come.  The
\* next vote is one second on, however late this one is.
EvaluateFrame(kept, sample, picture, policy) ==
    LET cut == ResetBefore(sample)
        epoch == kept.epoch + (IF cut THEN 1 ELSE 0)
        s == IF cut THEN Fresh ELSE kept.state
        foot == Vote(s.foot, picture.boxes, FootOnly)
        hybrid == Vote(s.hybrid, picture.boxes, FootOrBox)
        roles == StaffUpdate(s.roles, picture.boxes, policy)
        presence == PresenceUpdate(s.presence, RolePositions(picture.boxes, roles.staff))
        begun == [kept EXCEPT !.state = s, !.epoch = epoch]
    IN  IF ~ picture.readable \/ sample.at + Slack < kept.nextVote THEN begun
        ELSE [state    |-> [foot |-> foot.history, hybrid |-> hybrid.history,
                            roles |-> roles.roles, presence |-> presence.presence],
              epoch    |-> epoch,
              nextVote |-> kept.nextVote + Second,
              rows     |-> Append(kept.rows, Row(sample, begun, kept.nextVote, foot, hybrid,
                                                 roles, presence, picture.boxes))]

\* The rows of a window; the film is read from its beginning, so that tracks are
\* under way when the window starts, and left at its end.
EvaluateWindow(samples, pictures, window, policy) ==
    FoldLeft(LAMBDA kept, k :
                 IF samples[k].at < window.end
                 THEN EvaluateFrame(kept, samples[k], pictures[k], policy) ELSE kept,
             [state |-> Fresh, epoch |-> -1, nextVote |-> window.start, rows |-> <<>>],
             [k \in DOMAIN samples |-> k]).rows

\* should_review, of the second a row was taken for.
ShouldReview(second, window) ==
    /\ window.start <= second /\ second < window.end
    /\ (second - window.start) % (Second * SampleEvery) = 0

Reviewed(rows, window) == SelectSeq(rows, LAMBDA row : ShouldReview(row.second, window))

-----------------------------------------------------------------------------
(* summarize: predicted counts against the number a person saw. *)

Total(f) == FoldFunction(LAMBDA x, y : x + y, 0, f)
Least(a, b) == IF a < b THEN a ELSE b
Above(a, b) == IF a > b THEN a - b ELSE 0

Summary(counts, expected) ==
    [samples  |-> Len(counts),
     exact    |-> Cardinality({k \in DOMAIN counts : counts[k] = expected[k]}),
     error    |-> Total([k \in DOMAIN counts |->
                             Above(counts[k], expected[k]) + Above(expected[k], counts[k])]),
     under    |-> Cardinality({k \in DOMAIN counts : counts[k] < expected[k]}),
     over     |-> Cardinality({k \in DOMAIN counts : counts[k] > expected[k]}),
     hit      |-> Total([k \in DOMAIN counts |-> Least(counts[k], expected[k])]),
     spurious |-> Total([k \in DOMAIN counts |-> Above(counts[k], expected[k])]),
     missed   |-> Total([k \in DOMAIN counts |-> Above(expected[k], counts[k])])]

Seen(rows, Of(_)) == [k \in DOMAIN rows |-> Of(rows[k])]
Expected(rows, window) == [k \in DOMAIN rows |-> window.expected]

Report(rows, window) ==
    [foot     |-> Summary(Seen(rows, LAMBDA r : r.foot), Expected(rows, window)),
     hybrid   |-> Summary(Seen(rows, LAMBDA r : r.hybrid), Expected(rows, window)),
     raw      |-> Summary(Seen(rows, LAMBDA r : r.raw), Expected(rows, window)),
     smoothed |-> Summary(Seen(rows, LAMBDA r : r.smoothed), Expected(rows, window))]

-----------------------------------------------------------------------------
(* replay_staff_validation.py. *)

\* What the epoch of a row is where the row does not say: the cuts up to it.
CutsBefore(row, cuts) == Cardinality({c \in cuts : row.segment >= c})

\* Mutant of RowEpoch: the epoch a row was kept with is passed over.
RowEpochFromCuts(row, cuts, recorded) == CutsBefore(row, cuts)

RowEpoch(row, cuts, recorded) == IF recorded THEN row.epoch ELSE CutsBefore(row, cuts)

ReplayRow(kept, row, epoch, policy) ==
    LET same == epoch = kept.epoch
        roles == StaffUpdate(IF same THEN kept.roles ELSE NoRoles, row.details, policy)
        presence == PresenceUpdate(IF same THEN kept.presence ELSE NoPresence,
                                   RolePositions(row.details, roles.staff))
        staff == SelectSeq(presence.positions, IsStaff)
    IN  [roles    |-> roles.roles,
         presence |-> presence.presence,
         epoch    |-> epoch,
         rows     |-> Append(kept.rows, [epoch    |-> epoch,
                                         raw      |-> Cardinality(roles.staff),
                                         smoothed |-> presence.staff,
                                         ids      |-> [k \in DOMAIN staff |-> staff[k].id]])]

Replay(rows, policy, cuts, recorded) ==
    FoldLeft(LAMBDA kept, row : ReplayRow(kept, row, RowEpoch(row, cuts, recorded), policy),
             [roles |-> NoRoles, presence |-> NoPresence, epoch |-> -1, rows |-> <<>>],
             rows).rows

\* replayed[::sample_every]
EveryNth(rows) ==
    [k \in 1..((Len(rows) + SampleEvery - 1) \div SampleEvery) |-> rows[(k - 1) * SampleEvery + 1]]

\* continuity_summary: a row shows the same staff as the last one of its epoch
\* that showed any, or counts as a change.
Continuity(rows) ==
    LET shown(k) == {rows[k].ids[n] : n \in DOMAIN rows[k].ids}
        last(k) == {j \in 1..k-1 : rows[j].epoch = rows[k].epoch /\ rows[j].ids # <<>>}
    IN  [resets  |-> Cardinality({k \in 2..Len(rows) : rows[k].epoch # rows[k-1].epoch}),
         changes |-> Cardinality({k \in DOMAIN rows :
                        /\ rows[k].ids # <<>> /\ last(k) # {}
                        /\ \/ shown(k) # shown(Max(last(k)))
                           \/ Len(rows[k].ids) # Len(rows[Max(last(k))].ids)}),
         missing |-> Cardinality({k \in DOMAIN rows : rows[k].ids = <<>>})]

-----------------------------------------------------------------------------
(* Properties, of one film, window and policy. *)

\* A row for every second from the start of the window, each from one frame that
\* is no more than the slack early, in the order of the frames.
RowsAreSeconds(rows, window) ==
    /\ \A k \in DOMAIN rows : /\ rows[k].second = window.start + (k - 1) * Second
                              /\ rows[k].at + Slack >= rows[k].second
    /\ \A k \in 2..Len(rows) : rows[k].at > rows[k-1].at

\* Replaying the kept rows under the same policy counts what the evaluation
\* counted from the pictures, scene resets included; every n-th replayed row is a
\* row that was reviewed, but for one taken ahead of the window's end; and the
\* continuity counts are those of the smoothed counts and of the scenes.  Rows
\* kept without an epoch give the same where every scene begins with a named cut.
ReplaysWhatWasSeen(rows, window, policy, cuts, gaps) ==
    LET again == Replay(rows, policy, cuts, TRUE)
        sure == SelectSeq(rows, LAMBDA r : r.second < window.end)
        counts(replayed) == [k \in DOMAIN replayed |-> <<replayed[k].raw, replayed[k].smoothed>>]
    IN  /\ Len(again) = Len(rows)
        /\ \A k \in DOMAIN rows : /\ again[k].raw = rows[k].raw
                                  /\ again[k].smoothed = rows[k].smoothed
                                  /\ again[k].smoothed = Len(again[k].ids)
        /\ EveryNth(sure) = Reviewed(rows, window)
        /\ Continuity(again).missing
             = Cardinality({k \in DOMAIN rows : rows[k].smoothed = 0})
        /\ rows # <<>> =>
             Continuity(again).resets + 1 = Cardinality({rows[k].epoch : k \in DOMAIN rows})
        /\ ~ gaps => counts(Replay(rows, policy, cuts, FALSE)) = counts(again)

\* In every summary hits and misses make up what was there, hits and false alarms
\* what was said, and a store at its limit is never counted over it.
SummaryAddsUp(rows, window) ==
    LET r == Report(rows, window)
    IN  \A part \in DOMAIN r :
          /\ r[part].hit + r[part].missed = r[part].samples * window.expected
          /\ r[part].spurious + r[part].missed = r[part].error
          /\ r[part].exact + r[part].under + r[part].over = r[part].samples
=============================================================================
