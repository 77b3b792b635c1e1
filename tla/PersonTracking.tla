--------------------------- MODULE PersonTracking ---------------------------
(***************************************************************************)
(* analyze_store_stream (cafe_stores.py): one camera's footage is tracked   *)
(* frame by frame, postures are added up per track, and for the frames the  *)
(* sampler picks a state is published with everybody's place, role and      *)
(* number.  What the detector, the tracker and the pose model see in a      *)
(* frame is chosen freely; everything kept between two frames is modelled.  *)
(***************************************************************************)
EXTENDS CafeFootage, StaffRoles

CONSTANTS Footages,      \* the footage a camera may have
          Policies,      \* STAFF_ROLE_POLICIES
          Sightings,     \* what may be seen: <<where the box is, posture>>
          NDwell,        \* N_DWELL: pictures standing before one waits
          NSeated,       \* N_SEATED: pictures sitting before one is seated
          NearDistance   \* the reach of a pose's foot, in units of a place

Poses == {"stand", "sit"}
Zones == {"waiting", "seating"}
Places == [x : Int, foot : BOOLEAN, overlap : Nat, zone : STRING]

TrackingConstants ==
    /\ FootageConstants /\ RolesConstants
    /\ Footages \subseteq Seq(Segments) /\ \A f \in Footages : \A k \in DOMAIN f : InFrameOrder(f[k])
    /\ Policies \subseteq [max : Nat, overlap : Nat, lockedOverlap : Nat, grace : Nat, useBox : BOOLEAN]
    /\ Sightings \subseteq Places \X Poses
    /\ NDwell \in Nat \ {0} /\ NSeated \in Nat \ {0} /\ NearDistance \in Nat

ASSUME TrackingAssumption == TrackingConstants

VARIABLES samples,     \* what iter_camera_frames yields
          policy,     \* StaffRolePolicy of the store
          done,       \* how many samples have been read
          scene,      \* what is kept within a scene: numbers given out by the
                      \* tracker, TrackingEpoch, PoseDwellState, StaffRoleState,
                      \* StaffPresenceState
          nextOut,    \* OutputSampler.next_output_seconds
          anchor,     \* history: the time of the last forced output
          tally,      \* history: postures seen per track of this scene
          out         \* the last state published

trackingVars == <<samples, policy, done, scene, nextOut, anchor, tally, out>>

CurrentSample == samples[done + 1]

Nobody == <<>>

\* One picture: who is where, as [place, pose] per track number, and whether the
\* tracker numbered the boxes.
Pictures == [seen : [RawIds -> Sightings \cup {Nobody}], tracked : BOOLEAN]

Boxes(pic) ==
    LET ids == Ascending({i \in RawIds : pic.seen[i] # Nobody})
    IN  [k \in DOMAIN ids |-> [id    |-> IF pic.tracked THEN ids[k] ELSE NoId,
                                place |-> pic.seen[ids[k]][1],
                                pose  |-> pic.seen[ids[k]][2]]]

\* New numbers are given in ascending order; boxes without one are as many as
\* they are.
Numbered(pic, given) ==
    LET used == {i \in RawIds : pic.seen[i] # Nobody}
    IN  \A i \in used : i = 1 \/ (pic.tracked /\ i <= given + 1) \/ (i - 1) \in used

-----------------------------------------------------------------------------
(* Dwelling. *)

NoPoses == [i \in RawIds |-> [z \in Zones |-> [p \in Poses |-> 0]]]

Added(counts, boxes) ==
    [i \in RawIds |-> [z \in Zones |-> [p \in Poses |->
        counts[i][z][p] + Cardinality({k \in DOMAIN boxes :
            boxes[k].id = i /\ boxes[k].place.zone = z /\ boxes[k].pose = p})]]]

\* Long enough in posture p in zone z, and longer than in the other one.
Dwells(counts, box, z, p, least) ==
    /\ box.id # NoId /\ box.place.zone = z /\ box.pose = p
    /\ counts[box.id][z][p] >= least
    /\ \A q \in Poses \ {p} : counts[box.id][z][p] > counts[box.id][z][q]

\* The feet of those who wait and of those who sit.
Feet(counts, boxes) ==
    [waiting |-> {boxes[k].place.x : k \in {j \in DOMAIN boxes :
                    Dwells(counts, boxes[j], "waiting", "stand", NDwell)}},
     seating |-> {boxes[k].place.x : k \in {j \in DOMAIN boxes :
                    Dwells(counts, boxes[j], "seating", "sit", NSeated)}}]

NearFoot(x, feet) == \E f \in feet : f - x \in (0 - NearDistance)..NearDistance

-----------------------------------------------------------------------------
(* What is published. *)

PublicId(i, e) == IF i = NoId THEN NoPublicId ELSE <<e, i>>

Position(box, feet, staff, e) ==
    [id       |-> PublicId(box.id, e),
     track    |-> PublicId(box.id, e),
     x        |-> box.place.x,
     type     |-> IF staff THEN "staff" ELSE "customer",
     state    |-> IF staff THEN "working"
                  ELSE IF NearFoot(box.place.x, feet.waiting) THEN "queue"
                  ELSE IF NearFoot(box.place.x, feet.seating) THEN "seated" ELSE "unknown",
     occluded |-> FALSE]

Positions(boxes, feet, staff, e) ==
    [k \in DOMAIN boxes |-> Position(boxes[k], feet, k \in staff, e)]

\* render_analysis counts the boxes that are not staff and stand near a foot;
\* boxes the presence turned into staff are not counted.
WaitingCount(boxes, feet, positions) ==
    Cardinality({k \in DOMAIN boxes :
        ~ IsStaff(positions[k]) /\ NearFoot(boxes[k].place.x, feet.waiting)})

Published(at, e, reset, boxes, feet, staff, res) ==
    [at |-> at, epoch |-> e, reset |-> reset, positions |-> res.positions,
     staff |-> res.staff, waiting |-> WaitingCount(boxes, feet, res.positions),
     customers |-> Cardinality(DOMAIN res.positions \ StaffIn(res.positions)),
     flagged |-> {boxes[k].id : k \in staff}]

NothingYet == [at |-> NoTime, epoch |-> -1, reset |-> FALSE, positions |-> <<>>,
               staff |-> 0, waiting |-> 0, customers |-> 0, flagged |-> {}]

-----------------------------------------------------------------------------
NoScene == [tracker |-> 0, epoch |-> -1, dwell |-> NoPoses, roles |-> NoRoles,
            presence |-> NoPresence]

\* Mutant of SceneStart: the postures of the last scene are kept.
SceneStartKeepsPoses(cut, s) ==
    IF cut THEN [s EXCEPT !.tracker = 0, !.epoch = @ + 1, !.roles = NoRoles, !.presence = NoPresence]
    ELSE s

\* At a cut the tracker counts from one again, and everything that is kept by
\* its numbers is dropped.
SceneStart(cut, s) ==
    IF cut THEN [NoScene EXCEPT !.epoch = s.epoch + 1] ELSE s

TrackingInit ==
    /\ samples \in {CameraFrames(f) : f \in Footages} /\ policy \in Policies
    /\ done = 0 /\ scene = NoScene /\ nextOut = NoTime /\ anchor = NoTime
    /\ tally = NoPoses /\ out = NothingYet

\* The sample cannot be decoded: only a reset before it takes place.
SkipFrame ==
    /\ done < Len(samples)
    /\ scene' = SceneStart(ResetBefore(CurrentSample), scene)
    /\ tally' = IF ResetBefore(CurrentSample) THEN NoPoses ELSE tally
    /\ done' = done + 1
    /\ UNCHANGED <<samples, policy, nextOut, anchor, out>>

AnalyseFrame(pic) ==
    /\ done < Len(samples)
    /\ LET cut == ResetBefore(CurrentSample)
           at == CurrentSample.at
           force == cut /\ CurrentSample.reason # "initial"
           emit == ShouldEmit(nextOut, at, force)
           s == SceneStart(cut, scene)
           boxes == Boxes(pic)
           counts == Added(s.dwell, boxes)
           feet == Feet(counts, boxes)
           roles == StaffUpdate(s.roles, boxes, policy)
           res == PresenceUpdate(s.presence, Positions(boxes, feet, roles.staff, s.epoch))
           seen == [s EXCEPT !.dwell = counts,
                             !.tracker = Max({s.tracker} \cup {boxes[k].id : k \in DOMAIN boxes})]
       IN  /\ Numbered(pic, s.tracker)
           /\ tally' = Added(IF cut THEN NoPoses ELSE tally, boxes)
           /\ nextOut' = NextOutput(nextOut, at, force)
           /\ anchor' = IF nextOut = NoTime \/ force THEN at ELSE anchor
           /\ IF emit
              THEN /\ scene' = [seen EXCEPT !.roles = roles.roles, !.presence = res.presence]
                   /\ out' = Published(at, s.epoch, cut, boxes, feet, roles.staff, res)
              ELSE /\ scene' = seen
                   /\ UNCHANGED out
    /\ done' = done + 1
    /\ UNCHANGED <<samples, policy>>

TrackingNext == SkipFrame \/ \E pic \in Pictures : AnalyseFrame(pic)

TrackingSpec == TrackingInit /\ [][TrackingNext]_trackingVars

-----------------------------------------------------------------------------
(* Properties. *)

Staffed == StaffIn(out.positions)

\* The counts of a state are those of its positions -- staff that a counter
\* hides included --, no number is shown twice whatever was relinked or held,
\* no more are staff than the store has, and nobody is shown under a number of
\* an earlier scene.
StateMatchesPositions ==
    LET ps == out.positions
    IN  /\ out.staff = Cardinality(Staffed)
        /\ out.waiting = Cardinality({k \in DOMAIN ps : ps[k].state = "queue"})
        /\ out.customers = Len(ps) - Cardinality(Staffed)
        /\ \A j, k \in DOMAIN ps : j # k /\ ps[j].id # NoPublicId => ps[j].id # ps[k].id
        /\ policy.max > 0 => Cardinality(Staffed) <= policy.max
        /\ \A k \in DOMAIN ps : ps[k].id # NoPublicId => ps[k].id[1] = out.epoch

\* A locked role does not jump to another person: as long as every place is
\* taken and no lock has been without evidence for its grace, the flags of the
\* next state are among the locked.
LocksHold ==
    [][(/\ policy.max > 0 /\ scene'.epoch = scene.epoch /\ out' # out
        /\ Cardinality(scene.roles.locked) = policy.max
        /\ \A i \in scene.roles.locked : scene.roles.missing[i] < policy.grace)
         => out'.flagged \subseteq scene.roles.locked]_trackingVars

\* Somebody is shown waiting only near a track that, since the scene began, was
\* seen standing in the waiting zone often enough and more often than sitting --
\* the rule of pose_state_feet over the pictures of the scene; and such a track
\* still standing there is not missed.
WaitersDwelled ==
    LET waits(p) == /\ tally[p.track[2]]["waiting"]["stand"] >= NDwell
                    /\ tally[p.track[2]]["waiting"]["stand"] > tally[p.track[2]]["waiting"]["sit"]
        now == out.at # NoTime /\ done > 0 /\ out.at = samples[done].at
    IN  now => \A k \in DOMAIN out.positions :
          out.positions[k].state = "queue" =>
            \E j \in DOMAIN out.positions :
              LET p == out.positions[j]
              IN  /\ p.track # NoPublicId /\ waits(p)
                  /\ Apart(p, out.positions[k]) <= NearDistance

\* Published times lie on the grid that began with the last forced output: after
\* every decoded frame the next output is ahead, by no more than an interval.
OutputsOnGrid ==
    nextOut # NoTime =>
      /\ (nextOut - anchor) % Interval = 0
      /\ out.at < nextOut /\ nextOut <= out.at + Interval
      /\ anchor <= out.at

\* A state says what the pictures of its scene have shown, in number and in kind.
StateFollowsPictures == StateMatchesPositions /\ WaitersDwelled
=============================================================================
