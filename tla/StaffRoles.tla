----------------------------- MODULE StaffRoles -----------------------------
(***************************************************************************)
(* Who of the people in a picture is staff (cafe_stores.py).                *)
(*                                                                          *)
(* StaffRoleState votes over the last sightings of a track whether it is in *)
(* the staff zone and, where a store has a known number of staff, locks the *)
(* role on that many tracks.  StaffPresenceState keeps the staff that a     *)
(* counter hides for a few pictures, and gives a track that reappears under *)
(* a new number its old one.                                                *)
(***************************************************************************)
EXTENDS Integers, Sequences, FiniteSets, SequencesExt

CONSTANTS RawIds,        \* track numbers the tracker gives out, from 1
          Window,        \* window_size of the votes
          RequiredVotes, \* required_votes
          CountGrace,    \* grace_updates of StaffCountState
          ExitDistance   \* exit_distance_pixels, in units of a place

RolesConstants ==
    /\ RawIds \subseteq Nat \ {0} /\ IsFiniteSet(RawIds) /\ RequiredVotes \in 1..Window
    /\ CountGrace \in Nat /\ ExitDistance \in Nat \ {0}

ASSUME RolesAssumption == RolesConstants

NoId == 0          \* the tracker has no number for the box
NoPublicId == <<>>

(* A detection: [id, place], where place says where the box stands -- its      *)
(* abscissa, whether the foot is in the staff zone, how much of the box is.    *)

\* The elements of a finite set from first to last, and the entries of a sequence
\* at a set of places.
Ranked(S, before(_,_)) ==
    [k \in 1..Cardinality(S) |-> CHOOSE a \in S : Cardinality({b \in S : before(b, a)}) = k - 1]
Ascending(S) == Ranked(S, LAMBDA a, b : a < b)
Picked(seq, places) == [k \in 1..Cardinality(places) |-> seq[Ascending(places)[k]]]

Tracked(dets) == {i \in DOMAIN dets : dets[i].id # NoId}

-----------------------------------------------------------------------------
(* Role votes and locks. *)

Candidate(det, policy) ==
    det.place.foot \/ (policy.useBox /\ det.place.overlap >= policy.overlap)

NoRoles == [history |-> [i \in RawIds |-> <<>>], locked |-> {},
            missing |-> [i \in RawIds |-> 0]]

LastOf(seq) == IF Len(seq) > Window THEN Tail(seq) ELSE seq

Voted(history, dets, policy) ==
    [i \in RawIds |->
        LET seen == {k \in DOMAIN dets : dets[k].id = i}
        IN  IF seen = {} THEN history[i]
            ELSE LastOf(Append(history[i], Candidate(dets[CHOOSE k \in seen : TRUE], policy)))]

Votes(history, i) == Cardinality({k \in DOMAIN history[i] : history[i][k]})

\* What the votes alone say of each box; an untracked box has only this picture.
ByVotes(history, dets, policy) ==
    {k \in DOMAIN dets :
        IF dets[k].id = NoId THEN Candidate(dets[k], policy)
        ELSE Votes(history, dets[k].id) >= RequiredVotes}

\* A locked track keeps the role on weaker evidence than it got it by.
Kept(locked, dets, policy) ==
    {k \in DOMAIN dets : /\ dets[k].id \in locked
                         /\ \/ dets[k].place.foot
                            \/ policy.useBox /\ dets[k].place.overlap >= policy.lockedOverlap}

\* Ranked by foot inside, votes, overlap, position in the list.
Before(a, b, dets, history) ==
    LET rank(k) == << IF dets[k].place.foot THEN 1 ELSE 0, Votes(history, dets[k].id),
                      dets[k].place.overlap, 0 - k >>
        x == rank(a)
        y == rank(b)
    IN  \E n \in 1..4 : x[n] > y[n] /\ \A m \in 1..n-1 : x[m] = y[m]

\* Mutant of StaffUpdate: a lock is not held while its track is out of sight.
StaffUpdateNoGrace(roles, dets, policy) ==
    LET history == Voted(roles.history, dets, policy)
        flagged == ByVotes(history, dets, policy)
        kept == Kept(roles.locked, dets, policy)
        stay == {dets[k].id : k \in kept}
        open == {k \in flagged \cap Tracked(dets) : dets[k].id \notin stay}
        new == {k \in open : Cardinality({j \in open : Before(j, k, dets, history)})
                               < policy.max - Cardinality(stay)}
    IN  IF policy.max = 0 THEN [roles |-> [roles EXCEPT !.history = history], staff |-> flagged]
        ELSE [roles |-> [history |-> history,
                         locked  |-> stay \cup {dets[k].id : k \in new},
                         missing |-> [i \in RawIds |-> 0]],
              staff |-> kept \cup new]

\* update_evidence: the votes; then, where the number of staff is known, locks
\* that lost their track or its evidence for too long are released and the free
\* places go to the best candidates.
StaffUpdate(roles, dets, policy) ==
    LET history == Voted(roles.history, dets, policy)
        flagged == ByVotes(history, dets, policy)
        kept == Kept(roles.locked, dets, policy)
        keptIds == {dets[k].id : k \in kept}
        missing == [i \in RawIds |-> IF i \in roles.locked \ keptIds THEN roles.missing[i] + 1 ELSE 0]
        stay == {i \in roles.locked : missing[i] <= policy.grace}
        open == {k \in flagged \cap Tracked(dets) : dets[k].id \notin stay}
        new == {k \in open : Cardinality({j \in open : Before(j, k, dets, history)})
                               < policy.max - Cardinality(stay)}
    IN  IF policy.max = 0 THEN [roles |-> [roles EXCEPT !.history = history], staff |-> flagged]
        ELSE [roles |-> [history |-> history,
                         locked  |-> stay \cup {dets[k].id : k \in new},
                         missing |-> [i \in RawIds |-> IF i \in stay THEN missing[i] ELSE 0]],
              staff |-> kept \cup new]

-----------------------------------------------------------------------------
(* Presence.  A position: [id (public), x, type, state, occluded, track],      *)
(* where "track" is the public number the tracker itself gave it, kept only to *)
(* state properties with.                                                      *)

NoPresence == [last |-> <<>>, count |-> 0, missing |-> 0]

Apart(a, b) == IF a.x > b.x THEN a.x - b.x ELSE b.x - a.x
IsStaff(p) == p.type = "staff"
StaffIn(ps) == {k \in DOMAIN ps : IsStaff(ps[k])}
IdsOf(seq) == {seq[i].id : i \in DOMAIN seq} \ {NoPublicId}
Shown(p) == [p EXCEPT !.occluded = FALSE]
Hidden(p) == [p EXCEPT !.occluded = TRUE]

\* The pairs (last staff, staff seen) that may be one person under two numbers.
Links(last, seen) ==
    {pair \in (DOMAIN last) \X (DOMAIN seen) :
        LET p == last[pair[1]]
            o == seen[pair[2]]
        IN  /\ p.id # NoPublicId /\ p.id \notin IdsOf(seen)
            /\ IsStaff(o) /\ o.id # NoPublicId
            /\ Apart(p, o) <= ExitDistance}

\* Nearest pairs first, those at one distance in the order of the two lists.
Nearer(last, seen, a, b) ==
    LET dist(pair) == Apart(last[pair[1]], seen[pair[2]])
    IN  \/ dist(a) < dist(b)
        \/ dist(a) = dist(b) /\ a[1] < b[1]
        \/ dist(a) = dist(b) /\ a[1] = b[1] /\ a[2] < b[2]
InOrder(last, seen) == Ranked(Links(last, seen), LAMBDA a, b : Nearer(last, seen, a, b))

\* Each earlier number is given once.  A track that took one is marked used by
\* the number it had before, so that a second, farther one can still replace it.
Relink(last, acc, pair) ==
    LET old == last[pair[1]].id
        now == acc.out[pair[2]].id
    IN  IF old \in acc.given \/ now \in acc.replaced THEN acc
        ELSE [given    |-> acc.given \cup {old},
              replaced |-> acc.replaced \cup {now},
              out      |-> [acc.out EXCEPT ![pair[2]].id = old]]
Relinked(last, seen) ==
    FoldLeft(LAMBDA acc, pair : Relink(last, acc, pair),
             [given |-> {}, replaced |-> {}, out |-> seen], InOrder(last, seen)).out

Result(presence, positions, count) ==
    [presence |-> presence, positions |-> positions, staff |-> count]

\* The staff is out of sight: hold it for CountGrace pictures, show it where it
\* was last, or as staff where its number is still seen.
Hold(presence, seen) ==
    LET ids == IdsOf(presence.last)
        kept == [i \in DOMAIN seen |->
                    IF seen[i].id \in ids
                    THEN [seen[i] EXCEPT !.type = "staff", !.state = "working", !.occluded = TRUE]
                    ELSE seen[i]]
        gone == Picked(presence.last, {i \in DOMAIN presence.last : presence.last[i].id \notin IdsOf(seen)})
        held == presence.count > 0 /\ presence.missing + 1 <= CountGrace
    IN  IF held /\ presence.last # <<>>
        THEN Result([presence EXCEPT !.missing = @ + 1],
                    kept \o [i \in DOMAIN gone |-> Hidden(gone[i])], presence.count)
        ELSE Result([presence EXCEPT !.missing = CountGrace + 1, !.last = <<>>], seen, 0)

\* The same number is seen too far off: the member of staff has left the post.
WalkedOff(presence, seen) ==
    \E i \in DOMAIN presence.last, j \in DOMAIN seen :
        /\ presence.last[i].id = seen[j].id /\ seen[j].id # NoPublicId
        /\ Apart(presence.last[i], seen[j]) > ExitDistance

\* Mutant of PresenceUpdate: the count is held, the positions are not.
PresenceUpdateCountOnly(presence, positions) ==
    LET seen == [i \in DOMAIN positions |-> Shown(positions[i])]
        staff == Cardinality(StaffIn(seen))
        linked == Relinked(presence.last, seen)
    IN  IF staff > 0
        THEN Result([last |-> Picked(linked, StaffIn(linked)), count |-> staff, missing |-> 0],
                    linked, staff)
        ELSE IF WalkedOff(presence, seen) THEN Result(NoPresence, seen, 0)
        ELSE [Hold(presence, seen) EXCEPT !.positions = seen]

PresenceUpdate(presence, positions) ==
    LET seen == [i \in DOMAIN positions |-> Shown(positions[i])]
        staff == Cardinality(StaffIn(seen))
        linked == Relinked(presence.last, seen)
    IN  IF staff > 0
        THEN Result([last |-> Picked(linked, StaffIn(linked)), count |-> staff, missing |-> 0],
                    linked, staff)
        ELSE IF WalkedOff(presence, seen) THEN Result(NoPresence, seen, 0)
        ELSE Hold(presence, seen)
=============================================================================
