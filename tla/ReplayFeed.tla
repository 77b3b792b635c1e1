----------------------------- MODULE ReplayFeed -----------------------------
(***************************************************************************)
(* A worker feeds one store's frames to the API: replay_states.py plays     *)
(* recorded states, judged again by the ROI approved now; run_live of       *)
(* cafe_stores.py sends what it has just analysed.  For each frame the      *)
(* picture, then the state, then the occupancy are posted; the worker waits *)
(* for each answer, or gives up, before it goes on.                         *)
(***************************************************************************)
EXTENDS FrameViewer, ZoneGeometry

CONSTANTS Footages,    \* films: sequences of [positions, queue, visible, raw]
          Config,      \* the zones of each version of the ROI
          Versions, MaxSent,
          Refresh, Attempts, MaxMissed, MaxDistance,
          Polygons, GridSide   \* for ZonesHoldTheirPoints

ASSUME FeedAssumption ==
    /\ Refresh \in Nat \ {0} /\ Attempts \in Nat \ {0} /\ Versions \in Nat
    /\ "loop" \notin Thread
    /\ MaxMissed \in Nat /\ MaxDistance \in Nat

\* A film has a picture, and who is seen in one stands on a pixel of it.
Spot == [x : Int, y : Int]
Seen == [at : Spot, type : {"staff", "customer"}, state : STRING, zone : STRING]
Film == Seq([positions : Seq(Seen), queue : Nat, visible : Nat, raw : BOOLEAN]) \ {<<>>}

ASSUME FilmAssumption == \A film \in Footages : film \in Film

VARIABLES
  footage,
  live,      \* run_live of cafe_stores.py, or else replay_states.py
  w,         \* the worker: [at, on (who is waited for), tries, tick, cycle]
  roi,       \* the ROI cached: [version, age]; version 0 for none
  file,      \* live: the version in the cache file
  tracker,   \* LegacyPositionTracker: [next, tracks]
  out,       \* the frame being sent: [n, roi, state, agents]
  approved,  \* the version approved in the API
  before,    \* history: what was approved at each of the last Refresh frames
  missed,    \* history: the last check of the ROI failed
  lost,      \* history: a state was given up, or an old one is still under way
  seen       \* history: where and in which frame each id was last given

filmVars == <<footage, live>>
roiVars == <<roi, file, approved, before, missed>>
sendVars == <<tracker, out, seen>>
workVars == <<footage, live, w, roi, file, tracker, out, approved, before, missed, lost, seen>>
vars == <<apiVars, faults, viewVars, workVars>>

NoTracker == [next |-> 1, tracks |-> [id \in {} |-> 0]]
Start == [at |-> "roi", on |-> {}, tries |-> 0, tick |-> 1, cycle |-> 0]
NotSent == [n |-> 0, roi |-> 0, queue |-> 0, visible |-> 0, agents |-> <<>>]

-----------------------------------------------------------------------------
(* LegacyPositionTracker. *)

Square(n) == n * n
Far(p, q) == Square(p.x - q.x) + Square(p.y - q.y)
Expected(t) == Pt(t.at.x + t.v.x, t.at.y + t.v.y)
Track(p, v) == [at |-> p, v |-> v, missed |-> 0]

\* Pairs of a track and a position within reach.
Pair(tracks, ps, id, k) == [d |-> Far(ps[k].at, Expected(tracks[id])), id |-> id, k |-> k]
Reach(tracks, ps) ==
    {r \in {Pair(tracks, ps, id, k) : id \in DOMAIN tracks, k \in DOMAIN ps} :
        /\ r.d <= Square(MaxDistance)
        /\ Far(ps[r.k].at, tracks[r.id].at) <= Square(MaxDistance)}

\* The nearest to where it was expected first; ties by name, which is by number below ten.
Sooner(r, s) ==
    \/ r.d < s.d
    \/ r.d = s.d /\ r.id < s.id
    \/ r.d = s.d /\ r.id = s.id /\ r.k < s.k
Pairs(tracks, ps) ==
    LET near == Reach(tracks, ps)
    IN  [n \in 1..Cardinality(near) |->
            CHOOSE r \in near : Cardinality({s \in near : Sooner(s, r)}) = n - 1]

Taken(done, r) == IF \E s \in done : s.id = r.id \/ s.k = r.k THEN done ELSE done \cup {r}
Matched(tracks, ps) == FoldLeft(Taken, {}, Pairs(tracks, ps))

\* Mutant of Pruned: a track that is not seen is kept.
PrunedNever(tracks) == tracks

Pruned(tracks) ==
    [id \in {i \in DOMAIN tracks : tracks[i].missed <= MaxMissed} |-> tracks[id]]

\* Who is paired with no track gets the next number.
Unpaired(pairs, ps) == {k \in DOMAIN ps : ~ \E r \in pairs : r.k = k}
IdOf(next, pairs, new, k) ==
    IF k \in new THEN next + Cardinality({j \in new : j < k})
    ELSE (CHOOSE r \in pairs : r.k = k).id

Moved(t, p) == Track(p, Pt(p.x - t.at.x, p.y - t.at.y))
Kept(tracks, pairs, ps) ==
    [id \in DOMAIN tracks |->
        LET hit == {r \in pairs : r.id = id}
        IN  IF hit = {} THEN [tracks[id] EXCEPT !.missed = @ + 1]
            ELSE Moved(tracks[id], ps[(CHOOSE r \in hit : TRUE).k].at)]
Begun(ids, new, ps) ==
    [id \in {ids[k] : k \in new} |-> Track(ps[CHOOSE k \in new : ids[k] = id].at, Pt(0, 0))]

Joined(old, fresh) ==
    [id \in DOMAIN old \cup DOMAIN fresh |-> IF id \in DOMAIN old THEN old[id] ELSE fresh[id]]

\* The positions of a recorded film have no ids: all of them are matched.
Assign(tr, ps) ==
    LET pairs == Matched(tr.tracks, ps)
        new == Unpaired(pairs, ps)
        ids == [k \in DOMAIN ps |-> IdOf(tr.next, pairs, new, k)]
    IN  [ids |-> ids,
         tracker |-> [next |-> tr.next + Cardinality(new),
                      tracks |-> Pruned(Joined(Kept(tr.tracks, pairs, ps), Begun(ids, new, ps)))]]

-----------------------------------------------------------------------------
(* prepare_occupancy. *)

KnownStates == {"entering", "queue", "ordering", "waiting", "seated", "exiting", "working", "unknown"}

\* The state of one agent and what is left of the queue after it.
AgentState(pos, queue) ==
    CASE pos.state \in KnownStates                     -> pos.state
      [] pos.state \notin KnownStates /\ pos.type = "staff" -> "working"
      [] pos.state \notin KnownStates /\ pos.type # "staff" /\ pos.zone = "waiting" ->
           IF queue > 0 THEN "queue" ELSE "waiting"
      [] OTHER                                         -> "unknown"

Told(ps, ids, done, k) ==
    LET s == AgentState(ps[k], done.queue)
    IN  [queue |-> IF s = "queue" /\ done.queue > 0 THEN done.queue - 1 ELSE done.queue,
         list  |-> Append(done.list, [id |-> ids[k], at |-> ps[k].at, role |-> ps[k].type, state |-> s])]
Agents(ps, queue, ids) ==
    FoldLeft(LAMBDA done, k : Told(ps, ids, done, k), [queue |-> queue, list |-> <<>>], [k \in DOMAIN ps |-> k]).list

\* Mutant of Judged: the state keeps the counts of the recording.
JudgedCountsKept(tick, v) ==
    IF v = 0 THEN tick
    ELSE LET s == Reclassified(tick, [zones |-> Config[v], version |-> v])
         IN  [positions |-> s.positions, queue |-> tick.queue, visible |-> tick.visible]

\* main: judged again where a version of the ROI is known.
Judged(tick, v) ==
    IF v = 0 THEN tick
    ELSE LET s == Reclassified(tick, [zones |-> Config[v], version |-> v])
         IN  [positions |-> s.positions, queue |-> s.queue, visible |-> s.visible]

Prepared(tick, v, ids, n) ==
    LET s == Judged(tick, v)
    IN  [n |-> n, roi |-> v, queue |-> s.queue, visible |-> s.visible,
         agents |-> Agents(s.positions, s.queue, ids)]

-----------------------------------------------------------------------------
(* The approved ROI. *)

\* At other times nobody would notice before the worker is here again.
Approve ==
    /\ w.at = "roi" /\ out.n < MaxSent
    /\ approved < Versions /\ approved' = approved + 1
    /\ UNCHANGED <<filmVars, w, roi, file, before, missed, lost, sendVars, apiVars, faults, viewVars>>

Due == (~ live /\ roi.version = 0) \/ roi.age >= Refresh

\* Mutant of Fetched: a check that fails forgets the version.
FetchedForgets ==
    \/ approved # 0 /\ roi' = [version |-> approved, age |-> 0] /\ missed' = FALSE /\ UNCHANGED faults
    \/ roi' = [version |-> 0, age |-> 0] /\ missed' = TRUE /\ Fault
    \/ approved = 0 /\ roi' = [roi EXCEPT !.age = 0] /\ missed' = FALSE /\ UNCHANGED faults

\* RoiConfigProvider.get: the time of the check counts, also when it fails.
Fetched ==
    \/ approved # 0 /\ roi' = [version |-> approved, age |-> 0] /\ missed' = FALSE /\ UNCHANGED faults
    \/ roi' = [roi EXCEPT !.age = 0] /\ missed' = TRUE /\ Fault
    \/ approved = 0 /\ roi' = [roi EXCEPT !.age = 0] /\ missed' = FALSE /\ UNCHANGED faults

ReplayRoi ==
    /\ IF Due THEN Fetched ELSE UNCHANGED <<roi, missed, faults>>
    /\ UNCHANGED file

\* runtime_zones: what the API does not give comes from the file, or else from the
\* zones beside the program (0).
LiveRoi ==
    \/ /\ ~ Due /\ UNCHANGED <<roi, file, missed, faults>>
    \/ /\ Due /\ approved # 0
       /\ roi' = [version |-> approved, age |-> 0] /\ file' = approved /\ missed' = FALSE
       /\ UNCHANGED faults
    \/ /\ Due /\ approved # 0 /\ Fault            \* no answer, or save_cache fails
       /\ roi' = [version |-> file, age |-> 0] /\ missed' = TRUE
       /\ UNCHANGED file
    \/ /\ Due /\ approved = 0
       /\ roi' = [version |-> file, age |-> 0] /\ missed' = FALSE
       /\ UNCHANGED <<file, faults>>

-----------------------------------------------------------------------------
(* One frame. *)

Given(agents, n, cycle) ==
    [id \in DOMAIN seen \cup {agents[k].id : k \in DOMAIN agents} |->
        LET at == {agents[k].at : k \in {j \in DOMAIN agents : agents[j].id = id}}
        IN  IF at = {} THEN seen[id] ELSE [n |-> n, at |-> CHOOSE p \in at : TRUE, cycle |-> cycle]]

Shot == footage[w.tick]

StartFrame ==
    /\ w.at = "roi" /\ out.n < MaxSent
    /\ IF live THEN LiveRoi ELSE ReplayRoi
    /\ before' = Append(Tail(before), approved)
    /\ IF live
       THEN /\ out' = [Prepared(Shot, 0, [k \in DOMAIN Shot.positions |-> k], out.n + 1)
                         EXCEPT !.roi = roi'.version]
            /\ UNCHANGED <<tracker, seen>>
       ELSE LET a == Assign(tracker, Shot.positions)
            IN  /\ out' = Prepared(Shot, roi'.version, a.ids, out.n + 1)
                /\ tracker' = a.tracker
                /\ seen' = Given(out'.agents, out'.n, w.cycle)
    /\ w' = [w EXCEPT !.at = IF Shot.raw THEN "image" ELSE "state"]
    /\ UNCHANGED <<filmVars, approved, lost, apiVars, viewVars>>

\* Mutant of After: the occupancy goes before the state.
AfterImage(at) == CASE at = "image" -> "occupancy" [] at = "occupancy" -> "state" [] at = "state" -> "sleep"

After(at) == CASE at = "image" -> "state" [] at = "state" -> "occupancy" [] at = "occupancy" -> "sleep"
Answered == [w EXCEPT !.at = After(w.at), !.on = {}, !.tries = 0]

Tries == IF live /\ w.at # "occupancy" THEN 1 ELSE Attempts

\* _request_with_retry, and what main makes of its last error: a bare TimeoutError
\* or ConnectionError, which urlopen raises while it waits for the answer, is no
\* URLError and ends replay_states.py; run_live goes on after any error.
Failed(bare) ==
    IF w.tries + 1 < Tries THEN [w EXCEPT !.on = {}, !.tries = @ + 1]
    ELSE IF bare /\ ~ live THEN [w EXCEPT !.at = "down", !.on = {}]
    ELSE Answered

GivesUp(next) == w.at = "state" /\ next.at # "state"

Post ==
    /\ w.at \in {"image", "state", "occupancy"} /\ w.on = {}
    /\ IF w.at = "image" THEN PutImage(out.n) /\ w' = [w EXCEPT !.on = {"loop"}]
       ELSE \E t \in Thread : /\ Take(t, w.at, out.n)
                              /\ w' = [w EXCEPT !.on = {t}]
    /\ UNCHANGED <<filmVars, roiVars, sendVars, lost, faults, viewVars>>

\* The API is not reached, or answers with an error.
PostRefused ==
    /\ w.at \in {"image", "state", "occupancy"} /\ w.on = {} /\ Fault
    /\ w' = Failed(FALSE) /\ lost' = (lost \/ GivesUp(w'))
    /\ UNCHANGED <<filmVars, roiVars, sendVars, apiVars, viewVars>>

PostTimesOut ==
    /\ w.on # {} /\ Fault
    /\ w' = Failed(TRUE) /\ lost' = (lost \/ GivesUp(w'))
    /\ UNCHANGED <<filmVars, roiVars, sendVars, apiVars, viewVars>>

-----------------------------------------------------------------------------
(* The answers. *)

ImageDone ==
    \/ /\ PutMeta
       /\ w' = IF w.on = {"loop"} THEN Answered ELSE w
       /\ UNCHANGED <<filmVars, roiVars, sendVars, lost, faults, viewVars>>
    \/ /\ PutMetaFails /\ Fault
       /\ w' = IF w.on = {"loop"} THEN Failed(FALSE) ELSE w
       /\ UNCHANGED <<filmVars, roiVars, sendVars, lost, viewVars>>

StateDone(t) ==
    /\ CommitState(t)
    /\ w' = IF w.on = {t} THEN Answered ELSE w
    /\ lost' = ((lost /\ w.on # {t}) \/ \E u \in Thread \ {t} : Handling(u, "state"))
    /\ UNCHANGED <<filmVars, roiVars, sendVars, faults, viewVars>>

OccupancyDone(t) ==
    /\ \/ Persist(t) /\ UNCHANGED faults
       \/ PersistFails(t) /\ Fault
    /\ w' = IF w.on = {t} THEN Answered ELSE w
    /\ UNCHANGED <<filmVars, roiVars, sendVars, lost, viewVars>>

ApiRestarts ==
    /\ Restart /\ Fault
    /\ w' = IF w.on # {} THEN Failed(TRUE) ELSE w
    /\ lost' = (lost \/ GivesUp(w'))
    /\ UNCHANGED <<filmVars, roiVars, sendVars, viewVars>>

-----------------------------------------------------------------------------
(* Between frames. *)

\* The next picture; after the last, reset_active and the first.
Sleep ==
    /\ w.at = "sleep"
    /\ LET last == w.tick = Len(footage)
       IN  /\ w' = [w EXCEPT !.at = "roi", !.tick = IF last THEN 1 ELSE @ + 1,
                              !.cycle = IF last THEN @ + 1 ELSE @]
           /\ tracker' = IF last THEN [tracker EXCEPT !.tracks = NoTracker.tracks] ELSE tracker
    /\ roi' = [roi EXCEPT !.age = Min({@ + 1, Refresh})]
    /\ UNCHANGED <<filmVars, file, out, approved, before, missed, lost, seen, apiVars, faults, viewVars>>

\* restart: unless-stopped of docker-compose.yml, also when the host restarts it.
WorkerRestarts ==
    /\ \/ w.at = "down" /\ UNCHANGED faults
       \/ w.at # "down" /\ Fault
    /\ w' = Start /\ roi' = [version |-> 0, age |-> Refresh]
    /\ tracker' = NoTracker /\ seen' = NoTracker.tracks
    /\ lost' = (lost \/ \E t \in Thread : Handling(t, "state"))
    /\ UNCHANGED <<filmVars, file, out, approved, before, missed, apiVars, viewVars>>

-----------------------------------------------------------------------------
Init ==
    /\ StoreInit /\ ViewInit
    /\ footage \in Footages /\ live \in BOOLEAN
    /\ w = Start
    /\ roi = [version |-> 0, age |-> Refresh] /\ file = 0
    /\ tracker = NoTracker /\ out = NotSent /\ seen = NoTracker.tracks
    /\ approved = 0 /\ before = [i \in 1..Refresh |-> 0]
    /\ missed = FALSE /\ lost = FALSE

Others == UNCHANGED workVars
Next ==
    \/ Approve \/ StartFrame \/ Post \/ PostRefused \/ PostTimesOut
    \/ ImageDone \/ ApiRestarts \/ Sleep \/ WorkerRestarts
    \/ \E t \in Thread : \/ StateDone(t) \/ OccupancyDone(t)
                         \/ SaveOccupancy(t) /\ Others /\ UNCHANGED <<faults, viewVars>>
                         \/ Fill(t) /\ Others /\ UNCHANGED <<faults, viewVars>>
    \/ ViewNext /\ Others

Spec == Init /\ [][Next]_vars

-----------------------------------------------------------------------------
(* Properties. *)

\* A frame is judged by a version at least as new as the one approved Refresh
\* frames ago, unless the last check failed; and the replay never goes back to an
\* older version than the one it has, whatever fails.
RoiFollows ==
    [][out' # out =>
         /\ missed' \/ out'.roi >= before'[1]
         /\ live \/ out'.roi >= roi.version]_vars

\* The state shown beside an occupancy frame is that of the frame or of a later
\* one, whatever is retried or restarted, unless a state never arrived.
ShownStateNotOlder ==
    [][shown' # shown => lost \/ state >= shown']_vars

\* The agents of a frame and the counts of the state posted with it agree.
AgentsMatchCounts ==
    LET in(S) == Cardinality({k \in DOMAIN out.agents : out.agents[k].state \in S})
    IN  /\ in({"queue"}) = out.queue
        /\ Cardinality({k \in DOMAIN out.agents : out.agents[k].role # "staff"}) = out.visible

\* Nobody shares an id, and who gets an id again is the one who had it: near the
\* place and within the frames it may be missed, in the same run of the film.
IdsFollowPeople ==
    [][out' # out /\ ~ live =>
         \A k \in DOMAIN out'.agents :
           LET a == out'.agents[k]
           IN  /\ \A j \in DOMAIN out'.agents : out'.agents[j].id = a.id => j = k
               /\ a.id \in DOMAIN seen =>
                    /\ seen[a.id].cycle = w.cycle
                    /\ out'.n - seen[a.id].n <= MaxMissed + 1
                    /\ Far(a.at, seen[a.id].at) <= Square(MaxDistance)]_vars

\* Every polygon the API accepts holds, by the test for where people stand, as
\* many points as its area and border say.
ZonesHoldTheirPoints ==
    out = NotSent /\ live /\ approved = 0 =>
        \A poly \in Polygons : Accepted(poly) => Picks(poly, GridSide)

\* What the API serves is what was last saved, and its headers fit its pictures.
ApiServesLatest == LatestUnlessOverlap /\ HeadersNotAhead

\* The counts and the agents a frame is posted with agree, over zones that hold
\* exactly the places within them.
CountsFollowZones == AgentsMatchCounts /\ ZonesHoldTheirPoints
=============================================================================
