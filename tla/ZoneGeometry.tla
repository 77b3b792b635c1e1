---------------------------- MODULE ZoneGeometry ----------------------------
(***************************************************************************)
(* Polygons of an ROI: which ones the API accepts (models.py), where a     *)
(* person stands and what a frame counts to (replay_states.py).  Points    *)
(* are integers, so the tolerance of the float comparisons is nought.  A   *)
(* zone is [type, polygon], a polygon a sequence of points [x, y].         *)
(***************************************************************************)
EXTENDS Integers, Sequences, FiniteSets, FiniteSetsExt, SequencesExt

CONSTANTS FrameWidth, FrameHeight,  \* of the pictures
          RoiSide                   \* zones are drawn on 0..RoiSide (1000) either way

Pt(px, py) == [x |-> px, y |-> py]

Cross(a, b, c) == (c.x - a.x) * (b.y - a.y) - (c.y - a.y) * (b.x - a.x)
Between(u, v, w) == (u <= v /\ v <= w) \/ (w <= v /\ v <= u)

Following(i, n) == (i % n) + 1
Edge(poly, i) == <<poly[i], poly[Following(i, Len(poly))]>>

-----------------------------------------------------------------------------
(* Validation. *)

\* 0 in line, 1 clockwise, 2 counter-clockwise.
Orientation(a, b, c) ==
    LET v == (b.y - a.y) * (c.x - b.x) - (b.x - a.x) * (c.y - b.y)
    IN  CASE v = 0 -> 0 [] v > 0 -> 1 [] v < 0 -> 2

OnSegment(a, b, c) == Between(a.x, b.x, c.x) /\ Between(a.y, b.y, c.y)

SegmentsIntersect(a, b, c, d) ==
    \/ Orientation(a, b, c) # Orientation(a, b, d) /\ Orientation(c, d, a) # Orientation(c, d, b)
    \/ Orientation(a, b, c) = 0 /\ OnSegment(a, c, b)
    \/ Orientation(a, b, d) = 0 /\ OnSegment(a, d, b)
    \/ Orientation(c, d, a) = 0 /\ OnSegment(c, a, d)
    \/ Orientation(c, d, b) = 0 /\ OnSegment(c, b, d)

TwiceArea(poly) ==
    LET n == Len(poly)
        sum == FoldFunction(+, 0,
                 [i \in 1..n |-> poly[i].x * poly[Following(i, n)].y - poly[Following(i, n)].x * poly[i].y])
    IN  IF sum < 0 THEN 0 - sum ELSE sum

\* Edges that share a corner are not compared with each other.
Accepted(poly) ==
    LET n == Len(poly)
        apart == {p \in (1..n) \X (1..n) :
                    p[1] < p[2] /\ p[2] # p[1] + 1 /\ ~ (p[1] = 1 /\ p[2] = n)}
    IN  /\ \A i, j \in 1..n : poly[i] = poly[j] => i = j
        /\ TwiceArea(poly) # 0
        /\ \A p \in apart : LET e == Edge(poly, p[1])
                                f == Edge(poly, p[2])
                            IN  ~ SegmentsIntersect(e[1], e[2], f[1], f[2])

-----------------------------------------------------------------------------
(* Where somebody stands. *)

OnEdge(p, e) == Cross(e[1], e[2], p) = 0 /\ OnSegment(e[1], p, e[2])

\* The edge passes the height of p, and p is to its left.
Passes(p, e) ==
    LET u == e[1]
        v == e[2]
        side == (v.x - u.x) * (p.y - u.y) - (p.x - u.x) * (v.y - u.y)
    IN  /\ (u.y > p.y) # (v.y > p.y)
        /\ IF v.y > u.y THEN side > 0 ELSE side < 0

\* Mutant of PointInPolygon: the border is left to the parity rule.
PointInPolygonParity(p, poly) ==
    Cardinality({i \in DOMAIN poly : Passes(p, Edge(poly, i))}) % 2 = 1

PointInPolygon(p, poly) ==
    /\ Len(poly) >= 3
    /\ \/ \E i \in DOMAIN poly : OnEdge(p, Edge(poly, i))
       \/ Cardinality({i \in DOMAIN poly : Passes(p, Edge(poly, i))}) % 2 = 1

Priority == <<"staff", "waiting", "seating", "entrance">>
NoZone == "none"

\* normalized_roi_point: from pixels, cut off at the border.
Clipped(n, size) == Min({Max({(n * RoiSide) \div size, 0}), RoiSide})
RoiPoint(p) == Pt(Clipped(p.x, FrameWidth), Clipped(p.y, FrameHeight))

\* position_zone: overlapping zones are decided by their type.
PositionZone(p, zones) ==
    LET at == {t \in DOMAIN Priority :
                 \E k \in DOMAIN zones : zones[k].type = Priority[t] /\ PointInPolygon(p, zones[k].polygon)}
    IN  IF at = {} THEN NoZone ELSE Priority[Min(at)]

-----------------------------------------------------------------------------
(* reclassify_state_for_roi. *)

\* The role and the state of a person seen as "was" in a zone.
Role(zone) == IF zone = "staff" THEN "staff" ELSE "customer"
StateIn(zone, was) ==
    CASE zone = "staff"                                          -> "working"
      [] zone = "waiting"                                        -> "queue"
      [] zone = "seating" /\ was = "seated"                      -> "seated"
      [] zone = "entrance" /\ was \in {"entering", "exiting"}    -> was
      [] OTHER                                                   -> "unknown"

\* A position: [at (a point), id, type, state, zone].
InRoi(pos, zones) ==
    LET z == PositionZone(RoiPoint(pos.at), zones)
    IN  [pos EXCEPT !.zone = z, !.type = Role(z), !.state = StateIn(z, pos.state)]

TypesOf(zones) == {zones[k].type : k \in DOMAIN zones}

\* A state: [positions, visible, queue, zones (count per type), version].
Reclassified(state, config) ==
    LET ps == [k \in DOMAIN state.positions |-> InRoi(state.positions[k], config.zones)]
        in(z) == Cardinality({k \in DOMAIN ps : ps[k].zone = z})
    IN  [positions |-> ps,
         visible   |-> Len(ps) - in("staff"),
         queue     |-> in("waiting"),
         zones     |-> [z \in TypesOf(config.zones) |-> in(z)],
         version   |-> config.version]

-----------------------------------------------------------------------------
(* References. *)

GridIn(n) == {Pt(a, b) : a, b \in 0..n}

Dist(a, b) == IF a > b THEN a - b ELSE b - a
Gcd(a, b) == Max({d \in 1..(a + b) : a % d = 0 /\ b % d = 0})

\* Grid points on the border of a simple polygon.
BorderPoints(poly) ==
    FoldFunction(+, 0, [i \in DOMAIN poly |->
        Gcd(Dist(Edge(poly, i)[1].x, Edge(poly, i)[2].x), Dist(Edge(poly, i)[1].y, Edge(poly, i)[2].y))])

\* Pick's theorem: a polygon the API accepts holds, by the test for where people
\* stand, as many grid points as its area and border say.
Picks(poly, n) ==
    2 * Cardinality({p \in GridIn(n) : PointInPolygon(p, poly)})
      = TwiceArea(poly) + BorderPoints(poly) + 2
=============================================================================
