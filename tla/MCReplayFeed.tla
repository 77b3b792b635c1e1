---------------------------- MODULE MCReplayFeed ----------------------------
EXTENDS ReplayFeed, TLC

\* A person as an old recording has it: no id, no state but for the seated.
Person(px, py, type, zone) == [at |-> Pt(px, py), type |-> type, state |-> "none", zone |-> zone]

Tick(ps, queue, visible, raw) == [positions |-> ps, queue |-> queue, visible |-> visible, raw |-> raw]

\* One film in which somebody is not seen for a picture, one short enough to begin
\* again.
MCFootages ==
    {<<Tick(<<Person(0, 0, "staff", "staff"), Person(2, 1, "customer", "waiting")>>, 1, 1, FALSE),
       Tick(<<Person(0, 0, "staff", "staff")>>, 0, 0, FALSE),
       Tick(<<Person(2, 2, "customer", "waiting"), Person(2, 1, "customer", "waiting")>>, 1, 2, FALSE)>>,
     <<Tick(<<Person(1, 1, "customer", "waiting"), Person(2, 1, "customer", "waiting")>>, 1, 2, TRUE),
       Tick(<<Person(2, 1, "customer", "waiting")>>, 1, 1, FALSE)>>}

Zone(t, poly) == [type |-> t, polygon |-> poly]
MCConfig == <<
    <<Zone("staff", <<Pt(0, 0), Pt(2, 0), Pt(0, 2)>>),
      Zone("waiting", <<Pt(2, 0), Pt(6, 0), Pt(6, 4), Pt(2, 4)>>)>>,
    <<Zone("seating", <<Pt(0, 0), Pt(6, 0), Pt(6, 6), Pt(0, 6)>>),
      Zone("staff", <<Pt(4, 0), Pt(6, 0), Pt(6, 6), Pt(4, 6)>>)>> >>

MCPolygons == UNION {[1..k -> GridIn(GridSide)] : k \in {3, 4}}
MCSymmetry == Permutations(Thread)
=============================================================================
