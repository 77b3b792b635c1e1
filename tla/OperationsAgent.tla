--------------------------- MODULE OperationsAgent ---------------------------
(***************************************************************************)
(* The agent of the head office (operations_agent.py): a model chooses      *)
(* which tools to call, five turns long at most; where it fails, or never   *)
(* gets as far as the comparison, rules run the tools still missing.  What  *)
(* is recommended is worked out from the comparison, not by the model.      *)
(*                                                                          *)
(* A run is worked through a script: the turns of the model, each a failure *)
(* or a sequence of calls (none is an answer in words), and the calls the   *)
(* rules would make.  A call comes with what the API answers: a failure,    *)
(* whether the summary has the store and says its orders are simulated, the *)
(* points of the timeline as <<hour, orders>>.  Rates are times Scale.      *)
(***************************************************************************)
EXTENDS OperationsSimulation, SequencesExt

CONSTANTS MaxAgentTurns,   \* MAX_AGENT_TURNS
          Hours,           \* hours of a day
          FallbackProfile, \* FALLBACK_PROFILE
          FallbackHour,    \* where it is said to begin
          MaxRate,         \* the largest arrivals_per_hour the API takes
          Scale,           \* a multiple of the number of days with an hour
          Scripts          \* runs of the agent

ASSUME AgentAssumption ==
    /\ MaxAgentTurns \in Nat /\ Hours \in Nat /\ Hours > 3 /\ Scale \in Nat \ {0}
    /\ FallbackHour \in Nat /\ MaxRate \in Nat /\ Len(FallbackProfile) = 3

Tools == <<"summary", "timeline", "compare">>

\* The rules make each call once, in this order.
Call == [tool : STRING, fails : BOOLEAN, store : {"absent", "synthetic"}, points : Seq(Nat \X Nat)]
ModelTurn == [fails : BOOLEAN, calls : Seq(Call)]
Script == [turns : Seq(ModelTurn), rules : {r \in Seq(Call) : Len(r) = 3 /\ \A k \in 1..3 : r[k].tool = Tools[k]}]

ASSUME ScriptAssumption == \A script \in Scripts : script \in Script

NoProfile == [source |-> "none", hour |-> 0, rates |-> <<>>]

\* The mean number of orders of an hour, over the days that have it.
Mean(counts) ==
    IF counts = <<>> THEN 0
    ELSE (Scale * FoldLeft(LAMBDA n, p : n + p[2], 0, counts)) \div Len(counts)
HourlyRate(points, hour) == Mean(SelectSeq(points, LAMBDA p : p[1] = hour))

Window(points, hour) == [k \in 1..3 |-> HourlyRate(points, hour + k - 1)]
Total(rates) == rates[1] + rates[2] + rates[3]

\* The busiest three hours of a day, the earlier of equals.
PeakHour(points) ==
    LET starts == 0..Hours - 3
        total == [h \in starts |-> Total(Window(points, h))]
    IN  CHOOSE h \in starts : \A g \in starts :
          total[g] < total[h] \/ (total[g] = total[h] /\ h <= g)

\* build_peak_arrival_profile.
ProfileAt(peak, rates, days) ==
    IF Total(rates) = 0 \/ days < 3
    THEN [source |-> "presentation_fallback", hour |-> FallbackHour,
          rates |-> [k \in 1..3 |-> Scale * FallbackProfile[k]]]
    ELSE [source |-> "selected_period_hourly_orders", hour |-> peak, rates |-> rates]
PeakFrom(points, peak) == ProfileAt(peak, Window(points, peak), Len(points))
PeakProfile(points) == PeakFrom(points, PeakHour(points))

\* The three hours spread over the duration asked for.
Segments(profile) ==
    [k \in 1..3 |-> Segment(((k - 1) * Duration) \div 3, (k * Duration) \div 3, profile.rates[k])]

\* What POST /operations-simulations/compare takes.
Accepted(segments) ==
    ValidProfile(segments) /\ \A k \in DOMAIN segments : segments[k].rate <= Scale * MaxRate

-----------------------------------------------------------------------------
Fresh == [summary |-> "none", profile |-> NoProfile, compared |-> NoProfile, label |-> "none",
          trace |-> <<>>, failed |-> FALSE, answered |-> FALSE]

\* Mutant of Execute: the comparison does not wait for a profile.
ExecuteAtOnce(a, call) ==
    CASE call.fails -> [a EXCEPT !.failed = TRUE]
      [] ~call.fails /\ call.tool = "summary" -> [a EXCEPT !.summary = call.store]
      [] ~call.fails /\ call.tool = "timeline" -> [a EXCEPT !.profile = PeakProfile(call.points)]
      [] ~call.fails /\ call.tool = "compare" ->
           [a EXCEPT !.compared = a.profile, !.label = a.profile.source]
      [] OTHER -> a

\* execute_tool.  A comparison without a profile, or a tool there is none of, is
\* answered with a message; a call that fails leaves everything as it was.
Execute(a, call) ==
    CASE call.tool = "summary" ->
           IF call.fails THEN [a EXCEPT !.failed = TRUE] ELSE [a EXCEPT !.summary = call.store]
      [] call.tool = "timeline" ->
           IF call.fails THEN [a EXCEPT !.failed = TRUE]
           ELSE [a EXCEPT !.profile = PeakProfile(call.points)]
      [] call.tool = "compare" /\ a.profile # NoProfile ->
           IF call.fails \/ ~Accepted(Segments(a.profile)) THEN [a EXCEPT !.failed = TRUE]
           ELSE [a EXCEPT !.compared = a.profile,
                          !.label = IF a.summary = "synthetic" THEN "synthetic_order_simulator"
                                    ELSE a.profile.source]
      [] OTHER -> a

\* The tool is announced, run and reported; after a failure nothing more is.
Logged(a, step, call) == [a EXCEPT !.trace = Append(@, <<step, call.tool>>)]
Reported(a, call) == IF a.failed THEN a ELSE Logged(a, "completed", call)
CallTool(a, call) ==
    IF a.failed THEN a ELSE Reported(Execute(Logged(a, "started", call), call), call)

Turn(a, turn) ==
    CASE a.failed \/ a.answered -> a
      [] ~(a.failed \/ a.answered) /\ turn.fails -> [a EXCEPT !.failed = TRUE]
      [] ~(a.failed \/ a.answered) /\ ~turn.fails /\ turn.calls = <<>> -> [a EXCEPT !.answered = TRUE]
      [] OTHER -> FoldLeft(CallTool, a, turn.calls)

\* The turns of the model, the last of which is an answer unless they run out.
ModelRun(turns) ==
    FoldLeft(Turn, Fresh, SubSeq(turns, 1, Min({Len(turns), MaxAgentTurns})))

Missing(a, tool) ==
    CASE tool = "summary"  -> a.summary = "none"
      [] tool = "timeline" -> a.profile = NoProfile
      [] tool = "compare"  -> a.compared = NoProfile

\* Mutant of FallbackRun: the rules begin again.
FallbackFromStart(a, rules) == FoldLeft(CallTool, [Fresh EXCEPT !.trace = a.trace], rules)

\* The rules run each tool whose result is still missing, in the order of Tools.
Ruled(a, call) == IF Missing(a, call.tool) THEN CallTool(a, call) ELSE a
FallbackRun(a, rules) == FoldLeft(Ruled, [a EXCEPT !.failed = FALSE], rules)

\* stream: the model, and the rules where it did not get to the comparison.  A
\* call of theirs that fails ends the stream with run_failed.
RulesNeeded(a) == a.failed \/ a.compared = NoProfile
Ended(a, b) ==
    [outcome |-> IF b.failed THEN "run_failed" ELSE "run_completed",
     source |-> IF RulesNeeded(a) THEN "rule_fallback" ELSE "gemini_tool_agent",
     model |-> a, state |-> b]
AfterModel(a, rules) == Ended(a, IF RulesNeeded(a) THEN FallbackRun(a, rules) ELSE a)
AgentRun(script) == AfterModel(ModelRun(script.turns), script.rules)

-----------------------------------------------------------------------------
\* Mutant of VerifiedRecommendation: the most that suffices.
VerifiedLargest(opts, current) ==
    LET passing == {n \in DOMAIN opts : opts[n].unmet = {}}
        selected == Max(IF passing = {} THEN DOMAIN opts ELSE passing)
    IN  [selected |-> selected, sufficient |-> passing # {}, advice |-> "keep",
         completedGain |-> 0, abandonedReduction |-> 0]

\* _verified_recommendation of an API that lists the options.
VerifiedRecommendation(opts, current) ==
    LET passing == {n \in DOMAIN opts : opts[n].unmet = {}}
        selected == IF passing # {} THEN Min(passing) ELSE Max(DOMAIN opts)
        now_ == opts[IF current \in DOMAIN opts THEN current ELSE 1].metrics
        then == opts[selected].metrics
    IN  [selected |-> selected,
         sufficient |-> passing # {},
         advice |-> CASE passing = {} -> "insufficient"
                      [] passing # {} /\ selected > current -> "more"
                      [] passing # {} /\ selected < current -> "fewer"
                      [] OTHER -> "keep",
         completedGain |-> then.completed - now_.completed,
         abandonedReduction |-> now_.abandoned - then.abandoned]

-----------------------------------------------------------------------------
(* Properties. *)

\* How often an event, and how often a step of any tool, was reported.
Traced(trace, event) == Cardinality({k \in DOMAIN trace : trace[k] = event})
Steps(trace, step) == Cardinality({k \in DOMAIN trace : trace[k][1] = step})

Finishes(outcome, source, before, after) ==
    /\ outcome = "run_completed" =>
         /\ after.compared # NoProfile /\ Accepted(Segments(after.compared))
         /\ \E k \in DOMAIN after.trace : after.trace[k] = <<"completed", "timeline">>
    /\ outcome = "run_failed" <=>
         /\ source = "rule_fallback"
         /\ Last(after.trace)[1] = "started" /\ after.trace # before.trace
    /\ \A t \in ToSet(Tools) :
         Traced(after.trace, <<"started", t>>) - Traced(before.trace, <<"started", t>>)
           <= (IF source = "rule_fallback" /\ Missing(before, t) THEN 1 ELSE 0)
    /\ IsPrefix(before.trace, after.trace)
    /\ Steps(after.trace, "started") - Steps(after.trace, "completed") <= 2
    /\ before.compared # NoProfile => after.compared = before.compared

\* However the model calls the tools and whatever fails, a run ends with a
\* comparison made from a profile the API took, or because a call of the rules
\* failed; the rules call nothing whose result is there, and so lose nothing the
\* model found out; a tool that was started and not completed is one that failed.
AgentFinishes(script) ==
    LET run_ == AgentRun(script)
    IN  Finishes(run_.outcome, run_.source, run_.model, run_.state)

\* The scripts are worked through where the simulation begins, with one demand.
Begins == /\ now = 0 /\ staff = 1 /\ options = <<>> /\ phase = [c \in Customers |-> "coming"]
          /\ demand = CHOOSE d \in Demands(<<Segment(0, Duration, 1)>>) : TRUE
AgentAlwaysFinishes == Begins => \A script \in Scripts : AgentFinishes(script)

\* The number worked out from the options is the one the comparison recommends,
\* it is said to suffice exactly where it does, and nobody is told to do with fewer
\* staff where those did not meet the targets.
VerifiedAgrees(opts, chosen, current) ==
    LET v == VerifiedRecommendation(opts, current)
    IN  /\ v.selected = chosen
        /\ v.sufficient <=> Meets(opts, chosen)
        /\ v.advice = "fewer" => Meets(opts, v.selected)

\* Nobody who reads the comparison or the agent is told another number of staff,
\* and it is the least that meets the targets of the runs it comes from.
OneNumberRecommended ==
    /\ RecommendationIsLeast
    /\ recommended # 0 => \A current \in 1..MaxStaff : VerifiedAgrees(options, recommended, current)
=============================================================================
