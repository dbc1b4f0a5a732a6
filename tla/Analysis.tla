------------------------------ MODULE Analysis ------------------------------
(***************************************************************************)
(* What the service makes of an enriched portfolio: weights, scores, the   *)
(* summary with its candidates (app/main.py), health alerts                *)
(* (app/health_checks.py) and, on request, the plan for a contribution,    *)
(* which may be asked for against another total and then leaves other      *)
(* weights behind in the portfolio it was given.                           *)
(***************************************************************************)
EXTENDS Rebalance

CONSTANTS
    Held,           \* the positions, in DeGiro's order, each by its instrument
    Watched,        \* the entries of the watchlist, in its order, some perhaps held as well
    Markets,        \* what enrichment may find: functions from what is held to its data
    WatchMarkets,   \* what the later enrichment of the watchlist may find, likewise
    Amounts,        \* contributions, in cents
    Totals          \* values of total_portfolio_eur, in cents

Ids == Range(Held) \cup Range(Watched)

Maybe(S) == S \cup {NULL}

(* Long positions of whole shares; enrichment may leave anything unknown.  *)
Findable(data) ==
    /\ {"id", "owned", "kind", "sector", "symbol", "currency", "value", "quantity", "price",
         "rsi", "dist", "perf_30d", "perf_90d", "perf_1y", "pe", "pb", "last_buy",
         "weight", "score"} \subseteq DOMAIN data
    /\ data.quantity \in 0..PRICE_SCALE
    /\ data.value \in Maybe(Nat) /\ data.price \in Maybe(Nat)
    /\ \A field \in {"rsi", "dist", "perf_30d", "perf_90d", "perf_1y", "pe", "pb", "last_buy"} :
          data[field] \in Maybe(Int)

ASSUME AnalysisAssumption ==
    /\ Held \in Seq(Ids) /\ Watched \in Seq(Ids)
    /\ Amounts \subseteq Int /\ Totals \subseteq Int
    /\ \A market \in Markets : \A i \in DOMAIN Held : Findable(market[Held[i]])
    /\ \A quotes \in WatchMarkets : \A i \in DOMAIN Watched : Findable(quotes[Watched[i]])

(* Every position is known by a symbol of its own.                         *)
SymbolsApart ==
    \A market \in Markets : \A i, j \in DOMAIN Held :
        market[Held[i]].symbol = market[Held[j]].symbol => i = j

VARIABLES
    portfolio,  \* the session's summary, or NULL
    plan,       \* the last plan computed from it, or NULL
    response    \* of the last request for a plan: 200, 400, 500 or NULL

vars == <<portfolio, plan, response>>

HEALTH_POSITION_THRESHOLD == 20
HEALTH_SECTOR_THRESHOLD == 40
HEALTH_DRAWDOWN_THRESHOLD == -10
HEALTH_REBALANCE_THRESHOLD == 5
HEALTH_OVERBOUGHT_RSI == 70
HEALTH_NEAR_HIGH_PCT == -3

-----------------------------------------------------------------------------
(* The summary *)

Magnitude(x) == Max({x, -x})

(* The allocation of a class, in tenths of a percent. *)
AllocationPct(ps, kind) ==
    LET value == SumFunction([i \in {k \in DOMAIN ps : ps[k].kind = kind} |-> OrZero(ps[i].value)])
    IN  IF TotalValue(ps) > 0 THEN Round(1000 * value, TotalValue(ps)) ELSE 0

(* The best of the owned three and of the whole watchlist.                 *)
merge_watchlist_candidates(owned, watch, top, n) ==
    LET theirs == get_top_candidates(score_universe(owned, watch), Len(watch))
        Best(mine, others) == FirstN(Ranking(mine \o others), n)
    IN  [etfs |-> Best(top.etfs, theirs.etfs), stocks |-> Best(top.stocks, theirs.stocks)]

-----------------------------------------------------------------------------
(* Health alerts: a type, and a position or a sector where it is about one *)

Alert(type, about) == [type |-> type, about |-> about]

_check_concentration(ps) ==
    {Alert("concentration", ps[i].id) :
        i \in {k \in DOMAIN ps : ps[k].weight > 100 * HEALTH_POSITION_THRESHOLD}}

_check_sector_weighting(ps) ==
    LET stocks == Those(ps, LAMBDA p : p.kind # "ETF")
        In(s) == Those(stocks, LAMBDA p : p.sector = s)
    IN  {Alert("sector", s) : s \in
            {t \in {stocks[i].sector : i \in DOMAIN stocks} :
                100 * TotalValue(In(t)) > HEALTH_SECTOR_THRESHOLD * TotalValue(stocks)}}

_check_drawdown(ps) ==
    LET ytd == SumFunction([i \in DOMAIN ps |-> OrZero(ps[i].perf_ytd) * OrZero(ps[i].value)])
    IN  IF ytd < HEALTH_DRAWDOWN_THRESHOLD * TotalValue(ps) THEN {Alert("drawdown", NULL)} ELSE {}

_check_rebalancing(etf_pct, stock_pct) ==
    IF \/ Magnitude(etf_pct - 10 * TARGET_ETF_PCT) > 10 * HEALTH_REBALANCE_THRESHOLD
       \/ Magnitude(stock_pct - 10 * TARGET_STOCK_PCT) > 10 * HEALTH_REBALANCE_THRESHOLD
    THEN {Alert("rebalancing", NULL)} ELSE {}

(* Too hot to buy: both signals known, both beyond their thresholds.       *)
_check_trim_candidates(ps) ==
    {Alert("trim_candidate", ps[i].id) : i \in
        {k \in DOMAIN ps : /\ ps[k].rsi # NULL /\ ps[k].rsi >= HEALTH_OVERBOUGHT_RSI
                           /\ ps[k].dist # NULL /\ ps[k].dist >= HEALTH_NEAR_HIGH_PCT}}

compute_health_alerts(ps) ==
    _check_concentration(ps) \cup _check_sector_weighting(ps) \cup _check_drawdown(ps)
    \cup _check_rebalancing(AllocationPct(ps, "ETF"), AllocationPct(ps, "STOCK"))
    \cup _check_trim_candidates(ps)

-----------------------------------------------------------------------------
Position(id, data, owned) == [data EXCEPT !.id = id, !.owned = owned]

Summary(owned, top) ==
    [positions |-> owned,
     total |-> TotalValue(owned),
     top_candidates |-> top,
     health_alerts |-> compute_health_alerts(owned)]

(* An enrichment, from whatever market data Yahoo gives.  The watchlist is *)
(* enriched apart and later, what is held of it too; where that fails the  *)
(* candidates are the owned ones.  Nothing depends on the portfolio before,*)
(* so it is taken in an empty session.                                     *)
EnrichAndScore ==
    /\ portfolio = NULL
    /\ \E market \in Markets, quotes \in WatchMarkets :
            LET held == [i \in DOMAIN Held |-> Position(Held[i], market[Held[i]], TRUE)]
                watch == [i \in DOMAIN Watched |-> Position(Watched[i], quotes[Watched[i]], FALSE)]
                owned == compute_scores(compute_portfolio_weights(held))
                top == get_top_candidates(owned, 3)
            IN  \/ portfolio' = Summary(owned, top)
                \/ portfolio' = Summary(owned, merge_watchlist_candidates(owned, watch, top, 3))
    /\ plan' = NULL
    /\ response' = NULL

(* The weights against another total, which stay in the session's list.   *)
Reweighed(ps, total) ==
    [i \in DOMAIN ps |-> [ps[i] EXCEPT !.weight = 10 * Round(1000 * ps[i].value, total)]]

(* GET /api/rebalance-plan, with total_portfolio_eur or without (NULL).    *)
RefusePlan(amount) ==
    /\ amount <= 0
    /\ response' = 400
    /\ UNCHANGED <<portfolio, plan>>

EmptyPlan(amount) ==
    /\ amount > 0 /\ portfolio = NULL
    /\ plan' = NoPlan(amount)
    /\ response' = 200
    /\ UNCHANGED portfolio

MakePlan(amount, total_portfolio_eur) ==
    /\ amount > 0 /\ portfolio # NULL
    /\ LET override == total_portfolio_eur # NULL /\ total_portfolio_eur > 0
           total == IF override THEN total_portfolio_eur ELSE portfolio.total
           ps == IF override /\ Valued(portfolio.positions)
                 THEN Reweighed(portfolio.positions, total) ELSE portfolio.positions
       IN  /\ portfolio' = [portfolio EXCEPT !.positions = ps]
           /\ plan' = plan_contribution(ps, total, amount)
           /\ response' = IF plan' = NULL THEN 500 ELSE 200

get_rebalance_plan(amount, total_portfolio_eur) ==
    RefusePlan(amount) \/ EmptyPlan(amount) \/ MakePlan(amount, total_portfolio_eur)

(* Logout, or the end of the session.                                      *)
Discard ==
    /\ portfolio # NULL
    /\ portfolio' = NULL
    /\ plan' = NULL
    /\ response' = NULL

Init == portfolio = NULL /\ plan = NULL /\ response = NULL

Next ==
    \/ EnrichAndScore
    \/ \E amount \in Amounts, total_portfolio_eur \in Maybe(Totals) :
           get_rebalance_plan(amount, total_portfolio_eur)
    \/ Discard

Spec == Init /\ [][Next]_vars

-----------------------------------------------------------------------------
(* Every variable has its type: scores are in their range, and a plan      *)
(* holds back no more than was given.  A weight against a total that is    *)
(* less than what is held may be above 100 percent.                        *)
TypeOK ==
    /\ portfolio # NULL =>
         \A i \in DOMAIN portfolio.positions :
              /\ portfolio.positions[i].weight \in Nat
              /\ portfolio.positions[i].score \in Maybe(0..100)
    /\ plan # NULL => plan.hold_reserve \in 0..plan.amount
    /\ response \in Maybe({200, 400, 500})

(* compute_scores: of two positions of a pool that lack the same data, the *)
(* one that is no worse in anything (cheaper on P/E and P/B, further below *)
(* its high, calmer, with more momentum, smaller, bought longer ago) has   *)
(* no lower score, whatever the rest of the pool is.                       *)
AtLeastAsGood(p, q) ==
    LET Lower(x, y) == (x = NULL /\ y = NULL) \/ (x # NULL /\ y # NULL /\ x <= y)
    IN  /\ Lower(CleanRatio(p.pe), CleanRatio(q.pe))
        /\ Lower(CleanRatio(p.pb), CleanRatio(q.pb))
        /\ Lower(compute_momentum_score(q), compute_momentum_score(p))
        /\ Lower(p.dist, q.dist)
        /\ Lower(p.rsi, q.rsi)
        /\ Lower(OrZero(p.value), OrZero(q.value))
        /\ Lower(q.last_buy, p.last_buy)
BetterScoresHigher ==
    portfolio # NULL =>
        \A i, j \in DOMAIN portfolio.positions :
            LET p == portfolio.positions[i]
                q == portfolio.positions[j]
            IN  p.kind = q.kind /\ p.score # NULL /\ q.score # NULL /\ AtLeastAsGood(p, q)
                => p.score >= q.score

(* The candidates and the alerts of one summary do not contradict each     *)
(* other: no stock is offered for buying with the very signals for which   *)
(* it would be trimmed, and none that is held and too hot is offered as    *)
(* held.  A stock that is watched as well is offered by what the second    *)
(* enrichment found: where that found nothing it may be in both lists.     *)
NeverBuyAndTrim ==
    portfolio # NULL =>
        \A c \in Range(portfolio.top_candidates.stocks) :
            /\ _check_trim_candidates(<<c>>) = {}
            /\ c.owned => Alert("trim_candidate", c.id) \notin portfolio.health_alerts

Unaccounted == Spent(plan.buys) + plan.hold_reserve - plan.amount

(* What a plan spends and what it holds back make the contribution, to a   *)
(* cent for the two budgets and one for each top-up, which rounds.         *)
PlanReconciles ==
    plan # NULL => Magnitude(Unaccounted) <= 1 + 2 * TOP_UPS

(* "Sum of spends + hold_reserve must equal amount requested", to less     *)
(* than two cents, as the tests of the planner check it.                   *)
ReconcilesAsTested ==
    plan # NULL => Magnitude(Unaccounted) < 2

(* No purchase takes its position over the cap, to a cent, after the       *)
(* whole-share snapping and every top-up.                                  *)
CapHeld ==
    plan # NULL => \A b \in Range(plan.buys) :
        b.value + b.spend <= Percent(POSITION_THRESHOLD, plan.total + plan.amount) + 1

(* Where the total is at least what is held, no class is bought beyond its *)
(* share of the portfolio as it is after the contribution, to a cent for   *)
(* each top-up.                                                            *)
NeverBeyondTarget ==
    portfolio # NULL /\ plan # NULL /\ plan.total >= portfolio.total =>
        LET class == _partition_positions(portfolio.positions)
            Within(held, kind, pct) ==
                LET spend == Spent(Those(plan.buys, LAMBDA b : b.kind = kind))
                IN  spend > 0 =>
                      ClassValue(held) + spend <= TargetValue(pct, plan.total + plan.amount) + TOP_UPS
        IN  /\ Within(class.etfs, "ETF", TARGET_ETF_PCT)
            /\ Within(class.stocks, "STOCK", TARGET_STOCK_PCT)
=============================================================================
