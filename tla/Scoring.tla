------------------------------ MODULE Scoring ------------------------------
(***************************************************************************)
(* app/scoring.py and app/universe.py: portfolio weights, momentum, the    *)
(* quality gates, the scores within the pools of ETFs and stocks, the top  *)
(* candidates.                                                             *)
(*                                                                         *)
(* A list of positions is a sequence of records.  Percentages and ratios   *)
(* are integers, weights and scores integers in hundredths; NULL is None.  *)
(* z-scores are rounded down to hundredths, for which a square root is     *)
(* compared by its square.                                                 *)
(***************************************************************************)
EXTENDS Integers, FiniteSets, Sequences, SequencesExt, FiniteSetsExt, Folds, Comprehension

CONSTANT NULL

ASSUME ScoringAssumption == NULL \notin Int /\ NULL \notin {"rsi", "near high", "momentum"}

COOLDOWN_DAYS == 10
OrZero(x) == IF x = NULL THEN 0 ELSE x
Round(a, b) == (2 * a + b) \div (2 * b)
Kept(f) == {i \in DOMAIN f : f[i] # NULL}

TotalValue(ps) == SumFunction([i \in DOMAIN ps |-> OrZero(ps[i].value)])

compute_portfolio_weights(ps) ==
    [i \in DOMAIN ps |->
        [ps[i] EXCEPT !.weight = IF TotalValue(ps) = 0 THEN 0
                                 ELSE Round(10000 * OrZero(ps[i].value), TotalValue(ps))]]

(* In tenths of a percent; what is missing counts as 0.                    *)
compute_momentum_score(p) ==
    IF p.perf_30d = NULL /\ p.perf_90d = NULL /\ p.perf_1y = NULL THEN NULL
    ELSE 2 * OrZero(p.perf_30d) + 3 * OrZero(p.perf_90d) + 5 * OrZero(p.perf_1y)

-----------------------------------------------------------------------------
(* The quality gates: the first that blocks, or NULL. *)
BlockedBy(p) ==
    LET momentum == compute_momentum_score(p)
    IN  IF p.kind = "ETF" THEN NULL
        ELSE IF p.rsi # NULL /\ p.rsi >= 70 THEN "rsi"
        ELSE IF p.dist # NULL /\ p.dist >= -3 THEN "near high"
        ELSE IF momentum # NULL /\ momentum <= -250 THEN "momentum"
        ELSE NULL

is_buyable(p) == BlockedBy(p) = NULL

-----------------------------------------------------------------------------
(* z-scores *)

(* Ten thousand times x / y, by long division: the product would not fit.  *)
NextDigit(acc, y) == [quotient |-> 10 * acc.quotient + (10 * acc.rest) \div y,
                      rest |-> (10 * acc.rest) % y]
TenThousandths(x, y) ==
    LET Digit(acc) == NextDigit(acc, y)
    IN  Digit(Digit(Digit(Digit([quotient |-> x \div y, rest |-> x % y])))).quotient

(* |deviation| / (3 std) in hundredths, at most the 50 that matter; dev is *)
(* n times the deviation, squares the sum of the squares of the dev.  It is*)
(* the number of hundredths that fit.                                      *)
Spread(dev, n, squares) ==
    LET square == TenThousandths(dev * dev * (n - 1), 9 * squares)
    IN  Cardinality({b \in 1..50 : b * b <= square})

(* 0.5 + (v - mean) / (3 * std), within 0..1, for the values of a function.*)
Deviations(v) ==
    LET sum == SumFunction(v)
    IN  [i \in DOMAIN v |-> Cardinality(DOMAIN v) * v[i] - sum]

FromDeviations(dev, n) ==
    LET squares == SumFunction([i \in DOMAIN dev |-> dev[i] * dev[i]])
        Sign(x) == IF x < 0 THEN -1 ELSE 1
    IN  [i \in DOMAIN dev |->
            IF n < 4 \/ squares = 0 THEN 50 ELSE 50 + Sign(dev[i]) * Spread(dev[i], n, squares)]

_zscore_normalize(v) == FromDeviations(Deviations(v), Cardinality(DOMAIN v))

(* The normalised values of those that have one; the others get none.      *)
Filled(f, z) == [i \in DOMAIN f |-> IF f[i] = NULL THEN NULL ELSE z[i]]
Normalised(f) == Filled(f, _zscore_normalize([i \in Kept(f) |-> f[i]]))
Negated(f) == [i \in DOMAIN f |-> IF f[i] = NULL THEN NULL ELSE 0 - f[i]]
OrNeutral(f) == [i \in DOMAIN f |-> IF f[i] = NULL THEN 50 ELSE f[i]]

_normalize_lower_better(f) == Normalised(Negated(f))

-----------------------------------------------------------------------------
(* The six factors of a pool (a function to positions), in hundredths *)

CleanRatio(x) == IF x = NULL THEN NULL ELSE IF x > 0 THEN x ELSE NULL

MeanOfPresent(pe, pb) ==
    [i \in DOMAIN pe |-> IF pe[i] # NULL /\ pb[i] # NULL THEN (pe[i] + pb[i]) \div 2
                         ELSE IF pe[i] # NULL THEN pe[i]
                         ELSE IF pb[i] # NULL THEN pb[i] ELSE 50]

ValueFactor(pool) ==
    MeanOfPresent(_normalize_lower_better([i \in DOMAIN pool |-> CleanRatio(pool[i].pe)]),
                  _normalize_lower_better([i \in DOMAIN pool |-> CleanRatio(pool[i].pb)]))

MomentumFactor(pool) ==
    OrNeutral(Normalised([i \in DOMAIN pool |-> compute_momentum_score(pool[i])]))

DistanceFactor_Positive(pool) == OrNeutral(Normalised([i \in DOMAIN pool |-> pool[i].dist]))

(* The further below the high, the better.                                 *)
DistanceFactor(pool) ==
    OrNeutral(Normalised(Negated([i \in DOMAIN pool |-> pool[i].dist])))

RsiFactor(pool) == OrNeutral(Normalised(Negated([i \in DOMAIN pool |-> pool[i].rsi])))

(* Watchlist entries have no weight: neutral, and outside the z-score.     *)
(* Weights are compared in tenths of a percent.                            *)
WeightFactor(pool) ==
    OrNeutral(Normalised(Negated(
        [i \in DOMAIN pool |-> IF pool[i].owned THEN pool[i].weight \div 10 ELSE NULL])))

(* Days since the last buy, up to the cooldown.                            *)
RecencyFactor(pool) ==
    OrNeutral(Normalised([i \in DOMAIN pool |->
        IF pool[i].last_buy = NULL THEN NULL
        ELSE Max({0, Min({COOLDOWN_DAYS, pool[i].last_buy})})]))

BuyScore(pool) ==
    LET value == ValueFactor(pool)        momentum == MomentumFactor(pool)
        distance == DistanceFactor(pool)  rsi == RsiFactor(pool)
        weight == WeightFactor(pool)      recency == RecencyFactor(pool)
    IN  [i \in DOMAIN pool |->
            Round(20 * value[i] + 15 * momentum[i] + 20 * distance[i]
                  + 15 * rsi[i] + 20 * weight[i] + 10 * recency[i], 100)]

-----------------------------------------------------------------------------
PoolOf(ps, kind) == LET members == {i \in DOMAIN ps : ps[i].kind = kind}
                    IN  [i \in members |-> ps[i]]

PoolScores_Ungated(pool) ==
    LET score == BuyScore(pool)
    IN  [i \in DOMAIN pool |-> IF Cardinality(DOMAIN pool) < 4 THEN NULL ELSE score[i]]

(* No score below four positions, and none for what a gate blocks; those   *)
(* are in the pool all the same.                                           *)
PoolScores(pool) ==
    LET score == BuyScore(pool)
    IN  [i \in DOMAIN pool |->
            IF Cardinality(DOMAIN pool) < 4 \/ ~is_buyable(pool[i]) THEN NULL ELSE score[i]]

(* The scores of both pools in one list; what is in neither has none.      *)
WithScores(ps, etfs, stocks) ==
    [i \in DOMAIN ps |-> [ps[i] EXCEPT !.score =
        IF i \in DOMAIN etfs THEN etfs[i] ELSE IF i \in DOMAIN stocks THEN stocks[i] ELSE NULL]]

compute_scores(ps) == WithScores(ps, PoolScores(PoolOf(ps, "ETF")), PoolScores(PoolOf(ps, "STOCK")))

(* The scored ones of a list, best first.                                  *)
Ranking(ps) ==
    StableSort(Those(ps, LAMBDA p : p.score # NULL), LAMBDA p, q : p.score > q.score)
FirstN(s, n) == SubSeq(s, 1, Min({n, Len(s)}))

get_top_candidates(ps, n) ==
    LET Of(kind) == FirstN(Those(Ranking(ps), LAMBDA p : p.kind = kind), n)
    IN  [etfs |-> Of("ETF"), stocks |-> Of("STOCK")]

(* The watchlist scored among copies of the owned positions.               *)
score_universe(owned, watch) ==
    Those(compute_scores(owned \o watch), LAMBDA p : ~p.owned)
=============================================================================
