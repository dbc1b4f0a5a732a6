----------------------------- MODULE Rebalance -----------------------------
(***************************************************************************)
(* app/rebalance.py: how a contribution is spread over the positions held. *)
(*                                                                         *)
(* Amounts are in cents, weights and scores in hundredths, allocations in  *)
(* tenths of a percent.  The price of a share is a value over a quantity:  *)
(* it is kept in fractions of a cent, PRICE_SCALE of them to the cent, and *)
(* is rounded where the code rounds.                                       *)
(***************************************************************************)
EXTENDS Scoring

CONSTANTS
    PRICE_SCALE,        \* a multiple of every quantity
    MIN_SPEND_PER_POS   \* 15000 in the code

ASSUME RebalanceAssumption ==
    PRICE_SCALE \in Nat \ {0} /\ MIN_SPEND_PER_POS \in Nat \ {0}

TARGET_ETF_PCT == 70
TARGET_STOCK_PCT == 30
POSITION_THRESHOLD == 20
SECTOR_THRESHOLD == 40
MAX_CANDIDATES == 6
TOP_UPS == 3 * MAX_CANDIDATES   \* of a class at most: a share for each, in three passes

Percent(pct, x) == (pct * x) \div 100
AtLeast0_Unclamped(x) == x
AtLeast0(x) == Max({0, x})

(* What the lists of positions sum to; an unknown value makes Python raise.*)
Valued(ps) == \A i \in DOMAIN ps : ps[i].value # NULL
ClassValue(ps) == SumFunction([i \in DOMAIN ps |-> ps[i].value])
SectorValue(ps, sector) ==
    SumFunction([i \in {k \in DOMAIN ps : ps[k].sector = sector} |-> ps[i].value])

_price_per_share_eur(p) ==
    IF p.quantity > 0 /\ p.value # NULL /\ p.value > 0 THEN (p.value * PRICE_SCALE) \div p.quantity
    ELSE IF p.price # NULL /\ p.price > 0 /\ p.currency = "EUR" THEN p.price * PRICE_SCALE
    ELSE NULL

_partition_positions(ps) ==
    LET Buyable(p) == _price_per_share_eur(p) # NULL /\ p.quantity > 0
    IN  [etfs |-> Those(ps, LAMBDA p : Buyable(p) /\ p.kind = "ETF"),
         stocks |-> Those(ps, LAMBDA p : Buyable(p) /\ p.kind # "ETF"),
         excluded |-> Those(ps, LAMBDA p : ~Buyable(p))]

-----------------------------------------------------------------------------
(* Step 1: the budgets of the classes, by their gaps to the target *)

TargetValue(pct, future_total) == Percent(pct, future_total)

_split_budget_uncapped(amount, total, etfs, stocks) ==
    [etf |-> IF TargetValue(TARGET_ETF_PCT, total + amount) > ClassValue(etfs) THEN amount
             ELSE Percent(TARGET_ETF_PCT, amount),
     stock |-> IF TargetValue(TARGET_ETF_PCT, total + amount) > ClassValue(etfs) THEN 0
               ELSE Percent(TARGET_STOCK_PCT, amount)]

_split_budget_by_drift(amount, total, etfs, stocks) ==
    LET etf_gap == AtLeast0(TargetValue(TARGET_ETF_PCT, total + amount) - ClassValue(etfs))
        stock_gap == AtLeast0(TargetValue(TARGET_STOCK_PCT, total + amount) - ClassValue(stocks))
        total_gap == etf_gap + stock_gap
        Part(gap) == Min({gap, Round(amount * gap, total_gap)})
    IN  IF total_gap > 0 THEN [etf |-> Part(etf_gap), stock |-> Part(stock_gap)]
        ELSE [etf |-> Percent(TARGET_ETF_PCT, amount), stock |-> Percent(TARGET_STOCK_PCT, amount)]

-----------------------------------------------------------------------------
(* Steps 2 and 3: the positions of a class *)

SectorPct(p, sector_values, future_total) ==
    IF future_total = 0 THEN 0 ELSE (100 * sector_values[p.sector]) \div future_total

(* (headroom / 20)^1.5 in hundredths: the number of those that fit. *)
Base(p) ==
    LET tenths == (100 * POSITION_THRESHOLD - p.weight) \div 10
    IN  Cardinality({b \in 1..100 : 4000 * b * b <= 5 * tenths * tenths * tenths})

Factor(p, sector_values, future_total) ==
    LET sector_bonus == IF SectorPct(p, sector_values, future_total) < SECTOR_THRESHOLD THEN 40 ELSE 0
        quality_bonus == IF p.score = NULL THEN 0 ELSE 50 + (3 * p.score) \div 10
    IN  Max({1, Min({200, Base(p) + sector_bonus + quality_bonus})})

(* First what is under the cap, then under-represented sectors, then the   *)
(* score, NULL last.                                                       *)
Lexically(k, l) == \/ k[1] < l[1]
                   \/ k[1] = l[1] /\ k[2] < l[2]
                   \/ k[1] = l[1] /\ k[2] = l[2] /\ k[3] < l[3]
_rank_candidates(ps, sector_values, future_total) ==
    LET Key(p) == <<IF p.weight >= 100 * POSITION_THRESHOLD THEN 1 ELSE 0,
                    IF 100 * sector_values[p.sector] > SECTOR_THRESHOLD * future_total THEN 1 ELSE 0,
                    IF p.score = NULL THEN 100 ELSE 0 - p.score>>
    IN  StableSort(ps, LAMBDA p, q : Lexically(Key(p), Key(q)))

WithFactors(ps, sector_values, future_total) ==
    [k \in DOMAIN ps |-> [pos |-> ps[k], factor |-> Factor(ps[k], sector_values, future_total)]]

(* The candidates below the cap, by their factors, at most one for every   *)
(* MIN_SPEND_PER_POS of the budget, but two, and at most six.              *)
Candidates(ps, budget, sector_values, future_total) ==
    LET below == Those(_rank_candidates(ps, sector_values, future_total),
                           LAMBDA p : p.weight < 100 * POSITION_THRESHOLD)
    IN  FirstN(StableSort(WithFactors(below, sector_values, future_total),
                          LAMBDA c, d : c.factor > d.factor),
               Max({2, Min({MAX_CANDIDATES, budget \div MIN_SPEND_PER_POS})}))

Buy(p, shares, spend) ==
    [id |-> p.id, symbol |-> p.symbol, kind |-> p.kind, value |-> p.value,
     price |-> _price_per_share_eur(p), shares |-> shares, spend |-> spend]

(* Phase 2: everybody's part of the budget, under the cap, in whole shares.*)
Snap(candidates, budget, future_total) ==
    LET total_factor == SumFunction([k \in DOMAIN candidates |-> candidates[k].factor])
        Shares(c) ==
            LET price == _price_per_share_eur(c.pos)
                max_spend == AtLeast0(Percent(POSITION_THRESHOLD, future_total) - c.pos.value)
            IN  Min({(budget * c.factor * PRICE_SCALE) \div (total_factor * price),
                     (max_spend * PRICE_SCALE) \div price})
        Bought(c) == Buy(c.pos, Shares(c), Round(Shares(c) * _price_per_share_eur(c.pos), PRICE_SCALE))
    IN  Those([k \in DOMAIN candidates |-> Bought(candidates[k])],
                  LAMBDA b : b.shares > 0 /\ b.spend > 0)

(* The entry of a symbol in the plan, 0 if there is none.                  *)
EntryOf(buys, symbol) ==
    LET found == {k \in DOMAIN buys : buys[k].symbol = symbol} IN IF found = {} THEN 0 ELSE Min(found)

CurrentSpend(acc, p) ==
    LET k == EntryOf(acc.buys, p.symbol) IN IF k = 0 THEN 0 ELSE acc.buys[k].spend

Overweight_Forgetful(acc, p, future_total) ==
    100 * (p.value * PRICE_SCALE + _price_per_share_eur(p))
        > POSITION_THRESHOLD * future_total * PRICE_SCALE

(* Whether one more share takes the position over the cap.                 *)
Overweight(acc, p, future_total) ==
    100 * ((p.value + CurrentSpend(acc, p)) * PRICE_SCALE + _price_per_share_eur(p))
        > POSITION_THRESHOLD * future_total * PRICE_SCALE

(* One more share; spent is not rounded here.                              *)
AddShare(acc, p) ==
    LET price == _price_per_share_eur(p)
        k == EntryOf(acc.buys, p.symbol)
    IN  [buys |-> IF k = 0 THEN Append(acc.buys, Buy(p, 1, Round(price, PRICE_SCALE)))
                  ELSE [acc.buys EXCEPT ![k].shares = @ + 1,
                                        ![k].spend = Round(@ * PRICE_SCALE + price, PRICE_SCALE)],
         spent |-> acc.spent + price,
         remaining |-> Round(acc.remaining * PRICE_SCALE - price, PRICE_SCALE)]

TopUpOne_Overspends(acc, p, future_total) ==
    IF acc.remaining < 1 \/ Overweight(acc, p, future_total) THEN acc ELSE AddShare(acc, p)

(* Phase 3, one position: if the leftover pays and the cap allows it.      *)
TopUpOne(acc, p, future_total) ==
    IF \/ acc.remaining < 1
       \/ _price_per_share_eur(p) > acc.remaining * PRICE_SCALE
       \/ Overweight(acc, p, future_total)
    THEN acc ELSE AddShare(acc, p)

(* One pass over the candidates. *)
Pass(acc, candidates, future_total) ==
    LET after[k \in 0..Len(candidates)] ==
            IF k = 0 THEN acc ELSE TopUpOne(after[k - 1], candidates[k].pos, future_total)
    IN  after[Len(candidates)]

(* Three passes at most; one without a purchase changes nothing, so that   *)
(* stopping there is the same.                                             *)
TopUp(acc, candidates, future_total) ==
    LET Again(a) == Pass(a, candidates, future_total) IN Again(Again(Again(acc)))

Settled(acc) == [buys |-> acc.buys, spent |-> Round(acc.spent, PRICE_SCALE)]
Spent(buys) == SumFunction([k \in DOMAIN buys |-> buys[k].spend])

AfterSnap(buys, candidates, budget, future_total) ==
    Settled(TopUp([buys |-> buys, spent |-> Spent(buys) * PRICE_SCALE,
                   remaining |-> budget - Spent(buys)], candidates, future_total))

Allocated(candidates, budget, future_total) ==
    IF budget <= 0 \/ candidates = << >> THEN [buys |-> << >>, spent |-> 0]
    ELSE AfterSnap(Snap(candidates, budget, future_total), candidates, budget, future_total)

_allocate_budget(ps, budget, sector_values, future_total) ==
    Allocated(Candidates(ps, budget, sector_values, future_total), budget, future_total)

-----------------------------------------------------------------------------
NoPlan(amount) == [buys |-> << >>, hold_reserve |-> amount, excluded |-> << >>,
                   amount |-> amount, total |-> 0, etf_spent |-> 0, stock_spent |-> 0]

PlanOf(etf, stock, excluded, total, amount) ==
    [buys |-> etf.buys \o stock.buys,
     hold_reserve |-> AtLeast0(amount - etf.spent - stock.spent),
     excluded |-> excluded, amount |-> amount, total |-> total,
     etf_spent |-> etf.spent, stock_spent |-> stock.spent]

PlanWithin(budget, class, sectors, total, amount) ==
    PlanOf(_allocate_budget(class.etfs, budget.etf, sectors, total + amount),
           _allocate_budget(class.stocks, budget.stock, sectors, total + amount),
           class.excluded, total, amount)

(* plan_contribution of positions worth total in EUR (with what is held    *)
(* elsewhere); NULL: a position without a value in EUR makes it raise.     *)
plan_contribution(ps, total, amount) ==
    LET class == _partition_positions(ps)
        sectors == [s \in {ps[i].sector : i \in DOMAIN ps} |-> SectorValue(ps, s)]
        budget == _split_budget_by_drift(amount, total, class.etfs, class.stocks)
    IN  IF amount <= 0 \/ ps = << >> \/ total <= 0 THEN NoPlan(amount)
        ELSE IF ~Valued(ps) THEN NULL
        ELSE PlanWithin(budget, class, sectors, total, amount)
=============================================================================
