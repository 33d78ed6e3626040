----------------------------- MODULE TradeProofs -----------------------------
(***************************************************************************)
(* Proofs about what becomes of a trade, for every value of the constants: *)
(* TradeWalk with the label of the same signal (Labels), for every         *)
(* configuration and every sequence of bars, Evaluation, for every store,  *)
(* window, list of trades and costs, and Training, for all rows and folds. *)
(*                                                                         *)
(* The argument about Evaluation has three parts that do not meet: the     *)
(* store is in order (StoreInv), so a bundle pairs every model with a card *)
(* no newer than it; what is kept is what that bundle passes (FilterInv);  *)
(* and the trades before and after costs grow together (Books), so that    *)
(* what a report says of them are facts about the folds of Metrics.        *)
(***************************************************************************)
EXTENDS Labels, TrainAndEvaluate, SetInduction, SequenceTheorems, TLAPS

\* While the trade is open: there is a risk, the stop is at the initial one or
\* better, and from the bar after the banking one at breakeven or better; the
\* last close was not stopped out.
Open ==
  /\ phase = "signal" => ~partial /\ banked = -1 /\ held = 0
  /\ phase = "walking" =>
    /\ Risk > 0
    /\ Pnl(stop, level) >= 0
    /\ partial => Pnl(entry, level) >= 0 /\ banked < held
    /\ ~partial => banked = -1 /\ level = stop
    /\ held > 0 => Pnl(stop, last) >= 0
    /\ held > 0 /\ partial /\ banked < held - 1 => Pnl(entry, last) >= 0

\* What that leaves when it is closed.
Closed ==
  phase = "closed" =>
    /\ Risk > 0
    /\ Pnl(stop, exit) >= 0
    /\ partial /\ BarsHeld > banked => Pnl(entry, exit) >= 0

IInv == TypeOK /\ Open /\ Closed

\* Products of naturals are naturals.
LEMMA ProductNat == ASSUME NEW a \in Nat, NEW b \in Nat PROVE a * b \in Nat
  OBVIOUS

\* Multiplying by a natural keeps an order.
LEMMA ProductMono ==
  ASSUME NEW c \in Nat, NEW a \in Int, NEW b \in Int, a <= b
  PROVE  c * a <= c * b
<1>1. c * (b - a) >= 0
  BY ProductNat
<1>2. c * (b - a) = c * b - c * a
  OBVIOUS
<1>3. c * a \in Int /\ c * b \in Int
  OBVIOUS
<1>4. QED
  BY <1>1, <1>2, <1>3

\* Profits add up along prices, long or short.
LEMMA PnlChain ==
  ASSUME NEW a \in Int, NEW b \in Int, NEW c \in Int, Pnl(a, b) >= 0, Pnl(b, c) >= 0
  PROVE  Pnl(a, c) >= 0
<1>1. CASE dir = "long"
  <2>1. Pnl(a, b) = b - a /\ Pnl(b, c) = c - b /\ Pnl(a, c) = c - a
    BY <1>1 DEF Pnl
  <2>2. QED
    BY <2>1
<1>2. CASE dir # "long"
  <2>1. Pnl(a, b) = a - b /\ Pnl(b, c) = b - c /\ Pnl(a, c) = a - c
    BY <1>2 DEF Pnl
  <2>2. QED
    BY <2>1
<1>3. QED
  BY <1>1, <1>2

\* The risk of a trade is at least k ATR, whatever the structure says.
LEMMA RiskPositive ==
  ASSUME NEW d \in {"long", "short"}, NEW e \in Int, NEW ref \in Int,
         NEW a \in 1..MaxAtr
  PROVE  /\ InitialStop(d, e, ref, a) \in Int
         /\ IF d = "long" THEN e - InitialStop(d, e, ref, a) > 0
                          ELSE InitialStop(d, e, ref, a) - e > 0
<1>1. KAtr * a \in Nat
  BY TradeAssumption, ProductNat
<1>2. KAtr * a # 0
  BY TradeAssumption
<1>3. QED
  BY <1>1, <1>2 DEF InitialStop

\* Before the fill the invariant says nothing of prices.
LEMMA InitInv == Init => IInv
<1> SUFFICES ASSUME Init PROVE IInv
  OBVIOUS
<1>1. TypeOK
  <2>1. 1 \in Price /\ 1 \in 1..MaxAtr
    BY TradeAssumption DEF Price
  <2>2. 0 \in 0..TimeStopBars
    BY TradeAssumption
  <2>3. -1 \in (-1)..TimeStopBars
    BY TradeAssumption
  <2>4. /\ dir \in {"long", "short"} /\ part \in 0..Whole /\ phase = "signal"
        /\ entry = 1 /\ stop = 0 /\ atr = 1 /\ level = 0 /\ partial = FALSE
        /\ best = 0 /\ held = 0 /\ last = 1 /\ exit = 0 /\ reason = "none"
        /\ banked = -1
    BY DEF Init
  <2>5. partial \in BOOLEAN /\ reason \in Reason
    BY DEF Init, Reason
  <2>6. /\ stop \in Int /\ level \in Int /\ best \in Int /\ exit \in Int
        /\ entry \in Price /\ last \in Price /\ atr \in 1..MaxAtr
    BY <2>1, <2>4
  <2>7. held \in 0..TimeStopBars /\ banked \in (-1)..TimeStopBars
    BY <2>2, <2>3, <2>4
  <2>8. QED
    BY <2>4, <2>5, <2>6, <2>7 DEF TypeOK
<1>2. Open /\ Closed
  BY DEF Init, Open, Closed
<1>3. QED
  BY <1>1, <1>2 DEF IInv

\* Every step keeps the invariant and moves an open trade's stop its way.
LEMMA StepInv ==
  IInv /\ [Next]_vars => IInv' /\ (phase = "walking" => Pnl(level, level') >= 0)
<1> SUFFICES ASSUME IInv, [Next]_vars
             PROVE  IInv' /\ (phase = "walking" => Pnl(level, level') >= 0)
  OBVIOUS
<1> USE TradeAssumption DEF IInv
<1>0. /\ entry \in Int /\ stop \in Int /\ level \in Int /\ best \in Int /\ exit \in Int
      /\ last \in Int /\ held \in Nat /\ banked \in Int /\ atr \in Nat
      /\ partial \in BOOLEAN
  BY DEF TypeOK, Price
<1>1. CASE Reject
  BY <1>1 DEF Reject, fill, TypeOK, Open, Closed
<1>2. ASSUME Fill PROVE IInv'
  <2>1. PICK e \in Price, ref \in Price, a \in 1..MaxAtr :
          /\ entry' = e /\ atr' = a /\ best' = e
          /\ stop' = InitialStop(dir, e, ref, a) /\ level' = stop'
    BY <1>2 DEF Fill
  <2>2. e \in Int /\ ref \in Int
    BY DEF Price
  <2>3. stop' \in Int /\ Risk' > 0
    BY <1>2, <2>1, <2>2, RiskPositive DEF Fill, TypeOK, Risk, Pnl
  <2>4. TypeOK'
    BY <1>2, <2>1, <2>2, <2>3 DEF Fill, TypeOK, Price
  <2>5. Open' /\ Closed'
    <3>1. phase = "signal" /\ phase' = "walking" /\ dir' = dir
          /\ UNCHANGED <<partial, held, banked>> /\ stop' = level'
      BY <1>2, <2>1 DEF Fill
    <3>2. ~partial' /\ banked' = -1 /\ held' = 0
      BY <3>1 DEF Open
    <3>5. Pnl(stop, level)' >= 0
      <4>1. \A x \in Int : x - x = 0
        OBVIOUS
      <4>2. stop' - level' = 0 /\ level' - stop' = 0
        BY <2>3, <3>1, <4>1, Zenon
      <4>3. Pnl(stop, level)' = 0
        BY <4>2, Zenon DEF Pnl
      <4>4. QED
        BY <4>3
    <3>3. phase' # "signal" /\ phase' # "closed" /\ Risk' > 0
      BY <2>3, <3>1
    <3>4. QED
      BY <3>1, <3>2, <3>3, <3>5 DEF Open, Closed
  <2>6. QED
    BY <2>4, <2>5
<1>3. ASSUME NEW b \in Bar, phase = "walking", NextBar(b)
      PROVE  /\ b.close \in Price /\ b.close \in Int
             /\ WorstOf(b) \in Int
             /\ ~StopHit(b) => /\ Pnl(level, b.close) > 0
                               /\ Pnl(stop, b.close) > 0
                               /\ partial => Pnl(entry, b.close) > 0
  <2>1. /\ b.lo \in Int /\ b.hi \in Int /\ b.close \in Int /\ b.close \in Price
        /\ b.lo <= b.close /\ b.close <= b.hi
    BY <1>3 DEF NextBar, Bar, Price
  <2>2. ~StopHit(b) => Pnl(level, b.close) > 0
    BY <1>0, <2>1 DEF StopHit, WorstOf, Pnl
  <2>3. Pnl(stop, level) >= 0 /\ (partial => Pnl(entry, level) >= 0)
    BY <1>3 DEF Open
  <2>4. Pnl(level, b.close) > 0 =>
          Pnl(stop, b.close) > 0 /\ (partial => Pnl(entry, b.close) > 0)
    BY <1>0, <2>1, <2>3 DEF Pnl
  <2>5. QED
    BY <2>1, <2>2, <2>4 DEF WorstOf
<1>4. ASSUME NEW b \in Bar, Stopped(b) PROVE IInv'
  <2>1. b.close \in Price
    BY <1>3, <1>4 DEF Stopped
  <2>2. TypeOK'
    BY <1>0, <1>4, <2>1 DEF Stopped, Close, fill, TypeOK, Reason
  <2>3. Open' /\ Closed'
    BY <1>0, <1>4 DEF Stopped, Close, fill, Open, Closed, Risk, Pnl, BarsHeld
  <2>4. QED
    BY <2>2, <2>3
<1>5. ASSUME NEW b \in Bar, TakeProfit(b) PROVE IInv'
  <2>1. b.close \in Price
    BY <1>3, <1>5 DEF TakeProfit
  <2>2. Risk > 0 /\ Risk \in Nat /\ Risk * TpR \in Nat /\ ~partial
    <3>1. Risk > 0 /\ Risk \in Int /\ ~partial
      BY <1>0, <1>5 DEF TakeProfit, TargetHit, Open, Risk, Pnl
    <3>2. QED
      BY <3>1, ProductNat
  <2>3. Target \in Int /\ Pnl(stop, Target) >= 0
    BY <1>0, <2>2 DEF Target, Move, Pnl, Risk
  <2>4. TypeOK'
    BY <1>0, <1>5, <2>1, <2>3 DEF TakeProfit, Close, fill, TypeOK, Reason
  <2>5. Risk' = Risk /\ Pnl(stop, exit)' = Pnl(stop, Target) /\ ~partial'
    BY <1>5, <2>2 DEF TakeProfit, Close, fill, Risk, Pnl
  <2>6. Open' /\ Closed'
    BY <1>5, <2>2, <2>3, <2>5 DEF TakeProfit, Close, Open, Closed
  <2>7. QED
    BY <2>4, <2>6
<1>6. ASSUME NEW b \in Bar, Walk(b)
      PROVE  IInv' /\ Pnl(level, level') >= 0
  <2>1. /\ phase = "walking" /\ ~StopHit(b)
        /\ b.close \in Price /\ b.close \in Int
        /\ Pnl(level, b.close) > 0 /\ Pnl(stop, b.close) > 0
        /\ partial => Pnl(entry, b.close) > 0
    BY <1>3, <1>6 DEF Walk
  <2>2. TrailAtr * atr \in Nat
    BY <1>0, ProductNat
  <2>3. \A x \in Int, y \in Int : Better(x, y) \in Int /\ Pnl(x, Better(x, y)) >= 0
    BY DEF Better, Pnl
  <2>4. \A x \in Int : Move(x, -(TrailAtr * atr)) \in Int
    BY <2>2 DEF Move
  <2>5. UNCHANGED <<part, dir, entry, stop, atr>> /\ Risk' = Risk /\ Risk > 0
    BY <1>6, <2>1 DEF Walk, fill, Risk, Pnl, Open
  <2>6. \/ /\ TargetHit(b) /\ ~partial /\ best' = b.close /\ level' = BankedStop
           /\ banked' = held /\ partial'
        \/ /\ ~TargetHit(b) /\ partial /\ best' = Better(best, b.close)
           /\ level' = Better(level, Move(best', -(TrailAtr * atr)))
           /\ banked' = banked /\ partial'
        \/ /\ ~TargetHit(b) /\ ~partial /\ best' = best /\ level' = level
           /\ banked' = banked /\ ~partial'
    BY <1>6 DEF Walk, TargetHit, Trail
  <2>7. /\ best' \in Int /\ level' \in Int /\ partial' \in BOOLEAN
        /\ banked' \in (-1)..TimeStopBars
        /\ Pnl(level, level') >= 0
        /\ Pnl(stop, level') >= 0
        /\ partial' => Pnl(entry, level') >= 0 /\ banked' <= held
        /\ ~partial' => banked' = -1 /\ level' = stop
        /\ partial' /\ banked' < held => Pnl(entry, b.close) > 0
    <3>1. CASE TargetHit(b)
      <4>1. /\ ~partial /\ best' = b.close /\ level' = BankedStop
            /\ banked' = held /\ partial' /\ level = stop
        BY <2>1, <2>6, <3>1 DEF Open
      <4>2. /\ BankedStop \in Int /\ Pnl(stop, BankedStop) >= 0
            /\ Pnl(entry, BankedStop) >= 0
        BY <1>0, <2>5 DEF BankedStop, Move, Pnl, Risk
      <4>3. QED
        BY <1>0, <2>1, <4>1, <4>2 DEF TypeOK
    <3>2. CASE ~TargetHit(b) /\ partial
      <4>1. /\ best' = Better(best, b.close)
            /\ level' = Better(level, Move(best', -(TrailAtr * atr)))
            /\ banked' = banked /\ partial'
        BY <2>6, <3>2
      <4>2. best' \in Int /\ level' \in Int /\ Pnl(level, level') >= 0
        BY <1>0, <2>1, <2>3, <2>4, <4>1
      <4>3. Pnl(stop, level) >= 0 /\ Pnl(entry, level) >= 0 /\ banked < held
        BY <2>1, <3>2 DEF Open
      <4>4. Pnl(stop, level') >= 0 /\ Pnl(entry, level') >= 0
        BY <1>0, <4>2, <4>3, PnlChain
      <4>5. QED
        BY <1>0, <2>1, <3>2, <4>1, <4>2, <4>3, <4>4 DEF TypeOK
    <3>3. CASE ~TargetHit(b) /\ ~partial
      <4>1. best' = best /\ level' = level /\ banked' = banked /\ ~partial'
        BY <2>6, <3>3
      <4>2. banked = -1 /\ level = stop
        BY <2>1, <3>3 DEF Open
      <4>3. Pnl(level, level) = 0
        BY <1>0 DEF Pnl
      <4>4. partial' \in BOOLEAN
        BY <1>6 DEF Walk
      <4>5. QED
        BY <1>0, <4>1, <4>2, <4>3, <4>4 DEF TypeOK
    <3>4. QED
      BY <3>1, <3>2, <3>3
  <2>8. /\ last' = b.close /\ Pnl(stop, last)' >= 0 /\ Pnl(stop, level)' >= 0
        /\ partial' => Pnl(entry, level)' >= 0
        /\ partial' /\ banked' < held => Pnl(entry, last)' >= 0
    <3>1. last' = b.close /\ dir' = dir /\ stop' = stop /\ entry' = entry
      BY <1>6, <2>5 DEF Walk
    <3>2. /\ Pnl(stop, last)' = Pnl(stop, b.close)
          /\ Pnl(entry, last)' = Pnl(entry, b.close)
          /\ Pnl(stop, level)' = Pnl(stop, level')
          /\ Pnl(entry, level)' = Pnl(entry, level')
          /\ Pnl(stop, b.close) \in Int /\ Pnl(entry, b.close) \in Int
      BY <1>0, <2>1, <3>1 DEF Pnl
    <3>3. QED
      BY <2>1, <2>7, <3>1, <3>2
  <2>9. CASE TimeUp(held)
    <3>1. phase' = "closed" /\ exit' = b.close /\ reason' = "time_stop" /\ held' = held
      BY <1>6, <2>9 DEF Walk, Close
    <3>2. BarsHeld' = held /\ Pnl(stop, exit)' = Pnl(stop, last)'
          /\ Pnl(entry, exit)' = Pnl(entry, last)'
      BY <2>8, <3>1 DEF BarsHeld, Pnl
    <3>3. Open' /\ Closed'
      BY <2>5, <2>8, <3>1, <3>2 DEF Open, Closed
    <3>4. TypeOK'
      BY <1>0, <2>1, <2>5, <2>7, <2>8, <3>1 DEF TypeOK, Reason
    <3>5. QED
      BY <2>7, <3>3, <3>4
  <2>10. CASE ~TimeUp(held)
    <3>1. phase' = "walking" /\ held' = held + 1 /\ UNCHANGED <<exit, reason>>
      BY <1>6, <2>1, <2>10 DEF Walk
    <3>2. Open' /\ Closed'
      <4>1. /\ partial' => banked' < held'
            /\ partial' /\ banked' < held' - 1 => banked' < held
        BY <1>0, <2>7, <3>1 DEF TypeOK
      <4>2. phase' # "signal" /\ phase' # "closed" /\ Risk' > 0
            /\ (~partial' => banked' = -1 /\ level' = stop')
        BY <2>5, <2>7, <3>1
      <4>3. QED
        BY <2>8, <4>1, <4>2 DEF Open, Closed
    <3>3. TypeOK'
      BY <1>0, <2>1, <2>5, <2>7, <2>8, <2>10, <3>1 DEF TypeOK, TimeUp
    <3>4. QED
      BY <2>7, <3>2, <3>3
  <2>11. QED
    BY <2>9, <2>10
<1>7. ASSUME EndOfData PROVE IInv'
  <2>1. TypeOK'
    BY <1>0, <1>7 DEF EndOfData, Close, fill, TypeOK, Reason
  <2>2. Open' /\ Closed'
    BY <1>0, <1>7 DEF EndOfData, Close, fill, Open, Closed, Risk, Pnl, BarsHeld
  <2>3. QED
    BY <2>1, <2>2
<1>8. CASE UNCHANGED vars
  BY <1>8 DEF vars, fill, TypeOK, Open, Closed, Risk, Pnl, BarsHeld
<1>9. ASSUME phase = "walking", level' = level PROVE Pnl(level, level') >= 0
  <2>1. Pnl(level, level) = 0
    BY <1>0 DEF Pnl
  <2>2. QED
    BY <1>9, <2>1
<1>10. Reject \/ Fill => phase # "walking"
  BY DEF Reject, Fill
<1>11. /\ \A b \in Bar : Stopped(b) \/ TakeProfit(b) => level' = level
       /\ EndOfData \/ UNCHANGED vars => level' = level
  BY DEF Stopped, TakeProfit, EndOfData, vars
<1>12. QED
  BY <1>1, <1>2, <1>4, <1>5, <1>6, <1>7, <1>8, <1>9, <1>10, <1>11 DEF Next

\* The invariant holds throughout.
LEMMA Invariant == Spec => []IInv
  BY InitInv, StepInv, PTL DEF Spec

\* The walk's state has its types: in particular no trade is held for more than
\* time_stop_bars bars.
THEOREM TradeTypes == Spec => []TypeOK
<1>1. IInv => TypeOK
  BY DEF IInv
<1>2. QED
  BY <1>1, Invariant, PTL

\* "Never widen a stop": breakeven and trailing only move it the trade's way.
THEOREM StopOnlyTightens == Spec => StopNeverWidened
<1>1. IInv /\ [Next]_vars => [phase = "walking" => Pnl(level, level') >= 0]_vars
  BY StepInv
<1>2. QED
  BY <1>1, Invariant, StepInv, PTL DEF Spec, StopNeverWidened

\* What a closed trade's result is made of: the banked part is worth TpR times
\* the risk, the rest at least what the invariant says of the exit.
LEMMA ResultParts ==
  ASSUME IInv, phase = "closed"
  PROVE  /\ Risk \in Nat /\ Risk * TpR \in Nat
         /\ Pnl(entry, Target) = Risk * TpR
         /\ Pnl(entry, exit) \in Int /\ Pnl(entry, exit) >= -Risk
<1>1. /\ entry \in Int /\ stop \in Int /\ exit \in Int
      /\ Risk > 0 /\ Pnl(stop, exit) >= 0
  BY DEF IInv, TypeOK, Closed, Price
<1>2. Risk \in Nat
  BY <1>1 DEF Risk, Pnl
<1>3. Risk * TpR \in Nat
  BY <1>2, ProductNat, TradeAssumption
<1>4. Pnl(entry, Target) = Risk * TpR
  BY <1>1, <1>3 DEF Pnl, Target, Move
<1>5. Pnl(entry, exit) \in Int /\ Pnl(entry, exit) >= -Risk
  <2>1. CASE dir = "long"
    <3>1. Risk = entry - stop /\ Pnl(stop, exit) = exit - stop /\ Pnl(entry, exit) = exit - entry
      BY <2>1 DEF Risk, Pnl
    <3>2. QED
      BY <1>1, <3>1
  <2>2. CASE dir # "long"
    <3>1. Risk = stop - entry /\ Pnl(stop, exit) = stop - exit /\ Pnl(entry, exit) = entry - exit
      BY <2>2 DEF Risk, Pnl
    <3>2. QED
      BY <1>1, <3>1
  <2>3. QED
    BY <2>1, <2>2
<1>6. QED
  BY <1>2, <1>3, <1>4, <1>5

\* No trade loses more than the risk it was sized for, for every way it ends.
THEOREM OneRAtMost == Spec => []LossAtMostOneR
<1>1. ASSUME IInv PROVE LossAtMostOneR
  <2> SUFFICES ASSUME phase = "closed" PROVE Result >= -(Whole * Risk)
    BY DEF LossAtMostOneR
  <2> DEFINE R == Risk
             X == Pnl(entry, exit)
             T == R * TpR
             rest == Whole - part
  <2>1. /\ R \in Nat /\ T \in Nat /\ Pnl(entry, Target) = T
        /\ X \in Int /\ X >= -R
    BY <1>1, ResultParts
  <2>2. part \in Nat /\ Whole \in Nat /\ rest \in Nat /\ rest <= Whole
    BY <1>1, TradeAssumption DEF IInv, TypeOK
  <2>3. Result = IF partial THEN part * T + rest * X ELSE Whole * X
    BY <2>1 DEF Result
  <2> HIDE DEF R, X, T, rest
  <2>4. Whole * (-R) <= Whole * X /\ rest * (-R) <= rest * X
    BY <2>1, <2>2, ProductMono
  <2>5. R * rest <= R * Whole
    BY <2>1, <2>2, ProductMono
  <2>6. Whole * (-R) = -(Whole * R) /\ rest * (-R) = -(R * rest) /\ R * Whole = Whole * R
    BY <2>1, <2>2
  <2>7. part * T \in Nat /\ Whole * X \in Int /\ rest * X \in Int /\ Whole * R \in Int
        /\ R * rest \in Int
    BY <2>1, <2>2, ProductNat
  <2>8. CASE partial
    <3>1. Result = part * T + rest * X
      BY <2>3, <2>8
    <3>2. Result >= -(Whole * R)
      BY <2>4, <2>5, <2>6, <2>7, <3>1
    <3>3. QED
      BY <3>2 DEF R
  <2>9. CASE ~partial
    <3>1. Result = Whole * X
      BY <2>3, <2>9
    <3>2. Result >= -(Whole * R)
      BY <2>4, <2>6, <2>7, <3>1
    <3>3. QED
      BY <3>2 DEF R
  <2>10. QED
    BY <2>8, <2>9
<1>2. QED
  BY <1>1, Invariant, PTL

\* A bar after the banking one, the rest cannot give the banked part back.
THEOREM BankedStaysBanked == Spec => []BankedIsKept
<1>1. ASSUME IInv PROVE BankedIsKept
  <2> SUFFICES ASSUME phase = "closed", partial, BarsHeld > banked
               PROVE  Result >= part * Risk * TpR
    BY DEF BankedIsKept
  <2> DEFINE X == Pnl(entry, exit)
             T == Risk * TpR
             rest == Whole - part
  <2>1. Risk \in Nat /\ T \in Nat /\ Pnl(entry, Target) = T /\ X \in Int
    BY <1>1, ResultParts
  <2>2. X >= 0
    BY <1>1 DEF IInv, Closed
  <2>3. part \in Nat /\ rest \in Nat
    BY <1>1, TradeAssumption DEF IInv, TypeOK
  <2>4. Result = part * T + rest * X /\ part * Risk * TpR = part * T
    BY <2>1, <2>3, TradeAssumption DEF Result
  <2> HIDE DEF X, T, rest
  <2>5. part * T \in Nat /\ rest * X \in Nat
    BY <2>1, <2>2, <2>3, ProductNat
  <2>6. QED
    BY <2>4, <2>5
<1>2. QED
  BY <1>1, Invariant, PTL

-----------------------------------------------------------------------------
\* The label watches the trade and never stands in its way.
LEMMA TradeAsIfAlone == LabelSpec => Spec
<1>1. LabelInit => Init
  BY DEF LabelInit
<1>2. [LabelNext]_labelVars => [Next]_vars
  BY Zenon DEF LabelNext, BothSkip, TooWide, BothFill, BothMeet, LabelMeets, BothEnd, LabelEnds,
         Next, labelVars
<1>3. QED
  BY <1>1, <1>2, PTL DEF LabelSpec, Spec

\* With the trade's own barriers the label walks with the trade until the part
\* is banked, and then both know how it came out.
LabelFits ==
  /\ phase = "signal" => outcome = "none" /\ j = held /\ seen = last
  /\ phase \in {"walking", "closed"} => from = entry /\ unit = atr
  /\ phase = "walking" /\ SameBarriers =>
       IF partial THEN outcome = "tp" ELSE outcome = "open" /\ j = held /\ seen = last
  /\ phase = "closed" /\ SameBarriers =>
       /\ outcome \in {"sl", "tp", "time"}
       /\ outcome = "sl" <=> reason = "stop_loss"
       /\ outcome = "tp" <=> (partial \/ reason = "take_profit")
       /\ reason = "stop_loss" => ~partial /\ exit = stop
       /\ reason = "take_profit" => ~partial /\ exit = Target
       /\ outcome = "time" => ~partial /\ ret = Pnl(entry, exit)

\* The label's barriers are prices, and its return a number.
LEMMA Barriers ==
  ASSUME LabelTypes
  PROVE  /\ sl \in Int /\ tp \in Int /\ from \in Int /\ seen \in Int /\ Price \subseteq Int
         /\ \A x \in Int : Pnl(from, x) \in Int
<1>1. unit \in Nat /\ from \in Int /\ seen \in Int /\ Price \subseteq Int
  BY TradeAssumption DEF LabelTypes, Price
<1>2. TpMult * unit \in Nat /\ SlMult * unit \in Nat
  BY <1>1, LabelAssumption, ProductNat
<1>3. QED
  BY <1>1, <1>2 DEF sl, tp, Move, Pnl

\* Both have the same stop and the same target while nothing is banked.
LEMMA SamePrices ==
  ASSUME IInv, LabelTypes, LabelFits, phase = "walking", SameBarriers
  PROVE  sl = stop /\ tp = Target /\ (~partial => sl = level) /\ from = entry
<1>1. from = entry /\ entry \in Int /\ stop \in Int
  BY DEF LabelFits, IInv, TypeOK, Price
<1>2. SlMult * unit = Risk /\ TpMult * unit = Risk * TpR
  BY DEF SameBarriers
<1>3. tp = Target
  BY <1>1, <1>2 DEF tp, Target
<1>4. sl = Move(entry, -Risk)
  BY <1>1, <1>2 DEF sl
<1>5. sl = stop
  BY <1>1, <1>4 DEF Move, Risk, Pnl
<1>6. QED
  BY <1>1, <1>3, <1>5 DEF IInv, Open

\* Meeting a bar keeps the label's types.
LEMMA ResolveTypes ==
  ASSUME LabelTypes, NEW b \in Bar, Resolve(b) PROVE LabelTypes'
<1>1. b.close \in Price /\ b.close \in Int
  BY Barriers DEF Bar
<1>2. Pnl(from, sl) \in Int /\ Pnl(from, tp) \in Int /\ Pnl(from, b.close) \in Int
  BY <1>1, Barriers
<1>3. ret' \in Int
  BY <1>2 DEF Resolve, Ends, LabelTypes
<1>4. j' \in 0 .. Horizon
  BY LabelAssumption DEF Resolve, Ends, LabelTypes
<1>5. outcome' \in {"none", "skipped", "open", "sl", "tp", "time"}
  BY DEF Resolve, Ends, LabelTypes
<1>6. QED
  BY <1>1, <1>3, <1>4, <1>5 DEF Resolve, LabelTypes

\* A bar that both meet.
LEMMA MeetFits ==
  ASSUME IInv, LabelTypes, LabelFits, NEW b \in Bar, BothMeet(b) PROVE LabelFits'
<1>1. /\ phase = "walking" /\ phase' \in {"walking", "closed"}
      /\ UNCHANGED <<dir, entry, stop, atr, from, unit>>
  BY DEF BothMeet, Stopped, TakeProfit, Walk, Close, fill, Resolve, Settled, label
<1>2. from = entry /\ unit = atr
  BY <1>1 DEF LabelFits
<1>3. /\ SameBarriers' = SameBarriers /\ Target' = Target /\ Risk' = Risk
      /\ Pnl(entry, exit)' = Pnl(entry, exit')
  BY <1>1 DEF SameBarriers, Target, Move, Risk, Pnl
<1> SUFFICES ASSUME SameBarriers
             PROVE  /\ phase' = "walking" => IF partial' THEN outcome' = "tp"
                          ELSE outcome' = "open" /\ j' = held' /\ seen' = last'
                    /\ phase' = "closed" =>
                         /\ outcome' \in {"sl", "tp", "time"}
                         /\ outcome' = "sl" <=> reason' = "stop_loss"
                         /\ outcome' = "tp" <=> (partial' \/ reason' = "take_profit")
                         /\ reason' = "stop_loss" => ~partial' /\ exit' = stop
                         /\ reason' = "take_profit" => ~partial' /\ exit' = Target
                         /\ outcome' = "time" => ~partial' /\ ret' = Pnl(entry, exit')
  BY <1>1, <1>2, <1>3 DEF LabelFits
<1>4. CASE partial
  <2>1. outcome = "tp"
    BY <1>1, <1>4 DEF LabelFits
  <2>2. outcome' = "tp" /\ partial' /\ ~TakeProfit(b)
    BY <1>4, <2>1 DEF BothMeet, Resolve, Settled, label, TakeProfit, TargetHit, Stopped, Walk
  <2>3. phase' = "closed" => reason' \in {"trailing_stop", "time_stop"}
    BY <1>1, <1>4, <2>2 DEF BothMeet, Stopped, Walk, Close
  <2>4. QED
    BY <2>2, <2>3
<1>5. CASE ~partial
  <2>1. outcome = "open" /\ j = held /\ seen = last
    BY <1>1, <1>5 DEF LabelFits
  <2>2. Resolve(b) /\ Horizon = TimeStopBars
    BY <2>1 DEF BothMeet, Settled, SameBarriers
  <2>3. sl = level /\ sl = stop /\ tp = Target
    BY <1>1, <1>5, SamePrices
  <2>4. (SlTouched(b) <=> StopHit(b)) /\ (TpTouched(b) <=> TargetHit(b))
    BY <1>5, <2>3 DEF SlTouched, StopHit, TpTouched, TargetHit
  <2>5. CASE Stopped(b)
    <3>1. outcome' = "sl" /\ phase' = "closed" /\ reason' = "stop_loss" /\ exit' = stop
          /\ ~partial'
      BY <1>5, <2>2, <2>3, <2>4, <2>5 DEF Resolve, Ends, Stopped, Close
    <3>2. QED
      BY <3>1
  <2>6. CASE TakeProfit(b)
    <3>1. outcome' = "tp" /\ phase' = "closed" /\ reason' = "take_profit" /\ exit' = Target
          /\ ~partial'
      BY <1>5, <2>2, <2>4, <2>6 DEF Resolve, Ends, TakeProfit, Close
    <3>2. QED
      BY <3>1
  <2>7. CASE Walk(b) /\ TargetHit(b)
    <3>1. outcome' = "tp" /\ partial' /\ (phase' = "closed" => reason' = "time_stop")
      BY <1>1, <2>2, <2>4, <2>7 DEF Resolve, Ends, Walk, Close
    <3>2. QED
      BY <3>1
  <2>8. CASE Walk(b) /\ ~TargetHit(b) /\ TimeUp(held)
    <3>1. /\ outcome' = "time" /\ ~partial' /\ phase' = "closed" /\ reason' = "time_stop"
          /\ exit' = b.close /\ ret' = Pnl(from, b.close)
      <4>1. j >= Horizon /\ ~SlTouched(b) /\ ~TpTouched(b)
        BY <2>1, <2>2, <2>4, <2>8 DEF TimeUp, Walk
      <4>2. ~(j < Horizon)
        BY <4>1, LabelAssumption DEF LabelTypes
      <4>3. QED
        BY <1>5, <2>2, <2>8, <4>1, <4>2 DEF Resolve, Ends, Walk, Close
    <3>2. QED
      BY <1>2, <3>1
  <2>9. CASE Walk(b) /\ ~TargetHit(b) /\ ~TimeUp(held)
    <3>1. /\ outcome' = "open" /\ ~partial' /\ phase' = "walking"
          /\ j' = j + 1 /\ held' = held + 1 /\ seen' = b.close /\ last' = b.close
      <4>1. ~(j >= Horizon) /\ ~SlTouched(b) /\ ~TpTouched(b)
        BY <2>1, <2>2, <2>4, <2>9 DEF TimeUp, Walk
      <4>2. QED
        BY <1>1, <1>5, <2>1, <2>2, <2>9, <4>1 DEF Resolve, Ends, Walk
    <3>2. QED
      BY <2>1, <3>1
  <2>10. QED
    BY <2>5, <2>6, <2>7, <2>8, <2>9 DEF BothMeet
<1>6. QED
  BY <1>4, <1>5

LInv == IInv /\ LabelTypes /\ LabelFits

\* Before the fill there is no label.
LEMMA LabelInitInv == LabelInit => LInv
<1> SUFFICES ASSUME LabelInit PROVE LInv
  OBVIOUS
<1>1. IInv
  BY InitInv DEF LabelInit
<1>2. LabelTypes
  <2>1. 1 \in Price /\ 1 \in 1 .. MaxAtr /\ 0 \in 0 .. Horizon
    BY TradeAssumption, LabelAssumption DEF Price
  <2>2. QED
    BY <2>1 DEF LabelInit, LabelTypes
<1>3. LabelFits
  BY DEF LabelInit, Init, LabelFits
<1>4. QED
  BY <1>1, <1>2, <1>3 DEF LInv

\* Every step of the two keeps the label's part of the invariant.
LEMMA LabelStepInv == LInv /\ [LabelNext]_labelVars => LInv'
<1> SUFFICES ASSUME LInv, [LabelNext]_labelVars PROVE LInv'
  OBVIOUS
<1>1. IInv /\ LabelTypes /\ LabelFits
  BY DEF LInv
<1>2. [Next]_vars
  BY Zenon DEF LabelNext, BothSkip, TooWide, BothFill, BothMeet, LabelMeets, BothEnd, LabelEnds,
         Next, labelVars
<1>3. IInv'
  BY <1>1, <1>2, StepInv
<1>4. CASE BothSkip
  BY <1>1, <1>3, <1>4 DEF BothSkip, Reject, Skipped, LInv, LabelTypes, LabelFits
<1>5. CASE TooWide
  BY <1>1, <1>3, <1>5 DEF TooWide, Reject, Opened, LInv, LabelTypes, LabelFits
<1>6. CASE BothFill
  <2>1. /\ phase = "signal" /\ phase' = "walking" /\ UNCHANGED <<partial, held, last, j, seen, ret>>
        /\ outcome' = "open" /\ from' = entry' /\ unit' = atr'
    BY <1>6 DEF BothFill, Fill, Opened
  <2>2. ~partial /\ j = held /\ seen = last
    BY <1>1, <2>1 DEF IInv, Open, LabelFits
  <2>3. LabelFits'
    BY <2>1, <2>2 DEF LabelFits
  <2>4. LabelTypes'
    BY <1>1, <1>3, <2>1 DEF IInv, TypeOK, LabelTypes
  <2>5. QED
    BY <1>3, <2>3, <2>4 DEF LInv
<1>7. ASSUME NEW b \in Bar, BothMeet(b) PROVE LInv'
  <2>1. LabelFits'
    BY <1>1, <1>7, MeetFits
  <2>2. LabelTypes'
    <3>1. CASE Resolve(b)
      BY <1>1, <3>1, ResolveTypes
    <3>2. CASE Settled
      BY <1>1, <3>2 DEF Settled, label, LabelTypes
    <3>3. QED
      BY <1>7, <3>1, <3>2 DEF BothMeet
  <2>3. QED
    BY <1>3, <2>1, <2>2 DEF LInv
<1>8. ASSUME NEW b \in Bar, LabelMeets(b) PROVE LInv'
  <2>1. /\ phase \in {"closed", "rejected"} /\ outcome = "open" /\ Resolve(b)
        /\ UNCHANGED vars /\ UNCHANGED <<from, unit>>
    BY <1>8 DEF LabelMeets, Resolve
  <2>2. LabelTypes'
    BY <1>1, <2>1, ResolveTypes
  <2>3. SameBarriers' = SameBarriers
    BY <2>1 DEF SameBarriers, Risk, Pnl, vars, fill
  <2>4. phase = "closed" => ~SameBarriers
    BY <1>1, <2>1 DEF LabelFits
  <2>5. phase' = phase /\ entry' = entry /\ atr' = atr
    BY <2>1 DEF vars, fill
  <2>6. LabelFits'
    BY <1>1, <2>1, <2>3, <2>4, <2>5 DEF LabelFits
  <2>7. QED
    BY <1>3, <2>2, <2>6 DEF LInv
<1>9. ASSUME LastClose PROVE LabelTypes' /\ outcome' = "time" /\ ret' = Pnl(from, seen)
                                /\ UNCHANGED <<j, seen, from, unit>> /\ outcome = "open"
  <2>1. Pnl(from, seen) \in Int
    BY <1>1, Barriers
  <2>2. QED
    BY <1>1, <1>9, <2>1 DEF LastClose, Ends, LabelTypes
<1>10. CASE BothEnd
  <2>1. /\ phase = "walking" /\ phase' = "closed" /\ exit' = last /\ reason' = "end_of_data"
        /\ UNCHANGED <<part, dir, entry, stop, atr, partial, last>>
    BY <1>10 DEF BothEnd, EndOfData, Close, fill
  <2>2. LastClose \/ Settled
    BY <1>10 DEF BothEnd
  <2>3. UNCHANGED <<from, unit>>
    BY <1>9, <2>2 DEF Settled, label
  <2>4. SameBarriers' = SameBarriers /\ Pnl(entry, exit)' = Pnl(entry, last)
    BY <2>1, <2>3 DEF SameBarriers, Risk, Pnl
  <2>5. SameBarriers /\ partial => outcome' = "tp" /\ partial'
    BY <1>1, <1>9, <2>1, <2>2 DEF LabelFits, Settled, label
  <2>6. SameBarriers /\ ~partial => outcome' = "time" /\ ~partial' /\ ret' = Pnl(entry, last)
    BY <1>1, <1>9, <2>1, <2>2 DEF LabelFits, Settled
  <2>7. LabelFits'
    BY <1>1, <2>1, <2>3, <2>4, <2>5, <2>6 DEF LabelFits
  <2>8. LabelTypes'
    BY <1>1, <1>9, <2>2 DEF Settled, label, LabelTypes
  <2>9. QED
    BY <1>3, <2>7, <2>8 DEF LInv
<1>11. CASE LabelEnds
  <2>1. phase \in {"closed", "rejected"} /\ LastClose /\ UNCHANGED vars
    BY <1>11 DEF LabelEnds
  <2>2. phase = "closed" => ~SameBarriers
    BY <1>1, <1>9, <2>1 DEF LabelFits
  <2>3. SameBarriers' = SameBarriers /\ phase' = phase /\ entry' = entry /\ atr' = atr
    BY <1>9, <2>1 DEF SameBarriers, Risk, Pnl, vars, fill
  <2>4. LabelFits'
    BY <1>1, <1>9, <2>1, <2>2, <2>3 DEF LabelFits
  <2>5. QED
    BY <1>3, <1>9, <2>1, <2>4 DEF LInv
<1>12. CASE UNCHANGED labelVars
  <2>1. UNCHANGED vars /\ UNCHANGED label
    BY <1>12 DEF labelVars
  <2>2. SameBarriers' = SameBarriers /\ Pnl(entry, exit)' = Pnl(entry, exit) /\ Target' = Target
    BY <2>1 DEF SameBarriers, Risk, Pnl, Target, Move, vars, fill, label
  <2>3. QED
    BY <1>1, <1>3, <2>1, <2>2 DEF LInv, LabelTypes, LabelFits, vars, fill, label
<1>13. QED
  <2>1. CASE BothSkip \/ TooWide
    BY <1>4, <1>5, <2>1
  <2>2. QED
    BY <1>6, <1>7, <1>8, <1>10, <1>11, <1>12, <2>1 DEF LabelNext

\* Of a closed trade whose barriers the label shares, the label is the outcome:
\* for every stop distance, target, horizon, part taken and sequence of bars.
THEOREM LabelTellsTheTrade == LabelSpec => []LabelIsTheTrade
<1>1. ASSUME LInv PROVE LabelIsTheTrade
  <2> SUFFICES ASSUME phase = "closed", SameBarriers
               PROVE  /\ outcome = "sl" <=> reason = "stop_loss"
                      /\ outcome = "tp" <=> (partial \/ reason = "take_profit")
                      /\ outcome = "time" => Result = Whole * ret
                      /\ Positive("trend_continuation") /\ part > 0 /\ BarsHeld > banked
                           => Result > 0
                      /\ Positive("fake_breakout") => Result <= 0
    BY DEF LabelIsTheTrade
  <2>1. /\ outcome \in {"sl", "tp", "time"}
        /\ outcome = "sl" <=> reason = "stop_loss"
        /\ outcome = "tp" <=> (partial \/ reason = "take_profit")
        /\ reason = "stop_loss" => ~partial /\ exit = stop
        /\ reason = "take_profit" => ~partial /\ exit = Target
        /\ outcome = "time" => ~partial /\ ret = Pnl(entry, exit)
    BY <1>1 DEF LInv, LabelFits
  <2>2. IInv
    BY <1>1 DEF LInv
  <2>3. /\ Risk \in Nat /\ Risk * TpR \in Nat /\ Pnl(entry, Target) = Risk * TpR
        /\ Pnl(entry, exit) \in Int
    BY <2>2, ResultParts
  <2>4. Risk > 0 /\ entry \in Int /\ stop \in Int /\ part \in Nat
    BY <2>2, TradeAssumption DEF IInv, TypeOK, Closed, Price
  <2>5. Risk * TpR > 0
    BY <2>3, <2>4, TradeAssumption
  <2>6. Pnl(entry, stop) = -Risk
    BY <2>4 DEF Pnl, Risk
  <2>7. outcome = "time" => Result = Whole * ret
    BY <2>1 DEF Result
  <2>8. outcome = "time" => ret \in Int
    BY <2>1, <2>3
  <2>9. ASSUME Positive("trend_continuation"), part > 0, BarsHeld > banked PROVE Result > 0
    <3>1. CASE outcome = "time"
      <4>1. ret > 0 /\ ret \in Int
        BY <2>8, <2>9, <3>1 DEF Positive
      <4>2. Whole * ret > 0
        BY <4>1, TradeAssumption
      <4>3. QED
        BY <2>7, <3>1, <4>2
    <3>2. CASE outcome = "tp" /\ partial
      <4>1. Pnl(entry, exit) >= 0
        BY <2>2, <2>9, <3>2 DEF IInv, Closed
      <4>2. Whole - part \in Nat
        BY <2>2, TradeAssumption DEF IInv, TypeOK
      <4>3. (Whole - part) * Pnl(entry, exit) \in Nat
        BY <2>3, <4>1, <4>2, ProductNat
      <4>4. part * (Risk * TpR) > 0 /\ part * (Risk * TpR) \in Nat
        BY <2>3, <2>4, <2>5, <2>9
      <4>5. Result = part * (Risk * TpR) + (Whole - part) * Pnl(entry, exit)
        BY <2>3, <3>2 DEF Result
      <4>6. QED
        BY <4>3, <4>4, <4>5
    <3>3. CASE outcome = "tp" /\ ~partial
      <4>1. exit = Target
        BY <2>1, <3>3
      <4>2. Result = Whole * (Risk * TpR)
        BY <2>3, <3>3, <4>1 DEF Result
      <4>3. Whole * (Risk * TpR) > 0
        BY <2>3, <2>5, TradeAssumption
      <4>4. QED
        BY <4>2, <4>3
    <3>4. QED
      BY <2>9, <3>1, <3>2, <3>3 DEF Positive
  <2>10. ASSUME Positive("fake_breakout") PROVE Result <= 0
    <3>1. CASE outcome = "sl"
      <4>1. Result = Whole * (-Risk)
        BY <2>1, <2>6, <3>1 DEF Result
      <4>2. Whole * (-Risk) <= 0
        BY <2>3, TradeAssumption, ProductMono
      <4>3. QED
        BY <4>1, <4>2
    <3>2. CASE outcome = "time"
      <4>1. ret <= 0 /\ ret \in Int
        BY <2>8, <2>10, <3>2 DEF Positive
      <4>2. Whole * ret <= Whole * 0
        BY <4>1, TradeAssumption, ProductMono
      <4>3. QED
        BY <2>7, <3>2, <4>2, TradeAssumption
    <3>3. QED
      BY <2>10, <3>1, <3>2 DEF Positive
  <2>11. QED
    BY <2>1, <2>7, <2>9, <2>10
<1>2. LabelSpec => []LInv
  BY LabelInitInv, LabelStepInv, PTL DEF LabelSpec
<1>3. QED
  BY <1>1, <1>2, PTL

-----------------------------------------------------------------------------
(* The store, and the calls that load from it. *)

\* No file is from a later save than the last one, no card is newer than its
\* model, and until its card is opened a model is from the last save.
FilesInOrder ==
  /\ \A f \in File : file[f] <= saves
  /\ \A t \in Targets : file[<<t, "card">>] <= file[<<t, "model">>]
  /\ saving.step # "no" => saving.target \in Targets
  /\ saving.step \in {"emptied_model", "model"} => file[<<saving.target, "model">>] = saves

\* A target of a pair is there in both of its halves or in neither, and a card
\* is no newer than its model.
Paired(b) == \A t \in Targets : b.cards[t] <= b.models[t] /\ (b.cards[t] = 0 <=> b.models[t] = 0)

\* What a key says of its files is from before the bundle was read, and that
\* from before now.
KeyedBefore(key, b) ==
  \A t \in Targets :
    /\ key[<<t, "card">>] <= b.cards[t] /\ b.cards[t] <= file[<<t, "card">>]
    /\ key[<<t, "model">>] <= b.models[t] /\ b.models[t] <= file[<<t, "model">>]
    /\ key[<<t, "card">>] = 0 <=> b.cards[t] = 0
    /\ key[<<t, "model">>] = 0 <=> b.models[t] = 0

CacheInOrder == \A e \in cache : Paired(e.bundle) /\ KeyedBefore(e.key, e.bundle)

\* A call that stats or reads: its targets have files, its key is of them.
Stating(call) ==
  /\ \A t \in call.paths : file[<<t, "card">>] > 0 /\ file[<<t, "model">>] > 0
  /\ \A f \in File : call.key[f] <= file[f]
  /\ \A t \in Targets, k \in Kinds : t \notin call.paths => call.key[<<t, k>>] = 0
  /\ call.quiet =>
       /\ call.paths = artifact_paths
       /\ \A f \in File : call.key[f] # 0 => call.key[f] = file[f]

Reading(call) ==
  /\ \A t \in call.paths, k \in Kinds : call.key[<<t, k>>] # 0
  /\ \A t \in Targets :
       /\ t \notin call.paths => call.bundle.cards[t] = 0 /\ call.bundle.models[t] = 0
       /\ call.bundle.models[t] # 0 =>
            call.bundle.cards[t] # 0 /\ call.bundle.cards[t] <= call.bundle.models[t]
                                     /\ call.key[<<t, "model">>] <= call.bundle.models[t]
       /\ call.bundle.cards[t] # 0 => call.key[<<t, "card">>] <= call.bundle.cards[t]
       /\ call.bundle.cards[t] <= file[<<t, "card">>]
       /\ call.bundle.models[t] <= file[<<t, "model">>]
       /\ call.quiet =>
            /\ call.bundle.cards[t] # 0 => call.bundle.cards[t] = file[<<t, "card">>]
            /\ call.bundle.models[t] # 0 => call.bundle.models[t] = file[<<t, "model">>]

Answer(call) ==
  /\ call.pc = "bundle" => Paired(call.bundle)
  /\ call.quiet /\ call.pc = "bundle" =>
           call.bundle = [models |-> OnDisk("model"), cards |-> OnDisk("card")]
  /\ call.quiet /\ call.pc = "none" => artifact_paths = {}
  /\ call.quiet /\ call.pc = "error" => ~Sound

CallInv(call) ==
  /\ call.pc \in {"stat", "locked"} => Stating(call)
  /\ call.pc = "locked" => Reading(call)
  /\ call.pc = "stat" => call.bundle = Empty
  /\ Answer(call)
CallsInOrder == \A l \in Loaders : CallInv(loader[l])
StoreInv == StoreTypes /\ FilesInOrder /\ CacheInOrder /\ CallsInOrder

-----------------------------------------------------------------------------
LEMMA SavesAreNat == Save \subseteq Nat
  BY StoreAssumption DEF Save
LEMMA NumbersOf ==
  ASSUME NEW g \in [File -> Save], NEW f \in File
  PROVE  g[f] \in Nat /\ g[f] <= g[f]
<1>1. g[f] \in Save
  OBVIOUS
<1>2. QED
  BY <1>1, StoreAssumption DEF Save
LEMMA FileIs == ASSUME NEW t \in Targets, NEW k \in Kinds PROVE <<t, k>> \in File
  BY DEF File
LEMMA Halves == "card" \in Kinds /\ "model" \in Kinds
  BY DEF Kinds

LEMMA StoreStarts ==
  ASSUME StoreInit
  PROVE  StoreInv
<1>1. StoreTypes
  BY StoreAssumption DEF StoreInit, StoreTypes, Save, NoFile, Rest, Idle, Call, Saving, Empty, Bundle, PerTarget, Kinds, File
<1>2. FilesInOrder
  BY FileIs, Halves DEF StoreInit, FilesInOrder, NoFile, Rest
<1>3. CacheInOrder
  BY DEF StoreInit, CacheInOrder
<1>4. CallsInOrder
  BY DEF StoreInit, CallsInOrder, CallInv, Idle, Answer
<1>5. QED
  BY <1>1, <1>2, <1>3, <1>4 DEF StoreInv

\* Files get newer and calls are disturbed: what they and the cache hold stays
\* in order.
LEMMA SaverMoves ==
  ASSUME StoreInv, StoreTypes', FilesInOrder',
         \A f \in File : file[f] <= file'[f],
         loader' = Disturbed, cache' = cache
  PROVE  StoreInv'
<1>1. file \in [File -> Nat] /\ file' \in [File -> Nat]
  BY SavesAreNat DEF StoreInv, StoreTypes
<1>2. CacheInOrder'
  <2> SUFFICES ASSUME NEW e \in cache
               PROVE  Paired(e.bundle) /\ KeyedBefore(e.key, e.bundle)'
    BY DEF CacheInOrder, Paired
  <2>1. e.key \in [File -> Nat] /\ e.bundle.cards \in [Targets -> Nat] /\ e.bundle.models \in [Targets -> Nat]
    BY SavesAreNat DEF StoreInv, StoreTypes, Bundle, PerTarget
  <2>2. Paired(e.bundle) /\ KeyedBefore(e.key, e.bundle)
    BY DEF StoreInv, CacheInOrder
  <2>3. QED
    BY <1>1, <2>1, <2>2, FileIs, Halves DEF KeyedBefore
<1>3. CallsInOrder'
  <2> SUFFICES ASSUME NEW l \in Loaders
               PROVE  CallInv(loader[l])'
    BY DEF CallsInOrder
  <2>1. loader[l] \in Call /\ CallInv(loader[l])
    BY DEF StoreInv, StoreTypes, CallsInOrder
  <2>2. loader'[l] = [loader[l] EXCEPT !.quiet = FALSE]
    BY DEF Disturbed
  <2>3. /\ loader'[l].pc = loader[l].pc /\ loader'[l].paths = loader[l].paths
        /\ loader'[l].key = loader[l].key /\ loader'[l].bundle = loader[l].bundle
        /\ ~loader'[l].quiet
    BY <2>1, <2>2 DEF Call
  <2>4. /\ loader[l].key \in [File -> Nat] /\ loader[l].paths \subseteq Targets
        /\ loader[l].bundle.cards \in [Targets -> Nat] /\ loader[l].bundle.models \in [Targets -> Nat]
    BY <2>1, SavesAreNat DEF Call, Bundle, PerTarget
  <2>5. loader[l].pc \in {"stat", "locked"} => Stating(loader[l])'
    BY <1>1, <2>1, <2>3, <2>4, FileIs, Halves DEF CallInv, Stating
  <2>6. loader[l].pc = "locked" => Reading(loader[l])'
    BY <1>1, <2>1, <2>3, <2>4, FileIs, Halves DEF CallInv, Reading
  <2>7. Answer(loader[l])'
    BY <2>1, <2>3 DEF CallInv, Answer, Paired
  <2>8. QED
    BY <2>1, <2>3, <2>5, <2>6, <2>7 DEF CallInv
<1>4. QED
  BY <1>2, <1>3 DEF StoreInv

LEMMA OpensModel ==
  ASSUME StoreInv, NEW t \in Targets, OpenModel(t)
  PROVE  StoreInv'
<1>1. saves \in Nat /\ saves' = saves + 1 /\ saves' \in Save
  <2>1. saves \in 0 .. MaxSaves /\ saves < MaxSaves /\ saves' = saves + 1
    BY DEF OpenModel, StoreInv, StoreTypes, Save
  <2>2. QED
    BY <2>1, StoreAssumption DEF Save
<1>2. file' = [file EXCEPT ![<<t, "model">>] = saves'] /\ loader' = Disturbed
  BY DEF OpenModel, Empties
<1>3. file \in [File -> Save] /\ \A f \in File : file[f] <= saves
  BY DEF StoreInv, StoreTypes, FilesInOrder
<1>4. \A f \in File : file[f] <= file'[f] /\ file'[f] <= saves'
  BY <1>1, <1>2, <1>3, NumbersOf
<1>5. StoreTypes'
  <2>1. loader' \in [Loaders -> Call]
    BY <1>2 DEF StoreInv, StoreTypes, Disturbed, Call
  <2>2. saving' \in Saving /\ emptied' \subseteq File
    BY FileIs, Halves DEF OpenModel, Empties, Saving, StoreInv, StoreTypes
  <2>3. QED
    BY <1>1, <1>2, <1>3, <2>1, <2>2 DEF StoreTypes, OpenModel, StoreInv
<1>6. FilesInOrder'
  <2>1. \A u \in Targets : file'[<<u, "card">>] <= file'[<<u, "model">>]
    <3> SUFFICES ASSUME NEW u \in Targets
                 PROVE  file'[<<u, "card">>] <= file'[<<u, "model">>]
      OBVIOUS
    <3>1. <<u, "card">> \in File /\ <<u, "model">> \in File
      BY FileIs, Halves
    <3>2. file'[<<u, "card">>] = file[<<u, "card">>]
      BY <1>2, <1>3, <3>1
    <3>3. file[<<u, "card">>] <= file[<<u, "model">>] /\ file[<<u, "model">>] <= file'[<<u, "model">>]
      BY <1>4, <3>1 DEF StoreInv, FilesInOrder
    <3>4. file[<<u, "card">>] \in Nat /\ file[<<u, "model">>] \in Nat /\ file'[<<u, "model">>] \in Nat
      BY <1>1, <1>2, <1>3, <3>1, NumbersOf, SavesAreNat
    <3>5. QED
      BY <3>2, <3>3, <3>4
  <2>2. saving' = [step |-> "emptied_model", target |-> t] /\ file'[<<t, "model">>] = saves'
    BY <1>2, <1>3, FileIs, Halves DEF OpenModel
  <2>3. QED
    BY <1>4, <2>1, <2>2 DEF FilesInOrder
<1>7. QED
  <2>1. cache' = cache
    BY DEF OpenModel
  <2>2. \A f \in File : file[f] <= file'[f]
    BY <1>4
  <2>3. loader' = Disturbed
    BY <1>2
  <2>4. QED
    BY <1>5, <1>6, <2>1, <2>2, <2>3, SaverMoves

LEMMA OpensCard ==
  ASSUME StoreInv, NEW t \in Targets, OpenCard(t)
  PROVE  StoreInv'
<1>1. saves' = saves /\ saves \in Save /\ saves \in Nat
  BY SavesAreNat DEF OpenCard, StoreInv, StoreTypes
<1>2. file' = [file EXCEPT ![<<t, "card">>] = saves] /\ loader' = Disturbed
  BY DEF OpenCard, Empties
<1>3. file \in [File -> Save] /\ \A f \in File : file[f] <= saves
  BY DEF StoreInv, StoreTypes, FilesInOrder
<1>4. \A f \in File : file[f] <= file'[f] /\ file'[f] <= saves'
  BY <1>1, <1>2, <1>3, NumbersOf
<1>5. StoreTypes'
  <2>1. loader' \in [Loaders -> Call]
    BY <1>2 DEF StoreInv, StoreTypes, Disturbed, Call
  <2>2. saving' \in Saving /\ emptied' \subseteq File
    BY FileIs, Halves DEF OpenCard, Empties, Saving, StoreInv, StoreTypes
  <2>3. QED
    BY <1>1, <1>2, <1>3, <2>1, <2>2 DEF StoreTypes, OpenCard, StoreInv
<1>6. FilesInOrder'
  <2>1. file[<<t, "model">>] = saves
    BY DEF OpenCard, StoreInv, FilesInOrder
  <2>2. \A u \in Targets : file'[<<u, "card">>] <= file'[<<u, "model">>]
    BY <1>1, <1>2, <1>3, <2>1, FileIs, Halves DEF StoreInv, FilesInOrder
  <2>3. saving' = [step |-> "emptied_card", target |-> t]
    BY DEF OpenCard
  <2>4. QED
    BY <1>4, <2>2, <2>3 DEF FilesInOrder
<1>7. QED
  BY <1>2, <1>4, <1>5, <1>6, SaverMoves DEF OpenCard

LEMMA Writes ==
  ASSUME StoreInv, NEW t \in Targets, WriteModel(t) \/ WriteCard(t)
  PROVE  StoreInv'
<1>1. /\ UNCHANGED <<file, saves, cache, lock>> /\ loader' = Disturbed /\ emptied' \subseteq emptied
  BY DEF WriteModel, WriteCard, Fills
<1>0. \/ saving = [step |-> "emptied_model", target |-> t] /\ saving' = [saving EXCEPT !.step = "model"]
      \/ saving' = Rest
  BY DEF WriteModel, WriteCard
<1>2. StoreTypes'
  <2>1. loader' \in [Loaders -> Call]
    BY <1>1 DEF StoreInv, StoreTypes, Disturbed, Call
  <2>2. saving' \in Saving
    BY <1>0 DEF Saving, Rest
  <2>3. QED
    BY <1>1, <2>1, <2>2 DEF StoreTypes, StoreInv
<1>3. FilesInOrder'
  <2>1. saving'.step # "no" => /\ saving.step = "emptied_model" /\ saving'.target = saving.target
                               /\ saving'.step = "model"
    BY <1>0 DEF Rest
  <2>2. QED
    BY <1>1, <2>1 DEF FilesInOrder, StoreInv
<1>4. \A f \in File : file[f] <= file'[f]
  BY <1>1, NumbersOf DEF StoreInv, StoreTypes
<1>5. QED
  BY <1>1, <1>2, <1>3, <1>4, SaverMoves

-----------------------------------------------------------------------------
LEMMA CallIs ==
  ASSUME StoreInv, NEW l \in Loaders
  PROVE  /\ loader[l] \in Call /\ CallInv(loader[l])
         /\ loader[l].paths \subseteq Targets /\ loader[l].key \in [File -> Nat]
         /\ loader[l].bundle \in Bundle /\ loader[l].quiet \in BOOLEAN
         /\ loader[l].bundle.cards \in [Targets -> Nat] /\ loader[l].bundle.models \in [Targets -> Nat]
<1>1. loader[l] \in Call /\ CallInv(loader[l])
  BY DEF StoreInv, StoreTypes, CallsInOrder
<1>2. QED
  BY <1>1, SavesAreNat DEF Call, Bundle, PerTarget

\* A call moves and the files stay.
LEMMA LoaderMoves ==
  ASSUME StoreInv, NEW l \in Loaders, NEW call \in Call, CallInv(call),
         UNCHANGED store, loader' = [loader EXCEPT ![l] = call],
         cache' \subseteq [key : [File -> Save], bundle : Bundle],
         CacheInOrder', lock' \in Loaders \cup {None}
  PROVE  StoreInv'
<1>1. file' = file /\ emptied' = emptied /\ saves' = saves /\ saving' = saving
  BY DEF store
<1>2. StoreTypes'
  BY <1>1 DEF StoreInv, StoreTypes
<1>3. FilesInOrder'
  BY <1>1 DEF StoreInv, FilesInOrder
<1>4. CallsInOrder'
  <2> SUFFICES ASSUME NEW m \in Loaders
               PROVE  CallInv(loader[m])'
    BY DEF CallsInOrder
  <2>1. CallInv(loader[m]) /\ loader'[m] = IF m = l THEN call ELSE loader[m]
    BY DEF StoreInv, StoreTypes, CallsInOrder
  <2>2. CallInv(loader'[m])
    BY <2>1
  <2>3. QED
    BY <1>1, <2>2 DEF CallInv, Stating, Reading, Answer, artifact_paths, Sound, Malformed, OnDisk
<1>5. QED
  BY <1>2, <1>3, <1>4 DEF StoreInv

LEMMA CacheStays ==
  ASSUME StoreInv, UNCHANGED file, cache' \subseteq cache
  PROVE  CacheInOrder' /\ cache' \subseteq [key : [File -> Save], bundle : Bundle]
<1>1. CacheInOrder'
  BY DEF StoreInv, CacheInOrder, Paired, KeyedBefore
<1>2. QED
  BY <1>1 DEF StoreInv, StoreTypes

LEMMA EmptyBundle == Empty \in Bundle /\ NoFile \in [File -> Save]
  BY StoreAssumption DEF Empty, Bundle, PerTarget, NoFile, Save

LEMMA CallStarts ==
  ASSUME StoreInv, NEW l \in Loaders, Starts(l)
  PROVE  StoreInv'
<1> DEFINE call == [Idle EXCEPT !.pc = IF artifact_paths = {} THEN "none" ELSE "stat",
                                !.paths = artifact_paths]
<1>1. /\ call.pc \in {"none", "stat"} /\ (call.pc = "none" <=> artifact_paths = {})
      /\ call.paths = artifact_paths /\ call.key = NoFile /\ call.bundle = Empty /\ call.quiet = TRUE
  BY DEF Idle
<1>2. call \in Call
  BY EmptyBundle DEF Idle, Call, artifact_paths
<1>3. CallInv(call)
  <2>1. file \in [File -> Nat]
    BY SavesAreNat DEF StoreInv, StoreTypes
  <2>2. Stating(call)
    BY <1>1, <2>1, FileIs, Halves DEF Stating, NoFile, artifact_paths
  <2>3. QED
    BY <1>1, <2>2 DEF CallInv, Answer
<1>4. loader' = [loader EXCEPT ![l] = call] /\ UNCHANGED <<store, cache, lock>>
  BY DEF Starts, Becomes
<1>5. QED
  <2> HIDE DEF call
  <2>1. lock' \in Loaders \cup {None} /\ UNCHANGED file /\ cache' \subseteq cache
    BY <1>4 DEF StoreInv, StoreTypes, store
  <2>2. QED
    BY <1>2, <1>3, <1>4, <2>1, LoaderMoves, CacheStays

LEMMA CallStats ==
  ASSUME StoreInv, NEW l \in Loaders, Stats(l)
  PROVE  StoreInv'
<1> PICK f \in Unstated(l) : Becomes(l, [loader[l] EXCEPT !.key[f] = MTime(f)])
  BY DEF Stats
<1> DEFINE call == [loader[l] EXCEPT !.key[f] = MTime(f)]
<1>1. /\ loader[l].pc = "stat" /\ loader[l].bundle = Empty /\ Stating(loader[l])
  BY CallIs DEF Stats, CallInv
<1>2. f \in File /\ f \in loader[l].paths \X Kinds
  BY CallIs DEF Unstated, File
<1>3. /\ call.pc = "stat" /\ call.paths = loader[l].paths /\ call.bundle = Empty
      /\ call.quiet = loader[l].quiet /\ call.key = [loader[l].key EXCEPT ![f] = file[f]]
  BY <1>1, CallIs DEF Call, MTime
<1>4. file \in [File -> Save] /\ file \in [File -> Nat]
  BY SavesAreNat DEF StoreInv, StoreTypes
<1>5. call \in Call
  BY <1>2, <1>4, CallIs DEF Call, MTime
<1>6. Stating(call)
  <2>1. \A g \in File : call.key[g] = IF g = f THEN file[f] ELSE loader[l].key[g]
    BY <1>3, CallIs
  <2>2. \A g \in File : call.key[g] <= file[g]
    BY <1>1, <1>4, <2>1 DEF Stating
  <2>3. \A t \in Targets, k \in Kinds : t \notin call.paths => call.key[<<t, k>>] = 0
    BY <1>1, <1>2, <1>3, <2>1, FileIs DEF Stating
  <2>4. call.quiet => \A g \in File : call.key[g] # 0 => call.key[g] = file[g]
    BY <1>1, <1>3, <2>1 DEF Stating
  <2>5. QED
    BY <1>1, <1>3, <2>2, <2>3, <2>4 DEF Stating
<1>7. CallInv(call)
  BY <1>3, <1>6 DEF CallInv, Answer
<1>8. loader' = [loader EXCEPT ![l] = call] /\ UNCHANGED <<store, cache, lock>>
  BY DEF Stats, Becomes
<1>9. QED
  <2> HIDE DEF call
  <2>1. lock' \in Loaders \cup {None} /\ UNCHANGED file /\ cache' \subseteq cache
    BY <1>8 DEF StoreInv, StoreTypes, store
  <2>2. QED
    BY <1>5, <1>7, <1>8, <2>1, LoaderMoves, CacheStays

\* The call that returns.
LEMMA ReturnsIs ==
  ASSUME StoreInv, NEW l \in Loaders, NEW pc \in {"none", "error", "bundle"}, NEW b \in Bundle,
         Returns(l, pc, b)
  PROVE  \E call \in Call :
           /\ loader' = [loader EXCEPT ![l] = call]
           /\ call.pc = pc /\ call.bundle = b /\ call.quiet = loader[l].quiet
<1> DEFINE call == [Idle EXCEPT !.pc = pc, !.bundle = b, !.quiet = loader[l].quiet]
<1>1. call \in Call
  BY EmptyBundle, CallIs DEF Idle, Call
<1>2. call.pc = pc /\ call.bundle = b /\ call.quiet = loader[l].quiet
  BY DEF Idle
<1>3. loader' = [loader EXCEPT ![l] = call]
  BY DEF Returns, Becomes
<1>4. QED
  BY <1>1, <1>2, <1>3

\* What a complete key and its bundle give a call that nothing disturbed.
LEMMA AnswerOf ==
  ASSUME StoreInv, NEW l \in Loaders, Stating(loader[l]), Unstated(l) = {},
         NEW b \in Bundle, KeyedBefore(loader[l].key, b), loader[l].quiet
  PROVE  b = [models |-> OnDisk("model"), cards |-> OnDisk("card")]
<1>1. /\ b = [models |-> b.models, cards |-> b.cards]
      /\ b.models \in [Targets -> Nat] /\ b.cards \in [Targets -> Nat]
  BY SavesAreNat DEF Bundle, PerTarget
<1>2. ASSUME NEW t \in Targets
      PROVE  b.models[t] = OnDisk("model")[t] /\ b.cards[t] = OnDisk("card")[t]
  <2> DEFINE key == loader[l].key
  <2>1. <<t, "card">> \in File /\ <<t, "model">> \in File
    BY FileIs, Halves
  <2>2. /\ key[<<t, "card">>] \in Nat /\ key[<<t, "model">>] \in Nat
        /\ file[<<t, "card">>] \in Nat /\ file[<<t, "model">>] \in Nat
    BY <2>1, CallIs, SavesAreNat DEF StoreInv, StoreTypes
  <2>3. loader[l].paths = artifact_paths
    BY DEF Stating
  <2>4. CASE t \in artifact_paths
    <3>1. key[<<t, "card">>] # 0 /\ key[<<t, "model">>] # 0
      BY <2>3, <2>4, Halves DEF Unstated
    <3>2. key[<<t, "card">>] = file[<<t, "card">>] /\ key[<<t, "model">>] = file[<<t, "model">>]
      BY <2>1, <3>1 DEF Stating
    <3>3. b.models[t] = file[<<t, "model">>] /\ b.cards[t] = file[<<t, "card">>]
      BY <1>1, <2>2, <3>2 DEF KeyedBefore
    <3>4. QED
      BY <2>4, <3>3 DEF OnDisk
  <2>5. CASE t \notin artifact_paths
    <3>1. key[<<t, "card">>] = 0 /\ key[<<t, "model">>] = 0
      BY <2>3, <2>5, Halves DEF Stating
    <3>2. b.models[t] = 0 /\ b.cards[t] = 0
      BY <3>1 DEF KeyedBefore
    <3>3. QED
      BY <2>5, <3>2 DEF OnDisk
  <2>6. QED
    BY <2>4, <2>5
<1>3. b.models = OnDisk("model")
  BY <1>1, <1>2 DEF OnDisk
<1>4. b.cards = OnDisk("card")
  BY <1>1, <1>2 DEF OnDisk
<1>5. QED
  BY <1>1, <1>3, <1>4

LEMMA CallHits ==
  ASSUME StoreInv, NEW l \in Loaders, Hit(l)
  PROVE  StoreInv'
<1> PICK e \in cache : e.key = loader[l].key /\ Returns(l, "bundle", e.bundle)
  BY DEF Hit
<1>1. e.bundle \in Bundle
  BY DEF StoreInv, StoreTypes
<1>2. Paired(e.bundle) /\ KeyedBefore(loader[l].key, e.bundle)
  BY DEF StoreInv, CacheInOrder
<1>3. Stating(loader[l]) /\ Unstated(l) = {}
  BY CallIs DEF Hit, CallInv
<1>4. PICK call \in Call :
        /\ loader' = [loader EXCEPT ![l] = call]
        /\ call.pc = "bundle" /\ call.bundle = e.bundle /\ call.quiet = loader[l].quiet
  BY <1>1, ReturnsIs
<1>5. loader[l].quiet => e.bundle = [models |-> OnDisk("model"), cards |-> OnDisk("card")]
  BY <1>1, <1>2, <1>3, AnswerOf
<1>6. CallInv(call)
  BY <1>2, <1>4, <1>5 DEF CallInv, Answer
<1>7. lock' \in Loaders \cup {None} /\ UNCHANGED <<store, file>> /\ cache' \subseteq cache
  BY DEF Hit, StoreInv, StoreTypes, store
<1>8. QED
  BY <1>4, <1>6, <1>7, LoaderMoves, CacheStays

LEMMA CallMisses ==
  ASSUME StoreInv, NEW l \in Loaders, Miss(l)
  PROVE  StoreInv'
<1> DEFINE call == [loader[l] EXCEPT !.pc = "locked"]
<1>1. loader[l].pc = "stat" /\ Unstated(l) = {}
  BY DEF Miss
<1>2. Stating(loader[l]) /\ loader[l].bundle = Empty
  BY <1>1, CallIs DEF CallInv
<1>3. /\ call.pc = "locked" /\ call.paths = loader[l].paths /\ call.key = loader[l].key
      /\ call.bundle = Empty /\ call.quiet = loader[l].quiet
  BY <1>2, CallIs DEF Call
<1>4. call \in Call
  BY CallIs DEF Call
<1>5. file \in [File -> Nat]
  BY SavesAreNat DEF StoreInv, StoreTypes
<1>6. Stating(call)
  BY <1>2, <1>3 DEF Stating
<1>7. Reading(call)
  <2>1. \A t \in call.paths, k \in Kinds : call.key[<<t, k>>] # 0
    BY <1>1, <1>3 DEF Unstated
  <2>2. ASSUME NEW t \in Targets
        PROVE  call.bundle.cards[t] = 0 /\ call.bundle.models[t] = 0
    BY <1>3 DEF Empty
  <2>3. ASSUME NEW t \in Targets
        PROVE  file[<<t, "card">>] \in Nat /\ file[<<t, "model">>] \in Nat
    BY <1>5, FileIs, Halves
  <2>4. QED
    BY <2>1, <2>2, <2>3 DEF Reading
<1>8. CallInv(call)
  BY <1>3, <1>6, <1>7 DEF CallInv, Answer
<1>9. loader' = [loader EXCEPT ![l] = call] /\ UNCHANGED <<store, cache>> /\ lock' = l
  BY DEF Miss, Becomes
<1>10. QED
  <2> HIDE DEF call
  <2>1. lock' \in Loaders \cup {None} /\ UNCHANGED file /\ cache' \subseteq cache
    BY <1>9 DEF store
  <2>2. QED
    BY <1>4, <1>8, <1>9, <2>1, LoaderMoves, CacheStays

\* What holds of the target that a locked call turns to.
LEMMA TargetInTurn ==
  ASSUME StoreInv, NEW l \in Loaders, loader[l].pc = "locked", NEW t \in Targets, InTurn(l, t)
  PROVE  /\ Stating(loader[l]) /\ Reading(loader[l])
         /\ t \in loader[l].paths /\ loader[l].bundle.models[t] = 0
         /\ <<t, "card">> \in File /\ <<t, "model">> \in File
         /\ loader[l].key[<<t, "card">>] # 0 /\ loader[l].key[<<t, "card">>] <= file[<<t, "card">>]
         /\ loader[l].key[<<t, "model">>] # 0 /\ loader[l].key[<<t, "model">>] <= file[<<t, "model">>]
         /\ file[<<t, "card">>] \in Nat /\ file[<<t, "model">>] \in Nat
         /\ file[<<t, "card">>] > 0 /\ file[<<t, "model">>] > 0
<1>1. Stating(loader[l]) /\ Reading(loader[l])
  BY CallIs DEF CallInv
<1>2. t \in loader[l].paths /\ loader[l].bundle.models[t] = 0
  BY DEF InTurn, Pending
<1>3. <<t, "card">> \in File /\ <<t, "model">> \in File
  BY FileIs, Halves
<1>4. file[<<t, "card">>] \in Nat /\ file[<<t, "model">>] \in Nat
  BY <1>3, SavesAreNat DEF StoreInv, StoreTypes
<1>5. QED
  BY <1>1, <1>2, <1>3, <1>4, Halves DEF Stating, Reading

LEMMA CallReadsCard ==
  ASSUME StoreInv, NEW l \in Loaders, NEW t \in Targets, ReadsCard(l, t)
  PROVE  StoreInv'
<1> DEFINE call == [loader[l] EXCEPT !.bundle.cards[t] = file[<<t, "card">>]]
<1>1. /\ Stating(loader[l]) /\ Reading(loader[l])
      /\ t \in loader[l].paths /\ loader[l].bundle.models[t] = 0
      /\ <<t, "card">> \in File /\ file[<<t, "card">>] \in Nat
      /\ loader[l].key[<<t, "card">>] <= file[<<t, "card">>]
  BY TargetInTurn DEF ReadsCard
<1>2. loader[l].pc = "locked"
  BY DEF ReadsCard
<1>3. /\ call.pc = "locked" /\ call.paths = loader[l].paths /\ call.key = loader[l].key
      /\ call.quiet = loader[l].quiet /\ call.bundle.models = loader[l].bundle.models
      /\ call.bundle.cards = [loader[l].bundle.cards EXCEPT ![t] = file[<<t, "card">>]]
  BY <1>2, CallIs DEF Call, Bundle
<1>4. file[<<t, "card">>] \in Save
  BY <1>1 DEF StoreInv, StoreTypes
<1>5. call \in Call
  BY <1>4, CallIs DEF Call, Bundle, PerTarget
<1>6. Stating(call)
  BY <1>1, <1>3 DEF Stating
<1>7. Reading(call)
  <2>1. \A u \in Targets : call.bundle.cards[u] = IF u = t THEN file[<<t, "card">>]
                                                  ELSE loader[l].bundle.cards[u]
    BY <1>3, CallIs
  <2>2. QED
    BY <1>1, <1>3, <2>1 DEF Reading
<1>8. CallInv(call)
  BY <1>3, <1>6, <1>7 DEF CallInv, Answer
<1>9. loader' = [loader EXCEPT ![l] = call] /\ UNCHANGED <<store, cache, lock>>
  BY DEF ReadsCard, Becomes
<1>10. QED
  <2> HIDE DEF call
  <2>1. lock' \in Loaders \cup {None} /\ UNCHANGED file /\ cache' \subseteq cache
    BY <1>9 DEF StoreInv, StoreTypes, store
  <2>2. QED
    BY <1>5, <1>8, <1>9, <2>1, LoaderMoves, CacheStays

\* The card that is open is no newer than its model was, nor than it is now.
LEMMA CallReadsModel ==
  ASSUME StoreInv, NEW l \in Loaders, NEW t \in Targets, ReadsModel(l, t)
  PROVE  StoreInv'
<1> DEFINE call == [loader[l] EXCEPT !.bundle.models[t] = file[<<t, "model">>]]
<1>1. /\ Stating(loader[l]) /\ Reading(loader[l])
      /\ t \in loader[l].paths /\ loader[l].bundle.models[t] = 0
      /\ <<t, "model">> \in File /\ file[<<t, "model">>] \in Nat /\ file[<<t, "card">>] \in Nat
      /\ loader[l].key[<<t, "model">>] <= file[<<t, "model">>]
  BY TargetInTurn DEF ReadsModel
<1>2. loader[l].pc = "locked" /\ loader[l].bundle.cards[t] # 0
  BY DEF ReadsModel, CardOpen
<1>3. /\ call.pc = "locked" /\ call.paths = loader[l].paths /\ call.key = loader[l].key
      /\ call.quiet = loader[l].quiet /\ call.bundle.cards = loader[l].bundle.cards
      /\ call.bundle.models = [loader[l].bundle.models EXCEPT ![t] = file[<<t, "model">>]]
  BY <1>2, CallIs DEF Call, Bundle
<1>4. file[<<t, "model">>] \in Save
  BY <1>1 DEF StoreInv, StoreTypes
<1>5. call \in Call
  BY <1>4, CallIs DEF Call, Bundle, PerTarget
<1>6. Stating(call)
  BY <1>1, <1>3 DEF Stating
<1>7. Reading(call)
  <2>1. \A u \in Targets : call.bundle.models[u] = IF u = t THEN file[<<t, "model">>]
                                                   ELSE loader[l].bundle.models[u]
    BY <1>3, CallIs
  <2>2. loader[l].bundle.cards[t] <= file[<<t, "model">>]
    <3>1. loader[l].bundle.cards[t] <= file[<<t, "card">>] /\ loader[l].bundle.cards[t] \in Nat
      BY <1>1, CallIs DEF Reading
    <3>2. file[<<t, "card">>] <= file[<<t, "model">>]
      BY DEF StoreInv, FilesInOrder
    <3>3. QED
      BY <1>1, <3>1, <3>2
  <2>3. QED
    BY <1>1, <1>2, <1>3, <2>1, <2>2 DEF Reading
<1>8. CallInv(call)
  BY <1>3, <1>6, <1>7 DEF CallInv, Answer
<1>9. loader' = [loader EXCEPT ![l] = call] /\ UNCHANGED <<store, cache, lock>>
  BY DEF ReadsModel, Becomes
<1>10. QED
  <2> HIDE DEF call
  <2>1. lock' \in Loaders \cup {None} /\ UNCHANGED file /\ cache' \subseteq cache
    BY <1>9 DEF StoreInv, StoreTypes, store
  <2>2. QED
    BY <1>5, <1>8, <1>9, <2>1, LoaderMoves, CacheStays

LEMMA CallRaises ==
  ASSUME StoreInv, NEW l \in Loaders, NEW t \in Targets, Raises(l, t)
  PROVE  StoreInv'
<1>1. /\ Stating(loader[l]) /\ t \in loader[l].paths
  BY TargetInTurn DEF Raises
<1>2. <<t, "model">> \in emptied \/ Malformed(t)
  BY DEF Raises
<1>3. loader[l].quiet => ~Sound
  BY <1>1, <1>2 DEF Stating, Sound
<1>4. PICK call \in Call :
        /\ loader' = [loader EXCEPT ![l] = call]
        /\ call.pc = "error" /\ call.bundle = Empty /\ call.quiet = loader[l].quiet
  BY EmptyBundle, ReturnsIs DEF Raises
<1>5. CallInv(call)
  BY <1>3, <1>4 DEF CallInv, Answer
<1>6. lock' \in Loaders \cup {None} /\ UNCHANGED <<store, file>> /\ cache' \subseteq cache
  BY DEF Raises, store
<1>7. QED
  BY <1>4, <1>5, <1>6, LoaderMoves, CacheStays

LEMMA CallKeeps ==
  ASSUME StoreInv, NEW l \in Loaders, Keeps(l)
  PROVE  StoreInv'
<1> DEFINE b == loader[l].bundle
           key == loader[l].key
<1>1. Stating(loader[l]) /\ Reading(loader[l]) /\ b \in Bundle /\ Pending(l) = {}
  BY CallIs DEF Keeps, CallInv
<1>2. /\ key \in [File -> Nat] /\ b.cards \in [Targets -> Nat] /\ b.models \in [Targets -> Nat]
  BY CallIs
<1>3. ASSUME NEW t \in Targets
      PROVE  /\ key[<<t, "card">>] = 0 <=> b.cards[t] = 0
             /\ key[<<t, "model">>] = 0 <=> b.models[t] = 0
             /\ b.cards[t] = 0 <=> b.models[t] = 0
  <2>1. CASE t \in loader[l].paths
    <3>1. b.models[t] # 0
      BY <1>1, <2>1 DEF Pending
    <3>2. QED
      BY <1>1, <2>1, <3>1, Halves DEF Reading
  <2>2. CASE t \notin loader[l].paths
    BY <1>1, <2>2, Halves DEF Stating, Reading
  <2>3. QED
    BY <2>1, <2>2
<1>4. Paired(b)
  <2> SUFFICES ASSUME NEW t \in Targets
               PROVE  b.cards[t] <= b.models[t]
    BY <1>3 DEF Paired
  <2>1. b.cards[t] \in Nat /\ b.models[t] \in Nat
    BY <1>2
  <2>2. CASE b.models[t] = 0
    <3>1. b.cards[t] = 0
      BY <1>3, <2>2
    <3>2. QED
      BY <2>2, <3>1
  <2>3. CASE b.models[t] # 0
    BY <1>1, <2>3 DEF Reading
  <2>4. QED
    BY <2>2, <2>3
<1>5. KeyedBefore(key, b)
  <2> SUFFICES ASSUME NEW t \in Targets
               PROVE  /\ key[<<t, "card">>] <= b.cards[t] /\ b.cards[t] <= file[<<t, "card">>]
                      /\ key[<<t, "model">>] <= b.models[t] /\ b.models[t] <= file[<<t, "model">>]
    BY <1>3 DEF KeyedBefore
  <2>1. b.cards[t] \in Nat /\ b.models[t] \in Nat
    BY <1>2
  <2>2. QED
    BY <1>1, <1>3, <2>1 DEF Reading
<1>6. Unstated(l) = {}
  BY <1>1 DEF Unstated, Reading
<1>7. loader[l].quiet => b = [models |-> OnDisk("model"), cards |-> OnDisk("card")]
  BY <1>1, <1>5, <1>6, AnswerOf
<1>8. PICK call \in Call :
        /\ loader' = [loader EXCEPT ![l] = call]
        /\ call.pc = "bundle" /\ call.bundle = b /\ call.quiet = loader[l].quiet
  BY <1>1, ReturnsIs DEF Keeps
<1>9. CallInv(call)
  BY <1>4, <1>7, <1>8 DEF CallInv, Answer
<1>10. lock' \in Loaders \cup {None} /\ UNCHANGED <<store, file>>
       /\ cache' = cache \cup {[key |-> key, bundle |-> b]}
  BY DEF Keeps, store
<1>11. CacheInOrder'
  BY <1>4, <1>5, <1>10 DEF StoreInv, CacheInOrder, Paired, KeyedBefore
<1>12. cache' \subseteq [key : [File -> Save], bundle : Bundle]
  BY <1>1, <1>10, CallIs DEF StoreInv, StoreTypes, Call
<1>13. QED
  BY <1>8, <1>9, <1>10, <1>11, <1>12, LoaderMoves

-----------------------------------------------------------------------------
LEMMA StoreStep ==
  ASSUME StoreInv, [StoreNext]_storeVars
  PROVE  StoreInv'
<1>1. CASE UNCHANGED storeVars
  BY <1>1 DEF storeVars, StoreInv, StoreTypes, FilesInOrder, CacheInOrder, Paired, KeyedBefore,
     CallsInOrder, CallInv, Stating, Reading, Answer, artifact_paths, Sound, Malformed, OnDisk
<1>2. CASE Saver
  <2>1. CASE SaverDies
    <3>1. UNCHANGED <<file, emptied, saves, loader, cache, lock>> /\ saving' = Rest
      BY <2>1 DEF SaverDies
    <3>2. StoreTypes' /\ FilesInOrder'
      BY <3>1 DEF StoreInv, StoreTypes, FilesInOrder, Rest, Saving
    <3>3. CacheInOrder' /\ CallsInOrder'
      BY <3>1 DEF StoreInv, CacheInOrder, Paired, KeyedBefore, CallsInOrder, CallInv, Stating,
         Reading, Answer, artifact_paths, Sound, Malformed, OnDisk
    <3>4. QED
      BY <3>2, <3>3 DEF StoreInv
  <2>2. QED
    BY <1>2, <2>1, OpensModel, OpensCard, Writes DEF Saver
<1>3. CASE clear_bundle_cache
  <2>1. UNCHANGED <<file, emptied, saves, saving, loader, lock>> /\ cache' = {}
    BY <1>3 DEF clear_bundle_cache, store
  <2>2. StoreTypes' /\ FilesInOrder' /\ CacheInOrder'
    BY <2>1 DEF StoreInv, StoreTypes, FilesInOrder, CacheInOrder
  <2>3. CallsInOrder'
    BY <2>1 DEF StoreInv, CallsInOrder, CallInv, Stating, Reading, Answer, artifact_paths, Sound,
       Malformed, OnDisk
  <2>4. QED
    BY <2>2, <2>3 DEF StoreInv
<1>4. ASSUME NEW l \in Loaders, Loads(l)
      PROVE  StoreInv'
  BY <1>4, CallStarts, CallStats, CallHits, CallMisses, CallKeeps, CallReadsCard, CallReadsModel,
     CallRaises DEF Loads
<1>5. QED
  BY <1>1, <1>2, <1>3, <1>4 DEF StoreNext

LEMMA StoreSays ==
  ASSUME StoreInv
  PROVE  LoadSound
  BY DEF StoreInv, CallsInOrder, CallInv, Answer, Paired, LoadSound

\* The evaluation leaves the store alone, or leaves it behind as it was found.
LEMMA EvaluationKeepsStore ==
  ASSUME StoreInv, [EvaluationNext]_evalVars
  PROVE  StoreInv'
<1>1. CASE UNCHANGED storeVars
  BY <1>1, StoreStep
<1>2. CASE StoreMoves
  BY <1>2, StoreStep DEF StoreMoves
<1>3. CASE LeavesTheStore
  <2>1. StoreInit'
    BY <1>3 DEF LeavesTheStore, StoreInit
  <2>2. QED
    BY <2>1, StoreStarts, PTL
<1>4. QED
  BY <1>1, <1>2, <1>3 DEF EvaluationNext, evalVars, Unfiltered, TakesBundle, LoadAborts, Detect,
     DetectAborts, Simulate, NextWindow, Report

\* Before and behind training, a run is an evaluation.
LEMMA RunEvaluates == RunSpec => EvaluationSpec
<1>1. RunInit => EvaluationInit
  BY DEF RunInit
<1>2. [RunNext]_runVars => [EvaluationNext]_evalVars
  BY DEF RunNext, runVars
<1>3. QED
  BY <1>1, <1>2, PTL DEF RunSpec, EvaluationSpec

(* A load that no save overlaps returns the files as they are, and one that a
   save does overlap takes no card newer than its model. *)
THEOREM LoadsAreSound == RunSpec => []LoadSound
<1>1. EvaluationInit => StoreInv
  BY StoreStarts DEF EvaluationInit
<1>2. StoreInv /\ [EvaluationNext]_evalVars => StoreInv'
  BY EvaluationKeepsStore
<1>3. StoreInv => LoadSound
  BY StoreSays
<1>4. QED
  BY <1>1, <1>2, <1>3, RunEvaluates, PTL DEF EvaluationSpec

-----------------------------------------------------------------------------
(* The filter: the verdicts on the buckets' rows are those on the signals. *)

\* TurnedDown, of any frame and models.
RowsAt(f, t) == {k \in DOMAIN f : f[k].time = t}
LastAt(f, t) == CHOOSE k \in RowsAt(f, t) : \A m \in RowsAt(f, t) : m <= k
Says(f, b, s, target) == Score(target, b.models[target], encode_row(f[LastAt(f, s.time)]))
Down(f, b, s) ==
  LET target == target_for_strategy(s.strategy_id)
  IN /\ RowsAt(f, s.time) # {} /\ b.models[target] # 0
     /\ ~keeps(target, Says(f, b, s, target))

\* The last row of a time is the one that RowOf finds.
LEMMA LastRow ==
  ASSUME NEW f \in Frames, NEW t, HasRow(f, t)
  PROVE  /\ RowsAt(f, t) # {} /\ LastAt(f, t) \in DOMAIN f
         /\ RowOf(f, t) = f[LastAt(f, t)]
<1>1. Len(f) \in Nat /\ DOMAIN f = 1 .. Len(f)
  <2>1. f \in Seq({f[k] : k \in DOMAIN f})
    BY FilterAssumption
  <2>2. QED
    BY <2>1
<1> DEFINE rows == RowsAt(f, t)
           Last_(k) == k \in DOMAIN f /\ f[k].time = t /\ \A m \in DOMAIN f : f[m].time = t => m <= k
<1>2. rows # {} /\ rows \in SUBSET Int
  BY <1>1 DEF HasRow, RowsAt
<1>3. \E k \in rows : \A m \in rows : m <= k
  <2>1. \A x \in rows : x <= Len(f)
    BY <1>1 DEF RowsAt
  <2> HIDE DEF rows
  <2>2. Len(f) \in Int
    BY <1>1
  <2>3. QED
    BY <1>2, <2>1, <2>2, GreatestExists, Zenon
<1>4. LastAt(f, t) \in rows /\ \A m \in rows : m <= LastAt(f, t)
  BY <1>3 DEF LastAt
<1>5. Last_(LastAt(f, t))
  BY <1>4 DEF RowsAt
<1>6. ASSUME NEW k, Last_(k) PROVE k = LastAt(f, t)
  <2>1. k \in rows /\ k <= LastAt(f, t)
    BY <1>4, <1>6 DEF RowsAt
  <2>2. LastAt(f, t) <= k
    BY <1>5, <1>6
  <2>3. k \in Int /\ LastAt(f, t) \in Int
    BY <1>2, <1>4, <2>1
  <2>4. QED
    BY <2>1, <2>2, <2>3
<1>7. (CHOOSE k \in DOMAIN f : f[k].time = t /\ \A m \in DOMAIN f : f[m].time = t => m <= k) = LastAt(f, t)
  BY <1>5, <1>6
<1>8. QED
  BY <1>2, <1>5, <1>7 DEF RowOf

\* The positions of a bucket.
Bucket(found, f, b, target) ==
  {k \in DOMAIN found : /\ target_for_strategy(found[k].strategy_id) = target
                        /\ HasModel(b, target) /\ HasRow(f, found[k].time)}

\* A verdict goes back to the position its row came from.
LEMMA RejectedAre ==
  ASSUME NEW n \in Nat, NEW found \in [1 .. n -> Signals], NEW f, NEW b, NEW target
  PROVE  Rejected(found, f, b, target) =
           {p \in Bucket(found, f, b, target) :
              ~keeps(target, Score(target, b.models[target], encode_row(RowOf(f, found[p].time))))}
<1> DEFINE B == Bucket(found, f, b, target)
           s == Ascending(B)
           Bad(p) == ~keeps(target, Score(target, b.models[target], encode_row(RowOf(f, found[p].time))))
<1>1. B \in SUBSET (1 .. n) /\ B \in SUBSET Int /\ IsFiniteSet(B)
  <2>1. B \in SUBSET (1 .. n) /\ B \in SUBSET Int
    BY DEF Bucket
  <2>2. QED
    BY <2>1, FS_Interval, FS_Subset
<1>2. /\ s \in [1 .. Cardinality(B) -> B]
      /\ \A t \in B : Rank(t, B) \in 1 .. Cardinality(B) /\ s[Rank(t, B)] = t
  <2> HIDE DEF B
  <2>1. QED
    BY <1>1, Listed
<1>3. ScoredPositions(found, f, b, target) = s
  BY DEF ScoredPositions, Bucket
<1>4. Rejected(found, f, b, target) = {s[k] : k \in {pos \in DOMAIN s : Bad(s[pos])}}
  BY <1>3 DEF Rejected, RejectedRows
<1>5. {s[k] : k \in {pos \in DOMAIN s : Bad(s[pos])}} = {p \in B : Bad(p)}
  <2> HIDE DEF B, s, Bad
  <2>1. QED
    BY <1>2
<1>6. QED
  BY <1>4, <1>5

LEMMA RejectedAreDown ==
  ASSUME NEW n \in Nat, NEW found \in [1 .. n -> Signals], NEW f \in Frames,
         NEW b \in Bundle, Paired(b), NEW p \in 1 .. n
  PROVE  (\E target \in {"trend_continuation", "fake_breakout"} : p \in Rejected(found, f, b, target))
         <=> Down(f, b, found[p])
<1> DEFINE target == target_for_strategy(found[p].strategy_id)
<1>1. target \in {"trend_continuation", "fake_breakout"} /\ target \in Targets
  BY FilterAssumption DEF target_for_strategy
<1>2. HasModel(b, target) <=> b.models[target] # 0
  BY <1>1 DEF HasModel, Paired
<1>3. HasRow(f, found[p].time) <=> RowsAt(f, found[p].time) # {}
  BY DEF HasRow, RowsAt
<1>4. HasRow(f, found[p].time) => RowOf(f, found[p].time) = f[LastAt(f, found[p].time)]
  BY LastRow
<1>5. p \in Rejected(found, f, b, target) <=> Down(f, b, found[p])
  <2>1. p \in Rejected(found, f, b, target) <=>
          /\ p \in Bucket(found, f, b, target)
          /\ ~keeps(target, Score(target, b.models[target], encode_row(RowOf(f, found[p].time))))
    <3> HIDE DEF target
    <3>1. QED
      BY RejectedAre
  <2>2. p \in Bucket(found, f, b, target) <=> HasModel(b, target) /\ HasRow(f, found[p].time)
    BY DEF Bucket
  <2>3. QED
    BY <1>2, <1>3, <1>4, <2>1, <2>2 DEF Down, Says
<1>6. ASSUME NEW other \in {"trend_continuation", "fake_breakout"}, p \in Rejected(found, f, b, other)
      PROVE  other = target
  <2>1. p \in Bucket(found, f, b, other)
    BY <1>6, RejectedAre
  <2>2. QED
    BY <2>1 DEF Bucket
<1>7. QED
  BY <1>1, <1>5, <1>6

Passed(found, f, b) == {k \in DOMAIN found : ~Down(f, b, found[k])}

LEMMA FilterKeeps ==
  ASSUME NEW n \in Nat, NEW found \in [1 .. n -> Signals], NEW f \in Frames,
         NEW b \in Bundle, Paired(b)
  PROVE  LET left == filter_signals(found, f, b) IN
         /\ Len(left) = Cardinality(Passed(found, f, b))
         /\ \A k \in Passed(found, f, b) : left[Rank(k, Passed(found, f, b))] = found[k]
<1> DEFINE P == Passed(found, f, b)
           s == Ascending(P)
           left == filter_signals(found, f, b)
           N == Cardinality(P)
<1>1. P \in SUBSET (1 .. n) /\ P \in SUBSET Int /\ IsFiniteSet(P)
  <2>1. P \in SUBSET (1 .. n) /\ P \in SUBSET Int
    BY DEF Passed
  <2>2. QED
    BY <2>1, FS_Interval, FS_Subset
<1>2. /\ N \in Nat /\ s \in [1 .. N -> P]
      /\ \A t \in P : Rank(t, P) \in 1 .. N /\ s[Rank(t, P)] = t
  <2> HIDE DEF P
  <2>1. QED
    BY <1>1, Listed
<1>3. P = {k \in DOMAIN found : k \notin UNION {Rejected(found, f, b, target) :
                                 target \in {"trend_continuation", "fake_breakout"}}}
  BY RejectedAreDown DEF Passed
<1>4. left = [k \in DOMAIN s |-> found[s[k]]]
  BY <1>3 DEF filter_signals, Sublist
<1>5. left \in [1 .. N -> Signals]
  <2> HIDE DEF P, s, left
  <2>1. QED
    BY <1>1, <1>2, <1>4
<1>6. Len(left) = N
  <2> HIDE DEF P, left, N
  <2>1. QED
    BY <1>2, <1>5, SeqDef
<1>7. \A k \in P : left[Rank(k, P)] = found[k]
  <2> HIDE DEF P, s, left
  <2>1. QED
    BY <1>2, <1>4
<1>8. QED
  BY <1>6, <1>7

\* TurnedDown asks for the same, the other way round.
Judged(f, b, s) ==
  LET target == IF s.strategy_id = "C" THEN "fake_breakout" ELSE "trend_continuation"
      rows == {k \in DOMAIN f : f[k].time = s.time}
      vector == encode_row(f[CHOOSE k \in rows : \A m \in rows : m <= k])
      probability == Score(target, b.models[target], vector)
  IN /\ rows # {} /\ b.models[target] # 0
     /\ IF s.strategy_id = "C" THEN probability > Threshold[target]
        ELSE probability < Threshold[target]

LEMMA JudgedIsDown ==
  ASSUME NEW f \in Frames, NEW b \in Bundle, NEW s
  PROVE  Judged(f, b, s) <=> Down(f, b, s)
<1> DEFINE target == target_for_strategy(s.strategy_id)
           p == Says(f, b, s, target)
<1>1. /\ target = IF s.strategy_id = "C" THEN "fake_breakout" ELSE "trend_continuation"
      /\ target \in Targets /\ Threshold[target] \in Int
  BY FilterAssumption DEF target_for_strategy
<1>2. Judged(f, b, s) <=>
        /\ RowsAt(f, s.time) # {} /\ b.models[target] # 0
        /\ IF s.strategy_id = "C" THEN p > Threshold[target] ELSE p < Threshold[target]
  BY <1>1 DEF Judged, RowsAt, LastAt, Says
<1>3. ASSUME RowsAt(f, s.time) # {}
      PROVE  p \in Int
  <2>1. HasRow(f, s.time)
    BY <1>3 DEF RowsAt, HasRow
  <2>2. LastAt(f, s.time) \in DOMAIN f
    BY <2>1, LastRow
  <2>3. b.models[target] \in Save
    BY <1>1 DEF Bundle, PerTarget
  <2>4. QED
    BY <1>1, <2>2, <2>3, FilterAssumption DEF Says
<1>4. ASSUME RowsAt(f, s.time) # {}
      PROVE  ~keeps(target, p) <=>
               IF s.strategy_id = "C" THEN p > Threshold[target] ELSE p < Threshold[target]
  <2> HIDE DEF p
  <2>1. QED
    BY <1>1, <1>3, <1>4 DEF keeps
<1>5. QED
  BY <1>2, <1>4 DEF Down

FilterInv == bundle \in Bundle /\ Paired(bundle) /\ FilterExact

LEMMA DetectFilters ==
  ASSUME FilterInv, Detect
  PROVE  FilterExact'
<1>1. PICK n \in 1 .. MaxSignals, f \in Frames : \E found \in [1 .. n -> Signals] :
        signals' = found /\ frame' = f /\ kept' = filter_signals(found, f, bundle)
  BY DEF Detect
<1>2. PICK found \in [1 .. n -> Signals] :
        signals' = found /\ frame' = f /\ kept' = filter_signals(found, f, bundle)
  BY <1>1
<1>3. bundle' = bundle /\ bundle \in Bundle /\ Paired(bundle) /\ n \in Nat
  BY EvaluationAssumption DEF Detect, FilterInv
<1>4. \A s : TurnedDown(s)' <=> Judged(f, bundle, s)
  BY <1>2, <1>3 DEF TurnedDown, Judged
<1>5. {k \in DOMAIN found : ~TurnedDown(found[k])'} = Passed(found, f, bundle)
  BY <1>3, <1>4, JudgedIsDown DEF Passed
<1>6. /\ Len(kept') = Cardinality(Passed(found, f, bundle))
      /\ \A k \in Passed(found, f, bundle) : kept'[Rank(k, Passed(found, f, bundle))] = found[k]
  BY <1>2, <1>3, FilterKeeps
<1>7. QED
  BY <1>2, <1>5, <1>6 DEF FilterExact

LEMMA FilterStep ==
  ASSUME StoreInv, FilterInv, [EvaluationNext]_evalVars
  PROVE  FilterInv'
<1>1. CASE Detect
  <2>1. bundle' = bundle
    BY <1>1 DEF Detect
  <2>2. QED
    BY <1>1, <2>1, DetectFilters DEF FilterInv, Paired
<1>2. CASE Simulate \/ NextWindow
  <2>1. bundle' = bundle /\ signals' = <<>>
    BY <1>2 DEF Simulate, NextWindow
  <2>2. QED
    BY <2>1 DEF FilterInv, FilterExact, Paired
<1>3. CASE StoreMoves \/ DetectAborts \/ Report \/ UNCHANGED evalVars
  <2>1. bundle' = bundle /\ (stage' = "simulating" => stage = "simulating" /\ UNCHANGED window)
    BY <1>3 DEF StoreMoves, DetectAborts, Report, evalVars
  <2>2. FilterExact'
    <3> SUFFICES ASSUME stage' = "simulating", signals' # <<>>
                 PROVE  FilterExact'
      BY DEF FilterExact
    <3>1. signals' = signals /\ frame' = frame /\ kept' = kept /\ stage = "simulating"
      BY <2>1 DEF window
    <3>2. \A k : TurnedDown(signals[k])' <=> TurnedDown(signals[k])
      BY <2>1, <3>1 DEF TurnedDown
    <3>3. {k \in DOMAIN signals : ~TurnedDown(signals[k])'}
            = {k \in DOMAIN signals : ~TurnedDown(signals[k])}
      BY <3>2
    <3>4. FilterExact
      BY DEF FilterInv
    <3>5. QED
      BY <3>1, <3>3, <3>4 DEF FilterExact
  <2>3. QED
    BY <2>1, <2>2 DEF FilterInv, Paired
<1>4. ASSUME NEW l \in Loaders, TakesBundle(l)
      PROVE  FilterInv'
  <2>1. bundle' = loader[l].bundle /\ stage' = "detecting" /\ loader[l].pc = "bundle"
    BY <1>4 DEF TakesBundle
  <2>2. loader[l].bundle \in Bundle /\ Paired(loader[l].bundle)
    BY <2>1, CallIs DEF CallInv, Answer
  <2>3. QED
    BY <2>1, <2>2 DEF FilterInv, FilterExact, Paired
<1>5. CASE Unfiltered \/ \E l \in Loaders : LoadAborts(l)
  <2>1. bundle' \in {bundle, Empty} /\ stage' \in {"detecting", "aborted"}
    BY <1>5 DEF Unfiltered, LoadAborts
  <2>2. Empty \in Bundle /\ Paired(Empty)
    BY EmptyBundle DEF Empty, Paired
  <2>3. QED
    BY <2>1, <2>2 DEF FilterInv, FilterExact, Paired
<1>6. QED
  BY <1>1, <1>2, <1>3, <1>4, <1>5 DEF EvaluationNext

(* The filter drops exactly the signals that the model of their own strategy
   turns down on the row of their own bar, and keeps the others in order, for
   any signals, frames, models and thresholds. *)
THEOREM FilterIsExact == RunSpec => []FilterExact
<1>1. EvaluationInit => StoreInv /\ FilterInv
  BY StoreStarts, EmptyBundle DEF EvaluationInit, FilterInv, FilterExact, Empty, Paired
<1>2. StoreInv /\ FilterInv /\ [EvaluationNext]_evalVars => StoreInv' /\ FilterInv'
  BY EvaluationKeepsStore, FilterStep
<1>3. StoreInv /\ FilterInv => FilterExact
  BY DEF FilterInv
<1>4. QED
  BY <1>1, <1>2, <1>3, RunEvaluates, PTL DEF EvaluationSpec

-----------------------------------------------------------------------------
(* The figures.  Each fold of Metrics goes along its list a step at a time. *)

\* A sum adds one element after the other.
LEMMA SumRuns ==
  ASSUME NEW n \in Nat, NEW s \in [1 .. n -> Int]
  PROVE  \E run \in [0 .. n -> Int] :
           /\ run[0] = 0 /\ run[n] = Sum(s)
           /\ \A k \in 0 .. (n - 1) : run[k + 1] = run[k] + s[k + 1]
<1> DEFINE Fold(g) == g = [T \in SUBSET (1 .. n) |->
                              IF T = {} THEN 0 ELSE g[T \ {Top(T)}] + s[Top(T)]]
           h == CHOOSE g : Fold(g)
<1>1. Sum(s) = h[1 .. n]
  BY DEF Sum, FoldLeft, MapThenFoldSet, Max, Top
<1>2. Fold(h)
  <2> DEFINE G == [p \in Int \X (1 .. n) |-> p[1] + s[p[2]]]
  <2>1. G \in [Int \X (1 .. n) -> Int]
    OBVIOUS
  <2>2. PICK g \in [SUBSET (1 .. n) -> Int] : FoldsWith(G, 0, 1 .. n, g)
    <3> HIDE DEF G
    <3>1. 0 \in Int
      OBVIOUS
    <3>2. QED
      BY <2>1, <3>1, FoldExists, Zenon
  <2>3. ASSUME NEW T \in SUBSET (1 .. n), T # {}
        PROVE  G[<<g[T \ {Top(T)}], Top(T)>>] = g[T \ {Top(T)}] + s[Top(T)]
    <3>1. Top(T) \in 1 .. n /\ g[T \ {Top(T)}] \in Int
      BY <2>3, TopIs
    <3>2. QED
      BY <3>1
  <2>4. Fold(g)
    <3> HIDE DEF G
    <3>1. QED
      BY <2>2, <2>3 DEF FoldsWith
  <2> HIDE DEF Fold
  <2>5. QED
    BY <2>4
<1> HIDE DEF h
<1> DEFINE W == Int \cup {h[T] : T \in SUBSET (1 .. n)}
           G == [p \in W \X (1 .. n) |-> p[1] + s[p[2]]]
<1>3. ASSUME NEW T \in SUBSET (1 .. n), T # {}
      PROVE  G[<<h[T \ {Top(T)}], Top(T)>>] = h[T \ {Top(T)}] + s[Top(T)]
  <2>1. Top(T) \in 1 .. n /\ h[T \ {Top(T)}] \in W
    BY <1>3, TopIs
  <2> HIDE DEF W
  <2>2. QED
    BY <2>1
<1>4. FoldsWith(G, 0, 1 .. n, h)
  <2> HIDE DEF G
  <2>1. QED
    BY <1>2, <1>3 DEF FoldsWith
<1>5. \A v \in Int, k \in 1 .. n : G[<<v, k>>] = v + s[k]
  OBVIOUS
<1>6. PICK run \in [0 .. n -> Int] :
        /\ run[0] = 0 /\ run[n] = h[1 .. n]
        /\ \A k \in 0 .. (n - 1) : run[k + 1] = G[<<run[k], k + 1>>]
  <2> DEFINE Q == Int
             z == 0
  <2>1. \A v \in Int, k \in 1 .. n : s[k] \in Int /\ v + s[k] \in Int
    OBVIOUS
  <2> HIDE DEF G
  <2>2. \A v \in Q : \A k \in 1 .. n : G[<<v, k>>] \in Q
    BY <1>5, <2>1
  <2>3. z \in Q /\ FoldsWith(G, z, 1 .. n, h)
    BY <1>4
  <2>4. \E run \in [0 .. n -> Q] :
          /\ run[0] = z /\ run[n] = h[1 .. n]
          /\ \A k \in 0 .. (n - 1) : run[k + 1] = G[<<run[k], k + 1>>]
    <3> HIDE DEF Q, z
    <3>1. QED
      BY <2>2, <2>3, FoldRuns
  <2>5. QED
    BY <2>4
<1>7. ASSUME NEW k \in 0 .. (n - 1) PROVE run[k + 1] = run[k] + s[k + 1]
  <2> HIDE DEF G
  <2>1. k \in 0 .. n /\ k + 1 \in 1 .. n /\ run[k] \in Int
    OBVIOUS
  <2>2. QED
    BY <1>5, <1>6, <2>1
<1>8. QED
  BY <1>1, <1>6, <1>7

\* Two sums that start alike and go alike are the same.
LEMMA SumStep ==
  ASSUME NEW k \in Nat, NEW s \in [1 .. (k + 1) -> Int]
  PROVE  /\ Sum([pos \in 1 .. k |-> s[pos]]) \in Int
         /\ Sum(s) = Sum([pos \in 1 .. k |-> s[pos]]) + s[k + 1]
<1> DEFINE t == [pos \in 1 .. k |-> s[pos]]
<1>1. t \in [1 .. k -> Int]
  OBVIOUS
<1>2. PICK a \in [0 .. k -> Int] :
        /\ a[0] = 0 /\ a[k] = Sum(t)
        /\ \A pos \in 0 .. (k - 1) : a[pos + 1] = a[pos] + t[pos + 1]
  <2> HIDE DEF t
  <2>1. QED
    BY <1>1, SumRuns
<1>3. PICK b \in [0 .. (k + 1) -> Int] :
        /\ b[0] = 0 /\ b[k + 1] = Sum(s)
        /\ \A pos \in 0 .. ((k + 1) - 1) : b[pos + 1] = b[pos] + s[pos + 1]
  <2>1. k + 1 \in Nat
    OBVIOUS
  <2> DEFINE m == k + 1
  <2> HIDE DEF m
  <2>2. \E run \in [0 .. m -> Int] :
          /\ run[0] = 0 /\ run[m] = Sum(s)
          /\ \A pos \in 0 .. (m - 1) : run[pos + 1] = run[pos] + s[pos + 1]
    BY <2>1, SumRuns DEF m
  <2>3. QED
    BY <2>2 DEF m
<1> DEFINE P == {pos \in 0 .. k : a[pos] = b[pos]}
<1>4. \A pos \in 0 .. k : pos \in P
  <2>1. 0 \in P
    BY <1>2, <1>3
  <2>2. ASSUME NEW pos \in 0 .. (k - 1), pos \in P PROVE pos + 1 \in P
    <3>1. pos + 1 \in 1 .. k /\ pos \in 0 .. ((k + 1) - 1)
      <4> HIDE DEF t, P
      <4>1. pos \in Int /\ 0 <= pos /\ pos <= k - 1
        OBVIOUS
      <4>2. QED
        BY <4>1
    <3>2. a[pos + 1] = a[pos] + t[pos + 1] /\ t[pos + 1] = s[pos + 1] /\ b[pos + 1] = b[pos] + s[pos + 1]
      BY <1>2, <1>3, <3>1
    <3> HIDE DEF t
    <3>3. QED
      BY <2>2, <3>1, <3>2
  <2>3. QED
    <3> HIDE DEF P
    <3>1. QED
      BY <2>1, <2>2, UpTo
<1>5. a[k] = b[k] /\ b[k + 1] = b[k] + s[k + 1]
  BY <1>3, <1>4
<1>6. QED
  BY <1>2, <1>3, <1>5

LEMMA SumOfNone == ASSUME NEW s \in [1 .. 0 -> Int] PROVE Sum(s) = 0
<1>1. PICK run \in [0 .. 0 -> Int] :
        /\ run[0] = 0 /\ run[0] = Sum(s)
        /\ \A k \in 0 .. (0 - 1) : run[k + 1] = run[k] + s[k + 1]
  <2>1. 0 \in Nat
    OBVIOUS
  <2>2. QED
    BY <2>1, SumRuns
<1>2. QED
  BY <1>1

\* Elements that are no larger make a sum that is no larger.
LEMMA SumAtMost ==
  ASSUME NEW n \in Nat, NEW s \in [1 .. n -> Int], NEW t \in [1 .. n -> Int],
         \A k \in 1 .. n : s[k] <= t[k]
  PROVE  Sum(s) \in Int /\ Sum(t) \in Int /\ Sum(s) <= Sum(t)
<1>1. PICK a \in [0 .. n -> Int] :
        /\ a[0] = 0 /\ a[n] = Sum(s)
        /\ \A k \in 0 .. (n - 1) : a[k + 1] = a[k] + s[k + 1]
  BY SumRuns
<1>2. PICK b \in [0 .. n -> Int] :
        /\ b[0] = 0 /\ b[n] = Sum(t)
        /\ \A k \in 0 .. (n - 1) : b[k + 1] = b[k] + t[k + 1]
  BY SumRuns
<1> DEFINE P == {k \in 0 .. n : a[k] <= b[k]}
<1>3. \A k \in 0 .. n : k \in P
  <2>1. 0 \in P
    BY <1>1, <1>2
  <2>2. ASSUME NEW k \in 0 .. (n - 1), k \in P PROVE k + 1 \in P
    <3>1. k + 1 \in 1 .. n /\ s[k + 1] <= t[k + 1] /\ k \in 0 .. n
      OBVIOUS
    <3>2. a[k + 1] = a[k] + s[k + 1] /\ b[k + 1] = b[k] + t[k + 1]
      BY <1>1, <1>2
    <3>3. a[k] \in Int /\ b[k] \in Int /\ a[k] <= b[k] /\ s[k + 1] \in Int /\ t[k + 1] \in Int
      BY <2>2, <3>1
    <3>4. a[k + 1] <= b[k + 1]
      BY <3>1, <3>2, <3>3
    <3>5. QED
      BY <3>1, <3>4
  <2>3. QED
    <3> HIDE DEF P
    <3>1. QED
      BY <2>1, <2>2, UpTo
<1>4. QED
  BY <1>1, <1>2, <1>3

\* A sum of what is never negative is not.
LEMMA SumOfNaturals ==
  ASSUME NEW n \in Nat, NEW s \in [1 .. n -> Int], \A k \in 1 .. n : s[k] >= 0
  PROVE  Sum(s) \in Nat
<1>1. PICK a \in [0 .. n -> Int] :
        /\ a[0] = 0 /\ a[n] = Sum(s)
        /\ \A k \in 0 .. (n - 1) : a[k + 1] = a[k] + s[k + 1]
  BY SumRuns
<1> DEFINE P == {k \in 0 .. n : a[k] >= 0}
<1>2. \A k \in 0 .. n : k \in P
  <2>1. 0 \in P
    BY <1>1
  <2>2. ASSUME NEW k \in 0 .. (n - 1), k \in P PROVE k + 1 \in P
    <3>1. k + 1 \in 1 .. n /\ s[k + 1] >= 0 /\ s[k + 1] \in Int /\ a[k] \in Int /\ a[k] >= 0
      BY <2>2
    <3>2. a[k + 1] = a[k] + s[k + 1]
      BY <1>1
    <3>3. QED
      BY <3>1, <3>2
  <2>3. QED
    <3> HIDE DEF P
    <3>1. QED
      BY <2>1, <2>2, UpTo
<1>3. QED
  BY <1>1, <1>2

\* The deepest drop below the peak so far.
Depths == [equity : Int, peak : Int, worst : Int]
NoDepth == [equity |-> 0, peak |-> 0, worst |-> 0]
DeepestAfter(a, x) ==
  LET equity == a.equity + x
      peak == Larger(a.peak, equity)
  IN [equity |-> equity, peak |-> peak, worst |-> Larger(a.worst, peak - equity)]
Depth(s) == FoldLeft(LAMBDA a, x : DeepestAfter(a, x), NoDepth, s).worst
LEMMA DepthIs == ASSUME NEW trades PROVE max_drawdown(trades) = Depth(RMultiples(trades))
  BY DEF max_drawdown, Depth, DeepestAfter, NoDepth

LEMMA DepthRuns ==
  ASSUME NEW n \in Nat, NEW s \in [1 .. n -> Int]
  PROVE  \E run \in [0 .. n -> Depths] :
           /\ run[0] = NoDepth /\ run[n].worst = Depth(s)
           /\ \A k \in 0 .. (n - 1) : run[k + 1] = DeepestAfter(run[k], s[k + 1])
<1> DEFINE Fold(g) == g = [T \in SUBSET (1 .. n) |->
                              IF T = {} THEN NoDepth ELSE DeepestAfter(g[T \ {Top(T)}], s[Top(T)])]
           h == CHOOSE g : Fold(g)
<1>1. Depth(s) = h[1 .. n].worst
  BY DEF Depth, NoDepth, DeepestAfter, FoldLeft, MapThenFoldSet, Max, Top
<1>2. \A v \in Depths, x \in Int : DeepestAfter(v, x) \in Depths
  BY DEF Depths, DeepestAfter, Larger
<1>3. NoDepth \in Depths
  BY DEF NoDepth, Depths
<1>4. Fold(h)
  <2> DEFINE G == [p \in Depths \X (1 .. n) |-> DeepestAfter(p[1], s[p[2]])]
  <2>1. G \in [Depths \X (1 .. n) -> Depths]
    BY <1>2
  <2>2. PICK g \in [SUBSET (1 .. n) -> Depths] : FoldsWith(G, NoDepth, 1 .. n, g)
    <3> HIDE DEF G
    <3>1. QED
      BY <1>3, <2>1, FoldExists, Zenon
  <2>3. ASSUME NEW T \in SUBSET (1 .. n), T # {}
        PROVE  G[<<g[T \ {Top(T)}], Top(T)>>] = DeepestAfter(g[T \ {Top(T)}], s[Top(T)])
    <3>1. Top(T) \in 1 .. n /\ g[T \ {Top(T)}] \in Depths
      BY <2>3, TopIs
    <3>2. QED
      BY <3>1
  <2>4. Fold(g)
    <3> HIDE DEF G
    <3>1. QED
      BY <2>2, <2>3 DEF FoldsWith
  <2> HIDE DEF Fold
  <2>5. QED
    BY <2>4
<1> HIDE DEF h
<1> DEFINE run == [k \in 0 .. n |-> h[1 .. k]]
<1>5. run[0] = NoDepth /\ run[n] = h[1 .. n]
  <2>1. h[{}] = NoDepth
    BY <1>4
  <2>2. 1 .. 0 = {} /\ 0 \in 0 .. n /\ n \in 0 .. n
    OBVIOUS
  <2> HIDE DEF Fold
  <2>3. QED
    BY <2>1, <2>2
<1>6. ASSUME NEW k \in 0 .. (n - 1) PROVE run[k + 1] = DeepestAfter(run[k], s[k + 1])
  <2> DEFINE T == 1 .. (k + 1)
  <2>1. T # {} /\ Top(T) = k + 1 /\ T \ {Top(T)} = 1 .. k
    <3>1. k \in Nat
      OBVIOUS
    <3>2. Top(T) = k + 1 /\ T # {} /\ T \ {k + 1} = 1 .. k
      BY <3>1, TopOfRun
    <3> HIDE DEF T
    <3>3. QED
      BY <3>2
  <2>2. T \in SUBSET (1 .. n) /\ k \in 0 .. n /\ k + 1 \in 0 .. n
    OBVIOUS
  <2>3. run[k + 1] = h[T] /\ run[k] = h[1 .. k]
    BY <2>2
  <2> HIDE DEF T, run
  <2>4. h[T] = DeepestAfter(h[T \ {Top(T)}], s[Top(T)])
    BY <1>4, <2>1, <2>2
  <2>5. QED
    BY <2>1, <2>3, <2>4
<1> HIDE DEF Fold, run
<1> DEFINE P == {k \in 0 .. n : run[k] \in Depths}
<1>7. \A k \in 0 .. n : k \in P
  <2>1. 0 \in P
    BY <1>3, <1>5
  <2>2. ASSUME NEW k \in 0 .. (n - 1), k \in P PROVE k + 1 \in P
    <3>1. s[k + 1] \in Int /\ k + 1 \in 0 .. n
      OBVIOUS
    <3>2. QED
      BY <1>2, <1>6, <2>2, <3>1
  <2>3. QED
    <3> HIDE DEF P
    <3>1. QED
      BY <2>1, <2>2, UpTo
<1>8. run \in [0 .. n -> Depths]
  BY <1>7 DEF run
<1>9. QED
  BY <1>1, <1>5, <1>6, <1>8


\* The same, with the trades under water and the first deepest trough.
Passes == [at : Int, equity : Int, peak : Int, underwater : Int, worst : Int, trough : Int,
           before : Int]
NoPass == [at |-> 0, equity |-> 0, peak |-> 0, underwater |-> 0, worst |-> 0, trough |-> 0,
           before |-> 0]
PassAfter(a, x) ==
  LET equity == a.equity + x
      peak == Larger(a.peak, equity)
      drop == peak - equity
  IN [at |-> a.at + 1, equity |-> equity, peak |-> peak,
      underwater |-> a.underwater + (IF equity < peak THEN 1 ELSE 0),
      worst |-> IF Deeper(drop, a.worst) THEN drop ELSE a.worst,
      trough |-> IF Deeper(drop, a.worst) THEN a.at + 1 ELSE a.trough,
      before |-> IF Deeper(drop, a.worst) THEN peak ELSE a.before]

LEMMA PassRuns ==
  ASSUME NEW n \in Nat, NEW s \in [1 .. n -> Int]
  PROVE  \E run \in [0 .. n -> Passes] :
           /\ run[0] = NoPass /\ run[n] = Pass(s)
           /\ \A k \in 0 .. (n - 1) : run[k + 1] = PassAfter(run[k], s[k + 1])
<1> DEFINE Fold(g) == g = [T \in SUBSET (1 .. n) |->
                              IF T = {} THEN NoPass ELSE PassAfter(g[T \ {Top(T)}], s[Top(T)])]
           h == CHOOSE g : Fold(g)
<1>1. Pass(s) = h[1 .. n]
  BY DEF Pass, NoPass, PassAfter, FoldLeft, MapThenFoldSet, Max, Top
<1>2. \A v \in Passes, x \in Int : PassAfter(v, x) \in Passes
  BY DEF Passes, PassAfter, Larger, Deeper
<1>3. NoPass \in Passes
  BY DEF NoPass, Passes
<1>4. Fold(h)
  <2> DEFINE G == [p \in Passes \X (1 .. n) |-> PassAfter(p[1], s[p[2]])]
  <2>1. G \in [Passes \X (1 .. n) -> Passes]
    BY <1>2
  <2>2. PICK g \in [SUBSET (1 .. n) -> Passes] : FoldsWith(G, NoPass, 1 .. n, g)
    <3> HIDE DEF G
    <3>1. QED
      BY <1>3, <2>1, FoldExists, Zenon
  <2>3. ASSUME NEW T \in SUBSET (1 .. n), T # {}
        PROVE  G[<<g[T \ {Top(T)}], Top(T)>>] = PassAfter(g[T \ {Top(T)}], s[Top(T)])
    <3>1. Top(T) \in 1 .. n /\ g[T \ {Top(T)}] \in Passes
      BY <2>3, TopIs
    <3>2. QED
      BY <3>1
  <2>4. Fold(g)
    <3> HIDE DEF G
    <3>1. QED
      BY <2>2, <2>3 DEF FoldsWith
  <2> HIDE DEF Fold
  <2>5. QED
    BY <2>4
<1> HIDE DEF h
<1> DEFINE run == [k \in 0 .. n |-> h[1 .. k]]
<1>5. run[0] = NoPass /\ run[n] = h[1 .. n]
  <2>1. h[{}] = NoPass
    BY <1>4
  <2>2. 1 .. 0 = {} /\ 0 \in 0 .. n /\ n \in 0 .. n
    OBVIOUS
  <2> HIDE DEF Fold
  <2>3. QED
    BY <2>1, <2>2
<1>6. ASSUME NEW k \in 0 .. (n - 1) PROVE run[k + 1] = PassAfter(run[k], s[k + 1])
  <2> DEFINE T == 1 .. (k + 1)
  <2>1. T # {} /\ Top(T) = k + 1 /\ T \ {Top(T)} = 1 .. k
    <3>1. k \in Nat
      OBVIOUS
    <3>2. Top(T) = k + 1 /\ T # {} /\ T \ {k + 1} = 1 .. k
      BY <3>1, TopOfRun
    <3> HIDE DEF T
    <3>3. QED
      BY <3>2
  <2>2. T \in SUBSET (1 .. n) /\ k \in 0 .. n /\ k + 1 \in 0 .. n
    OBVIOUS
  <2>3. run[k + 1] = h[T] /\ run[k] = h[1 .. k]
    BY <2>2
  <2> HIDE DEF T, run
  <2>4. h[T] = PassAfter(h[T \ {Top(T)}], s[Top(T)])
    BY <1>4, <2>1, <2>2
  <2>5. QED
    BY <2>1, <2>3, <2>4
<1> HIDE DEF Fold, run
<1> DEFINE P == {k \in 0 .. n : run[k] \in Passes}
<1>7. \A k \in 0 .. n : k \in P
  <2>1. 0 \in P
    BY <1>3, <1>5
  <2>2. ASSUME NEW k \in 0 .. (n - 1), k \in P PROVE k + 1 \in P
    <3>1. s[k + 1] \in Int /\ k + 1 \in 0 .. n
      OBVIOUS
    <3>2. QED
      BY <1>2, <1>6, <2>2, <3>1
  <2>3. QED
    <3> HIDE DEF P
    <3>1. QED
      BY <2>1, <2>2, UpTo
<1>8. run \in [0 .. n -> Passes]
  BY <1>7 DEF run
<1>9. QED
  BY <1>1, <1>5, <1>6, <1>8


\* The first return to the peak after the trough.
Reclaims == [at : Int, running : Int, found : Int \cup {Undefined}]
NoReturn == [at |-> 0, running |-> 0, found |-> Undefined]
ReturnAfter(a, x, trough, before) ==
  [at |-> a.at + 1, running |-> a.running + x,
   found |-> IF a.found = Undefined /\ a.at + 1 > trough /\ a.running + x >= before
             THEN a.at + 1 - trough ELSE a.found]

LEMMA ReturnRuns ==
  ASSUME NEW n \in Nat, NEW s \in [1 .. n -> Int], NEW trough \in Int, NEW before \in Int
  PROVE  \E run \in [0 .. n -> Reclaims] :
           /\ run[0] = NoReturn /\ run[n].found = Reclaimed(s, trough, before)
           /\ \A k \in 0 .. (n - 1) : run[k + 1] = ReturnAfter(run[k], s[k + 1], trough, before)
<1> DEFINE Fold(g) == g = [T \in SUBSET (1 .. n) |->
                              IF T = {} THEN NoReturn ELSE ReturnAfter(g[T \ {Top(T)}], s[Top(T)], trough, before)]
           h == CHOOSE g : Fold(g)
<1>1. Reclaimed(s, trough, before) = h[1 .. n].found
  BY DEF Reclaimed, NoReturn, ReturnAfter, FoldLeft, MapThenFoldSet, Max, Top
<1>2. \A v \in Reclaims, x \in Int : ReturnAfter(v, x, trough, before) \in Reclaims
  BY DEF Reclaims, ReturnAfter, Larger
<1>3. NoReturn \in Reclaims
  BY DEF NoReturn, Reclaims
<1>4. Fold(h)
  <2> DEFINE G == [p \in Reclaims \X (1 .. n) |-> ReturnAfter(p[1], s[p[2]], trough, before)]
  <2>1. G \in [Reclaims \X (1 .. n) -> Reclaims]
    BY <1>2
  <2>2. PICK g \in [SUBSET (1 .. n) -> Reclaims] : FoldsWith(G, NoReturn, 1 .. n, g)
    <3> HIDE DEF G
    <3>1. QED
      BY <1>3, <2>1, FoldExists, Zenon
  <2>3. ASSUME NEW T \in SUBSET (1 .. n), T # {}
        PROVE  G[<<g[T \ {Top(T)}], Top(T)>>] = ReturnAfter(g[T \ {Top(T)}], s[Top(T)], trough, before)
    <3>1. Top(T) \in 1 .. n /\ g[T \ {Top(T)}] \in Reclaims
      BY <2>3, TopIs
    <3>2. QED
      BY <3>1
  <2>4. Fold(g)
    <3> HIDE DEF G
    <3>1. QED
      BY <2>2, <2>3 DEF FoldsWith
  <2> HIDE DEF Fold
  <2>5. QED
    BY <2>4
<1> HIDE DEF h
<1> DEFINE run == [k \in 0 .. n |-> h[1 .. k]]
<1>5. run[0] = NoReturn /\ run[n] = h[1 .. n]
  <2>1. h[{}] = NoReturn
    BY <1>4
  <2>2. 1 .. 0 = {} /\ 0 \in 0 .. n /\ n \in 0 .. n
    OBVIOUS
  <2> HIDE DEF Fold
  <2>3. QED
    BY <2>1, <2>2
<1>6. ASSUME NEW k \in 0 .. (n - 1) PROVE run[k + 1] = ReturnAfter(run[k], s[k + 1], trough, before)
  <2> DEFINE T == 1 .. (k + 1)
  <2>1. T # {} /\ Top(T) = k + 1 /\ T \ {Top(T)} = 1 .. k
    <3>1. k \in Nat
      OBVIOUS
    <3>2. Top(T) = k + 1 /\ T # {} /\ T \ {k + 1} = 1 .. k
      BY <3>1, TopOfRun
    <3> HIDE DEF T
    <3>3. QED
      BY <3>2
  <2>2. T \in SUBSET (1 .. n) /\ k \in 0 .. n /\ k + 1 \in 0 .. n
    OBVIOUS
  <2>3. run[k + 1] = h[T] /\ run[k] = h[1 .. k]
    BY <2>2
  <2> HIDE DEF T, run
  <2>4. h[T] = ReturnAfter(h[T \ {Top(T)}], s[Top(T)], trough, before)
    BY <1>4, <2>1, <2>2
  <2>5. QED
    BY <2>1, <2>3, <2>4
<1> HIDE DEF Fold, run
<1> DEFINE P == {k \in 0 .. n : run[k] \in Reclaims}
<1>7. \A k \in 0 .. n : k \in P
  <2>1. 0 \in P
    BY <1>3, <1>5
  <2>2. ASSUME NEW k \in 0 .. (n - 1), k \in P PROVE k + 1 \in P
    <3>1. s[k + 1] \in Int /\ k + 1 \in 0 .. n
      OBVIOUS
    <3>2. QED
      BY <1>2, <1>6, <2>2, <3>1
  <2>3. QED
    <3> HIDE DEF P
    <3>1. QED
      BY <2>1, <2>2, UpTo
<1>8. run \in [0 .. n -> Reclaims]
  BY <1>7 DEF run
<1>9. QED
  BY <1>1, <1>5, <1>6, <1>8

-----------------------------------------------------------------------------
(* The trades before and after costs, trade by trade. *)

\* The first n elements of a are all of it, and so of b; those of a are no
\* better than those of b, and of the same bars and regimes.
Costed(a, b, n) ==
  /\ a = [k \in 1 .. n |-> a[k]] /\ b = [k \in 1 .. n |-> b[k]]
  /\ \A k \in 1 .. n :
       /\ a[k].r \in Int /\ b[k].r \in Int /\ a[k].r <= b[k].r
       /\ a[k].bars_held = b[k].bars_held /\ a[k].regime = b[k].regime

LEMMA LongAs ==
  ASSUME NEW n \in Nat, NEW f, f = [k \in 1 .. n |-> f[k]]
  PROVE  DOMAIN f = 1 .. n /\ Len(f) = n /\ (f = <<>> <=> n = 0)
<1> DEFINE S == {f[k] : k \in 1 .. n}
<1>1. f \in [1 .. n -> S]
  OBVIOUS
<1>2. f \in Seq(S) /\ DOMAIN f = 1 .. n
  <2> HIDE DEF S
  <2>1. QED
    BY <1>1
<1>3. Len(f) = n
  <2> HIDE DEF S
  <2>1. QED
    BY <1>2
<1>4. QED
  BY <1>2, <1>3

\* A trade costs something, in money and so in R.
LEMMA CostsAreNat == ASSUME NEW o \in Outcomes PROVE CostOf(o) \in Nat
<1>1. /\ Commission \in Nat /\ ClearingFee \in Nat /\ SlippagePerAtr \in Nat
      /\ IlliquidMult \in Nat /\ Spread \in Nat /\ RollCommission \in Nat
      /\ RollSpread \in Nat /\ Multiplier \in Nat
  BY CostAssumption
<1>2. o.atr \in Nat
  BY EvaluationAssumption
<1>3. RolloverCost \in Nat
  BY <1>1, ProductNat DEF RolloverCost
<1>4. SlippagePerAtr * o.atr \in Nat
  BY <1>1, <1>2, ProductNat
<1>5. ASSUME NEW lit PROVE Slippage(o.atr, lit) \in Nat
  BY <1>1, <1>4, ProductNat DEF Slippage
<1>6. QED
  BY <1>1, <1>3, <1>5 DEF CostOf

LEMMA TradeCosts ==
  ASSUME NEW o \in Outcomes, NEW x, NEW y, x = InR(apply_costs(o)), y = InR(o)
  PROVE  /\ x.r \in Int /\ y.r \in Int /\ x.r <= y.r
         /\ x.bars_held = y.bars_held /\ x.regime = y.regime
<1> DEFINE c == RUnit \div o.risk
           p == o.pnl
           q == apply_costs(o)
<1>1. o.risk \in Nat \ {0} /\ p \in Int /\ RUnit \in Nat
  BY EvaluationAssumption
<1>2. c \in Nat
  BY <1>1
<1>3. /\ q.pnl = p - CostOf(o) /\ q.risk = o.risk
      /\ q.bars_held = o.bars_held /\ q.regime = o.regime
  <2>1. o \in [entry_time : Int, exit_time : Int, pnl : Int, risk : Nat, atr : Nat,
               bars_held : Nat, regime : {o.regime}]
    BY EvaluationAssumption
  <2>2. QED
    BY <2>1 DEF apply_costs
<1>4. x.r = q.pnl * c /\ y.r = p * c
  <2>1. y.r = p * (RUnit \div o.risk) /\ x.r = q.pnl * (RUnit \div q.risk)
    BY DEF InR
  <2>2. QED
    BY <1>3, <2>1
<1>5. x.bars_held = y.bars_held /\ x.regime = y.regime
  BY <1>3 DEF InR
<1> HIDE DEF c, p, q
<1>6. q.pnl \in Int /\ q.pnl <= p
  BY <1>1, <1>3, CostsAreNat
<1>7. c * q.pnl <= c * p
  BY <1>1, <1>2, <1>6, ProductMono
<1>8. c * q.pnl = q.pnl * c /\ c * p = p * c /\ q.pnl * c \in Int /\ p * c \in Int
  BY <1>1, <1>2, <1>6
<1>9. QED
  BY <1>4, <1>5, <1>7, <1>8

\* After costs the figures of a list are no better.
LEMMA FiguresNoBetter ==
  ASSUME NEW n \in Nat, NEW a, NEW b, Costed(a, b, n)
  PROVE  NoBetter(Figures(a), Figures(b))
<1> DEFINE s == RMultiples(a)
           t == RMultiples(b)
<1>1. /\ DOMAIN a = 1 .. n /\ Len(a) = n /\ (a = <<>> <=> n = 0)
      /\ DOMAIN b = 1 .. n /\ Len(b) = n /\ (b = <<>> <=> n = 0)
  BY LongAs DEF Costed
<1>2. /\ s = [k \in 1 .. n |-> a[k].r] /\ t = [k \in 1 .. n |-> b[k].r]
      /\ s \in [1 .. n -> Int] /\ t \in [1 .. n -> Int]
      /\ \A k \in 1 .. n : s[k] <= t[k]
  BY <1>1 DEF RMultiples, Costed
<1>3. /\ DOMAIN s = 1 .. n /\ Len(s) = n /\ (s = <<>> <=> n = 0)
      /\ DOMAIN t = 1 .. n /\ Len(t) = n /\ (t = <<>> <=> n = 0)
  <2>1. s = [k \in 1 .. n |-> s[k]] /\ t = [k \in 1 .. n |-> t[k]]
    BY <1>2
  <2> HIDE DEF s, t
  <2>2. QED
    BY <2>1, LongAs
<1> HIDE DEF s, t
<1>4. AtMost(expectancy(a), expectancy(b))
  <2>1. Sum(s) \in Int /\ Sum(t) \in Int /\ Sum(s) <= Sum(t)
    BY <1>2, SumAtMost
  <2>2. n * Sum(s) <= n * Sum(t)
    BY <2>1, ProductMono
  <2>3. n * Sum(s) = Sum(s) * n /\ n * Sum(t) = Sum(t) * n
    BY <2>1
  <2>4. expectancy(a) = Mean(s) /\ expectancy(b) = Mean(t)
    BY DEF expectancy, s, t
  <2>5. CASE n = 0
    <3>1. Mean(s) = Quotient(0, 1) /\ Mean(t) = Quotient(0, 1)
      BY <1>3, <2>5 DEF Mean
    <3>2. QED
      BY <2>4, <3>1 DEF AtMost, Quotient
  <2>6. CASE n # 0
    <3>1. Mean(s) = Quotient(Sum(s), n) /\ Mean(t) = Quotient(Sum(t), n)
      BY <1>3, <2>6 DEF Mean
    <3>2. QED
      BY <2>2, <2>3, <2>4, <3>1 DEF AtMost, Quotient
  <2>7. QED
    BY <2>5, <2>6
<1>5. AtMost(win_rate(a), win_rate(b))
  <2> DEFINE A == {k \in 1 .. n : a[k].r > 0}
             B == {k \in 1 .. n : b[k].r > 0}
  <2>1. A \subseteq B /\ B \subseteq 1 .. n
    BY DEF Costed
  <2>2. /\ Cardinality(A) \in Nat /\ Cardinality(B) \in Nat /\ Cardinality(A) <= Cardinality(B)
    <3>1. IsFiniteSet(1 .. n)
      BY FS_Interval
    <3> HIDE DEF A, B
    <3>2. IsFiniteSet(B)
      BY <2>1, <3>1, FS_Subset
    <3>3. IsFiniteSet(A) /\ Cardinality(A) <= Cardinality(B)
      BY <2>1, <3>2, FS_Subset
    <3>4. QED
      BY <3>2, <3>3, FS_CardinalityType
  <2>3. /\ win_rate(a) = IF n = 0 THEN Quotient(0, 1) ELSE Quotient(Cardinality(A), n)
        /\ win_rate(b) = IF n = 0 THEN Quotient(0, 1) ELSE Quotient(Cardinality(B), n)
    BY <1>1 DEF win_rate
  <2> HIDE DEF A, B
  <2>4. n * Cardinality(A) <= n * Cardinality(B)
    BY <2>2, ProductMono
  <2>5. n * Cardinality(A) = Cardinality(A) * n /\ n * Cardinality(B) = Cardinality(B) * n
    BY <2>2
  <2>6. QED
    BY <2>3, <2>4, <2>5 DEF AtMost, Quotient
<1>6. /\ Sum(Wins(s)) \in Nat /\ Sum(Wins(t)) \in Nat /\ Sum(Wins(s)) <= Sum(Wins(t))
  <2> DEFINE p == Wins(s)
             q == Wins(t)
  <2>1. /\ p \in [1 .. n -> Int] /\ q \in [1 .. n -> Int]
        /\ \A k \in 1 .. n : 0 <= p[k] /\ p[k] <= q[k] /\ 0 <= q[k]
    BY <1>2, <1>3 DEF Wins
  <2> HIDE DEF p, q
  <2>2. QED
    BY <2>1, SumAtMost, SumOfNaturals DEF p, q
<1>7. /\ Sum(Losses(s)) \in Int /\ Sum(Losses(t)) \in Int
      /\ Sum(Losses(s)) <= Sum(Losses(t)) /\ Sum(Losses(t)) <= 0
  <2> DEFINE p == Losses(s)
             q == Losses(t)
             z == [k \in 1 .. n |-> 0]
  <2>1. /\ p \in [1 .. n -> Int] /\ q \in [1 .. n -> Int] /\ z \in [1 .. n -> Int]
        /\ \A k \in 1 .. n : p[k] <= q[k] /\ q[k] <= z[k] /\ z[k] >= 0 /\ z[k] <= 0
    BY <1>2, <1>3 DEF Losses
  <2> HIDE DEF p, q
  <2>2. Sum(p) \in Int /\ Sum(q) \in Int /\ Sum(p) <= Sum(q) /\ Sum(q) <= Sum(z)
    <3> HIDE DEF z
    <3>1. QED
      BY <2>1, SumAtMost
  <2>3. Sum(z) = 0
    <3>1. PICK run \in [0 .. n -> Int] :
            /\ run[0] = 0 /\ run[n] = Sum(z)
            /\ \A k \in 0 .. (n - 1) : run[k + 1] = run[k] + z[k + 1]
      <4> HIDE DEF z
      <4>1. QED
        BY <2>1, SumRuns
    <3> DEFINE P == {k \in 0 .. n : run[k] = 0}
    <3>2. 0 \in P
      BY <3>1
    <3>3. ASSUME NEW k \in 0 .. (n - 1), k \in P PROVE k + 1 \in P
      <4>1. run[k] = 0 /\ run[k + 1] = run[k] + z[k + 1] /\ k + 1 \in 1 .. n
        BY <3>1, <3>3
      <4>2. z[k + 1] = 0
        BY <4>1
      <4> HIDE DEF z
      <4>3. QED
        BY <4>1, <4>2
    <3>4. \A k \in 0 .. n : k \in P
      <4> HIDE DEF P
      <4>1. QED
        BY <3>2, <3>3, UpTo
    <3>5. QED
      BY <3>1, <3>4
  <2>4. QED
    BY <2>2, <2>3 DEF p, q
<1>8. /\ profit_factor(a) = IF Sum(Losses(s)) = 0 THEN Undefined
                            ELSE Quotient(Sum(Wins(s)), -Sum(Losses(s)))
      /\ profit_factor(b) = IF Sum(Losses(t)) = 0 THEN Undefined
                            ELSE Quotient(Sum(Wins(t)), -Sum(Losses(t)))
  BY DEF profit_factor, s, t
<1>9. profit_factor(a) # Undefined /\ profit_factor(b) # Undefined =>
        AtMost(profit_factor(a), profit_factor(b))
  <2> DEFINE w == Sum(Wins(s))
             v == Sum(Wins(t))
             l == -Sum(Losses(s))
             m == -Sum(Losses(t))
  <2>1. w \in Nat /\ v \in Nat /\ l \in Nat /\ m \in Nat /\ w <= v /\ m <= l
    BY <1>6, <1>7
  <2>2. profit_factor(a) # Undefined /\ profit_factor(b) # Undefined =>
          profit_factor(a) = Quotient(w, l) /\ profit_factor(b) = Quotient(v, m)
    BY <1>8
  <2> HIDE DEF w, v, l, m
  <2>3. m * w <= m * v /\ v * m <= v * l
    BY <2>1, ProductMono
  <2>4. m * w = w * m /\ m * v = v * m /\ w * m \in Int /\ v * m \in Int /\ v * l \in Int
    BY <2>1
  <2>5. w * m <= v * l
    BY <2>3, <2>4
  <2>6. QED
    BY <2>2, <2>5 DEF AtMost, Quotient
<1>10. profit_factor(a) = Undefined => profit_factor(b) = Undefined
  <2>1. Sum(Losses(s)) # 0 =>
          Quotient(Sum(Wins(s)), -Sum(Losses(s))) \in [num : Int, den : Int]
    BY <1>6, <1>7 DEF Quotient
  <2>2. profit_factor(a) = Undefined => Sum(Losses(s)) = 0
    BY <1>8, <2>1, UndefinedIsNone
  <2>3. QED
    BY <1>7, <1>8, <2>2
<1>11. avg_holding(a) = avg_holding(b)
  <2>1. [k \in DOMAIN a |-> a[k].bars_held] = [k \in DOMAIN b |-> b[k].bars_held]
    BY <1>1 DEF Costed
  <2>2. QED
    BY <1>1, <2>1 DEF avg_holding
<1>12. QED
  BY <1>1, <1>4, <1>5, <1>9, <1>10, <1>11 DEF NoBetter, Figures

\* The same of the trades of one regime, which are those at the same places.
LEMMA RegimeNoBetter ==
  ASSUME NEW n \in Nat, NEW a, NEW b, Costed(a, b, n), NEW g
  PROVE  NoBetter(Figures(InRegime(a, g)), Figures(InRegime(b, g)))
<1> DEFINE A == {k \in 1 .. n : a[k].regime = g}
           m == Cardinality(A)
           at == Ascending(A)
           c == InRegime(a, g)
           d == InRegime(b, g)
<1>1. DOMAIN a = 1 .. n /\ DOMAIN b = 1 .. n
  BY LongAs DEF Costed
<1>2. A \subseteq 1 .. n /\ {k \in 1 .. n : b[k].regime = g} = A
  BY DEF Costed
<1>3. m \in Nat /\ at \in [1 .. m -> A]
  <2>1. IsFiniteSet(1 .. n) /\ A \in SUBSET Int
    BY <1>2, FS_Interval
  <2> HIDE DEF A
  <2>2. IsFiniteSet(A)
    BY <1>2, <2>1, FS_Subset
  <2>3. QED
    BY <2>1, <2>2, Listed
<1>4. c = [k \in 1 .. m |-> a[at[k]]] /\ d = [k \in 1 .. m |-> b[at[k]]]
  <2>1. c = Sublist(a, A) /\ d = Sublist(b, A)
    BY <1>1, <1>2 DEF InRegime
  <2>2. DOMAIN at = 1 .. m
    BY <1>3
  <2>3. QED
    BY <2>1, <2>2 DEF Sublist
<1>5. \A k \in 1 .. m : at[k] \in 1 .. n
  BY <1>2, <1>3
<1> HIDE DEF A, m, at, c, d
<1>6. \A k \in 1 .. m : c[k] = a[at[k]] /\ d[k] = b[at[k]]
  BY <1>4
<1>7. Costed(c, d, m)
  BY <1>4, <1>5, <1>6 DEF Costed
<1>8. QED
  BY <1>3, <1>7, FiguresNoBetter DEF c, d

\* The curve after costs is never less below its peak than the one before them.
LEMMA DepthNoBetter ==
  ASSUME NEW n \in Nat, NEW a, NEW b, Costed(a, b, n)
  PROVE  max_drawdown(a) >= max_drawdown(b)
<1> DEFINE s == RMultiples(a)
           t == RMultiples(b)
<1>1. DOMAIN a = 1 .. n /\ DOMAIN b = 1 .. n
  BY LongAs DEF Costed
<1>2. /\ s \in [1 .. n -> Int] /\ t \in [1 .. n -> Int] /\ DOMAIN s = 1 .. n /\ DOMAIN t = 1 .. n
      /\ \A k \in 1 .. n : s[k] <= t[k]
  BY <1>1 DEF RMultiples, Costed
<1>3. PICK p \in [0 .. n -> Depths] :
        /\ p[0] = NoDepth /\ p[n].worst = max_drawdown(a)
        /\ \A k \in 0 .. (n - 1) : p[k + 1] = DeepestAfter(p[k], s[k + 1])
  <2>1. max_drawdown(a) = Depth(s)
    BY DepthIs
  <2> HIDE DEF s
  <2>2. QED
    BY <1>2, <2>1, DepthRuns
<1>4. PICK q \in [0 .. n -> Depths] :
        /\ q[0] = NoDepth /\ q[n].worst = max_drawdown(b)
        /\ \A k \in 0 .. (n - 1) : q[k + 1] = DeepestAfter(q[k], t[k + 1])
  <2>1. max_drawdown(b) = Depth(t)
    BY DepthIs
  <2> HIDE DEF t
  <2>2. QED
    BY <1>2, <2>1, DepthRuns
<1> HIDE DEF s, t
<1> DEFINE P == {k \in 0 .. n : /\ p[k].peak - p[k].equity >= q[k].peak - q[k].equity
                                /\ p[k].worst >= q[k].worst}
<1>5. 0 \in P
  BY <1>3, <1>4 DEF NoDepth
<1>6. ASSUME NEW k \in 0 .. (n - 1), k \in P PROVE k + 1 \in P
  <2> DEFINE x == s[k + 1]
             y == t[k + 1]
  <2>1. k \in 0 .. n /\ k + 1 \in 0 .. n /\ k + 1 \in 1 .. n
    OBVIOUS
  <2>2. x \in Int /\ y \in Int /\ x <= y
    BY <1>2, <2>1
  <2>3. p[k] \in Depths /\ q[k] \in Depths
    BY <2>1
  <2>4. p[k + 1] = DeepestAfter(p[k], x) /\ q[k + 1] = DeepestAfter(q[k], y)
    BY <1>3, <1>4
  <2> HIDE DEF x, y
  <2> DEFINE u == p[k]
             v == q[k]
  <2>5. /\ u.peak \in Int /\ u.equity \in Int /\ u.worst \in Int
        /\ v.peak \in Int /\ v.equity \in Int /\ v.worst \in Int
    BY <2>3 DEF Depths
  <2>6. u.peak - u.equity >= v.peak - v.equity /\ u.worst >= v.worst
    BY <1>6
  <2> HIDE DEF u, v
  <2>7. /\ DeepestAfter(u, x).peak - DeepestAfter(u, x).equity
             >= DeepestAfter(v, y).peak - DeepestAfter(v, y).equity
        /\ DeepestAfter(u, x).worst >= DeepestAfter(v, y).worst
    <3> DEFINE i == u.equity + x
               pos == v.equity + y
               top == Larger(u.peak, i)
               cap == Larger(v.peak, pos)
    <3>1. /\ DeepestAfter(u, x) = [equity |-> i, peak |-> top, worst |-> Larger(u.worst, top - i)]
          /\ DeepestAfter(v, y) = [equity |-> pos, peak |-> cap, worst |-> Larger(v.worst, cap - pos)]
      BY DEF DeepestAfter
    <3>2. top \in Int /\ cap \in Int /\ i \in Int /\ pos \in Int /\ top - i >= cap - pos
      <4>1. top = (IF u.peak > i THEN u.peak ELSE i) /\ cap = (IF v.peak > pos THEN v.peak ELSE pos)
        BY DEF Larger
      <4> DEFINE e == u.equity
                 f == v.equity
                 c == u.peak
                 d == v.peak
      <4>2. i = e + x /\ pos = f + y
        OBVIOUS
      <4>3. e \in Int /\ f \in Int /\ c \in Int /\ d \in Int /\ c - e >= d - f
        BY <2>5, <2>6
      <4> HIDE DEF i, pos, top, cap, e, f
      <4>4. i \in Int /\ pos \in Int /\ top = (IF c > i THEN c ELSE i) /\ cap = (IF d > pos THEN d ELSE pos)
        BY <2>2, <4>1, <4>2, <4>3
      <4> HIDE DEF c, d
      <4>5. QED
        BY <2>2, <4>2, <4>3, <4>4
    <3> HIDE DEF i, pos, top, cap
    <3>3. Larger(u.worst, top - i) >= Larger(v.worst, cap - pos)
      BY <2>5, <2>6, <3>2 DEF Larger
    <3>4. QED
      BY <3>1, <3>2, <3>3
  <2>8. QED
    BY <2>1, <2>4, <2>7 DEF u, v
<1>7. \A k \in 0 .. n : k \in P
  <2> HIDE DEF P
  <2>1. QED
    BY <1>5, <1>6, UpTo
<1>8. QED
  BY <1>3, <1>4, <1>7

\* What is reported of two such lists.
LEMMA MetricsNoBetter ==
  ASSUME NEW n \in Nat, NEW a, NEW b, Costed(a, b, n),
         NEW after, after = compute_metrics(a), NEW before, before = compute_metrics(b)
  PROVE  /\ NoBetter(after.figures, before.figures)
         /\ after.max_drawdown_r >= before.max_drawdown_r
         /\ DOMAIN after.per_regime = DOMAIN before.per_regime
         /\ \A g \in DOMAIN after.per_regime : NoBetter(after.per_regime[g], before.per_regime[g])
<1>1. /\ after.figures = Figures(a) /\ before.figures = Figures(b)
      /\ after.max_drawdown_r = max_drawdown(a) /\ before.max_drawdown_r = max_drawdown(b)
      /\ after.per_regime = regime_stratified(a) /\ before.per_regime = regime_stratified(b)
  BY DEF compute_metrics
<1>2. RegimesOf(a) = RegimesOf(b)
  <2>1. DOMAIN a = 1 .. n /\ DOMAIN b = 1 .. n
    BY LongAs DEF Costed
  <2>2. QED
    BY <2>1 DEF RegimesOf, Costed
<1>3. /\ DOMAIN after.per_regime = RegimesOf(a) /\ DOMAIN before.per_regime = RegimesOf(a)
      /\ \A g \in RegimesOf(a) : /\ after.per_regime[g] = Figures(InRegime(a, g))
                                 /\ before.per_regime[g] = Figures(InRegime(b, g))
  BY <1>1, <1>2 DEF regime_stratified
<1>4. QED
  BY <1>1, <1>3, FiguresNoBetter, RegimeNoBetter, DepthNoBetter

\* The two lists grow together, a trade and the same trade after its costs, and
\* what is reported is of them.
Figured == {InR(o) : o \in Outcomes} \cup {InR(apply_costs(o)) : o \in Outcomes}
ReportOf(before, after) ==
  [gross |-> compute_metrics(before), overall |-> compute_metrics(after),
   drawdown |-> drawdown_profile(after)]
Books ==
  /\ gross \in Seq(Figured) /\ net \in Seq(Figured) /\ Len(gross) = Len(net)
  /\ \A k \in 1 .. Len(net) : \E o \in Outcomes : gross[k] = InR(o) /\ net[k] = InR(apply_costs(o))
  /\ stage = "reported" => report = ReportOf(gross, net)

LEMMA BooksStart == EvaluationInit => Books
<1> SUFFICES ASSUME EvaluationInit PROVE Books
  OBVIOUS
<1>1. gross = <<>> /\ net = <<>> /\ stage = "loading"
  BY DEF EvaluationInit
<1>2. <<>> \in Seq(Figured) /\ Len(<<>>) = 0
  OBVIOUS
<1>3. QED
  BY <1>1, <1>2 DEF Books

LEMMA BooksStep == Books /\ [EvaluationNext]_evalVars => Books'
<1> SUFFICES ASSUME Books, [EvaluationNext]_evalVars PROVE Books'
  OBVIOUS
<1>1. ASSUME UNCHANGED <<gross, net>>, stage' = "reported" => stage = "reported" /\ report' = report
      PROVE  Books'
  BY <1>1 DEF Books
<1>2. CASE StoreMoves
  BY <1>1, <1>2 DEF StoreMoves
<1>3. CASE Unfiltered
  BY <1>1, <1>3 DEF Unfiltered
<1>4. CASE Detect \/ DetectAborts
  BY <1>1, <1>4 DEF Detect, DetectAborts
<1>5. CASE Simulate
  <2>1. stage' # "reported"
    BY <1>5 DEF Simulate
  <2>2. CASE UNCHANGED <<gross, net>>
    BY <1>1, <2>1, <2>2
  <2>3. ASSUME NEW o \in Outcomes, gross' = Append(gross, InR(o)),
               net' = Append(net, InR(apply_costs(o)))
        PROVE  Books'
    <3> DEFINE x == InR(o)
               y == InR(apply_costs(o))
               n == Len(net)
    <3>1. x \in Figured /\ y \in Figured
      BY DEF Figured
    <3>2. gross \in Seq(Figured) /\ net \in Seq(Figured) /\ Len(gross) = n /\ n \in Nat
      BY DEF Books
    <3> HIDE DEF x, y
    <3>3. /\ gross' \in Seq(Figured) /\ net' \in Seq(Figured)
          /\ Len(gross') = n + 1 /\ Len(net') = n + 1
          /\ gross'[n + 1] = x /\ net'[n + 1] = y
          /\ \A k \in 1 .. n : gross'[k] = gross[k] /\ net'[k] = net[k]
      BY <2>3, <3>1, <3>2 DEF x, y
    <3>4. ASSUME NEW k \in 1 .. (n + 1)
          PROVE  \E p \in Outcomes : gross'[k] = InR(p) /\ net'[k] = InR(apply_costs(p))
      <4>1. CASE k = n + 1
        BY <3>3, <4>1 DEF x, y
      <4>2. CASE k # n + 1
        <5>1. k \in 1 .. n
          BY <3>2, <4>2
        <5>2. QED
          BY <3>3, <5>1 DEF Books
      <4>3. QED
        BY <4>1, <4>2
    <3> HIDE DEF n
    <3>5. QED
      BY <2>1, <3>3, <3>4 DEF Books
  <2>4. QED
    BY <1>5, <2>2, <2>3 DEF Simulate
<1>6. CASE NextWindow
  BY <1>1, <1>6 DEF NextWindow
<1>7. CASE Report
  <2>1. UNCHANGED <<gross, net>> /\ report' = ReportOf(gross, net)
    BY <1>7 DEF Report, ReportOf
  <2>2. QED
    BY <2>1 DEF Books
<1>8. ASSUME NEW l \in Loaders, TakesBundle(l) \/ LoadAborts(l) PROVE Books'
  BY <1>1, <1>8 DEF TakesBundle, LoadAborts
<1>9. CASE UNCHANGED evalVars
  BY <1>1, <1>9 DEF evalVars
<1>10. QED
  BY <1>2, <1>3, <1>4, <1>5, <1>6, <1>7, <1>8, <1>9 DEF EvaluationNext

\* The lists as functions, for the lemmas above.
LEMMA BooksCosted ==
  Books => /\ Len(net) \in Nat /\ Costed(net, gross, Len(net))
<1> SUFFICES ASSUME Books PROVE Len(net) \in Nat /\ Costed(net, gross, Len(net))
  OBVIOUS
<1> DEFINE n == Len(net)
<1>1. /\ n \in Nat
      /\ net = [k \in 1 .. n |-> net[k]] /\ gross = [k \in 1 .. n |-> gross[k]]
  BY DEF Books
<1>2. ASSUME NEW k \in 1 .. n
      PROVE  /\ net[k].r \in Int /\ gross[k].r \in Int /\ net[k].r <= gross[k].r
             /\ net[k].bars_held = gross[k].bars_held /\ net[k].regime = gross[k].regime
  <2>1. PICK o \in Outcomes : gross[k] = InR(o) /\ net[k] = InR(apply_costs(o))
    BY DEF Books
  <2>2. QED
    BY <2>1, TradeCosts
<1>3. QED
  BY <1>1, <1>2 DEF Costed

(* No figure of a report is better after costs than before, whatever the trades,
   the costs and the regimes: the expectancy, win rate and profit factor of all
   trades and of each regime, and the drawdown. *)
THEOREM CostsFlatterNothing == RunSpec => []CostsNeverFlatter
<1>1. Books => CostsNeverFlatter
  <2> SUFFICES ASSUME Books, stage = "reported" PROVE CostsNeverFlatter
    BY DEF CostsNeverFlatter
  <2> DEFINE after == report.overall
             before == report.gross
  <2>1. after = compute_metrics(net) /\ before = compute_metrics(gross)
    BY DEF Books, ReportOf
  <2>2. Len(net) \in Nat /\ Costed(net, gross, Len(net))
    BY BooksCosted
  <2> HIDE DEF after, before
  <2>3. /\ NoBetter(after.figures, before.figures)
        /\ after.max_drawdown_r >= before.max_drawdown_r
        /\ DOMAIN after.per_regime = DOMAIN before.per_regime
        /\ \A g \in DOMAIN after.per_regime : NoBetter(after.per_regime[g], before.per_regime[g])
    BY <2>1, <2>2, MetricsNoBetter
  <2>4. QED
    BY <2>3 DEF CostsNeverFlatter, after, before
<1>2. QED
  BY <1>1, BooksStart, BooksStep, RunEvaluates, PTL DEF EvaluationSpec

-----------------------------------------------------------------------------
(* The equity curve, and the drops below its peaks. *)

Highest(e, k) ==
  LET earlier == {e[m] : m \in 0 .. k}
  IN CHOOSE x \in earlier : \A y \in earlier : y <= x
Fall(e, k) == Highest(e, k) - e[k]

LEMMA HighestIs ==
  ASSUME NEW n \in Nat, NEW e \in [0 .. n -> Int], NEW k \in 0 .. n
  PROVE  /\ \A m \in 0 .. k : e[m] <= Highest(e, k)
         /\ \E m \in 0 .. k : e[m] = Highest(e, k)
         /\ Highest(e, k) \in Int /\ Fall(e, k) \in Nat
<1> DEFINE P == {pos \in 0 .. n : \E m \in 0 .. pos : \A i \in 0 .. pos : e[i] <= e[m]}
<1>1. \A pos \in 0 .. n : pos \in P
  <2>1. 0 \in P
    <3>1. \A i \in 0 .. 0 : i = 0
      OBVIOUS
    <3>2. e[0] \in Int /\ 0 \in 0 .. 0
      OBVIOUS
    <3>3. QED
      BY <3>1, <3>2
  <2>2. ASSUME NEW pos \in 0 .. (n - 1), pos \in P PROVE pos + 1 \in P
    <3>1. PICK m \in 0 .. pos : \A i \in 0 .. pos : e[i] <= e[m]
      BY <2>2
    <3>2. e[m] \in Int /\ e[pos + 1] \in Int /\ pos + 1 \in 0 .. n
      OBVIOUS
    <3>3. \A i \in 0 .. (pos + 1) : i \in 0 .. pos \/ i = pos + 1
      OBVIOUS
    <3>4. \A i \in 0 .. pos : e[i] \in Int
      OBVIOUS
    <3>5. CASE e[pos + 1] <= e[m]
      <4>1. m \in 0 .. (pos + 1) /\ \A i \in 0 .. (pos + 1) : e[i] <= e[m]
        BY <3>1, <3>3, <3>5
      <4>2. QED
        BY <3>2, <4>1
    <3>6. CASE ~(e[pos + 1] <= e[m])
      <4>1. \A i \in 0 .. pos : e[i] <= e[pos + 1]
        BY <3>1, <3>2, <3>4, <3>6
      <4>2. pos + 1 \in 0 .. (pos + 1) /\ \A i \in 0 .. (pos + 1) : e[i] <= e[pos + 1]
        BY <3>2, <3>3, <4>1
      <4>3. QED
        BY <3>2, <4>2
    <3>7. QED
      BY <3>5, <3>6
  <2>3. QED
    <3> HIDE DEF P
    <3>1. QED
      BY <2>1, <2>2, UpTo
<1>2. PICK m \in 0 .. k : \A i \in 0 .. k : e[i] <= e[m]
  BY <1>1
<1> DEFINE earlier == {e[i] : i \in 0 .. k}
           h == CHOOSE x \in earlier : \A y \in earlier : y <= x
<1>3. e[m] \in earlier /\ \A y \in earlier : y <= e[m]
  BY <1>2
<1>4. h \in earlier /\ \A y \in earlier : y <= h
  <2> HIDE DEF earlier
  <2>1. QED
    BY <1>3
<1>5. Highest(e, k) = h
  BY DEF Highest
<1> HIDE DEF h
<1>6. /\ \A i \in 0 .. k : e[i] <= h /\ e[i] \in Int
      /\ \E i \in 0 .. k : e[i] = h
  BY <1>4
<1>7. h \in Int /\ k \in 0 .. k /\ e[k] \in Int /\ e[k] <= h
  BY <1>6
<1>8. h - e[k] \in Nat
  BY <1>7
<1>9. QED
  BY <1>5, <1>6, <1>7, <1>8 DEF Fall

\* The highest point is the one before or the new one.
LEMMA HighestGrows ==
  ASSUME NEW n \in Nat, NEW e \in [0 .. n -> Int], NEW k \in 0 .. (n - 1)
  PROVE  Highest(e, k + 1) = Larger(Highest(e, k), e[k + 1])
<1> DEFINE h == Highest(e, k)
           g == Highest(e, k + 1)
<1>1. k \in 0 .. n /\ k + 1 \in 0 .. n /\ e[k + 1] \in Int
  OBVIOUS
<1>2. (\A m \in 0 .. k : e[m] <= h) /\ (\E m \in 0 .. k : e[m] = h) /\ h \in Int
  BY <1>1, HighestIs
<1>3. /\ \A m \in 0 .. (k + 1) : e[m] <= g
      /\ \E m \in 0 .. (k + 1) : e[m] = g
      /\ g \in Int
  <2> DEFINE pos == k + 1
  <2> HIDE DEF pos
  <2>1. pos \in 0 .. n
    BY <1>1 DEF pos
  <2>2. /\ \A m \in 0 .. pos : e[m] <= Highest(e, pos)
        /\ \E m \in 0 .. pos : e[m] = Highest(e, pos)
        /\ Highest(e, pos) \in Int
    BY <2>1, HighestIs
  <2>3. QED
    BY <2>2 DEF pos
<1> HIDE DEF h, g
<1>4. e[k + 1] <= g /\ h <= g
  BY <1>1, <1>2, <1>3
<1>5. g = e[k + 1] \/ g <= h
  <2>1. PICK m \in 0 .. (k + 1) : e[m] = g
    BY <1>3
  <2>2. m = k + 1 \/ m \in 0 .. k
    OBVIOUS
  <2>3. QED
    BY <1>2, <2>1, <2>2
<1>6. g = Larger(h, e[k + 1])
  BY <1>1, <1>2, <1>3, <1>4, <1>5 DEF Larger
<1>7. QED
  BY <1>6 DEF h, g

LEMMA HighestFirst ==
  ASSUME NEW n \in Nat, NEW e \in [0 .. n -> Int], e[0] = 0
  PROVE  Highest(e, 0) = 0 /\ Fall(e, 0) = 0
<1>1. 0 \in 0 .. n /\ \A m \in 0 .. 0 : m = 0
  OBVIOUS
<1>2. \E m \in 0 .. 0 : e[m] = Highest(e, 0)
  BY <1>1, HighestIs
<1>3. Highest(e, 0) = 0
  BY <1>1, <1>2
<1>4. QED
  BY <1>3 DEF Fall

\* A curve goes a step at a time.
Curve(e, s, n) ==
  e \in [0 .. n -> Int] /\ e[0] = 0 /\ \A k \in 0 .. (n - 1) : e[k + 1] = e[k] + s[k + 1]

\* The depth of max_drawdown is that of the curve.
LEMMA DepthOfCurve ==
  ASSUME NEW n \in Nat, NEW s \in [1 .. n -> Int], NEW e, Curve(e, s, n)
  PROVE  /\ Depth(s) \in Int /\ \A m \in 0 .. n : Fall(e, m) <= Depth(s)
         /\ \E m \in 0 .. n : Fall(e, m) = Depth(s)
<1>1. PICK p \in [0 .. n -> Depths] :
        /\ p[0] = NoDepth /\ p[n].worst = Depth(s)
        /\ \A k \in 0 .. (n - 1) : p[k + 1] = DeepestAfter(p[k], s[k + 1])
  BY DepthRuns
<1>2. e \in [0 .. n -> Int] /\ e[0] = 0 /\ \A k \in 0 .. (n - 1) : e[k + 1] = e[k] + s[k + 1]
  BY DEF Curve
<1> DEFINE P == {k \in 0 .. n : /\ p[k].equity = e[k] /\ p[k].peak = Highest(e, k)
                                /\ p[k].worst \in Int
                                /\ \A m \in 0 .. k : Fall(e, m) <= p[k].worst
                                /\ \E m \in 0 .. k : Fall(e, m) = p[k].worst}
<1>3. 0 \in P
  <2>1. Highest(e, 0) = 0 /\ Fall(e, 0) = 0
    BY <1>2, HighestFirst
  <2>2. 0 \in 0 .. 0 /\ 0 \in 0 .. n /\ \A m \in 0 .. 0 : m = 0
    OBVIOUS
  <2>3. p[0].equity = 0 /\ p[0].peak = 0 /\ p[0].worst = 0
    BY <1>1 DEF NoDepth
  <2>4. QED
    BY <1>2, <2>1, <2>2, <2>3
<1>4. ASSUME NEW k \in 0 .. (n - 1), k \in P PROVE k + 1 \in P
  <2> DEFINE pos == k + 1
             u == p[k]
             v == p[pos]
  <2>1. k \in 0 .. n /\ pos \in 0 .. n /\ pos \in 1 .. n /\ s[pos] \in Int /\ e[k] \in Int /\ e[pos] \in Int
    BY <1>2
  <2>2. /\ u.equity = e[k] /\ u.peak = Highest(e, k) /\ u.worst \in Int
        /\ \A m \in 0 .. k : Fall(e, m) <= u.worst
        /\ \E m \in 0 .. k : Fall(e, m) = u.worst
    BY <1>4
  <2>3. e[pos] = e[k] + s[pos] /\ v = DeepestAfter(u, s[pos])
    BY <1>1, <1>2
  <2>4. Highest(e, pos) = Larger(Highest(e, k), e[pos])
    BY <1>2, HighestGrows
  <2> HIDE DEF u, v
  <2>5. \A m \in 0 .. pos : m \in 0 .. k \/ m = pos
    OBVIOUS
  <2>6. pos \in 0 .. pos /\ \A m \in 0 .. k : m \in 0 .. pos
    OBVIOUS
  <2> HIDE DEF pos
  <2>7. Fall(e, pos) \in Nat
    BY <1>2, <2>1, HighestIs
  <2>8. v.equity = e[pos] /\ v.peak = Highest(e, pos) /\ v.worst = Larger(u.worst, Fall(e, pos))
    BY <2>2, <2>3, <2>4 DEF DeepestAfter, Fall
  <2>9. /\ v.worst \in Int /\ u.worst <= v.worst /\ Fall(e, pos) <= v.worst
        /\ v.worst = u.worst \/ v.worst = Fall(e, pos)
    BY <2>2, <2>7, <2>8 DEF Larger
  <2>10. \A m \in 0 .. k : Fall(e, m) \in Nat
    <3>1. \A m \in 0 .. k : m \in 0 .. n
      BY <2>1
    <3>2. QED
      BY <1>2, <3>1, HighestIs
  <2>11. \A m \in 0 .. pos : Fall(e, m) <= v.worst
    BY <2>2, <2>5, <2>9, <2>10
  <2>12. \E m \in 0 .. pos : Fall(e, m) = v.worst
    BY <2>2, <2>6, <2>9
  <2>13. pos \in P
    BY <2>1, <2>8, <2>9, <2>11, <2>12 DEF u, v
  <2>14. QED
    BY <2>13 DEF pos
<1>5. \A k \in 0 .. n : k \in P
  <2> HIDE DEF P
  <2>1. QED
    BY <1>3, <1>4, UpTo
<1>6. n \in 0 .. n
  OBVIOUS
<1>7. QED
  BY <1>1, <1>5, <1>6

\* What the pass has found after k trades.
PassFits(q, e, k) ==
  LET r == q[k]
  IN /\ r.at = k /\ r.equity = e[k] /\ r.peak = Highest(e, k)
     /\ r.underwater = Cardinality({pos \in 1 .. k : Fall(e, pos) > 0})
     /\ \A m \in 0 .. k : Fall(e, m) <= r.worst
     /\ r.worst >= 0
     /\ r.worst = 0 => r.trough = 0
     /\ r.worst > 0 => /\ r.trough \in 1 .. k /\ Fall(e, r.trough) = r.worst
                       /\ r.before = Highest(e, r.trough)
                       /\ \A m \in 0 .. k : m < r.trough => Fall(e, m) < r.worst

LEMMA PassOfCurve ==
  ASSUME NEW n \in Nat, NEW s \in [1 .. n -> Int], NEW e, Curve(e, s, n)
  PROVE  \E q \in [0 .. n -> Passes] : q[n] = Pass(s) /\ PassFits(q, e, n)
<1>1. PICK q \in [0 .. n -> Passes] :
        /\ q[0] = NoPass /\ q[n] = Pass(s)
        /\ \A k \in 0 .. (n - 1) : q[k + 1] = PassAfter(q[k], s[k + 1])
  BY PassRuns
<1>2. e \in [0 .. n -> Int] /\ e[0] = 0 /\ \A k \in 0 .. (n - 1) : e[k + 1] = e[k] + s[k + 1]
  BY DEF Curve
<1> DEFINE P == {k \in 0 .. n : PassFits(q, e, k)}
<1>3. 0 \in P
  <2>1. Highest(e, 0) = 0 /\ Fall(e, 0) = 0
    BY <1>2, HighestFirst
  <2>2. 0 \in 0 .. n /\ (\A m \in 0 .. 0 : m = 0) /\ {pos \in 1 .. 0 : Fall(e, pos) > 0} = {}
    OBVIOUS
  <2>3. /\ q[0].at = 0 /\ q[0].equity = 0 /\ q[0].peak = 0 /\ q[0].underwater = 0
        /\ q[0].worst = 0 /\ q[0].trough = 0
    BY <1>1 DEF NoPass
  <2>4. Cardinality({}) = 0
    BY FS_EmptySet
  <2>5. QED
    BY <1>2, <2>1, <2>2, <2>3, <2>4 DEF PassFits
<1>4. ASSUME NEW k \in 0 .. (n - 1), k \in P PROVE k + 1 \in P
  <2> DEFINE pos == k + 1
             u == q[k]
             v == q[pos]
             f == Fall(e, pos)
             A == {i \in 1 .. k : Fall(e, i) > 0}
             B == {i \in 1 .. pos : Fall(e, i) > 0}
  <2>1. k \in 0 .. n /\ pos \in 0 .. n /\ pos \in 1 .. n /\ s[pos] \in Int /\ e[k] \in Int /\ e[pos] \in Int
    BY <1>2
  <2>2. /\ u.at = k /\ u.equity = e[k] /\ u.peak = Highest(e, k)
        /\ u.underwater = Cardinality(A)
        /\ \A m \in 0 .. k : Fall(e, m) <= u.worst
        /\ u.worst >= 0
        /\ u.worst = 0 => u.trough = 0
        /\ u.worst > 0 => /\ u.trough \in 1 .. k /\ Fall(e, u.trough) = u.worst
                          /\ u.before = Highest(e, u.trough)
                          /\ \A m \in 0 .. k : m < u.trough => Fall(e, m) < u.worst
    BY <1>4 DEF PassFits
  <2>3. e[pos] = e[k] + s[pos] /\ v = PassAfter(u, s[pos])
    BY <1>1, <1>2
  <2>4. Highest(e, pos) = Larger(Highest(e, k), e[pos]) /\ Highest(e, pos) \in Int
    <3>1. Highest(e, pos) = Larger(Highest(e, k), e[pos])
      BY <1>2, HighestGrows
    <3> HIDE DEF pos
    <3>2. Highest(e, pos) \in Int
      BY <1>2, <2>1, HighestIs
    <3>3. QED
      BY <3>1, <3>2
  <2>5. f \in Nat
    <3> HIDE DEF pos
    <3>1. QED
      BY <1>2, <2>1, HighestIs
  <2>6. u.worst \in Int /\ u.trough \in Int
    BY <2>1 DEF Passes
  <2>7. (\A m \in 0 .. pos : m \in 0 .. k \/ m = pos) /\ pos = k + 1 /\ k \in Nat
    OBVIOUS
  <2>8. Cardinality(B) = Cardinality(A) + (IF f > 0 THEN 1 ELSE 0)
    <3>1. IsFiniteSet(A)
      <4>1. IsFiniteSet(1 .. k) /\ A \subseteq 1 .. k
        BY FS_Interval
      <4> HIDE DEF A
      <4>2. QED
        BY <4>1, FS_Subset
    <3>2. B = (IF f > 0 THEN A \cup {pos} ELSE A) /\ pos \notin A
      OBVIOUS
    <3>3. Cardinality(A \cup {pos}) = Cardinality(A) + 1
      <4> HIDE DEF A, B, pos, f
      <4>1. QED
        BY <3>1, <3>2, FS_AddElement
    <3>4. Cardinality(A) \in Nat
      <4> HIDE DEF A
      <4>1. QED
        BY <3>1, FS_CardinalityType
    <3> HIDE DEF A, B, pos, f
    <3>5. QED
      BY <3>2, <3>3, <3>4
  <2> HIDE DEF u, v, A, B
  <2>9. /\ v.at = k + 1 /\ v.equity = e[pos] /\ v.peak = Highest(e, pos)
        /\ v.underwater = u.underwater + (IF e[pos] < Highest(e, pos) THEN 1 ELSE 0)
        /\ v.worst = (IF f > u.worst THEN f ELSE u.worst)
        /\ v.trough = (IF f > u.worst THEN k + 1 ELSE u.trough)
        /\ v.before = (IF f > u.worst THEN Highest(e, pos) ELSE u.before)
    BY <2>2, <2>3, <2>4 DEF PassAfter, Deeper, Fall
  <2>10. f > 0 <=> e[pos] < Highest(e, pos)
    <3>1. f = Highest(e, pos) - e[pos]
      BY DEF Fall
    <3> HIDE DEF f, pos
    <3>2. QED
      BY <2>1, <2>4, <3>1
  <2>11. v.underwater = Cardinality(B)
    BY <2>2, <2>8, <2>9, <2>10
  <2> HIDE DEF f, pos
  <2>12. \A m \in 0 .. k : Fall(e, m) \in Nat
    <3>1. \A m \in 0 .. k : m \in 0 .. n
      BY <2>1
    <3>2. QED
      BY <1>2, <3>1, HighestIs
  <2>13. CASE f > u.worst
    <3>1. v.worst = f /\ v.trough = pos /\ v.before = Highest(e, pos) /\ f > 0
      BY <2>2, <2>5, <2>6, <2>7, <2>9, <2>13
    <3>2. \A m \in 0 .. k : Fall(e, m) < f
      BY <2>2, <2>5, <2>6, <2>12, <2>13
    <3>3. \A m \in 0 .. pos : Fall(e, m) <= f
      BY <2>5, <2>7, <2>12, <3>2 DEF f
    <3>4. \A m \in 0 .. pos : m < pos => Fall(e, m) < f
      BY <2>7, <3>2
    <3>5. pos \in 1 .. pos
      BY <2>7
    <3>6. QED
      BY <2>5, <2>7, <2>9, <2>11, <3>1, <3>3, <3>4, <3>5 DEF PassFits, B, v, f
  <2>14. CASE ~(f > u.worst)
    <3>1. v.worst = u.worst /\ v.trough = u.trough /\ v.before = u.before /\ f <= u.worst
      BY <2>5, <2>6, <2>9, <2>14
    <3>2. \A m \in 0 .. pos : Fall(e, m) <= u.worst
      BY <2>2, <2>7, <3>1 DEF f
    <3>3. u.worst > 0 => /\ u.trough \in 1 .. pos
                         /\ \A m \in 0 .. pos : m < u.trough => Fall(e, m) < u.worst
      <4> SUFFICES ASSUME u.worst > 0
                   PROVE  /\ u.trough \in 1 .. pos
                          /\ \A m \in 0 .. pos : m < u.trough => Fall(e, m) < u.worst
        OBVIOUS
      <4>1. u.trough \in 1 .. k /\ \A m \in 0 .. k : m < u.trough => Fall(e, m) < u.worst
        BY <2>2
      <4>2. u.trough \in 1 .. pos /\ ~(pos < u.trough)
        BY <2>7, <4>1
      <4>3. QED
        BY <2>7, <4>1, <4>2
    <3>4. QED
      BY <2>2, <2>7, <2>9, <2>11, <3>1, <3>2, <3>3 DEF PassFits, B, v
  <2>15. QED
    BY <2>13, <2>14
<1>5. \A k \in 0 .. n : k \in P
  <2> HIDE DEF P
  <2>1. QED
    BY <1>3, <1>4, UpTo
<1>6. n \in 0 .. n
  OBVIOUS
<1>7. QED
  BY <1>1, <1>5, <1>6

\* The trades after the trough at which the curve is back.
Back(e, trough, before, k) == {pos \in (trough + 1) .. k : e[pos] >= before}

LEMMA ReturnOfCurve ==
  ASSUME NEW n \in Nat, NEW s \in [1 .. n -> Int], NEW e, Curve(e, s, n),
         NEW trough \in 1 .. n, NEW before \in Int
  PROVE  IF Back(e, trough, before, n) = {} THEN Reclaimed(s, trough, before) = Undefined
         ELSE \E pos \in Back(e, trough, before, n) :
                /\ \A m \in Back(e, trough, before, n) : pos <= m
                /\ Reclaimed(s, trough, before) = pos - trough
<1>1. PICK w \in [0 .. n -> Reclaims] :
        /\ w[0] = NoReturn /\ w[n].found = Reclaimed(s, trough, before)
        /\ \A k \in 0 .. (n - 1) : w[k + 1] = ReturnAfter(w[k], s[k + 1], trough, before)
  <2>1. trough \in Int
    OBVIOUS
  <2>2. QED
    BY <2>1, ReturnRuns
<1>2. e \in [0 .. n -> Int] /\ e[0] = 0 /\ \A k \in 0 .. (n - 1) : e[k + 1] = e[k] + s[k + 1]
  BY DEF Curve
<1> DEFINE R(k) == Back(e, trough, before, k)
           Fits(k) == /\ w[k].at = k /\ w[k].running = e[k]
                      /\ IF R(k) = {} THEN w[k].found = Undefined
                         ELSE \E pos \in R(k) : (\A m \in R(k) : pos <= m) /\ w[k].found = pos - trough
           P == {k \in 0 .. n : Fits(k)}
<1>3. 0 \in P
  <2>1. R(0) = {}
    BY DEF Back
  <2>2. w[0].at = 0 /\ w[0].running = 0 /\ w[0].found = Undefined /\ 0 \in 0 .. n
    BY <1>1 DEF NoReturn
  <2>3. QED
    BY <1>2, <2>1, <2>2
<1>4. ASSUME NEW k \in 0 .. (n - 1), k \in P PROVE k + 1 \in P
  <2> DEFINE i == k + 1
  <2>1. /\ k \in 0 .. n /\ i \in 0 .. n /\ k \in Nat /\ i = k + 1
        /\ s[i] \in Int /\ e[k] \in Int /\ e[i] \in Int /\ trough \in Int
    BY <1>2
  <2>2. w[k].at = k /\ w[k].running = e[k] /\ e[i] = e[k] + s[i]
    BY <1>2, <1>4
  <2>3. w[i] = ReturnAfter(w[k], s[i], trough, before)
    BY <1>1
  <2>4. /\ w[i].at = i /\ w[i].running = e[i]
        /\ w[i].found = IF w[k].found = Undefined /\ i > trough /\ e[i] >= before
                        THEN i - trough ELSE w[k].found
    BY <2>2, <2>3 DEF ReturnAfter
  <2>5. R(i) = IF i > trough /\ e[i] >= before THEN R(k) \cup {i} ELSE R(k)
    BY <2>1 DEF Back
  <2>6. \A m \in R(k) : m \in Int /\ m < i
    BY <2>1 DEF Back
  <2>7. IF R(k) = {} THEN w[k].found = Undefined
        ELSE \E pos \in R(k) : (\A m \in R(k) : pos <= m) /\ w[k].found = pos - trough
    BY <1>4
  <2> HIDE DEF R, i
  <2>8. CASE R(k) = {}
    <3>1. w[k].found = Undefined
      BY <2>7, <2>8
    <3>2. CASE i > trough /\ e[i] >= before
      <4>1. R(i) = {i}
        BY <2>5, <2>8, <3>2
      <4>2. w[i].found = i - trough
        BY <2>4, <3>1, <3>2
      <4>3. i <= i
        BY <2>1
      <4>4. Fits(i)
        BY <2>4, <4>1, <4>2, <4>3
      <4>5. QED
        BY <2>1, <4>4
    <3>3. CASE ~(i > trough /\ e[i] >= before)
      <4>1. R(i) = {} /\ w[i].found = Undefined
        BY <2>4, <2>5, <2>8, <3>1, <3>3
      <4>2. Fits(i)
        BY <2>4, <4>1
      <4>3. QED
        BY <2>1, <4>2
    <3>4. QED
      BY <3>2, <3>3
  <2>9. CASE R(k) # {}
    <3>1. PICK pos \in R(k) : (\A m \in R(k) : pos <= m) /\ w[k].found = pos - trough
      BY <2>7, <2>9
    <3>2. pos \in Int /\ pos < i
      BY <2>6, <3>1
    <3>3. w[k].found # Undefined
      BY <2>1, <3>1, <3>2, UndefinedIsNone
    <3>4. w[i].found = pos - trough
      BY <2>4, <3>1, <3>3
    <3>5. pos \in R(i) /\ \A m \in R(i) : pos <= m
      <4>1. pos <= i /\ \A m \in R(i) : m \in R(k) \/ m = i
        BY <2>1, <2>5, <3>2
      <4>2. QED
        BY <2>5, <3>1, <4>1
    <3>6. Fits(i)
      BY <2>4, <3>4, <3>5
    <3>7. QED
      BY <2>1, <3>6
  <2>10. QED
    BY <2>8, <2>9
<1>5. \A k \in 0 .. n : k \in P
  <2> HIDE DEF P
  <2>1. QED
    BY <1>3, <1>4, UpTo
<1>6. n \in P
  BY <1>5
<1>7. QED
  BY <1>1, <1>6

\* The curve of the trades after costs.
LEMMA EquityIsCurve ==
  ASSUME NEW n \in Nat, n = Len(net), net = [k \in 1 .. n |-> net[k]],
         \A k \in 1 .. n : net[k].r \in Int
  PROVE  LET s == RMultiples(net)
             e == [k \in 0 .. n |-> Equity(k)]
         IN s \in [1 .. n -> Int] /\ Curve(e, s, n)
<1> DEFINE s == RMultiples(net)
           t(k) == [pos \in 1 .. k |-> s[pos]]
           e == [k \in 0 .. n |-> Equity(k)]
<1>1. s \in [1 .. n -> Int] /\ \A k \in 1 .. n : s[k] = net[k].r
  BY LongAs DEF RMultiples
<1>2. ASSUME NEW k \in 0 .. n PROVE Equity(k) = Sum(t(k))
  <2>1. /\ DOMAIN SubSeq(net, 1, k) = 1 .. k
        /\ \A pos \in 1 .. k : SubSeq(net, 1, k)[pos] = net[pos]
    OBVIOUS
  <2>2. RMultiples(SubSeq(net, 1, k)) = [pos \in 1 .. k |-> net[pos].r]
    BY <2>1 DEF RMultiples
  <2>3. [pos \in 1 .. k |-> net[pos].r] = t(k)
    BY <1>1
  <2>4. QED
    BY <2>2, <2>3 DEF Equity
<1> HIDE DEF s
<1>3. t(0) \in [1 .. 0 -> Int]
  OBVIOUS
<1>4. Sum(t(0)) = 0
  <2> HIDE DEF t
  <2>1. QED
    BY <1>3, SumOfNone
<1>5. ASSUME NEW k \in 0 .. (n - 1)
      PROVE  Sum(t(k)) \in Int /\ Sum(t(k + 1)) = Sum(t(k)) + s[k + 1]
  <2>1. k \in Nat /\ t(k + 1) \in [1 .. (k + 1) -> Int]
    BY <1>1
  <2>2. t(k) = [pos \in 1 .. k |-> t(k + 1)[pos]] /\ t(k + 1)[k + 1] = s[k + 1]
    OBVIOUS
  <2> DEFINE u == t(k + 1)
  <2>3. u \in [1 .. (k + 1) -> Int] /\ t(k) = [pos \in 1 .. k |-> u[pos]] /\ u[k + 1] = s[k + 1]
    BY <2>1, <2>2
  <2> HIDE DEF u, t
  <2>4. /\ Sum([pos \in 1 .. k |-> u[pos]]) \in Int
        /\ Sum(u) = Sum([pos \in 1 .. k |-> u[pos]]) + u[k + 1]
    BY <2>1, <2>3, SumStep
  <2>5. QED
    BY <2>3, <2>4 DEF u
<1>6. \A k \in 0 .. n : Sum(t(k)) \in Int
  <2>1. ASSUME NEW k \in 1 .. n PROVE Sum(t(k)) \in Int
    <3>1. PICK pos \in 0 .. (n - 1) : k = pos + 1
      <4>1. k - 1 \in 0 .. (n - 1) /\ k = (k - 1) + 1
        OBVIOUS
      <4>2. QED
        BY <4>1
    <3>2. s[pos + 1] \in Int
      BY <1>1
    <3> HIDE DEF t
    <3>3. QED
      BY <1>5, <3>1, <3>2
  <2> HIDE DEF t
  <2>2. \A k \in 0 .. n : k = 0 \/ k \in 1 .. n
    OBVIOUS
  <2>3. QED
    BY <1>4, <2>1, <2>2
<1>7. /\ e \in [0 .. n -> Int] /\ e[0] = 0
      /\ \A k \in 0 .. (n - 1) : e[k + 1] = e[k] + s[k + 1]
  <2>1. \A k \in 0 .. n : e[k] = Sum(t(k))
    BY <1>2
  <2>2. 0 \in 0 .. n /\ \A k \in 0 .. (n - 1) : k \in 0 .. n /\ k + 1 \in 0 .. n
    OBVIOUS
  <2>3. e = [k \in 0 .. n |-> e[k]]
    OBVIOUS
  <2> HIDE DEF t, e
  <2>4. \A k \in 0 .. n : e[k] \in Int
    BY <1>6, <2>1
  <2>5. QED
    BY <1>4, <1>5, <2>1, <2>2, <2>3, <2>4
<1>8. QED
  BY <1>1, <1>7 DEF Curve, s

(* The drawdown of a report is that of the equity curve: the depth of either
   fold is its deepest drop, the trades under water those below an earlier
   point, and the recovery the trades from the first deepest trough to the
   first that is back at the peak before it. *)
THEOREM DrawdownIsOfTheCurve == RunSpec => []CurveExact
<1>1. Books => CurveExact
  <2> SUFFICES ASSUME Books, stage = "reported" PROVE CurveExact
    BY DEF CurveExact
  <2> DEFINE n == Len(net)
             s == RMultiples(net)
             e == [k \in 0 .. n |-> Equity(k)]
             pass == Pass(s)
             depth == pass.worst
  <2>1. n \in Nat /\ net = [k \in 1 .. n |-> net[k]] /\ \A k \in 1 .. n : net[k].r \in Int
    BY BooksCosted DEF Costed
  <2>2. s \in [1 .. n -> Int] /\ Curve(e, s, n)
    BY <2>1, EquityIsCurve
  <2>3. \A k \in 0 .. n : e[k] = Equity(k)
    OBVIOUS
  <2>4. ASSUME NEW k \in 0 .. n PROVE Drop(k) = Fall(e, k)
    <3>1. \A m \in 0 .. k : m \in 0 .. n
      OBVIOUS
    <3>2. {Equity(m) : m \in 0 .. k} = {e[m] : m \in 0 .. k}
      BY <2>3, <3>1
    <3> HIDE DEF e
    <3>3. QED
      BY <2>3, <3>2 DEF Drop, Fall, Highest
  <2>5. /\ report.drawdown.depth_r = depth
        /\ report.drawdown.time_underwater = pass.underwater
        /\ report.drawdown.recovery_trades = IF pass.trough = 0 THEN Undefined
                                             ELSE Reclaimed(s, pass.trough, pass.before)
        /\ report.overall.max_drawdown_r = Depth(s)
    <3>1. /\ report.drawdown = drawdown_profile(net)
          /\ report.overall.max_drawdown_r = max_drawdown(net)
      BY DEF Books, ReportOf, compute_metrics
    <3>2. max_drawdown(net) = Depth(s)
      BY DepthIs
    <3>3. QED
      BY <3>1, <3>2 DEF drawdown_profile
  <2> HIDE DEF n, s, e
  <2>6. PICK q \in [0 .. n -> Passes] : q[n] = pass /\ PassFits(q, e, n)
    BY <2>1, <2>2, PassOfCurve
  <2> HIDE DEF pass
  <2>7. /\ pass.underwater = Cardinality({pos \in 1 .. n : Fall(e, pos) > 0})
        /\ \A m \in 0 .. n : Fall(e, m) <= depth
        /\ depth >= 0
        /\ depth = 0 => pass.trough = 0
        /\ depth > 0 => /\ pass.trough \in 1 .. n /\ Fall(e, pass.trough) = depth
                        /\ pass.before = Highest(e, pass.trough)
                        /\ \A m \in 0 .. n : m < pass.trough => Fall(e, m) < depth
    BY <2>6 DEF PassFits
  <2>8. depth \in Int
    <3>1. n \in 0 .. n
      BY <2>1
    <3>2. QED
      BY <2>6, <3>1 DEF Passes
  <2>9. e \in [0 .. n -> Int] /\ e[0] = 0
    BY <2>2 DEF Curve
  <2>10. 0 \in 0 .. n /\ \A k \in 1 .. n : k \in 0 .. n
    BY <2>1
  <2>11. \E k \in 0 .. n : Fall(e, k) = depth
    <3>1. Fall(e, 0) = 0
      BY <2>1, <2>9, HighestFirst
    <3>2. CASE depth = 0
      BY <2>10, <3>1, <3>2
    <3>3. CASE depth > 0
      BY <2>7, <2>10, <3>3
    <3>4. QED
      BY <2>7, <2>8, <3>2, <3>3
  <2>12. \A k \in 0 .. n : Fall(e, k) \in Nat
    BY <2>1, <2>9, HighestIs
  <2>13. Depth(s) = depth
    <3>1. /\ Depth(s) \in Int /\ \A m \in 0 .. n : Fall(e, m) <= Depth(s)
          /\ \E m \in 0 .. n : Fall(e, m) = Depth(s)
      BY <2>1, <2>2, DepthOfCurve
    <3>2. Depth(s) <= depth
      BY <2>7, <3>1
    <3>3. depth <= Depth(s)
      BY <2>11, <3>1
    <3>4. QED
      BY <2>8, <3>1, <3>2, <3>3
  <2> DEFINE troughs == {k \in 1 .. n : Drop(k) = depth}
             first == CHOOSE k \in troughs : \A m \in troughs : k <= m
             recovered == {k \in (first + 1) .. n : Equity(k) >= Equity(first) + depth}
             recovery == IF depth = 0 \/ recovered = {} THEN Undefined
                         ELSE (CHOOSE k \in recovered : \A m \in recovered : k <= m) - first
  <2>14. report.drawdown.recovery_trades = recovery
    <3>1. CASE depth = 0
      BY <2>5, <2>7, <3>1
    <3>2. CASE depth > 0
      <4> DEFINE trough == pass.trough
                 before == pass.before
                 back == Back(e, trough, before, n)
      <4>1. trough \in 1 .. n /\ trough \in 0 .. n /\ trough # 0
        BY <2>7, <2>10, <3>2
      <4>2. trough \in troughs /\ \A m \in troughs : trough <= m
        <5>1. Drop(trough) = depth
          BY <2>4, <2>7, <3>2, <4>1
        <5>2. ASSUME NEW m \in 1 .. n, Drop(m) = depth PROVE trough <= m
          <6>1. Fall(e, m) = depth /\ m \in 0 .. n
            BY <2>4, <2>10, <5>2
          <6>2. ~(m < trough)
            BY <2>7, <2>8, <3>2, <6>1
          <6>3. QED
            BY <4>1, <6>2
        <5>3. QED
          BY <4>1, <5>1, <5>2
      <4>3. first = trough
        <5>1. \A m \in troughs : m \in Int
          OBVIOUS
        <5> HIDE DEF troughs
        <5>2. first \in troughs /\ \A m \in troughs : first <= m
          BY <4>2
        <5>3. first <= trough /\ trough <= first /\ first \in Int /\ trough \in Int
          BY <4>2, <5>1, <5>2
        <5> HIDE DEF first, trough
        <5>4. QED
          BY <5>3
      <4>4. before = Equity(trough) + depth /\ before \in Int
        <5>1. before = Highest(e, trough) /\ Fall(e, trough) = depth
          BY <2>7, <3>2
        <5>2. Highest(e, trough) \in Int /\ e[trough] \in Int
          BY <2>1, <2>9, <4>1, HighestIs
        <5>3. depth = Highest(e, trough) - e[trough] /\ e[trough] = Equity(trough)
          BY <2>3, <4>1, <5>1 DEF Fall
        <5> HIDE DEF trough, before
        <5>4. QED
          BY <5>1, <5>2, <5>3
      <4>5. recovered = back
        <5>1. \A k \in (trough + 1) .. n : k \in 0 .. n
          BY <4>1
        <5> HIDE DEF first
        <5>2. recovered = {k \in (trough + 1) .. n : Equity(k) >= before}
          BY <4>3, <4>4
        <5>3. QED
          BY <2>3, <5>1, <5>2 DEF Back
      <4>6. IF back = {} THEN Reclaimed(s, trough, before) = Undefined
            ELSE \E pos \in back : /\ \A m \in back : pos <= m
                                 /\ Reclaimed(s, trough, before) = pos - trough
        <5> HIDE DEF trough, before
        <5>1. QED
          BY <2>1, <2>2, <4>1, <4>4, ReturnOfCurve
      <4>7. report.drawdown.recovery_trades = Reclaimed(s, trough, before)
        BY <2>5, <4>1
      <4>8. depth # 0
        BY <2>8, <3>2
      <4>9. CASE back = {}
        <5> HIDE DEF recovered, back, trough, before
        <5>1. QED
          BY <4>5, <4>6, <4>7, <4>9
      <4>10. CASE back # {}
        <5>1. \A m \in back : m \in Int
          BY DEF Back
        <5> HIDE DEF back, trough, before, first, recovered
        <5>2. PICK pos \in back : /\ \A m \in back : pos <= m
                                /\ Reclaimed(s, trough, before) = pos - trough
          BY <4>6, <4>10
        <5> DEFINE c == CHOOSE k \in back : \A m \in back : k <= m
        <5>3. c \in back /\ \A m \in back : c <= m
          BY <5>2
        <5> HIDE DEF c
        <5>4. c = pos
          BY <5>1, <5>2, <5>3
        <5>5. recovery = c - first
          BY <4>5, <4>8, <4>10 DEF c
        <5>6. QED
          BY <4>3, <4>7, <5>2, <5>4, <5>5
      <4>11. QED
        BY <4>9, <4>10
    <3>3. QED
      BY <2>7, <2>8, <3>1, <3>2
  <2> HIDE DEF troughs, first, recovered, recovery
  <2>15. {k \in 1 .. n : Drop(k) > 0} = {k \in 1 .. n : Fall(e, k) > 0}
    BY <2>4, <2>10
  <2>16. /\ \A k \in 0 .. n : Drop(k) <= depth
         /\ \E k \in 0 .. n : Drop(k) = depth
    BY <2>4, <2>7, <2>11
  <2>17. report.drawdown.time_underwater = Cardinality({k \in 1 .. n : Drop(k) > 0})
    BY <2>5, <2>7, <2>15
  <2> HIDE DEF depth
  <2>18. QED
    BY <2>5, <2>13, <2>14, <2>16, <2>17
       DEF CurveExact, n, troughs, first, recovered, recovery
<1>2. QED
  BY <1>1, BooksStart, BooksStep, RunEvaluates, PTL DEF EvaluationSpec
-----------------------------------------------------------------------------
(* Training: where the folds of a walk are, and what that gives. *)

Before(n) == 1 .. (IF n < features THEN n ELSE features)

\* Folds are a step apart and the next one is a step after the last; between
\* them, when steps are no longer than tests, no row is left out.
FoldsSoFar ==
  /\ features = Len(times) /\ Sorted
  /\ train_end >= config.train_min_rows
  /\ \A w \in DOMAIN windows :
       /\ windows[w].train_end >= config.train_min_rows
       /\ windows[w].train_end + config.step <= train_end
       /\ windows[w].train_end < features
       /\ windows[w].test_end = test_end(windows[w].train_end)
  /\ \A v, w \in DOMAIN windows :
       v < w => windows[v].train_end + config.step <= windows[w].train_end
  /\ config.step <= config.test_span =>
       \A r \in Before(train_end) : r > config.train_min_rows => FoldsTesting(r) # {}

TrainingInv ==
  /\ TrainingTypes
  /\ training \in {"checking", "over"} => windows = <<>>
  /\ training \in {"walking", "shipped"} => FoldsSoFar
  /\ training = "refused" => windows = <<>> \/ FoldsSoFar
  /\ training = "shipped" => train_end >= features

\* The numbers of a configuration.
LEMMA SpansAre ==
  ASSUME config \in Configs
  PROVE  /\ config.train_min_rows \in Nat /\ config.test_span \in Nat /\ config.step \in Nat
         /\ config.train_min_rows > 0 /\ config.test_span > 0 /\ config.step > 0
  BY TrainingAssumption

LEMMA TrainingStarts == TrainingInit => TrainingInv
<1> SUFFICES ASSUME TrainingInit PROVE TrainingInv
  OBVIOUS
<1>1. times \in Seq(Instants) /\ labels \in Nat
  BY TrainingAssumption DEF TrainingInit
<1>2. features \in Nat
  BY TrainingAssumption DEF TrainingInit
<1>3. windows \in Seq([train_end : Nat, test_end : Nat])
  BY DEF TrainingInit
<1>4. QED
  BY <1>1, <1>2, <1>3 DEF TrainingInit, TrainingInv, TrainingTypes

\* The bounds of a fold and the bars of the rows are numbers.
LEMMA TrainingNumbers ==
  ASSUME TrainingTypes
  PROVE  /\ Len(windows) \in Nat /\ DOMAIN windows = 1 .. Len(windows)
         /\ \A w \in DOMAIN windows :
              windows[w].train_end \in Nat /\ windows[w].test_end \in Nat
         /\ Len(times) \in Nat /\ \A m \in 1 .. Len(times) : times[m] \in Int
<1>1. windows \in Seq([train_end : Nat, test_end : Nat]) /\ times \in Seq(Instants)
  BY DEF TrainingTypes
<1>2. /\ Len(windows) \in Nat /\ DOMAIN windows = 1 .. Len(windows)
      /\ Len(times) \in Nat
  BY <1>1, LenProperties
<1>3. ASSUME NEW w \in DOMAIN windows
      PROVE  windows[w].train_end \in Nat /\ windows[w].test_end \in Nat
  <2>1. windows[w] \in [train_end : Nat, test_end : Nat]
    BY <1>1, <1>2, ElementOfSeq
  <2>2. QED
    BY <2>1
<1>4. ASSUME NEW m \in 1 .. Len(times) PROVE times[m] \in Int
  <2>1. times[m] \in Instants
    BY <1>1, ElementOfSeq
  <2>2. QED
    BY <2>1, TrainingAssumption
<1>5. QED
  BY <1>2, <1>3, <1>4

\* A fold and those before it.
LEMMA FoldWalks ==
  ASSUME TrainingInv, NextFold
  PROVE  TrainingInv'
<1> DEFINE n == Len(windows)
           x == [train_end |-> train_end, test_end |-> test_end(train_end)]
<1>1. /\ training = "walking" /\ train_end < features /\ windows' = Append(windows, x)
      /\ train_end' = train_end + config.step
      /\ UNCHANGED <<config, features, labels, times, training>>
  BY DEF NextFold
<1>2. /\ config.train_min_rows \in Nat /\ config.test_span \in Nat /\ config.step \in Nat
      /\ config.train_min_rows > 0 /\ config.test_span > 0 /\ config.step > 0
  BY SpansAre DEF TrainingInv, TrainingTypes
<1>3. /\ FoldsSoFar /\ train_end \in Nat /\ features \in Nat
      /\ windows \in Seq([train_end : Nat, test_end : Nat])
  BY <1>1 DEF TrainingInv, TrainingTypes
<1>4. test_end(train_end) \in Nat /\ test_end(train_end) > train_end
  BY <1>1, <1>2, <1>3 DEF test_end
<1>5. x \in [train_end : Nat, test_end : Nat]
  BY <1>3, <1>4
<1> HIDE DEF x
<1>6. /\ windows' \in Seq([train_end : Nat, test_end : Nat]) /\ n \in Nat /\ Len(windows') = n + 1
      /\ windows'[n + 1] = x /\ \A w \in 1 .. n : windows'[w] = windows[w]
      /\ DOMAIN windows = 1 .. n /\ DOMAIN windows' = 1 .. (n + 1)
  BY <1>1, <1>3, <1>5
<1>7. TrainingTypes'
  BY <1>1, <1>2, <1>3, <1>6 DEF TrainingInv, TrainingTypes
<1>8. \A m : test_end(m)' = test_end(m)
  BY <1>1 DEF test_end
<1>9. \A w \in DOMAIN windows : windows[w].train_end \in Nat /\ windows[w].test_end \in Nat
  BY TrainingNumbers DEF TrainingInv
<1>10. \A w \in DOMAIN windows' :
         /\ windows'[w].train_end >= config.train_min_rows
         /\ windows'[w].train_end + config.step <= train_end'
         /\ windows'[w].train_end < features
         /\ windows'[w].test_end = test_end(windows'[w].train_end)
  <2> SUFFICES ASSUME NEW w \in 1 .. (n + 1)
               PROVE  /\ windows'[w].train_end >= config.train_min_rows
                      /\ windows'[w].train_end + config.step <= train_end'
                      /\ windows'[w].train_end < features
                      /\ windows'[w].test_end = test_end(windows'[w].train_end)
    BY <1>6
  <2>1. CASE w = n + 1
    BY <1>1, <1>2, <1>3, <1>6, <2>1 DEF x, FoldsSoFar
  <2>2. CASE w \in 1 .. n
    <3>1. /\ windows[w].train_end >= config.train_min_rows
          /\ windows[w].train_end + config.step <= train_end
          /\ windows[w].train_end < features
          /\ windows[w].test_end = test_end(windows[w].train_end)
      BY <1>3, <1>6, <2>2 DEF FoldsSoFar
    <3>2. windows'[w] = windows[w] /\ windows[w].train_end \in Nat
      BY <1>6, <1>9, <2>2
    <3>3. windows[w].train_end + config.step <= train_end'
      BY <1>1, <1>2, <1>3, <3>1, <3>2
    <3>4. QED
      BY <3>1, <3>2, <3>3
  <2>3. QED
    BY <1>6, <2>1, <2>2
<1>11. \A v, w \in DOMAIN windows' :
         v < w => windows'[v].train_end + config.step <= windows'[w].train_end
  <2> SUFFICES ASSUME NEW v \in 1 .. (n + 1), NEW w \in 1 .. (n + 1), v < w
               PROVE  windows'[v].train_end + config.step <= windows'[w].train_end
    BY <1>6
  <2>1. v \in 1 .. n
    BY <1>6
  <2>2. CASE w = n + 1
    <3>1. windows[v].train_end + config.step <= train_end
      BY <1>3, <1>6, <2>1 DEF FoldsSoFar
    <3>2. windows'[v] = windows[v]
      BY <1>6, <2>1
    <3>3. windows'[w] = x
      BY <1>6, <2>2
    <3>4. windows'[w].train_end = train_end
      BY <3>3 DEF x
    <3>5. QED
      BY <3>1, <3>2, <3>4
  <2>3. CASE w \in 1 .. n
    <3>1. windows[v].train_end + config.step <= windows[w].train_end
      BY <1>3, <1>6, <2>1, <2>3 DEF FoldsSoFar
    <3>2. windows'[v] = windows[v] /\ windows'[w] = windows[w]
      BY <1>6, <2>1, <2>3
    <3>3. QED
      BY <3>1, <3>2
  <2>4. w = n + 1 \/ w \in 1 .. n
    BY <1>6
  <2>5. QED
    BY <2>2, <2>3, <2>4
<1>12. ASSUME config.step <= config.test_span, NEW r \in Before(train_end)',
              r > config.train_min_rows
       PROVE  \E w \in DOMAIN windows' : r \in TestRows(w)'
  <2>1. r \in Nat /\ r > 0 /\ r <= train_end + config.step /\ r <= features
    BY <1>1, <1>2, <1>3, <1>12 DEF Before
  <2>2. CASE r <= train_end
    <3>1. r \in Before(train_end)
      BY <1>3, <2>1, <2>2 DEF Before
    <3>2. PICK w \in DOMAIN windows : r \in TestRows(w)
      BY <1>3, <1>12, <3>1 DEF FoldsSoFar, FoldsTesting
    <3>3. w \in DOMAIN windows' /\ windows'[w] = windows[w]
      BY <1>6, <3>2
    <3>4. QED
      BY <3>2, <3>3 DEF TestRows
  <2>3. CASE train_end < r
    <3>1. windows'[n + 1].train_end = train_end /\ windows'[n + 1].test_end = test_end(train_end)
      BY <1>6 DEF x
    <3>2. r <= test_end(train_end)
      BY <1>2, <1>3, <1>12, <2>1 DEF test_end
    <3>3. r \in (train_end + 1) .. test_end(train_end)
      BY <1>3, <1>4, <2>1, <2>3, <3>2
    <3>4. n + 1 \in DOMAIN windows'
      BY <1>6
    <3>5. QED
      BY <3>1, <3>3, <3>4 DEF TestRows
  <2>4. QED
    BY <1>3, <2>1, <2>2, <2>3
<1>13. FoldsSoFar'
  <2>1. features' = Len(times') /\ Sorted' /\ train_end' >= config.train_min_rows
    BY <1>1, <1>2, <1>3 DEF FoldsSoFar, Sorted
  <2>2. QED
    BY <1>1, <1>8, <1>10, <1>11, <1>12, <2>1 DEF FoldsSoFar, FoldsTesting
<1>14. QED
  BY <1>1, <1>7, <1>13 DEF TrainingInv

LEMMA TrainingSteps == TrainingInv /\ [TrainingNext]_trainingVars => TrainingInv'
<1> SUFFICES ASSUME TrainingInv, [TrainingNext]_trainingVars PROVE TrainingInv'
  OBVIOUS
<1>1. ASSUME UNCHANGED <<config, features, labels, times, train_end, windows>>
      PROVE  (TrainingTypes /\ training' \in {training, "refused", "shipped"} => TrainingTypes')
             /\ (FoldsSoFar => FoldsSoFar')
  BY <1>1 DEF TrainingTypes, FoldsSoFar, Sorted, test_end, Before, FoldsTesting, TestRows
<1>2. CASE Refuses
  BY <1>1, <1>2 DEF Refuses, TrainingInv
<1>3. CASE Begins
  <2>1. /\ windows = <<>> /\ windows' = windows /\ train_end' = config.train_min_rows
        /\ training' = "walking" /\ Accepted
        /\ UNCHANGED <<config, features, labels, times>>
    BY <1>3 DEF Begins, TrainingInv
  <2>2. TrainingTypes'
    BY <2>1, SpansAre DEF TrainingInv, TrainingTypes
  <2>3. features = Len(times) /\ Sorted' /\ config.train_min_rows \in Nat
    BY <2>1, SpansAre DEF Accepted, Sorted, TrainingInv, TrainingTypes
  <2>4. features \in Nat
    BY DEF TrainingInv, TrainingTypes
  <2>5. \A r \in Before(train_end)' : ~(r > config.train_min_rows)
    BY <2>1, <2>3, <2>4 DEF Before
  <2>6. FoldsSoFar'
    BY <2>1, <2>3, <2>5 DEF FoldsSoFar
  <2>7. QED
    BY <2>1, <2>2, <2>6 DEF TrainingInv
<1>4. CASE NextFold
  BY <1>4, FoldWalks
<1>5. CASE Ships
  <2>1. training = "walking" /\ ~(train_end < features) /\ training' \in {"shipped", "refused"}
        /\ UNCHANGED <<config, features, labels, times, train_end, windows>>
    BY <1>5 DEF Ships
  <2>2. FoldsSoFar /\ train_end \in Nat /\ features \in Nat
    BY <2>1 DEF TrainingInv, TrainingTypes
  <2>3. QED
    BY <1>1, <2>1, <2>2 DEF TrainingInv
<1>6. CASE UNCHANGED trainingVars
  BY <1>1, <1>6 DEF trainingVars, TrainingInv
<1>7. QED
  BY <1>2, <1>3, <1>4, <1>5, <1>6 DEF TrainingNext

LEMMA TrainingHolds == RunSpec => []TrainingInv
<1>1. RunInit => TrainingInv
  BY TrainingStarts DEF RunInit
<1>2. TrainingInv /\ [RunNext]_runVars => TrainingInv'
  <2> SUFFICES ASSUME TrainingInv, [RunNext]_runVars PROVE TrainingInv'
    OBVIOUS
  <2>1. CASE TrainingOver
    <3>1. config \in Configs
      BY DEF TrainingInv, TrainingTypes
    <3>2. config' \in Configs
      BY <2>1, <3>1 DEF TrainingOver
    <3>3. TrainingTypes' /\ training' = "over" /\ windows' = <<>>
      BY <2>1, <3>2 DEF TrainingOver, TrainingTypes
    <3>4. QED
      BY <3>3 DEF TrainingInv
  <2>2. CASE TrainingNext \/ UNCHANGED trainingVars
    BY <2>2, TrainingSteps
  <2>3. QED
    BY <2>1, <2>2 DEF RunNext, runVars
<1>3. QED
  BY <1>1, <1>2, PTL DEF RunSpec

\* Times that no neighbour precedes are in order.
LEMMA NeighboursInOrder ==
  ASSUME TrainingTypes, Sorted, NEW i \in 1 .. Len(times), NEW k \in 1 .. Len(times), i <= k
  PROVE  times[i] <= times[k]
<1>1. Len(times) \in Nat /\ \A m \in 1 .. Len(times) : times[m] \in Int
  BY TrainingNumbers
<1> DEFINE P == {d \in Nat : i + d <= Len(times) => times[i] <= times[i + d]}
<1>2. 0 \in P
  BY <1>1
<1>3. ASSUME NEW d \in P PROVE d + 1 \in P
  <2>1. d \in Nat
    OBVIOUS
  <2>2. ASSUME i + (d + 1) <= Len(times) PROVE times[i] <= times[i + (d + 1)]
    <3>1. i + d \in 1 .. (Len(times) - 1) /\ i + (d + 1) = (i + d) + 1
      BY <1>1, <2>1, <2>2
    <3>2. times[i + d] <= times[(i + d) + 1]
      BY <3>1 DEF Sorted
    <3>3. times[i] <= times[i + d]
      BY <1>1, <3>1
    <3>4. i + d \in 1 .. Len(times) /\ (i + d) + 1 \in 1 .. Len(times)
      BY <1>1, <3>1
    <3>5. times[i] \in Int /\ times[i + d] \in Int /\ times[(i + d) + 1] \in Int
      BY <1>1, <3>4
    <3> HIDE DEF P
    <3>6. QED
      BY <3>1, <3>2, <3>3, <3>5
  <2>3. QED
    BY <2>1, <2>2
<1>4. P \in SUBSET Nat
  OBVIOUS
<1>5. P = Nat
  <2> HIDE DEF P
  <2>1. QED
    BY <1>2, <1>3, <1>4, CountUp
<1>6. k - i \in Nat /\ i + (k - i) = k
  BY <1>1
<1>7. k - i \in P
  <2> HIDE DEF P
  <2>1. QED
    BY <1>5, <1>6
<1>8. QED
  BY <1>1, <1>6, <1>7

\* No fold trains on a row later than one it tests (walk_forward_train).
THEOREM TrainsOnThePast == RunSpec => []FoldsInTime
<1>1. TrainingInv => FoldsInTime
  <2> SUFFICES ASSUME TrainingInv, NEW w \in DOMAIN windows,
                      NEW i \in TrainRows(w), NEW k \in TestRows(w)
               PROVE  times[i] <= times[k]
    BY DEF FoldsInTime
  <2>1. windows # <<>>
    OBVIOUS
  <2>2. FoldsSoFar /\ TrainingTypes
    BY <2>1 DEF TrainingInv, TrainingTypes
  <2>3. windows[w].train_end \in Nat /\ windows[w].test_end \in Nat /\ features \in Nat
    BY <2>2, TrainingNumbers DEF TrainingTypes
  <2>4. windows[w].test_end <= features /\ windows[w].train_end < features
    <3>1. windows[w].test_end = test_end(windows[w].train_end) /\ windows[w].train_end < features
      BY <2>2 DEF FoldsSoFar
    <3>2. config.test_span \in Nat
      BY <2>2, SpansAre DEF TrainingTypes
    <3>3. QED
      BY <2>3, <3>1, <3>2 DEF test_end
  <2>5. i \in 1 .. Len(times) /\ k \in 1 .. Len(times) /\ i <= k
    BY <2>2, <2>3, <2>4 DEF FoldsSoFar, TrainRows, TestRows
  <2>6. QED
    BY <2>2, <2>5, NeighboursInOrder DEF FoldsSoFar
<1>2. QED
  BY <1>1, TrainingHolds, PTL

\* The out-of-sample figures of a shipped model are of every row after the first
\* ones, each once when steps are as long as tests (make_windows).
THEOREM EachRowTestedOnce == RunSpec => []TestedOnce
<1>1. TrainingInv => TestedOnce
  <2> SUFFICES ASSUME TrainingInv, training = "shipped", NEW r \in 1 .. features
               PROVE  /\ r <= config.train_min_rows => FoldsTesting(r) = {}
                      /\ r > config.train_min_rows /\ config.step <= config.test_span =>
                           FoldsTesting(r) # {}
                      /\ config.step >= config.test_span => \A v, w \in FoldsTesting(r) : v = w
    BY DEF TestedOnce
  <2>1. FoldsSoFar /\ TrainingTypes /\ train_end \in Nat /\ features \in Nat /\ train_end >= features
    BY DEF TrainingInv, TrainingTypes
  <2>2. config.train_min_rows \in Nat /\ config.test_span \in Nat /\ config.step \in Nat
    BY <2>1, SpansAre DEF TrainingTypes
  <2>3. \A w \in DOMAIN windows :
          /\ windows[w].train_end \in Nat /\ windows[w].train_end >= config.train_min_rows
          /\ windows[w].test_end \in Nat
          /\ windows[w].test_end <= windows[w].train_end + config.test_span
    <3> SUFFICES ASSUME NEW w \in DOMAIN windows
                 PROVE  /\ windows[w].train_end \in Nat
                        /\ windows[w].train_end >= config.train_min_rows
                        /\ windows[w].test_end \in Nat
                        /\ windows[w].test_end <= windows[w].train_end + config.test_span
      OBVIOUS
    <3>1. windows[w].train_end \in Nat /\ windows[w].test_end \in Nat
      BY <2>1, TrainingNumbers
    <3>2. windows[w].test_end = test_end(windows[w].train_end)
          /\ windows[w].train_end >= config.train_min_rows
      BY <2>1 DEF FoldsSoFar
    <3>3. QED
      BY <2>1, <2>2, <3>1, <3>2 DEF test_end
  <2>4. ASSUME r <= config.train_min_rows PROVE FoldsTesting(r) = {}
    BY <2>2, <2>3, <2>4 DEF FoldsTesting, TestRows
  <2>5. ASSUME r > config.train_min_rows, config.step <= config.test_span
        PROVE  FoldsTesting(r) # {}
    <3>1. r \in Before(train_end)
      BY <2>1 DEF Before
    <3>2. QED
      BY <2>1, <2>5, <3>1 DEF FoldsSoFar
  <2>6. ASSUME config.step >= config.test_span, NEW v \in FoldsTesting(r), NEW w \in FoldsTesting(r),
               v < w
        PROVE  FALSE
    <3>1. v \in DOMAIN windows /\ w \in DOMAIN windows /\ r \in TestRows(v) /\ r \in TestRows(w)
      BY DEF FoldsTesting
    <3>2. windows[v].train_end + config.step <= windows[w].train_end
      BY <2>1, <2>6, <3>1 DEF FoldsSoFar
    <3>3. r <= windows[v].test_end /\ windows[w].train_end + 1 <= r
      BY <2>3, <3>1 DEF TestRows
    <3>4. QED
      BY <2>2, <2>3, <2>6, <3>1, <3>2, <3>3
  <2>7. ASSUME config.step >= config.test_span, NEW v \in FoldsTesting(r), NEW w \in FoldsTesting(r)
        PROVE  v = w
    <3>1. v \in Int /\ w \in Int
      BY <2>1, TrainingNumbers DEF FoldsTesting
    <3>2. QED
      BY <2>6, <2>7, <3>1
  <2>8. QED
    BY <2>4, <2>5, <2>7
<1>2. QED
  BY <1>1, TrainingHolds, PTL
=============================================================================
