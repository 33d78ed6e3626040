----------------------------- MODULE TradeWalk -----------------------------
(***************************************************************************)
(* One simulated trade of execution/engine.py: simulate_trade fills at the *)
(* open of the bar after the trigger, _walk_forward goes through the bars  *)
(* until the stop, the target, the time stop or the end of the data, and   *)
(* _build_trade folds the banked part and the rest into one result.        *)
(*                                                                         *)
(* Prices are whole ticks.  The bars are not chosen in advance: each step  *)
(* meets an arbitrary bar, which is what a walk that looks only at the bar *)
(* at hand can tell apart.                                                 *)
(***************************************************************************)
EXTENDS Integers

CONSTANTS
  MaxPrice,      \* bound: bars are within 1..MaxPrice
  MaxAtr,        \* bound: ATR of the fill bar
  KAtr,          \* k_atr_stop
  TpR,           \* partial_tp_r, as a whole number of R
  Whole,         \* partial_fraction is a number of Whole-ths
  Buffer,        \* breakeven_buffer
  TrailAtr,      \* trail_atr_mult
  TimeStopBars   \* time_stop_bars

ASSUME TradeAssumption ==
  /\ MaxPrice \in Nat \ {0} /\ MaxAtr \in Nat \ {0}
  /\ KAtr \in Nat \ {0} /\ TpR \in Nat \ {0}
  /\ Whole \in Nat \ {0}
  /\ Buffer \in Nat /\ TrailAtr \in Nat \ {0} /\ TimeStopBars \in Nat \ {0}

Price == 1..MaxPrice
Bar == [lo : Price, hi : Price, close : Price]
Reason == {"none", "take_profit", "stop_loss", "trailing_stop", "time_stop",
           "end_of_data"}

VARIABLES
  phase,      \* signal, walking, closed, or rejected (no trade)
  part,       \* partial_fraction * Whole, fixed
  dir, entry, stop, atr,       \* fixed at the fill
  level, partial, best,        \* stop_level, partial_done, best
  held,       \* bars walked, the fill bar is number 0
  last,       \* close of the bar walked last
  exit, reason,                \* _Exit
  banked      \* history: the bar the part was banked on, or -1

fill == <<part, dir, entry, stop, atr>>
vars == <<phase, fill, level, partial, best, held, last, exit, reason, banked>>

TypeOK ==
  /\ phase \in {"signal", "walking", "closed", "rejected"}
  /\ dir \in {"long", "short"} /\ entry \in Price
  /\ stop \in Int /\ level \in Int /\ best \in Int /\ exit \in Int
  /\ atr \in 1..MaxAtr
  /\ partial \in BOOLEAN
  /\ held \in 0..TimeStopBars
  /\ last \in Price
  /\ reason \in Reason
  /\ part \in 0..Whole /\ banked \in (-1)..TimeStopBars

----------------------------------------------------------------------------
(* Long and short are mirror images: the better direction is up or down. *)

Move(p, d) == IF dir = "long" THEN p + d ELSE p - d
Pnl(from, to) == IF dir = "long" THEN to - from ELSE from - to   \* _dir_pnl
Better(a, b) == IF Pnl(a, b) > 0 THEN b ELSE a
WorstOf(b) == IF dir = "long" THEN b.lo ELSE b.hi
BestOf(b) == IF dir = "long" THEN b.hi ELSE b.lo

Risk == Pnl(stop, entry)
Target == Move(entry, Risk * TpR)

\* entry -/+ k*ATR or the structure, whichever is further away.
InitialStop(d, e, ref, a) ==
  IF d = "long" THEN IF e - KAtr * a < ref THEN e - KAtr * a ELSE ref
                ELSE IF e + KAtr * a > ref THEN e + KAtr * a ELSE ref

Init ==
  /\ phase = "signal"
  /\ dir \in {"long", "short"} /\ part \in 0..Whole
  /\ entry = 1 /\ stop = 0 /\ atr = 1
  /\ level = 0 /\ partial = FALSE /\ best = 0
  /\ held = 0 /\ last = 1 /\ exit = 0 /\ reason = "none" /\ banked = -1

\* No bar after the trigger, no usable ATR, or the fill bar's range is over
\* max_spread_mult times the median range: no trade.
Reject ==
  /\ phase = "signal"
  /\ phase' = "rejected"
  /\ UNCHANGED <<fill, level, partial, best, held, last, exit, reason, banked>>

Fill ==
  /\ phase = "signal"
  /\ \E e \in Price, ref \in Price, a \in 1..MaxAtr :
       /\ entry' = e /\ atr' = a /\ best' = e
       /\ stop' = InitialStop(dir, e, ref, a)
       /\ level' = stop'
  /\ phase' = "walking"
  /\ UNCHANGED <<dir, part, partial, held, last, exit, reason, banked>>

\* The fill bar contains its own open.
NextBar(b) == b.lo <= b.close /\ b.close <= b.hi
              /\ (held = 0 => b.lo <= entry /\ entry <= b.hi)

Close(p, r) == phase' = "closed" /\ exit' = p /\ reason' = r

StopHit(b) == Pnl(level, WorstOf(b)) <= 0
TargetHit(b) == ~partial /\ Pnl(Target, BestOf(b)) >= 0

\* Before anything else on a bar: the stop.
StoppedAtWorst(b) ==
  /\ phase = "walking" /\ NextBar(b) /\ StopHit(b)
  /\ Close(WorstOf(b), "stop_loss")
  /\ last' = b.close
  /\ UNCHANGED <<fill, level, partial, best, held, banked>>

Stopped(b) ==
  /\ phase = "walking" /\ NextBar(b) /\ StopHit(b)
  /\ Close(level, IF partial THEN "trailing_stop" ELSE "stop_loss")
  /\ last' = b.close
  /\ UNCHANGED <<fill, level, partial, best, held, banked>>

\* A target with nothing to leave running.
TakeProfit(b) ==
  /\ phase = "walking" /\ NextBar(b) /\ ~StopHit(b) /\ TargetHit(b)
  /\ part = Whole
  /\ Close(Target, "take_profit")
  /\ last' = b.close
  /\ UNCHANGED <<fill, level, partial, best, held, banked>>

\* The stop after a bar: breakeven when the part is banked, then behind the
\* best close, never back.
TrailLoose(b, l, bst) == Move(bst, -(TrailAtr * atr))
Trail(b, l, bst) == Better(l, Move(bst, -(TrailAtr * atr)))
BankedStopKept == stop
BankedStop == Move(entry, Buffer)

TimeUp(h) == h >= TimeStopBars

\* The bar is walked: the part is banked, the rest trailed, or nothing; then
\* the time stop closes at the bar's close.
Walk(b) ==
  /\ phase = "walking" /\ NextBar(b) /\ ~StopHit(b)
  /\ TargetHit(b) => part < Whole
  /\ LET bst == IF TargetHit(b) THEN b.close
                ELSE IF partial THEN Better(best, b.close) ELSE best
     IN /\ best' = bst
        /\ level' = IF TargetHit(b) THEN BankedStop
                    ELSE IF partial THEN Trail(b, level, bst) ELSE level
  /\ partial' = (partial \/ TargetHit(b))
  /\ banked' = IF TargetHit(b) THEN held ELSE banked
  /\ last' = b.close
  /\ IF TimeUp(held)
     THEN Close(b.close, "time_stop") /\ UNCHANGED held
     ELSE held' = held + 1 /\ UNCHANGED <<phase, exit, reason>>
  /\ UNCHANGED fill

\* No more bars: the last one's close.
EndOfData ==
  /\ phase = "walking" /\ held > 0
  /\ Close(last, "end_of_data")
  /\ UNCHANGED <<fill, level, partial, best, held, last, banked>>

Next ==
  \/ Reject \/ Fill \/ EndOfData
  \/ \E b \in Bar : Stopped(b)
  \/ \E b \in Bar : TakeProfit(b)
  \/ \E b \in Bar : Walk(b)

Spec == Init /\ [][Next]_vars

----------------------------------------------------------------------------
\* bars_held, and Whole times pnl_points, of _build_trade.
BarsHeld == IF reason = "end_of_data" THEN held - 1 ELSE held

Result ==
  IF partial
  THEN part * Pnl(entry, Target) + (Whole - part) * Pnl(entry, exit)
  ELSE Whole * Pnl(entry, exit)

\* Before costs no trade loses more than the 1R it was sized for, whichever way
\* it ends and whatever the stop has become.
LossAtMostOneR == phase = "closed" => Result >= -(Whole * Risk)

\* A bar after the one that banked the part, the rest cannot give it back: the
\* stop is at breakeven or better and every close that ends the trade is beyond
\* it.  (On the banking bar itself the close may be below breakeven, and the
\* time stop or the end of the data then takes it.)
BankedIsKept ==
  phase = "closed" /\ partial /\ BarsHeld > banked => Result >= part * Risk * TpR

\* The hard rule "never widen a stop" (risk/limits.py checks it nowhere in the
\* walk): breakeven and trailing only ever move the stop the trade's way.
StopNeverWidened ==
  [][phase = "walking" => Pnl(level, level') >= 0]_vars
=============================================================================
