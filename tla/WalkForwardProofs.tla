------------------------- MODULE WalkForwardProofs -------------------------
(***************************************************************************)
(* Proofs about WalkForward for every configuration of the risk engine and *)
(* of the windows, and every list of candidates.                           *)
(***************************************************************************)
EXTENDS WalkForward, TLAPS

Zero == [r |-> 0, trades |-> 0, losses |-> 0]

\* The session is the tally of the current day, halted when a limit is reached.
InStep ==
  /\ day = NoDay => session = StartSession
  /\ day # NoDay =>
       /\ clock \in Nat /\ day <= DayOf(clock)
       /\ session.r = daily[day].r
       /\ session.trades = daily[day].trades
       /\ session.losses = daily[day].losses
  /\ session.halted <=> LimitReached(session.r, session.losses, session.trades)

\* Days come in order, so a day that starts has no trades yet.
Later == \A d \in Days : (day = NoDay \/ d > day) => daily[d] = Zero

Breaker == tripped <=> windowR <= WindowFloor

IInv == TypeOK /\ InStep /\ Later /\ Breaker /\ DayLimits /\ WindowLimit /\ Solvent

\* Products of naturals are naturals.
LEMMA ProductNat == ASSUME NEW a \in Nat, NEW b \in Nat PROVE a * b \in Nat
  OBVIOUS

\* Multiplying by a natural keeps an order.
LEMMA ProductMono ==
  ASSUME NEW c \in Nat, NEW a \in Int, NEW b \in Int, a <= b
  PROVE  c * a <= c * b
<1>1. c * (b - a) >= 0
  BY ProductNat
<1>2. c * (b - a) = c * b - c * a
  OBVIOUS
<1>3. c * a \in Int /\ c * b \in Int
  OBVIOUS
<1>4. QED
  BY <1>1, <1>2, <1>3

\* Division rounds down.
LEMMA Division ==
  ASSUME NEW t \in Nat, NEW k \in Nat \ {0}
  PROVE  /\ t \div k \in Nat
         /\ k * (t \div k) <= t /\ t < k * (t \div k + 1)
  OBVIOUS

\* A later slot is on the same day or on a later one.
LEMMA DayMono ==
  ASSUME NEW s \in Nat, NEW t \in Nat, s <= t
  PROVE  DayOf(s) \in Nat /\ DayOf(t) \in Nat /\ DayOf(s) <= DayOf(t)
<1> DEFINE p == DayOf(s)
           q == DayOf(t)
<1>1. /\ p \in Nat /\ DayLen * p <= s
      /\ q \in Nat /\ t < DayLen * (q + 1)
  BY Division, WalkForwardAssumption DEF DayOf
<1> HIDE DEF p, q
<1>2. SUFFICES ASSUME q + 1 <= p PROVE FALSE
  BY <1>1 DEF p, q
<1>3. DayLen * (q + 1) <= DayLen * p
  BY <1>1, <1>2, ProductMono, WalkForwardAssumption
<1>4. DayLen * (q + 1) \in Int /\ DayLen * p \in Int
  BY <1>1, WalkForwardAssumption
<1>5. QED
  BY <1>1, <1>3, <1>4

\* The ladder's cap is a number of contracts.
LEMMA CapNat ==
  ASSUME NEW st \in Stage, NEW e \in Evidence PROVE MaxContracts(st, e) \in Nat
  BY RiskAssumption DEF MaxContracts, Stage

\* Whole contracts, rounded down: their risk is within the budget.
LEMMA SizeInBudget ==
  ASSUME NEW eq \in Nat, NEW dist \in Nat \ {0}, NEW h \in 0..2
  PROVE  /\ PositionSize(eq, dist, h) \in Nat
         /\ PositionSize(eq, dist, h) * (dist * RiskPer) <= eq
<1> DEFINE k == RiskPer * dist
           p == PositionSize(eq, dist, h)
<1>1. k \in Nat \ {0}
  BY RiskAssumption
<1> HIDE DEF k
<1>2. eq * h \in Nat /\ eq * h <= eq * 2
  BY ProductMono, ProductNat
<1>3. 2 * k \in Nat \ {0} /\ p = (eq * h) \div (2 * k)
  BY <1>1 DEF PositionSize, k
<1>4. p \in Nat /\ (2 * k) * p <= eq * h
  BY <1>2, <1>3, Division
<1> HIDE DEF p
<1>5. (2 * k) * p = 2 * (p * k) /\ p * k \in Nat /\ eq * 2 = 2 * eq
  BY <1>1, <1>4
<1>6. p * k <= eq
  BY <1>2, <1>4, <1>5
<1>7. k = dist * RiskPer
  BY RiskAssumption DEF k
<1>8. QED
  BY <1>4, <1>6, <1>7 DEF p

\* What an entry that is allowed tells: the session is open and not at its
\* daily floor, and the size is within budget.
LEMMA EntryAllowed ==
  ASSUME TypeOK, NEW c \in Candidate, ContractsFor(c) >= 1
  PROVE  /\ CanOpen(SessionFor(c)) /\ SessionFor(c).r > -DailyLossLimit
         /\ equity > 0 /\ c.dist \in Nat \ {0}
         /\ ContractsFor(c) \in Nat
         /\ ContractsFor(c) * (c.dist * RiskPer) <= equity
<1> DEFINE s == SessionFor(c)
           h == VolatilityHalves(FALSE, c.regime)
           p == PositionSize(equity, c.dist, h)
           m == MaxContracts(stage, evidence)
           r == [equity |-> equity, dist |-> c.dist, regime |-> c.regime,
                 highVol |-> FALSE]
<1>1. ~(equity <= 0 \/ c.dist <= 0)
  <2> SUFFICES ASSUME equity <= 0 \/ c.dist <= 0 PROVE ContractsFor(c) = 0
    OBVIOUS
  <2> QED
    BY DEF ContractsFor
<1>2. equity > 0 /\ equity \in Nat /\ c.dist \in Nat \ {0}
  <2>1. equity \in Int
    BY DEF TypeOK
  <2>2. c.dist \in Nat
    BY WalkForwardAssumption DEF Candidate
  <2>3. QED
    BY <1>1, <2>1, <2>2
<1>3. ContractsFor(c) = EvaluateEntry(r, s, {}, stage, evidence)
  BY <1>1 DEF ContractsFor
<1>4. ~(KillSwitch({}, s) # {} \/ ~CanOpen(s))
  <2> SUFFICES ASSUME KillSwitch({}, s) # {} \/ ~CanOpen(s)
               PROVE  EvaluateEntry(r, s, {}, stage, evidence) = 0
    BY <1>3
  <2> QED
    BY Zenon DEF EvaluateEntry
<1>5. CanOpen(s) /\ ~(s.r <= -DailyLossLimit)
  BY <1>4 DEF KillSwitch
<1>6. s \in SessionState
  BY RiskAssumption DEF SessionFor, TypeOK, StartSession, SessionState
<1>7. s.r \in Int
  BY <1>6 DEF SessionState
<1>8. s.r > -DailyLossLimit
  BY <1>5, <1>7, RiskAssumption
<1>9. h \in 0..2
  BY RiskAssumption DEF VolatilityHalves, RegimeHalves, Lesser
<1>10. m \in Nat
  BY CapNat, WalkForwardAssumption DEF TypeOK
<1>11. p \in Nat /\ p * (c.dist * RiskPer) <= equity
  BY <1>2, <1>9, SizeInBudget
<1>12. ContractsFor(c) = Lesser(p, m)
  BY <1>3, <1>4 DEF EvaluateEntry
<1> HIDE DEF p, m, h, s
<1>13. Lesser(p, m) \in Nat /\ Lesser(p, m) <= p
  BY <1>10, <1>11 DEF Lesser
<1>14. c.dist * RiskPer \in Nat
  BY <1>2, ProductNat, RiskAssumption
<1>15. (c.dist * RiskPer) * Lesser(p, m) <= (c.dist * RiskPer) * p
  BY <1>11, <1>13, <1>14, ProductMono
<1> DEFINE d == c.dist * RiskPer
           q == Lesser(p, m)
<1>16. d \in Nat /\ q \in Nat /\ d * q <= d * p /\ p * d <= equity /\ ContractsFor(c) = q
  BY <1>11, <1>12, <1>13, <1>14, <1>15
<1> HIDE DEF d, q
<1>17. q * d = d * q /\ p * d = d * p /\ d * q \in Int /\ d * p \in Int
  BY <1>11, <1>16
<1>18. q * d <= equity
  BY <1>2, <1>16, <1>17
<1>19. QED
  BY <1>2, <1>5, <1>8, <1>16, <1>18 DEF d, s

\* The initial states satisfy the invariant.
LEMMA InitInv == Init => IInv
<1> SUFFICES ASSUME Init PROVE IInv
  OBVIOUS
<1>1. StartSession \in SessionState /\ Zero \in Tally
  BY RiskAssumption DEF StartSession, SessionState, Zero, Tally
<1>2. daily = [d \in Days |-> Zero]
  BY DEF Init, Untraded, Zero
<1>3. TestStart(0) \in Int
  BY WalkForwardAssumption DEF TestStart
<1>4. TypeOK
  <2>1. daily \in [Days -> Tally]
    BY <1>1, <1>2
  <2>2. clock \in Int /\ equity \in Int /\ windowR \in Int /\ n \in 0..MaxCandidates
    BY <1>3, WalkForwardAssumption DEF Init
  <2>3. tripped \in BOOLEAN /\ session \in SessionState
        /\ day \in Days \cup {NoDay} /\ w \in Nat
    BY <1>1 DEF Init
  <2>4. stage \in Stages /\ evidence \in Evidences
    BY DEF Init
  <2>5. QED
    BY <2>1, <2>2, <2>3, <2>4 DEF TypeOK
<1>5. ~LimitReached(0, 0, 0)
  BY RiskAssumption DEF LimitReached
<1>6. InStep /\ Later
  BY <1>2, <1>5 DEF Init, InStep, Later, StartSession
<1>7. Breaker /\ WindowLimit
  BY WalkForwardAssumption DEF Init, Breaker, WindowLimit
<1>8. DayLimits
  <2>1. \A d \in Days : daily[d].r = 0 /\ daily[d].trades = 0 /\ daily[d].losses = 0
    BY <1>2 DEF Zero
  <2>2. QED
    BY <2>1, RiskAssumption, WalkForwardAssumption DEF DayLimits
<1>9. Solvent
  BY WalkForwardAssumption DEF Init, Solvent
<1>10. QED
  BY <1>4, <1>6, <1>7, <1>8, <1>9 DEF IInv

\* The session of the next candidate: the tally of its day, wherever it falls.
LEMMA SessionForDay ==
  ASSUME IInv, NEW c \in Candidate, NextCandidate(c)
  PROVE  LET s == SessionFor(c)
             d == DayOf(c.entry)
         IN /\ d \in Days /\ d \in Nat /\ (day # NoDay => day <= d)
            /\ s \in SessionState
            /\ s.r = daily[d].r /\ s.trades = daily[d].trades
            /\ s.losses = daily[d].losses
            /\ (s.halted <=> LimitReached(s.r, s.losses, s.trades))
<1> DEFINE s == SessionFor(c)
           d == DayOf(c.entry)
<1>1. c.entry \in Slots /\ c.entry \in Nat
  BY WalkForwardAssumption DEF Candidate, Slots
<1>2. d \in Days /\ d \in Nat
  BY <1>1, DayMono DEF Days
<1>3. day # NoDay => day <= d
  <2> SUFFICES ASSUME day # NoDay PROVE day <= d
    OBVIOUS
  <2>1. day <= DayOf(clock) /\ clock \in Nat /\ clock <= c.entry
    BY DEF IInv, InStep, NextCandidate
  <2>2. day \in Nat
    BY DayMono, WalkForwardAssumption DEF IInv, TypeOK, Days, Slots
  <2>3. QED
    BY <1>1, <2>1, <2>2, DayMono
<1>4. CASE d = day
  <2>1. s = session /\ day # NoDay
    BY <1>2, <1>4 DEF SessionFor, NoDay
  <2>2. QED
    BY <1>2, <1>3, <1>4, <2>1 DEF IInv, InStep, TypeOK
<1>5. CASE d # day
  <2>1. s = StartSession
    BY <1>5 DEF SessionFor
  <2>2. daily[d] = Zero
    <3>1. day \in Days \cup {NoDay}
      BY DEF IInv, TypeOK
    <3>2. day # NoDay => day \in Nat
      BY <3>1, DayMono, WalkForwardAssumption DEF Days, Slots
    <3>3. day = NoDay \/ d > day
      BY <1>2, <1>3, <1>5, <3>2
    <3>4. QED
      BY <1>2, <3>3 DEF IInv, Later
  <2>3. ~LimitReached(0, 0, 0)
    BY RiskAssumption DEF LimitReached
  <2>4. s \in SessionState
    BY <2>1, RiskAssumption DEF StartSession, SessionState
  <2>5. QED
    BY <1>2, <1>3, <2>1, <2>2, <2>3, <2>4 DEF StartSession, Zero
<1>6. QED
  BY <1>4, <1>5

\* The worst a position within budget can do leaves equity.
LEMMA Survives ==
  ASSUME NEW eq \in Nat, NEW k \in Nat \ {0}, NEW dist \in Nat \ {0},
         NEW r \in Int, r >= -WorstR, WorstR < RiskPer,
         k * (dist * RiskPer) <= eq
  PROVE  eq + k * (r * dist) > 0
<1> DEFINE K == k * dist
<1>1. K \in Nat
  BY ProductNat
<1>2. K # 0
  OBVIOUS
<1>3. k * (dist * RiskPer) = K * RiskPer /\ k * (r * dist) = K * r
  BY RiskAssumption
<1> HIDE DEF K
<1>4. K * (-r) <= K * (RiskPer - 1)
  BY <1>1, ProductMono, RiskAssumption, WalkForwardAssumption
<1>5. K * (-r) = -(K * r) /\ K * (RiskPer - 1) = K * RiskPer - K
      /\ K * r \in Int /\ K * RiskPer \in Int
  BY <1>1, RiskAssumption
<1>6. QED
  BY <1>1, <1>2, <1>3, <1>4, <1>5

\* Taking a candidate keeps the invariant.
LEMMA TakeInv == ASSUME IInv, NEW c \in Candidate, Take(c) PROVE IInv'
<1> DEFINE s == SessionFor(c)
           d == DayOf(c.entry)
           sum == s.r + c.r
           losses == IF c.r < 0 THEN s.losses + 1 ELSE 0
           trades == s.trades + 1
<1>1. /\ d \in Days /\ d \in Nat /\ (day # NoDay => day <= d)
      /\ s \in SessionState
      /\ s.r = daily[d].r /\ s.trades = daily[d].trades
      /\ s.losses = daily[d].losses
      /\ (s.halted <=> LimitReached(s.r, s.losses, s.trades))
      /\ NextCandidate(c)
  BY SessionForDay DEF Take
<1>2. /\ CanOpen(s) /\ s.r > -DailyLossLimit
      /\ equity > 0 /\ c.dist \in Nat \ {0}
      /\ ContractsFor(c) \in Nat /\ ContractsFor(c) >= 1
      /\ ContractsFor(c) * (c.dist * RiskPer) <= equity
  BY EntryAllowed DEF Take, IInv
<1>3. /\ s.r \in Int /\ s.losses \in 0..MaxLosses /\ s.trades \in 0..MaxTrades
  BY <1>1 DEF SessionState
<1>4. s.losses < MaxLosses /\ s.trades < MaxTrades /\ ~s.halted
  BY <1>1, <1>2, <1>3, RiskAssumption DEF CanOpen, LimitReached
<1>5. c.r \in Int /\ c.r >= -WorstR /\ c.entry \in Nat
  <2>1. c.r \in Outcomes /\ c.entry \in Slots
    BY DEF Candidate
  <2>2. c.r \in Int /\ c.r >= -WorstR
    BY <2>1, WalkForwardAssumption
  <2>3. c.entry \in Nat
    BY <2>1, WalkForwardAssumption DEF Slots
  <2>4. QED
    BY <2>2, <2>3
<1>6. /\ sum \in Int /\ losses \in 0..MaxLosses /\ trades \in 0..MaxTrades
      /\ sum > -(DailyLossLimit + WorstR)
  BY <1>2, <1>3, <1>4, <1>5, RiskAssumption, WalkForwardAssumption
<1>7. session' = [r |-> sum, losses |-> losses, trades |-> trades,
                  halted |-> LimitReached(sum, losses, trades)]
  <2>1. session' = RegisterOutcome(s, c.r)
    BY DEF Take
  <2>2. RegisterOutcome(s, c.r) =
          [r |-> sum, losses |-> losses, trades |-> trades,
           halted |-> (s.halted \/ LimitReached(sum, losses, trades))]
    BY Zenon DEF RegisterOutcome
  <2>3. (s.halted \/ LimitReached(sum, losses, trades))
          = LimitReached(sum, losses, trades)
    BY <1>4 DEF LimitReached
  <2>4. QED
    BY <2>1, <2>2, <2>3, Zenon
<1>8. daily' = [daily EXCEPT ![d] = [r |-> sum, trades |-> trades, losses |-> losses]]
  <2>1. daily' = [daily EXCEPT ![d] =
                   [r |-> daily[d].r + c.r, trades |-> daily[d].trades + 1,
                    losses |-> IF c.r < 0 THEN daily[d].losses + 1 ELSE 0]]
    BY DEF Take
  <2>2. QED
    BY <1>1, <2>1
<1> HIDE DEF s, d, sum, losses, trades
<1>9. /\ n' = n + 1 /\ clock' = c.entry /\ day' = d
      /\ equity' = equity + ContractsFor(c) * (c.r * c.dist)
      /\ windowR' = windowR + c.r
      /\ tripped' = FloorReached(windowR')
      /\ UNCHANGED <<stage, evidence, w>> /\ ~tripped /\ n < MaxCandidates
  BY DEF Take, run, NextCandidate, d
<1>10. /\ daily \in [Days -> Tally] /\ equity \in Int /\ windowR \in Int
       /\ n \in 0..MaxCandidates
  BY DEF IInv, TypeOK
<1>11. daily' \in [Days -> Tally]
  <2>1. [r |-> sum, trades |-> trades, losses |-> losses] \in Tally
    BY <1>6, RiskAssumption DEF Tally
  <2>2. QED
    BY <1>1, <1>8, <1>10, <2>1
<1>12. /\ daily'[d] = [r |-> sum, trades |-> trades, losses |-> losses]
       /\ \A e \in Days : e # d => daily'[e] = daily[e]
  BY <1>1, <1>8, <1>10
<1>13. TypeOK'
  <2>1. session' \in SessionState
    BY <1>6, <1>7 DEF SessionState, LimitReached
  <2>2. equity' \in Int
    <3>1. ContractsFor(c) * (c.r * c.dist) \in Int
      BY <1>2, <1>5
    <3>2. QED
      BY <1>9, <1>10, <3>1
  <2>3. windowR' \in Int /\ clock' \in Int /\ n' \in 0..MaxCandidates
    BY <1>5, <1>9, <1>10, WalkForwardAssumption
  <2>4. tripped' \in BOOLEAN
    BY <1>9 DEF FloorReached
  <2>5. stage' \in Stages /\ evidence' \in Evidences
        /\ w' \in Nat /\ day' \in Days \cup {NoDay}
    BY <1>1, <1>9 DEF IInv, TypeOK
  <2>6. QED
    BY <1>11, <2>1, <2>2, <2>3, <2>4, <2>5 DEF TypeOK
<1>14. InStep'
  <2>1. day' # NoDay /\ clock' \in Nat /\ day' <= DayOf(clock)'
    <3>1. day' = DayOf(clock)' /\ day' \in Nat
      BY <1>1, <1>9 DEF d, DayOf
    <3>2. QED
      BY <1>5, <1>9, <3>1 DEF NoDay
  <2>2. /\ session'.r = daily'[day'].r /\ session'.trades = daily'[day'].trades
        /\ session'.losses = daily'[day'].losses
    BY <1>7, <1>9, <1>12
  <2>3. session'.halted <=> LimitReached(session'.r, session'.losses, session'.trades)
    BY <1>7 DEF LimitReached
  <2>4. QED
    BY <2>1, <2>2, <2>3 DEF InStep, LimitReached
<1>15. Later'
  <2>5. day' = d /\ d # NoDay
    BY <1>1, <1>9 DEF NoDay
  <2>6. Later' <=> \A e \in Days : day' = NoDay \/ e > day' => daily'[e] = Zero
    BY Zenon DEF Later
  <2> SUFFICES ASSUME NEW e \in Days, e > d PROVE daily'[e] = Zero
    BY <2>5, <2>6
  <2>1. e \in Nat
    BY DayMono, WalkForwardAssumption DEF Days, Slots
  <2>2. day = NoDay \/ e > day
    <3>1. day = NoDay \/ day \in Nat
      BY DayMono, WalkForwardAssumption DEF IInv, TypeOK, Days, Slots
    <3>2. QED
      BY <1>1, <2>1, <3>1
  <2>3. daily[e] = Zero /\ e # d
    BY <1>1, <2>1, <2>2 DEF IInv, Later
  <2>4. QED
    BY <1>12, <2>3
<1>16. Breaker'
  BY <1>9 DEF Breaker, FloorReached
<1>17. DayLimits'
  <2> SUFFICES ASSUME NEW e \in Days
               PROVE  /\ daily'[e].r > -(DailyLossLimit + WorstR)
                      /\ daily'[e].trades <= MaxTrades
                      /\ daily'[e].losses <= MaxLosses
    BY DEF DayLimits
  <2>1. CASE e = d
    BY <1>6, <1>12, <2>1
  <2>2. CASE e # d
    BY <1>12, <2>2 DEF IInv, DayLimits
  <2>3. QED
    BY <2>1, <2>2
<1>18. WindowLimit'
  BY <1>5, <1>9, <1>10, WalkForwardAssumption DEF WindowLimit, IInv, Breaker
<1>19. Solvent'
  <2> SUFFICES ASSUME WorstR < RiskPer PROVE equity' > 0
    BY DEF Solvent
  <2>1. equity \in Nat /\ ContractsFor(c) \in Nat \ {0}
    BY <1>2, <1>10
  <2>2. QED
    BY <1>2, <1>5, <1>9, <2>1, Survives
<1>20. QED
  BY <1>13, <1>14, <1>15, <1>16, <1>17, <1>18, <1>19 DEF IInv

\* Every step keeps the invariant.
LEMMA StepInv == IInv /\ [Next]_vars => IInv'
<1> SUFFICES ASSUME IInv, [Next]_vars PROVE IInv'
  OBVIOUS
<1>1. ASSUME NEW c \in Candidate, Suppress(c) PROVE IInv'
  <2>1. /\ n' \in 0..MaxCandidates /\ clock' \in Nat /\ clock' = c.entry
    BY <1>1, SessionForDay, WalkForwardAssumption
       DEF Suppress, NextCandidate, IInv, TypeOK, Candidate, Slots
  <2>2. UNCHANGED <<stage, evidence, w, day, session, equity, windowR, tripped, daily>>
    BY <1>1 DEF Suppress, run
  <2>3. TypeOK'
    BY <2>1, <2>2 DEF IInv, TypeOK
  <2>4. /\ Later' /\ Breaker' /\ DayLimits' /\ WindowLimit' /\ Solvent'
    BY <2>2 DEF IInv, Later, Breaker, DayLimits, WindowLimit, Solvent
  <2>5. InStep'
    <3>1. day # NoDay => day <= DayOf(c.entry)
      BY <1>1, SessionForDay DEF Suppress
    <3>2. QED
      BY <2>1, <2>2, <3>1 DEF IInv, InStep, LimitReached
  <2>6. QED
    BY <2>3, <2>4, <2>5 DEF IInv
<1>2. ASSUME NEW c \in Candidate, Skip(c) PROVE IInv'
  <2> DEFINE s == SessionFor(c)
             d == DayOf(c.entry)
  <2>1. /\ d \in Days /\ d \in Nat /\ (day # NoDay => day <= d)
        /\ s \in SessionState
        /\ s.r = daily[d].r /\ s.trades = daily[d].trades
        /\ s.losses = daily[d].losses
        /\ (s.halted <=> LimitReached(s.r, s.losses, s.trades))
    BY <1>2, SessionForDay DEF Skip
  <2>2. clock' \in Nat /\ clock' = c.entry /\ day' = d /\ session' = s
        /\ n' = n + 1 /\ n < MaxCandidates
        /\ UNCHANGED <<stage, evidence, w, equity, windowR, tripped, daily>>
    BY <1>2, WalkForwardAssumption DEF Skip, NextCandidate, Candidate, Slots, run
  <2> HIDE DEF s, d
  <2>3. TypeOK'
    <3>1. n' \in 0..MaxCandidates /\ clock' \in Int
      BY <2>2, WalkForwardAssumption DEF IInv, TypeOK
    <3>2. day' \in Days \cup {NoDay} /\ session' \in SessionState
      BY <2>1, <2>2
    <3>3. QED
      BY <2>2, <3>1, <3>2 DEF IInv, TypeOK
  <2>4. /\ Breaker' /\ DayLimits' /\ WindowLimit' /\ Solvent'
    BY <2>2 DEF IInv, Breaker, DayLimits, WindowLimit, Solvent
  <2>5. InStep'
    <3>1. day' = DayOf(clock)' /\ day' \in Nat
      BY <2>1, <2>2 DEF DayOf, d
    <3>2. day' # NoDay /\ day' <= DayOf(clock)'
      BY <3>1 DEF NoDay
    <3>3. QED
      BY <2>1, <2>2, <3>2 DEF InStep, LimitReached
  <2>6. Later'
    <3> SUFFICES ASSUME NEW e \in Days, e > d PROVE daily[e] = Zero
      BY <2>1, <2>2 DEF Later, NoDay
    <3>1. e \in Nat /\ (day = NoDay \/ day \in Nat)
      BY DayMono, WalkForwardAssumption DEF IInv, TypeOK, Days, Slots
    <3>2. day = NoDay \/ e > day
      BY <2>1, <3>1
    <3>3. QED
      BY <3>2 DEF IInv, Later
  <2>7. QED
    BY <2>3, <2>4, <2>5, <2>6 DEF IInv
<1>3. ASSUME NEW c \in Candidate, Take(c) PROVE IInv'
  BY <1>3, TakeInv
<1>4. CASE NextWindow
  <2>1. /\ w' = w + 1 /\ n' = 0 /\ clock' = TestStart(w + 1)
        /\ day' = NoDay /\ session' = StartSession
        /\ windowR' = 0 /\ tripped' = FALSE
        /\ daily' = [d \in Days |-> Zero]
        /\ UNCHANGED <<stage, evidence, equity>>
    BY <1>4 DEF NextWindow, run, Untraded, Zero
  <2>2. StartSession \in SessionState /\ Zero \in Tally /\ ~LimitReached(0, 0, 0)
    BY RiskAssumption DEF StartSession, SessionState, Zero, Tally, LimitReached
  <2>3. TypeOK'
    <3>1. w' \in Nat /\ clock' \in Int /\ n' \in 0..MaxCandidates
      BY <2>1, WalkForwardAssumption DEF IInv, TypeOK, TestStart
    <3>2. daily' \in [Days -> Tally] /\ session' \in SessionState
      BY <2>1, <2>2
    <3>3. tripped' \in BOOLEAN
      BY <2>1
    <3>7. windowR' \in Int
      BY <2>1
    <3>4. day' \in Days \cup {NoDay}
      BY <2>1
    <3>5. stage' \in Stages /\ evidence' \in Evidences /\ equity' \in Int
      BY <2>1 DEF IInv, TypeOK
    <3>6. QED
      BY <3>1, <3>2, <3>3, <3>4, <3>5, <3>7 DEF TypeOK
  <2>4. InStep'
    BY <2>1, <2>2 DEF InStep, StartSession, LimitReached
  <2>5. Later'
    BY <2>1 DEF Later
  <2>6. Breaker' /\ WindowLimit'
    BY <2>1, WalkForwardAssumption DEF Breaker, WindowLimit
  <2>7. DayLimits'
    <3>1. \A d \in Days : daily'[d].r = 0 /\ daily'[d].trades = 0 /\ daily'[d].losses = 0
      BY <2>1 DEF Zero
    <3>2. QED
      BY <3>1, RiskAssumption, WalkForwardAssumption DEF DayLimits
  <2>8. Solvent'
    BY <2>1 DEF IInv, Solvent
  <2>9. QED
    BY <2>3, <2>4, <2>5, <2>6, <2>7, <2>8 DEF IInv
<1>5. CASE UNCHANGED vars
  <2>1. TypeOK'
    BY <1>5 DEF vars, IInv, TypeOK
  <2>2. InStep'
    BY <1>5 DEF vars, IInv, InStep, LimitReached
  <2>3. Later' /\ Breaker' /\ DayLimits' /\ WindowLimit' /\ Solvent'
    BY <1>5 DEF vars, IInv, Later, Breaker, DayLimits, WindowLimit, Solvent
  <2>4. QED
    BY <2>1, <2>2, <2>3 DEF IInv
<1>6. QED
  BY <1>1, <1>2, <1>3, <1>4, <1>5 DEF Next

\* The invariant holds throughout.
LEMMA Invariant == Spec => []IInv
  BY InitInv, StepInv, PTL DEF Spec

\* The harness' state has its types: a session never counts past its caps.
THEOREM WalkForwardTypes == Spec => []TypeOK
<1>1. IInv => TypeOK
  BY DEF IInv
<1>2. QED
  BY <1>1, Invariant, PTL

\* No day of a window overshoots a daily limit by more than one trade, because
\* candidates come in order and a halted session stays halted.
THEOREM DaysAreLimited == Spec => []DayLimits
<1>1. IInv => DayLimits
  BY DEF IInv
<1>2. QED
  BY <1>1, Invariant, PTL

\* No window loses more than its floor and the trade that went through it.
THEOREM WindowsAreLimited == Spec => []WindowLimit
<1>1. IInv => WindowLimit
  BY DEF IInv
<1>2. QED
  BY <1>1, Invariant, PTL

\* Sizing cannot ruin the account, over any number of windows.
THEOREM NeverRuined == Spec => []Solvent
<1>1. IInv => Solvent
  BY DEF IInv
<1>2. QED
  BY <1>1, Invariant, PTL

-----------------------------------------------------------------------------
\* No stage gets more than the evidence supports, where a rung is not below the
\* one before it.
LEMMA LadderSupported ==
  ASSUME NEW st \in Stage, NEW e \in Evidence,
         MicroCap <= ValidatedCap, ValidatedCap <= ScaleCap
  PROVE  MaxContracts(st, e) <= Supported(e)
<1>1. MicroCap \in Nat /\ ValidatedCap \in Nat /\ ScaleCap \in Nat /\ MicroCap <= ScaleCap
  BY RiskAssumption
<1>2. /\ Meets(e, ScaleMonths) => Supported(e) = ScaleCap
      /\ ~Meets(e, ScaleMonths) /\ Meets(e, ValidatedMonths) => Supported(e) = ValidatedCap
      /\ ~Meets(e, ScaleMonths) /\ ~Meets(e, ValidatedMonths) => Supported(e) = MicroCap
  BY DEF Meets, Supported
<1>3. CASE st = "paper"
  BY <1>1, <1>2, <1>3 DEF MaxContracts
<1>4. CASE st = "micro_live"
  BY <1>1, <1>2, <1>4 DEF MaxContracts
<1>5. CASE st = "validated"
  BY <1>1, <1>2, <1>5 DEF MaxContracts
<1>6. CASE st = "scale"
  BY <1>1, <1>2, <1>6 DEF MaxContracts
<1>7. QED
  BY <1>3, <1>4, <1>5, <1>6 DEF Stage

\* An entry that is allowed is capped by the ladder, and its regime is not
\* sized to nothing.
LEMMA EntryCapped ==
  ASSUME TypeOK, NEW c \in Candidate, ContractsFor(c) >= 1
  PROVE  ContractsFor(c) <= MaxContracts(stage, evidence) /\ RegimeHalves(c.regime) # 0
<1> DEFINE s == SessionFor(c)
           h == VolatilityHalves(FALSE, c.regime)
           p == PositionSize(equity, c.dist, h)
           m == MaxContracts(stage, evidence)
<1>1. CanOpen(s) /\ equity \in Nat /\ c.dist \in Nat \ {0} /\ ContractsFor(c) \in Nat
  BY EntryAllowed DEF TypeOK
<1>2. KillSwitch({}, s) = {}
  <2> SUFFICES ASSUME KillSwitch({}, s) # {} PROVE ContractsFor(c) = 0
    BY <1>1
  <2> QED
    BY <1>1, Zenon DEF ContractsFor, EvaluateEntry
<1>3. ContractsFor(c) = Lesser(p, m)
  <2> DEFINE r == [equity |-> equity, dist |-> c.dist, regime |-> c.regime,
                   highVol |-> FALSE]
  <2>1. ContractsFor(c) = EvaluateEntry(r, s, {}, stage, evidence)
    BY <1>1 DEF ContractsFor
  <2>2. QED
    BY <1>1, <1>2, <2>1 DEF EvaluateEntry
<1>4. h \in 0..2 /\ (RegimeHalves(c.regime) = 0 => h = 0)
  BY RiskAssumption DEF VolatilityHalves, RegimeHalves, Lesser
<1>5. p \in Nat /\ m \in Nat
  BY <1>1, <1>4, SizeInBudget, CapNat, WalkForwardAssumption DEF TypeOK
<1>6. h = 0 => p = 0
  <2>1. RiskPer * c.dist \in Nat \ {0}
    BY <1>1, RiskAssumption
  <2>2. 2 * (RiskPer * c.dist) \in Nat \ {0}
    BY <2>1
  <2>3. equity * 0 = 0 /\ 0 \div (2 * (RiskPer * c.dist)) = 0
    BY <1>1, <2>2
  <2>4. QED
    BY <2>3 DEF PositionSize
<1> HIDE DEF p, m, h, s
<1>7. Lesser(p, m) <= m /\ Lesser(p, m) <= p
  BY <1>5 DEF Lesser
<1>8. Lesser(p, m) \in Nat /\ Lesser(p, m) >= 1
  BY <1>1, <1>3
<1>9. RegimeHalves(c.regime) # 0
  BY <1>4, <1>5, <1>6, <1>7, <1>8
<1>10. ContractsFor(c) <= m
  BY <1>3, <1>7
<1>11. QED
  BY <1>9, <1>10 DEF m

\* Every entry is within the budget, the evidence and the regime's policy.
THEOREM EntriesWithinBudget == Spec => WithinBudget
<1> DEFINE Fits(c) ==
             /\ ContractsFor(c) * (c.dist * RiskPer) <= equity
             /\ MicroCap <= ValidatedCap /\ ValidatedCap <= ScaleCap
                  => ContractsFor(c) <= Supported(evidence)
             /\ c.regime # "range_low_vol"
             /\ PanicNoTrade => c.regime # "panic"
<1>1. IInv => [\A c \in Candidate : Take(c) => Fits(c)]_vars
  <2> SUFFICES ASSUME IInv, NEW c \in Candidate, Take(c) PROVE Fits(c)
    OBVIOUS
  <2>1. TypeOK /\ ContractsFor(c) >= 1
    BY DEF IInv, Take
  <2>2. ContractsFor(c) * (c.dist * RiskPer) <= equity /\ ContractsFor(c) \in Nat
    BY <2>1, EntryAllowed
  <2>3. ContractsFor(c) <= MaxContracts(stage, evidence) /\ RegimeHalves(c.regime) # 0
    BY <2>1, EntryCapped
  <2>4. stage \in Stage /\ evidence \in Evidence
    BY <2>1, WalkForwardAssumption DEF TypeOK
  <2>5. MaxContracts(stage, evidence) \in Nat
    BY <2>4, CapNat
  <2>6. Supported(evidence) \in Nat
    BY RiskAssumption DEF Supported
  <2>7. ASSUME MicroCap <= ValidatedCap, ValidatedCap <= ScaleCap
        PROVE  ContractsFor(c) <= Supported(evidence)
    <3>1. MaxContracts(stage, evidence) <= Supported(evidence)
      BY <2>4, <2>7, LadderSupported
    <3>2. QED
      BY <2>2, <2>3, <2>5, <2>6, <3>1
  <2>8. c.regime # "range_low_vol" /\ (PanicNoTrade => c.regime # "panic")
    BY <2>3 DEF RegimeHalves
  <2>9. QED
    BY <2>2, <2>7, <2>8
<1>2. QED
  BY <1>1, Invariant, PTL DEF WithinBudget
=============================================================================
