------------------------------ MODULE DmgTimer ------------------------------
(***************************************************************************)
(* The divider and TIMA pipeline of the DMG timer, one T-cycle at a time.  *)
(* The divider width, the four TAC periods and the counter width are       *)
(* constants, so that a small instance reaches every overflow.             *)
(***************************************************************************)
EXTENDS Integers

CONSTANTS
    DivModulus,   \* 2^16: raw_div wraps here
    Period,       \* Period[s]: T-cycles between falling edges under TAC select s
    CounterMax    \* u8::MAX: TIMA overflows after it

Selects == DOMAIN Period

ASSUME PeriodAssumption ==
    /\ Period \in [Selects -> Nat] /\ DivModulus \in Nat \ {0}
    /\ \E s \in Selects : \A r \in Selects : Period[r] <= Period[s]
    /\ \A s \in Selects : Period[s] > 5 /\ Period[s] % 8 = 0 /\ DivModulus % Period[s] = 0
ASSUME CounterAssumption == CounterMax \in Nat \ {0}

\* reload_phase: 0 is idle, 1..5 count the T-cycles since the overflow.
LastPhase == 5

Timers ==
    [div : 0..(DivModulus - 1), counter : 0..CounterMax, modulo : 0..CounterMax,
     enable : BOOLEAN, select : Selects, latch : BOOLEAN, phase : 0..LastPhase]

\* The selected divider bit, gated by the TAC enable bit.
DetectorInput(t) ==
    /\ t.enable
    /\ t.div % Period[t.select] >= Period[t.select] \div 2

\* The interrupt that advance_reload_pipeline returns.
ReloadFires(t) == t.phase = LastPhase

AdvanceReloadPipeline(t) ==
    IF ReloadFires(t)
    THEN [t EXCEPT !.counter = t.modulo, !.phase = 0]
    ELSE [t EXCEPT !.phase = IF @ = 0 THEN 0 ELSE @ + 1]

\* Mutant: the reload pipeline starts one T-cycle ahead.
IncrementCounterAhead(t) ==
    IF t.counter = CounterMax
    THEN [t EXCEPT !.counter = 0, !.phase = 2]
    ELSE [t EXCEPT !.counter = @ + 1]

IncrementCounter(t) ==
    IF t.counter = CounterMax
    THEN [t EXCEPT !.counter = 0, !.phase = 1]
    ELSE [t EXCEPT !.counter = @ + 1]

Tick(t) ==
    LET moved   == [AdvanceReloadPipeline(t) EXCEPT !.div = (@ + 1) % DivModulus]
        latched == [moved EXCEPT !.latch = DetectorInput(moved)]
    IN  IF moved.latch /\ ~latched.latch THEN IncrementCounter(latched) ELSE latched

\* FF04..FF07.  A DIV or TAC write leaves the edge latch as it was.
WriteDiv(t) == [t EXCEPT !.div = 0]
WriteControl(t, tac) == [t EXCEPT !.enable = tac.enable, !.select = tac.select]
\* Mutant: a TIMA write cancels a reload that is already being made.
WriteCounterCancels(t, v) == [t EXCEPT !.counter = v, !.phase = 0]

WriteCounter(t, v) ==
    IF t.phase = LastPhase
    THEN [t EXCEPT !.counter = t.modulo]
    ELSE [t EXCEPT !.counter = v, !.phase = 0]
WriteModulo(t, v) ==
    [t EXCEPT !.modulo = v, !.counter = IF t.phase = LastPhase THEN v ELSE @]

\* t_cycles_until_interrupt is None outside this condition.
InterruptForeseen(t) == t.enable /\ t.phase = 0 /\ t.latch = DetectorInput(t)


TCyclesUntilInterrupt(t) ==
    LET period == Period[t.select]
    IN  (period - (t.div % period)) + (CounterMax - t.counter) * period + 5
=============================================================================
