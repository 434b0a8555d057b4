----------------------- MODULE MachineAlignment_proofs -----------------------
(***************************************************************************)
(* The machine is aligned to M-cycles between transitions: the rest of     *)
(* TypeOK.  Inside an M-cycle the divider and the dot move through the four *)
(* residues; an edge of the selected divider bit falls only where the      *)
(* divider is a multiple of four, or in the first T-cycle after a register *)
(* write, so the reload pipeline has few phases at each residue.           *)
(***************************************************************************)
EXTENDS StepRelation_proofs

----------------------------------------------------------------------------
(* Remainders.                                                             *)

\* A number is its quotient times the divisor and a remainder below it.
LEMMA Division ==
    ASSUME NEW v \in Nat, NEW p \in Nat \ {0}
    PROVE  v \div p \in Nat /\ v % p \in 0..(p - 1) /\ v = p * (v \div p) + (v % p)
<1>1. v % p \in 0..(p - 1)
  OBVIOUS
<1>2. v = p * (v \div p) + (v % p)
  OBVIOUS
<1>3. v \div p \in Int
  OBVIOUS
<1>4. v \div p >= 0
  OBVIOUS
<1> QED BY <1>1, <1>2, <1>3, <1>4

\* Quotient and remainder are unique.
LEMMA RemainderUnique ==
    ASSUME NEW p \in Nat \ {0}, NEW a \in Nat, NEW b \in Nat, NEW r \in 0..(p - 1), NEW s \in 0..(p - 1),
           p * a + r = p * b + s
    PROVE  r = s
<1>1. ASSUME NEW x \in Nat, NEW y \in Nat, x < y PROVE p * y >= p * x + p
  <2>1. PICK k \in Nat : y = x + 1 + k
    <3>1. y - x - 1 \in Nat /\ y = x + 1 + (y - x - 1)
      BY <1>1
    <3> QED BY <3>1
  <2>2. p * (x + 1 + k) = p * x + p + p * k
    OBVIOUS
  <2>3. p * k \in Nat /\ p * x \in Nat
    OBVIOUS
  <2> QED BY <2>1, <2>2, <2>3
<1>2. p * a \in Nat /\ p * b \in Nat
  OBVIOUS
<1>3. CASE a < b
  <2>1. p * b >= p * a + p
    BY <1>1, <1>3
  <2> QED BY <1>2, <2>1
<1>4. CASE b < a
  <2>1. p * a >= p * b + p
    BY <1>1, <1>4
  <2> QED BY <1>2, <2>1
<1>5. CASE a = b
  BY <1>2, <1>5
<1> QED BY <1>3, <1>4, <1>5

\* A multiple of a multiple of eight is a multiple of four.
LEMMA Multiples ==
    ASSUME NEW p \in Nat \ {0}, p % 8 = 0, NEW q \in Nat
    PROVE  \E x \in Nat : p * q = 4 * x
<1>1. p = 8 * (p \div 8) /\ p \div 8 \in Nat
  OBVIOUS
<1> DEFINE e == p \div 8
<1> HIDE DEF e
<1>2. p = 8 * e /\ e \in Nat
  BY <1>1 DEF e
<1>3. (8 * e) * q = 4 * (2 * (e * q))
  BY <1>2
<1>4. 2 * (e * q) \in Nat
  BY <1>2
<1> QED BY <1>2, <1>3, <1>4

\* Counting on by one leaves the period only after three modulo four.
LEMMA NextInPeriod ==
    ASSUME NEW v \in Nat, NEW p \in Nat \ {0}, p % 8 = 0, v % 4 # 3
    PROVE  (v + 1) % p = (v % p) + 1
<1> DEFINE q == v \div p
           r == v % p
           q1 == (v + 1) \div p
           r1 == (v + 1) % p
<1>1. q \in Nat /\ r \in 0..(p - 1) /\ v = p * q + r
  BY Division
<1>2. q1 \in Nat /\ r1 \in 0..(p - 1) /\ v + 1 = p * q1 + r1
  <2>1. v + 1 \in Nat
    OBVIOUS
  <2> QED BY <2>1, Division
<1> HIDE DEF q, r, q1, r1
<1>3. PICK x \in Nat : p * q = 4 * x
  BY <1>1, Multiples
<1>4. r % 4 # 3
  BY <1>1, <1>3
<1>5. (p - 1) % 4 = 3
  OBVIOUS
<1>6. r + 1 \in 0..(p - 1)
  BY <1>1, <1>4, <1>5
<1>7. p * q + (r + 1) = p * q1 + r1
  <2>1. p * q \in Nat /\ p * q1 \in Nat
    BY <1>1, <1>2
  <2> QED BY <1>1, <1>2, <2>1
<1>8. r + 1 = r1
  BY <1>1, <1>2, <1>6, <1>7, RemainderUnique
<1> QED BY <1>8 DEF r, r1

\* The divider modulus is a multiple of four.
LEMMA DivModulusAligned == DivModulus \in Nat \ {0} /\ DivModulus % 4 = 0
<1>1. PICK s \in Selects : Period[s] \in Nat \ {0} /\ Period[s] % 8 = 0 /\ DivModulus % Period[s] = 0
  BY PeriodAssumption
<1> DEFINE p == Period[s]
           q == DivModulus \div p
<1>2. DivModulus \in Nat \ {0}
  BY PeriodAssumption
<1>3. q \in Nat /\ DivModulus = p * q + 0
  BY <1>1, <1>2, Division
<1>4. PICK x \in Nat : p * q = 4 * x
  <2> HIDE DEF q, p
  <2>1. p \in Nat \ {0} /\ p % 8 = 0
    BY <1>1 DEF p
  <2> QED BY <1>3, <2>1, Multiples
<1> HIDE DEF p, q
<1>5. DivModulus = 4 * x
  BY <1>2, <1>3, <1>4
<1> QED BY <1>2, <1>5

\* The divider moves from one residue to the next.
LEMMA NextDivider ==
    ASSUME NEW v \in 0..(DivModulus - 1)
    PROVE  /\ (v + 1) % DivModulus \in 0..(DivModulus - 1)
           /\ ((v + 1) % DivModulus) % 4 = ((v % 4) + 1) % 4
           /\ v % 4 # 3 => (v + 1) % DivModulus = v + 1
<1> DEFINE M == DivModulus
<1>1. M \in Nat \ {0} /\ M % 4 = 0
  BY DivModulusAligned
<1> HIDE DEF M
<1>2. CASE v + 1 = M
  <2>1. (v + 1) % M = 0
    BY <1>1, <1>2
  <2>2. v % 4 = 3
    BY <1>1, <1>2 DEF M
  <2> QED BY <1>1, <2>1, <2>2 DEF M
<1>3. CASE v + 1 # M
  <2>1. v + 1 \in 0..(M - 1)
    BY <1>1, <1>3 DEF M
  <2>2. (v + 1) % M = v + 1
    BY <1>1, <2>1
  <2>3. (v + 1) % 4 = ((v % 4) + 1) % 4
    BY <1>1 DEF M
  <2> QED BY <2>1, <2>2, <2>3 DEF M
<1> QED BY <1>2, <1>3
----------------------------------------------------------------------------
(* The timer.                                                              *)

\* The reload phases possible at each residue of the divider.  Inside an
\* M-cycle the edge detector has seen the divider as it is.
TimerInStep(t) ==
    LET k == t.div % 4
    IN  /\ k = 0 => t.phase \in {0, 1, 4, 5}
        /\ k = 1 => t.phase \in {0, 1, 2, 5} /\ t.latch = DetectorInput(t)
        /\ k = 2 => t.phase \in {0, 2, 3} /\ t.latch = DetectorInput(t)
        /\ k = 3 => t.phase \in {0, 3, 4}

\* While the divider only counts on inside an M-cycle, the selected bit does
\* not fall.
LEMMA BitStays ==
    ASSUME NEW v \in Nat, NEW p \in Nat \ {0}, p % 8 = 0, v % 4 # 3, v % p >= p \div 2
    PROVE  (v + 1) % p >= p \div 2
<1>1. (v + 1) % p = (v % p) + 1
  BY NextInPeriod
<1>2. v % p \in Nat /\ p \div 2 \in Nat
  BY Division
<1> QED BY <1>1, <1>2

\* A T-cycle moves the timer to the next residue.
LEMMA TickInStep ==
    ASSUME NEW t \in Timers, TimerInStep(t)
    PROVE  TimerInStep(Tick(t)) /\ Tick(t).div % 4 = ((t.div % 4) + 1) % 4
<1> DEFINE piped == AdvanceReloadPipeline(t)
           v == (t.div + 1) % DivModulus
           moved == [piped EXCEPT !.div = v]
           latched == [moved EXCEPT !.latch = DetectorInput(moved)]
           u == Tick(t)
           fell == moved.latch /\ ~latched.latch
<1>1. /\ t.div \in 0..(DivModulus - 1) /\ t.phase \in 0..5 /\ t.latch \in BOOLEAN /\ t.enable \in BOOLEAN
      /\ t.select \in Selects
  BY DEF Timers, LastPhase
<1>2. /\ v \in 0..(DivModulus - 1) /\ v % 4 = ((t.div % 4) + 1) % 4
      /\ t.div % 4 # 3 => v = t.div + 1
  BY <1>1, NextDivider
<1> HIDE DEF v
<1>3. /\ piped \in Timers /\ piped.div = t.div /\ piped.latch = t.latch /\ piped.enable = t.enable
      /\ piped.select = t.select
      /\ piped.phase = IF t.phase = 5 \/ t.phase = 0 THEN 0 ELSE t.phase + 1
  <2>1. CASE t.phase = 5
    <3>1. piped = [t EXCEPT !.counter = t.modulo, !.phase = 0]
      BY <2>1 DEF AdvanceReloadPipeline, ReloadFires, LastPhase
    <3> HIDE DEF piped
    <3>2. t.modulo \in 0..CounterMax /\ 0 \in 0..LastPhase
      BY DEF Timers, LastPhase
    <3> QED BY <2>1, <3>1, <3>2 DEF Timers
  <2>2. CASE t.phase # 5
    <3>1. AdvanceReloadPipeline(t) = [t EXCEPT !.phase = IF t.phase = 0 THEN 0 ELSE t.phase + 1]
      BY <2>2 DEF AdvanceReloadPipeline, ReloadFires, LastPhase
    <3>2. (IF t.phase = 0 THEN 0 ELSE t.phase + 1) \in 0..5
      BY <1>1, <2>2
    <3> QED BY <2>2, <3>1, <3>2 DEF Timers, LastPhase
  <2> QED BY <2>1, <2>2
<1> HIDE DEF piped
<1>4. /\ moved \in Timers /\ moved.div = v /\ moved.latch = t.latch /\ moved.enable = t.enable
      /\ moved.select = t.select /\ moved.phase = piped.phase
  BY <1>2, <1>3 DEF Timers
<1> HIDE DEF moved
<1>5. DetectorInput(moved) \in BOOLEAN
  BY DEF DetectorInput
<1>6. /\ latched \in Timers /\ latched.div = v /\ latched.latch = DetectorInput(moved)
      /\ latched.enable = moved.enable /\ latched.select = moved.select
      /\ latched.phase = piped.phase
  BY <1>4, <1>5 DEF Timers
<1>7. u = IF fell THEN IncrementCounter(latched) ELSE latched
  <2>1. moved = [AdvanceReloadPipeline(t) EXCEPT !.div = (@ + 1) % DivModulus]
    BY <1>3 DEF moved, piped, v
  <2> QED BY <2>1, Zenon DEF Tick, latched, u, fell
<1>8. DetectorInput(latched) = latched.latch
  BY <1>4, <1>6 DEF DetectorInput
<1> HIDE DEF latched, u
<1>9. /\ u.div = v /\ u.latch = DetectorInput(u)
      /\ u.phase = piped.phase \/ (fell /\ u.phase = 1)
  <2>1. CASE ~fell
    BY <1>6, <1>7, <1>8, <2>1
  <2>2. CASE fell
    <3> DEFINE w == IncrementCounter(latched)
    <3>1. /\ w.div = latched.div /\ w.latch = latched.latch /\ w.enable = latched.enable
          /\ w.select = latched.select /\ w.phase \in {latched.phase, 1}
      BY <1>6 DEF IncrementCounter, Timers
    <3>2. u = w
      BY <1>7, <2>2
    <3> HIDE DEF w
    <3>3. DetectorInput(w) = DetectorInput(latched)
      BY <3>1 DEF DetectorInput
    <3> QED BY <1>6, <1>8, <2>2, <3>1, <3>2, <3>3
  <2> QED BY <2>1, <2>2
<1>10. t.div % 4 \in 0..3
  BY <1>1, DivModulusAligned
<1>11. t.div % 4 \in {1, 2} => ~fell
  <2> SUFFICES ASSUME t.div % 4 \in {1, 2}, t.latch PROVE latched.latch
    BY <1>4 DEF fell
  <2>1. t.enable /\ t.div % Period[t.select] >= Period[t.select] \div 2
    BY DEF TimerInStep, DetectorInput
  <2>2. Period[t.select] \in Nat \ {0} /\ Period[t.select] % 8 = 0 /\ t.div \in Nat
    BY <1>1, PeriodAssumption
  <2>3. (t.div + 1) % Period[t.select] >= Period[t.select] \div 2
    BY <2>1, <2>2, BitStays
  <2>4. moved.div = t.div + 1 /\ moved.select = t.select /\ moved.enable = t.enable
    BY <1>2, <1>4
  <2>5. DetectorInput(moved)
    BY <2>1, <2>3, <2>4 DEF DetectorInput
  <2> QED BY <1>6, <2>5
<1>12. CASE t.div % 4 = 0
  <2>1. t.phase \in {0, 1, 4, 5} /\ v % 4 = 1
    BY <1>2, <1>12 DEF TimerInStep
  <2>2. u.phase \in {0, 1, 2, 5}
    BY <1>3, <1>9, <2>1
  <2> QED BY <1>2, <1>9, <2>1, <2>2 DEF TimerInStep, u
<1>13. CASE t.div % 4 = 1
  <2>1. t.phase \in {0, 1, 2, 5} /\ v % 4 = 2
    BY <1>2, <1>13 DEF TimerInStep
  <2>2. u.phase \in {0, 2, 3}
    BY <1>3, <1>9, <1>11, <1>13, <2>1
  <2> QED BY <1>2, <1>9, <2>1, <2>2 DEF TimerInStep, u
<1>14. CASE t.div % 4 = 2
  <2>1. t.phase \in {0, 2, 3} /\ v % 4 = 3
    BY <1>2, <1>14 DEF TimerInStep
  <2>2. u.phase \in {0, 3, 4}
    BY <1>3, <1>9, <1>11, <1>14, <2>1
  <2> QED BY <1>2, <1>9, <2>1, <2>2 DEF TimerInStep, u
<1>15. CASE t.div % 4 = 3
  <2>1. t.phase \in {0, 3, 4} /\ v % 4 = 0
    BY <1>2, <1>15 DEF TimerInStep
  <2>2. u.phase \in {0, 1, 4, 5}
    BY <1>3, <1>9, <2>1
  <2> QED BY <1>2, <1>9, <2>1, <2>2 DEF TimerInStep, u
<1> QED BY <1>10, <1>12, <1>13, <1>14, <1>15
----------------------------------------------------------------------------
(* Time.                                                                   *)

\* MCycleAligned, as a predicate on device states.
Aligned(d) ==
    /\ d.lcd.dot % 4 = 0 /\ d.timer.div % 4 = 0 /\ d.serial.left % 4 = 0
    /\ d.timer.phase \in {0, 1, LastPhase - 1, LastPhase}

\* A T-cycle of the timer touches the timer and IF.
LEMMA TimerFrame ==
    ASSUME NEW d \in Devices
    PROVE  LET e == AdvanceTimerTCycle(d)
           IN  e.timer = Tick(d.timer) /\ e.lcd = d.lcd /\ e.serial = d.serial
BY DEF AdvanceTimerTCycle, Request, Devices

\* Whole M-cycles of the timer keep it aligned.
LEMMA TimerRunAligned ==
    ASSUME NEW d \in Devices, d.timer.div % 4 = 0, TimerInStep(d.timer), NEW m \in Nat
    PROVE  LET e == TimerRun(d, 4 * m)
           IN  /\ e.timer.div % 4 = 0 /\ TimerInStep(e.timer)
               /\ e.lcd = d.lcd /\ e.serial = d.serial
<1> DEFINE n == 4 * m
           T == {h \in Nat \X Devices : /\ h[2].timer.div % 4 = h[1] % 4 /\ TimerInStep(h[2].timer)
                                        /\ h[2].lcd = d.lcd /\ h[2].serial = d.serial}
<1>1. \A e \in Devices : AdvanceTimerTCycle(e) \in Devices
  BY TimerLater DEF Later
<1>2. n \in Nat /\ n % 4 = 0
  OBVIOUS
<1> HIDE DEF n
<1>3. PICK f : TimerOrbit(f, d, n)
  BY <1>1, <1>2, IterateTimer, Zenon
<1> DEFINE g == [k \in 0..n |-> <<k, f[k]>>]
<1>4. g[0] \in T
  <2>1. g[0] = <<0, d>>
    BY <1>2, <1>3 DEF TimerOrbit
  <2> QED BY <2>1
<1>5. ASSUME NEW k \in 1..n, g[k - 1] \in T PROVE g[k] \in T
  <2>1. k \in 0..n /\ k - 1 \in 0..n /\ k \in Nat /\ k - 1 \in Nat
    BY <1>2
  <2> DEFINE e == f[k - 1]
  <2>2. /\ e \in Devices /\ e.timer.div % 4 = (k - 1) % 4 /\ TimerInStep(e.timer)
        /\ e.lcd = d.lcd /\ e.serial = d.serial
    BY <1>5, <2>1
  <2>3. f[k] = AdvanceTimerTCycle(e)
    BY <1>3 DEF TimerOrbit
  <2> HIDE DEF e
  <2>4. e.timer \in Timers
    BY <2>2 DEF Devices
  <2>5. TimerInStep(Tick(e.timer)) /\ Tick(e.timer).div % 4 = ((e.timer.div % 4) + 1) % 4
    BY <2>2, <2>4, TickInStep
  <2>6. f[k] \in Devices /\ f[k].timer = Tick(e.timer) /\ f[k].lcd = d.lcd /\ f[k].serial = d.serial
    BY <1>1, <2>2, <2>3, TimerFrame
  <2>7. (((k - 1) % 4) + 1) % 4 = k % 4
    BY <2>1
  <2>8. f[k].timer.div % 4 = k % 4
    BY <2>2, <2>5, <2>6, <2>7
  <2> QED BY <2>1, <2>5, <2>6, <2>8
<1>6. g[n] = <<n, f[n]>>
  BY <1>2
<1> HIDE DEF T, g
<1>7. g[n] \in T
  BY <1>2, <1>4, <1>5, OrbitWithin
<1> QED BY <1>2, <1>3, <1>6, <1>7 DEF T, TimerOrbit, n

\* A T-cycle of the PPU touches the LCD and IF.  With the LCD on the dot moves
\* to the next residue; with the LCD off it is zero.
LEMMA PpuFrame ==
    ASSUME NEW d \in Devices
    PROVE  LET e == AdvancePpuTCycle(d)
           IN  /\ e.timer = d.timer /\ e.serial = d.serial /\ e.lcd.on = d.lcd.on
               /\ d.lcd.on => e.lcd.dot % 4 = ((d.lcd.dot % 4) + 1) % 4
               /\ ~d.lcd.on => e.lcd.dot = 0
<1>1. d.lcd.dot \in Nat /\ d.lcd.dot < LineDots /\ LineDots \in Nat /\ LineDots % 4 = 0
  BY PpuAssumption DEF Devices
<1>2. CASE ~d.lcd.on
  BY <1>2 DEF AdvancePpuTCycle, Devices
<1>3. CASE d.lcd.on
  <2> DEFINE e == NextDot(d)
  <2>1. /\ e.timer = d.timer /\ e.serial = d.serial /\ e.lcd.on = d.lcd.on
        /\ e.lcd.dot = IF d.lcd.dot + 1 < LineDots THEN d.lcd.dot + 1 ELSE 0
    BY DEF NextDot, Request, Devices
  <2>2. e.lcd.dot % 4 = ((d.lcd.dot % 4) + 1) % 4
    BY <1>1, <2>1
  <2>3. e \in Devices
    BY DotLater DEF Later
  <2>4. AdvancePpuTCycle(d) \in {e, Request(e, "LcdStat")}
    BY <1>3 DEF AdvancePpuTCycle, RequestStatRisingEdge
  <2> HIDE DEF e
  <2>5. LET r == Request(e, "LcdStat") IN r.timer = e.timer /\ r.serial = e.serial /\ r.lcd = e.lcd
    BY <2>3 DEF Request, Devices
  <2> QED BY <1>3, <2>1, <2>2, <2>4, <2>5
<1> QED BY <1>2, <1>3

\* Whole M-cycles of the PPU keep the dot aligned.
LEMMA PpuRunAligned ==
    ASSUME NEW d \in Devices, d.lcd.dot % 4 = 0, NEW m \in Nat
    PROVE  LET e == PpuRun(d, 4 * m)
           IN  e.lcd.dot % 4 = 0 /\ e.timer = d.timer /\ e.serial = d.serial
<1> DEFINE n == 4 * m
           T == {h \in Nat \X Devices : /\ h[2].lcd.dot % 4 = IF d.lcd.on THEN h[1] % 4 ELSE 0
                                        /\ h[2].lcd.on = d.lcd.on
                                        /\ h[2].timer = d.timer /\ h[2].serial = d.serial}
<1>1. \A e \in Devices : AdvancePpuTCycle(e) \in Devices
  BY PpuLater DEF Later
<1>2. n \in Nat /\ n % 4 = 0
  OBVIOUS
<1> HIDE DEF n
<1>3. PICK f : PpuOrbit(f, d, n)
  BY <1>1, <1>2, IteratePpu, Zenon
<1> DEFINE g == [k \in 0..n |-> <<k, f[k]>>]
<1>4. g[0] \in T
  <2>1. g[0] = <<0, d>>
    BY <1>2, <1>3 DEF PpuOrbit
  <2> QED BY <2>1
<1>5. ASSUME NEW k \in 1..n, g[k - 1] \in T PROVE g[k] \in T
  <2>1. k \in 0..n /\ k - 1 \in 0..n /\ k \in Nat /\ k - 1 \in Nat
    BY <1>2
  <2> DEFINE e == f[k - 1]
  <2>2. /\ e \in Devices /\ e.lcd.dot % 4 = (IF d.lcd.on THEN (k - 1) % 4 ELSE 0)
        /\ e.lcd.on = d.lcd.on /\ e.timer = d.timer /\ e.serial = d.serial
    BY <1>5, <2>1
  <2>3. f[k] = AdvancePpuTCycle(e)
    BY <1>3 DEF PpuOrbit
  <2> HIDE DEF e
  <2>4. /\ f[k] \in Devices /\ f[k].timer = d.timer /\ f[k].serial = d.serial
        /\ f[k].lcd.on = d.lcd.on
        /\ e.lcd.on => f[k].lcd.dot % 4 = ((e.lcd.dot % 4) + 1) % 4
        /\ ~e.lcd.on => f[k].lcd.dot = 0
    BY <1>1, <2>2, <2>3, PpuFrame
  <2>5. (((k - 1) % 4) + 1) % 4 = k % 4 /\ 0 % 4 = 0
    BY <2>1
  <2>6. f[k].lcd.dot % 4 = IF d.lcd.on THEN k % 4 ELSE 0
    BY <2>2, <2>4, <2>5
  <2> QED BY <2>1, <2>4, <2>6
<1>6. g[n] = <<n, f[n]>>
  BY <1>2
<1> HIDE DEF T, g
<1>7. g[n] \in T
  BY <1>2, <1>4, <1>5, OrbitWithin
<1> QED BY <1>2, <1>3, <1>6, <1>7 DEF T, PpuOrbit, n
\* So do whole M-cycles at the serial port.
LEMMA SerialAligned ==
    ASSUME NEW d \in Devices, d.serial.left % 4 = 0, NEW m \in Nat
    PROVE  LET e == AdvanceSerial(d, 4 * m)
           IN  e.serial.left % 4 = 0 /\ e.timer = d.timer /\ e.lcd = d.lcd
<1> DEFINE left == Max({0, d.serial.left - 4 * m})
<1>1. d.serial.left \in Nat
  BY SerialAssumption DEF Devices
<1>2. left % 4 = 0
  <2>1. \A l \in Int : Max({0, l}) = IF 0 >= l THEN 0 ELSE l
    <3> TAKE l \in Int
    <3>1. 0 \in Int
      OBVIOUS
    <3> QED BY <3>1, MinMaxOfTwo, Zenon
  <2>2. left = IF 0 >= d.serial.left - 4 * m THEN 0 ELSE d.serial.left - 4 * m
    <3>1. d.serial.left - 4 * m \in Int
      BY <1>1
    <3> QED BY <2>1, <3>1
  <2> HIDE DEF left
  <2> QED BY <1>1, <2>2
<1> HIDE DEF left
<1>3. AdvanceSerial(d, 4 * m) \in
          {d, [d EXCEPT !.serial.left = left],
           Request([d EXCEPT !.serial.left = 0, !.serial.start = FALSE], "Serial")}
  BY DEF AdvanceSerial, left
<1>4. LET e == [d EXCEPT !.serial.left = left]
      IN  e.serial.left = left /\ e.timer = d.timer /\ e.lcd = d.lcd
  BY DEF Devices
<1>5. LET e == Request([d EXCEPT !.serial.left = 0, !.serial.start = FALSE], "Serial")
      IN  e.serial.left = 0 /\ e.timer = d.timer /\ e.lcd = d.lcd
  BY DEF Request, Devices
<1>6. 0 % 4 = 0
  OBVIOUS
<1> QED BY <1>2, <1>3, <1>4, <1>5, <1>6

\* advance_m_cycles keeps the devices aligned: no call saturates its byte.
LEMMA AdvanceAligned ==
    ASSUME NEW d \in Devices, Aligned(d), NEW m \in 0..ChunkMCycles
    PROVE  Aligned(AdvanceMCycles(d, m))
<1> DEFINE ticks == Min({4 * m, ByteMax})
           timed == TimerRun(d, 4 * m)
           clocked == AdvanceSerial(timed, 4 * m)
           done == PpuRun(clocked, 4 * m)
<1>1. m \in Nat /\ 4 * m \in Nat /\ ByteMax \in Nat /\ 4 * m <= ByteMax
  BY ChunkAssumption
<1>2. ticks = 4 * m
  <2>1. \A a, b \in Nat : a <= b => Min({a, b}) = a
    <3> TAKE a, b \in Nat
    <3>1. Min({a, b}) = IF a <= b THEN a ELSE b
      BY MinMaxOfTwo
    <3> QED BY <3>1
  <2> QED BY <1>1, <2>1
<1>3. d.timer.div % 4 = 0 /\ TimerInStep(d.timer) /\ d.lcd.dot % 4 = 0 /\ d.serial.left % 4 = 0
  BY DEF Aligned, TimerInStep, LastPhase
<1>4. /\ timed \in Devices /\ timed.timer.div % 4 = 0 /\ TimerInStep(timed.timer)
      /\ timed.lcd = d.lcd /\ timed.serial = d.serial
  BY <1>1, <1>3, TimerRunAligned, TimerRunLater DEF Later
<1> HIDE DEF timed
<1>5. /\ clocked \in Devices /\ clocked.serial.left % 4 = 0 /\ clocked.timer = timed.timer
      /\ clocked.lcd = timed.lcd
  BY <1>1, <1>3, <1>4, SerialAligned, SerialLater DEF Later
<1> HIDE DEF clocked
<1>6. done.lcd.dot % 4 = 0 /\ done.timer = clocked.timer /\ done.serial = clocked.serial
  BY <1>1, <1>3, <1>4, <1>5, PpuRunAligned
<1>7. AdvanceMCycles(d, m) = PpuRun(AdvanceSerial(TimerRun(d, ticks), ticks), ticks)
  BY DEF AdvanceMCycles, TimerRun, PpuRun
<1>8. AdvanceMCycles(d, m) = done
  <2> HIDE DEF ticks
  <2> QED BY <1>2, <1>7, Zenon DEF done, clocked, timed
<1> HIDE DEF done
<1>9. done.timer.phase \in {0, 1, LastPhase - 1, LastPhase}
  BY <1>4, <1>5, <1>6 DEF TimerInStep, LastPhase
<1> QED BY <1>4, <1>5, <1>6, <1>8, <1>9 DEF Aligned

\* So does advance_quiet_long.
LEMMA QuietLongAligned ==
    ASSUME NEW d \in Devices, Aligned(d), NEW m \in Nat
    PROVE  Aligned(AdvanceQuietLong(d, m))
<1> DEFINE n == m \div ChunkMCycles
           rest == m % ChunkMCycles
           chunked == ChunkRun(d, n)
           T == {e \in Devices : Aligned(e)}
<1>1. n \in Nat /\ rest \in 0..ChunkMCycles /\ ChunkMCycles \in 0..ChunkMCycles /\ ChunkMCycles \in Nat
  BY ChunkAssumption
<1> HIDE DEF n, rest
<1>2. d \in T /\ \A e \in T : AdvanceChunk(e) \in T
  BY <1>1, AdvanceLater, AdvanceAligned DEF AdvanceChunk, Later
<1> HIDE DEF T
<1>3. PICK f : ChunkOrbit(f, d, n)
  BY <1>1, <1>2, IterateChunk, Zenon
<1>4. f[0] \in T /\ \A k \in 1..n : f[k - 1] \in T => f[k] \in T
  BY <1>2, <1>3 DEF ChunkOrbit
<1>5. f[n] \in T
  BY <1>1, <1>4, OrbitWithin
<1>6. chunked \in Devices /\ Aligned(chunked)
  BY <1>3, <1>5 DEF T, ChunkOrbit
<1> HIDE DEF chunked
<1>7. Aligned(AdvanceMCycles(chunked, rest))
  BY <1>1, <1>6, AdvanceAligned
<1> QED BY <1>7 DEF AdvanceQuietLong, ChunkRun, chunked, n, rest

----------------------------------------------------------------------------
(* Register accesses.                                                      *)

\* A write to a timer register keeps the timer aligned.
LEMMA TimerWritesAligned ==
    ASSUME NEW t \in Timers, t.div % 4 = 0, t.phase \in {0, 1, LastPhase - 1, LastPhase}, NEW v
    PROVE  \A u \in {WriteDiv(t), WriteCounter(t, v), WriteModulo(t, v), WriteControl(t, v)} :
              u.div % 4 = 0 /\ u.phase \in {0, 1, LastPhase - 1, LastPhase}
<1>1. WriteDiv(t).div = 0 /\ WriteDiv(t).phase = t.phase
  BY DEF WriteDiv, Timers
<1>2. WriteCounter(t, v).div = t.div /\ WriteCounter(t, v).phase \in {0, t.phase}
  BY DEF WriteCounter, Timers
<1>3. WriteModulo(t, v).div = t.div /\ WriteModulo(t, v).phase = t.phase
  BY DEF WriteModulo, Timers
<1>4. WriteControl(t, v).div = t.div /\ WriteControl(t, v).phase = t.phase
  BY DEF WriteControl, Timers
<1>5. 0 % 4 = 0
  OBVIOUS
<1> QED BY <1>1, <1>2, <1>3, <1>4, <1>5

\* Every access keeps the devices aligned.
LEMMA AccessAligned ==
    ASSUME NEW d \in Devices, NEW a \in RegisterAccesses, Aligned(d)
    PROVE  Aligned(Access(d, a))
<1> DEFINE Same(e) == e.timer = d.timer /\ e.serial = d.serial /\ e.lcd.dot \in {0, d.lcd.dot}
<1>0. 0 % 4 = 0
  OBVIOUS
<1>1. \A e : Same(e) => Aligned(e)
  BY <1>0 DEF Aligned
<1>2. \A e : \A i : DOMAIN e = DOMAIN d /\ Same(e) => Same(Request(e, i))
  BY DEF Request, Devices
<1>3. CASE a.reg \in {"P1", "ReadP1"}
  <2>1. \E e : DOMAIN e = DOMAIN d /\ Same(e) /\ Access(d, a) = RequestJoypadFallingEdge(d, e)
    <3> DEFINE e1 == [d EXCEPT !.joypad.select = a.val]
               e2 == [d EXCEPT !.joypad.pressed = a.val]
    <3>1. DOMAIN e1 = DOMAIN d /\ Same(e1) /\ DOMAIN e2 = DOMAIN d /\ Same(e2)
      BY DEF Devices
    <3>2. \/ Access(d, a) = RequestJoypadFallingEdge(d, e1)
          \/ Access(d, a) = RequestJoypadFallingEdge(d, e2)
      BY <1>3 DEF Access, ApuRegisters, ControlRegisters
    <3> HIDE DEF e1, e2, Same
    <3> QED BY <3>1, <3>2
  <2> HIDE DEF Same
  <2> QED BY <1>1, <1>2, <2>1 DEF RequestJoypadFallingEdge
<1>4. CASE a.reg = "SC"
  <2> DEFINE e == WriteSerialControl(d, a.val)
  <2>1. e.timer = d.timer /\ e.lcd = d.lcd /\ e.serial.left \in {0, SerialTCycles}
    BY DEF WriteSerialControl, Devices
  <2>2. Access(d, a) = e
    BY <1>4 DEF Access, ApuRegisters, ControlRegisters
  <2> HIDE DEF e
  <2> QED BY <1>0, <2>1, <2>2, SerialAssumption DEF Aligned
<1>5. CASE a.reg \in {"DIV", "TIMA", "TMA", "TAC"}
  <2> DEFINE W == {WriteDiv(d.timer), WriteCounter(d.timer, a.val), WriteModulo(d.timer, a.val),
                   WriteControl(d.timer, a.val)}
  <2>1. \E u \in W : Access(d, a) = [d EXCEPT !.timer = u]
    BY <1>5 DEF Access, ApuRegisters, ControlRegisters
  <2>2. \A u : LET e == [d EXCEPT !.timer = u]
               IN  e.timer = u /\ e.lcd = d.lcd /\ e.serial = d.serial
    BY DEF Devices
  <2>3. d.timer \in Timers
    BY DEF Devices
  <2>4. \A u \in W : u.div % 4 = 0 /\ u.phase \in {0, 1, LastPhase - 1, LastPhase}
    BY <2>3, TimerWritesAligned DEF Aligned
  <2> HIDE DEF W
  <2> QED BY <2>1, <2>2, <2>4 DEF Aligned
<1>6. CASE a.reg \in {"IF", "IE"}
  <2>1. Same([d EXCEPT !.request = a.val]) /\ Same([d EXCEPT !.enable = a.val])
    BY DEF Devices
  <2>2. Access(d, a) \in {[d EXCEPT !.request = a.val], [d EXCEPT !.enable = a.val]}
    BY <1>6 DEF Access, ApuRegisters, ControlRegisters
  <2> HIDE DEF Same
  <2> QED BY <1>1, <2>1, <2>2
<1>7. CASE a.reg \in {"LCDC", "STAT", "LYC"}
  <2>1. \E e : DOMAIN e = DOMAIN d /\ Same(e) /\ Access(d, a) = RequestStatRisingEdge(d, e)
    <3> DEFINE e1 == WriteLcdControl(d, a.val)
               e2 == [d EXCEPT !.lcd.stat = a.val]
               e3 == [d EXCEPT !.lcd.lyc = a.val]
    <3>1. DOMAIN e1 = DOMAIN d /\ Same(e1)
      BY DEF WriteLcdControl, Devices
    <3>2. DOMAIN e2 = DOMAIN d /\ Same(e2) /\ DOMAIN e3 = DOMAIN d /\ Same(e3)
      BY DEF Devices
    <3>3. \/ Access(d, a) = RequestStatRisingEdge(d, e1)
          \/ Access(d, a) = RequestStatRisingEdge(d, e2)
          \/ Access(d, a) = RequestStatRisingEdge(d, e3)
      BY <1>7 DEF Access, ApuRegisters, ControlRegisters
    <3> HIDE DEF e1, e2, e3, Same
    <3> QED BY <3>1, <3>2, <3>3
  <2> HIDE DEF Same
  <2> QED BY <1>1, <1>2, <2>1 DEF RequestStatRisingEdge
<1>8. CASE a.reg = "DMA"
  <2>1. Same(StartDma(d, a.val))
    BY DEF StartDma, Devices
  <2>2. Access(d, a) = StartDma(d, a.val)
    BY <1>8 DEF Access, ApuRegisters, ControlRegisters
  <2> HIDE DEF Same
  <2> QED BY <1>1, <2>1, <2>2
<1>9. CASE a.reg \in ApuRegisters
  <2>1. Access(d, a) = [d EXCEPT !.apu = WriteApu(d.apu, a.reg, a.val)]
    BY <1>9 DEF Access, ApuRegisters, ControlRegisters
  <2>2. \A u : Same([d EXCEPT !.apu = u])
    BY DEF Devices
  <2> HIDE DEF Same
  <2> QED BY <1>1, <2>1, <2>2
<1>10. a.reg \in {"P1", "ReadP1", "SC", "DIV", "TIMA", "TMA", "TAC", "IF", "IE", "LCDC", "STAT",
                  "LYC", "DMA"} \cup ApuRegisters
  BY DEF RegisterAccesses, ApuRegisters, ControlRegisters
<1> QED
  BY <1>3, <1>4, <1>5, <1>6, <1>7, <1>8, <1>9, <1>10

\* So do the accesses of a step.
LEMMA AccessAllAligned ==
    ASSUME NEW d \in Devices, NEW s \in Seq(RegisterAccesses), Aligned(d)
    PROVE  AccessAll(d, s) \in Devices /\ Aligned(AccessAll(d, s))
<1> DEFINE T == {e \in Devices : Aligned(e)}
<1>1. PICK f : AccessOrbit(f, d, s) /\ f[Len(s)] = AccessAll(d, s)
  BY AccessAllOrbit
<1>2. f[0] \in T
  BY <1>1 DEF AccessOrbit
<1>3. ASSUME NEW n \in 1..Len(s), f[n - 1] \in T PROVE f[n] \in T
  <2>1. s[n] \in RegisterAccesses /\ f[n] = Access(f[n - 1], s[n])
    BY <1>1 DEF AccessOrbit
  <2> QED BY <1>3, <2>1, AccessTyped, AccessAligned
<1> HIDE DEF T
<1>4. Len(s) \in Nat
  OBVIOUS
<1>5. f[Len(s)] \in T
  BY <1>2, <1>3, <1>4, OrbitWithin
<1> QED BY <1>1, <1>5 DEF T
----------------------------------------------------------------------------
(* The machine.                                                            *)

\* A timed step keeps the devices aligned.
LEMMA TimedAligned ==
    ASSUME NEW d \in Devices, Aligned(d), NEW m \in 1..6, NEW act
    PROVE  Aligned(Timed(d, m, act))
<1> DEFINE e == AdvanceMCycles(d, m)
<1>1. m \in Nat /\ m \in 0..ChunkMCycles
  BY ChunkAssumption
<1>2. e \in Devices /\ Aligned(e)
  BY <1>1, AdvanceLater, AdvanceAligned DEF Later
<1> HIDE DEF e
<1>3. \A o : LET g == [e EXCEPT !.dma.owed = o]
             IN  g.timer = e.timer /\ g.lcd = e.lcd /\ g.serial = e.serial
  BY <1>2 DEF Devices
<1>4. \E o : Timed(d, m, act) = [e EXCEPT !.dma.owed = o]
  BY DEF Timed, ScheduleDmaBytes, e
<1> QED BY <1>2, <1>3, <1>4 DEF Aligned

\* The boot ROM leaves the machine aligned.
LEMMA InitAligned == Init => MCycleAligned
<1>1. (43980 % DivModulus) % 4 = 0
  <2> DEFINE q == 43980 \div DivModulus
             r == 43980 % DivModulus
             x == DivModulus \div 4
  <2>1. DivModulus \in Nat \ {0} /\ DivModulus % 4 = 0 /\ 43980 \in Nat
    BY DivModulusAligned
  <2>2. q \in Nat /\ r \in Nat /\ 43980 = DivModulus * q + r
    BY <2>1, Division
  <2>3. x \in Nat /\ DivModulus = 4 * x
    BY <2>1
  <2> HIDE DEF q, r, x
  <2>4. DivModulus * q = 4 * (x * q) /\ x * q \in Nat
    BY <2>2, <2>3
  <2>5. 43980 = 4 * (x * q) + r
    BY <2>2, <2>4
  <2>6. r % 4 = 0
    <3> DEFINE y == x * q
    <3>1. y \in Nat /\ 43980 = 4 * y + r
      BY <2>4, <2>5
    <3> HIDE DEF y
    <3> QED BY <2>2, <3>1
  <2> QED BY <2>6 DEF r
<1> QED BY <1>1 DEF Init, DmgPostBoot, MCycleAligned

\* Every step keeps the machine aligned.
LEMMA StepAligned ==
    ASSUME MachineInvariant, MCycleAligned, Next
    PROVE  MCycleAligned'
<1>1. dev \in Devices /\ Aligned(dev) /\ program \in Programs
  BY DEF MachineInvariant, InRange, MCycleAligned, Aligned
<1> SUFFICES Aligned(dev')
  BY DEF MCycleAligned, Aligned
<1>2. 1 \in 1..6 /\ 4 \in 1..6 /\ 5 \in 1..6 /\ <<>> \in Seq(RegisterAccesses)
  OBVIOUS
<1>3. /\ Accesses[program] \subseteq Seq(RegisterAccesses)
      /\ PushAccesses[program] \subseteq Seq(RegisterAccesses)
  BY <1>1, AccessesAssumption, Zenon
<1>4. ASSUME NEW m \in 1..6, NEW s \in Seq(RegisterAccesses), Execute(m, s) PROVE Aligned(dev')
  <2>1. dev' = Timed(AccessAll(dev, s), m, dev.dma.active)
    BY <1>4 DEF Execute
  <2> QED BY <1>1, <2>1, AccessAllAligned, TimedAligned
<1>5. CASE Instruction
  <2>1. \E m \in 1..6, s \in Seq(RegisterAccesses) : Execute(m, s)
    <3>1. CASE Plain
      BY <1>2, <1>3, <3>1, CyclesAssumption DEF Plain
    <3>2. CASE ~Plain
      BY <1>2, <1>5, <3>2
         DEF Instruction, EnableInterrupts, DisableInterrupts, ReturnFromInterrupt, Halt, Stop
    <3> QED BY <3>1, <3>2
  <2> QED BY <1>4, <2>1
<1>6. CASE DmaByte
  <2>1. LET e == CompleteDmaByte(dev)
        IN  e.timer = dev.timer /\ e.lcd = dev.lcd /\ e.serial = dev.serial
    BY <1>1 DEF CompleteDmaByte, Devices
  <2> QED BY <1>1, <1>6, <2>1 DEF DmaByte, Aligned
<1>7. CASE InterruptDispatch
  <2> DEFINE acked == Acknowledge(dev, PendingInterrupt(dev))
  <2>1. PICK push \in PushAccesses[program] \cup {<<>>} :
            dev' = Timed(AccessAll(acked, push), 5, AccessAll(acked, push).dma.active)
    BY <1>7 DEF InterruptDispatch
  <2>2. /\ acked \in Devices /\ acked.timer = dev.timer /\ acked.lcd = dev.lcd
        /\ acked.serial = dev.serial
    BY <1>1 DEF Acknowledge, Devices
  <2> HIDE DEF acked
  <2>3. Aligned(acked) /\ push \in Seq(RegisterAccesses)
    BY <1>1, <1>2, <1>3, <2>2 DEF Aligned
  <2> QED BY <1>2, <2>1, <2>2, <2>3, AccessAllAligned, TimedAligned
<1>8. CASE HaltWake
  BY <1>1, <1>8 DEF HaltWake
<1>9. CASE HaltUntilVBlank \/ HaltUntilSerial \/ HaltUntilTimer
  <2>1. \E m \in Nat : dev' = AdvanceQuietLong(dev, m)
    BY <1>1, <1>9, SkipLengths DEF HaltUntilVBlank, HaltUntilSerial, HaltUntilTimer, Skip
  <2> QED BY <1>1, <2>1, QuietLongAligned
<1>10. CASE HaltIdle
  <2>1. dev' = Timed(dev, HaltIdleMCycles(dev), dev.dma.active)
    BY <1>10 DEF HaltIdle
  <2> QED BY <1>1, <2>1, HaltIdleLength, TimedAligned
<1> QED BY <1>5, <1>6, <1>7, <1>8, <1>9, <1>10 DEF Next, MachineEvent

\* Every component of the machine stays in its range and the machine is aligned
\* to M-cycles between transitions, so halt_until_vblank_m_cycles and
\* halt_until_serial_m_cycles never refuse a remainder.
THEOREM MachineTyped == Spec => []TypeOK
<1>1. Init => MachineInvariant /\ MCycleAligned
  BY InitMachine, InitAligned
<1>2. MachineInvariant /\ MCycleAligned /\ [Next]_vars => (MachineInvariant /\ MCycleAligned)'
  <2>1. ASSUME MachineInvariant, MCycleAligned, Next PROVE (MachineInvariant /\ MCycleAligned)'
    BY <2>1, StepKeeps, StepAligned
  <2>2. ASSUME MachineInvariant, MCycleAligned, UNCHANGED vars
        PROVE  (MachineInvariant /\ MCycleAligned)'
    BY <2>2, StutterKeeps DEF MCycleAligned, vars
  <2> QED BY <2>1, <2>2
<1>3. MachineInvariant /\ MCycleAligned => TypeOK
  BY DEF MachineInvariant, InRange, TypeOK
<1> QED BY <1>1, <1>2, <1>3, PTL DEF Spec
=============================================================================
