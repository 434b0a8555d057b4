------------------------- MODULE StepRelation_proofs ------------------------
(***************************************************************************)
(* OAM DMA keeps pace with the CPU, EI delays the dispatch of interrupts,  *)
(* a timer reload is never lost and the devices stay in their ranges, for  *)
(* every program and all widths.                                           *)
(***************************************************************************)
EXTENDS StepRelation, WellFoundedInduction, TLAPS

----------------------------------------------------------------------------
(* Repeated application.                                                   *)

\* A set of naturals that is not empty has a least element.
LEMMA LeastNat == ASSUME NEW S \in SUBSET Nat, S # {} PROVE \E m \in S : \A n \in S : m <= n
<1>1. IsWellFoundedOn(OpToRel(<, Nat), Nat)
  BY NatLessThanWellFounded
<1>2. PICK m \in S : \A n \in S : ~(<<n, m>> \in OpToRel(<, Nat))
  BY <1>1, WFMin
<1>3. \A n \in S : ~(n < m)
  BY <1>2 DEF OpToRel
<1> QED BY <1>3

\* Induction over the naturals, for a set of them.
LEMMA SetInduction ==
    ASSUME NEW T, 0 \in T, \A n \in Nat : n \in T => n + 1 \in T
    PROVE  \A n \in Nat : n \in T
<1> SUFFICES ASSUME Nat \ T # {} PROVE FALSE
  OBVIOUS
<1>1. PICK m \in Nat \ T : \A n \in Nat \ T : m <= n
  BY LeastNat
<1>2. m # 0 /\ m - 1 \in Nat
  BY <1>1
<1>3. m - 1 \in T
  BY <1>1, <1>2
<1>4. (m - 1) + 1 = m
  BY <1>1
<1> QED BY <1>1, <1>2, <1>3, <1>4

\* The values a function on S takes when applied again and again.
Orbit(op, x, n, f) == f[0] = x /\ \A k \in 1..n : f[k] = op[f[k - 1]]

\* They exist.
LEMMA OrbitExists ==
    ASSUME NEW S, NEW op \in [S -> S], NEW x \in S
    PROVE  \A n \in Nat : \E f \in [0..n -> S] : Orbit(op, x, n, f)
<1> DEFINE T == {n \in Nat : \E f \in [0..n -> S] : Orbit(op, x, n, f)}
<1>1. 0 \in T
  <2> DEFINE f == [k \in 0..0 |-> x]
  <2>1. f \in [0..0 -> S] /\ Orbit(op, x, 0, f)
    BY DEF Orbit
  <2> QED BY <2>1
<1>2. ASSUME NEW n \in Nat, n \in T PROVE n + 1 \in T
  <2>1. PICK f \in [0..n -> S] : Orbit(op, x, n, f)
    BY <1>2
  <2> DEFINE g == [k \in 0..(n + 1) |-> IF k = n + 1 THEN op[f[n]] ELSE f[k]]
  <2>2. g \in [0..(n + 1) -> S]
    BY <2>1
  <2>3. ASSUME NEW k \in 1..(n + 1) PROVE g[k] = op[g[k - 1]]
    <3>1. CASE k = n + 1
      BY <2>1, <3>1
    <3>2. CASE k # n + 1
      <4>1. k \in 1..n /\ k - 1 \in 0..n /\ k - 1 # n + 1
        BY <3>2
      <4> QED BY <2>1, <4>1 DEF Orbit
    <3> QED BY <3>1, <3>2
  <2>4. g[0] = x
    BY <2>1 DEF Orbit
  <2>5. Orbit(op, x, n + 1, g)
    BY <2>3, <2>4 DEF Orbit
  <2> HIDE DEF g
  <2> QED BY <2>2, <2>5
<1> HIDE DEF T
<1>3. \A n \in Nat : n \in T
  BY <1>1, <1>2, SetInduction
<1> QED BY <1>3 DEF T

\* What holds at the start and is kept by every application holds at the end.
LEMMA OrbitWithin ==
    ASSUME NEW n \in Nat, NEW f, NEW T, f[0] \in T,
           \A k \in 1..n : f[k - 1] \in T => f[k] \in T
    PROVE  f[n] \in T
<1> DEFINE K == {k \in Nat : k <= n => f[k] \in T}
<1>1. 0 \in K
  OBVIOUS
<1>2. ASSUME NEW k \in Nat, k \in K PROVE k + 1 \in K
  <2>1. CASE k + 1 <= n
    <3>1. k + 1 \in 1..n /\ (k + 1) - 1 = k /\ k <= n
      BY <2>1
    <3>2. f[k] \in T
      BY <1>2, <3>1
    <3> QED BY <3>1, <3>2
  <2>2. CASE ~(k + 1 <= n)
    BY <2>2
  <2> QED BY <2>1, <2>2
<1> HIDE DEF K
<1>3. \A k \in Nat : k \in K
  BY <1>1, <1>2, SetInduction
<1> QED BY <1>3 DEF K

TimerRun(d, n) == Iterate(AdvanceTimerTCycle, d, n)
TimerOrbit(f, x, n) ==
    f[0] = x /\ f[n] = TimerRun(x, n) /\ \A k \in 1..n : f[k] = AdvanceTimerTCycle(f[k - 1])
PpuRun(d, n) == Iterate(AdvancePpuTCycle, d, n)
PpuOrbit(f, x, n) ==
    f[0] = x /\ f[n] = PpuRun(x, n) /\ \A k \in 1..n : f[k] = AdvancePpuTCycle(f[k - 1])
ChunkRun(d, n) == Iterate(AdvanceChunk, d, n)
ChunkOrbit(f, x, n) ==
    f[0] = x /\ f[n] = ChunkRun(x, n) /\ \A k \in 1..n : f[k] = AdvanceChunk(f[k - 1])

\* Iterating the timer is one T-cycle after another.
LEMMA IterateTimer ==
    ASSUME NEW S, \A d \in S : AdvanceTimerTCycle(d) \in S, NEW x \in S, NEW n \in Nat
    PROVE  \E f : TimerOrbit(f, x, n)
<1> DEFINE op == [d \in S |-> AdvanceTimerTCycle(d)]
           Body(g, k) == IF k = 0 THEN x
                         ELSE IF k % 4 = 0
                         THEN CHOOSE y \in {FourTimes(AdvanceTimerTCycle, v) : v \in {g[k - 4]}} : TRUE
                         ELSE CHOOSE y \in {AdvanceTimerTCycle(v) : v \in {g[k - 1]}} : TRUE
           Rec(g) == g = [k \in 0..n |-> Body(g, k)]
           after == CHOOSE g : Rec(g)
<1>1. PICK f \in [0..n -> S] : Orbit(op, x, n, f)
  <2>1. op \in [S -> S]
    OBVIOUS
  <2> HIDE DEF op
  <2> QED BY <2>1, OrbitExists
<1>2. f[0] = x /\ \A k \in 1..n : f[k] = AdvanceTimerTCycle(f[k - 1])
  <2>1. \A k \in 1..n : k - 1 \in 0..n
    OBVIOUS
  <2> QED BY <1>1, <2>1 DEF Orbit
<1> HIDE DEF op
<1>3. \A g, k : Body(g, k) = IF k = 0 THEN x
                             ELSE IF k % 4 = 0
                             THEN AdvanceTimerTCycle(AdvanceTimerTCycle(
                                    AdvanceTimerTCycle(AdvanceTimerTCycle(g[k - 4]))))
                             ELSE AdvanceTimerTCycle(g[k - 1])
  BY DEF FourTimes
<1> HIDE DEF Body
<1>4. TimerRun(x, n) = after[n]
  BY DEF TimerRun, Iterate, Body
<1>5. Rec(f)
  <2> SUFFICES ASSUME NEW k \in 0..n PROVE f[k] = Body(f, k)
    OBVIOUS
  <2>1. CASE k = 0 \/ k % 4 # 0
    BY <1>2, <1>3, <2>1
  <2>2. CASE k # 0 /\ k % 4 = 0
    <3>1. k \in 1..n /\ k - 1 \in 1..n /\ k - 2 \in 1..n /\ k - 3 \in 1..n
      BY <2>2
    <3>2. (k - 1) - 1 = k - 2 /\ (k - 2) - 1 = k - 3 /\ (k - 3) - 1 = k - 4
      BY <3>1
    <3>3. /\ f[k] = AdvanceTimerTCycle(f[k - 1]) /\ f[k - 1] = AdvanceTimerTCycle(f[k - 2])
          /\ f[k - 2] = AdvanceTimerTCycle(f[k - 3]) /\ f[k - 3] = AdvanceTimerTCycle(f[k - 4])
      BY <1>2, <3>1, <3>2
    <3> QED BY <1>3, <2>2, <3>3
  <2> QED BY <2>1, <2>2
<1>6. Rec(after)
  BY <1>5
<1> HIDE DEF after
<1>7. \A k \in 0..n : after[k] = Body(after, k)
  BY <1>6
<1>8. \A k \in 1..n : k % 4 # 0 => after[k] = AdvanceTimerTCycle(after[k - 1])
  BY <1>3, <1>7
<1>9. ASSUME NEW k \in 1..n, k % 4 = 0 PROVE after[k] = AdvanceTimerTCycle(after[k - 1])
  <2>1. /\ k - 1 \in 1..n /\ k - 2 \in 1..n /\ k - 3 \in 1..n /\ k \in 0..n /\ k # 0
        /\ (k - 1) % 4 # 0 /\ (k - 2) % 4 # 0 /\ (k - 3) % 4 # 0
        /\ (k - 1) - 1 = k - 2 /\ (k - 2) - 1 = k - 3 /\ (k - 3) - 1 = k - 4
    BY <1>9
  <2>2. /\ after[k - 1] = AdvanceTimerTCycle(after[k - 2])
        /\ after[k - 2] = AdvanceTimerTCycle(after[k - 3])
        /\ after[k - 3] = AdvanceTimerTCycle(after[k - 4])
    BY <1>8, <2>1
  <2>3. after[k] = Body(after, k)
    BY <1>7, <2>1
  <2>4. Body(after, k) = AdvanceTimerTCycle(AdvanceTimerTCycle(
                           AdvanceTimerTCycle(AdvanceTimerTCycle(after[k - 4]))))
    BY <1>3, <1>9, <2>1
  <2> QED BY <2>2, <2>3, <2>4
<1>10. after[0] = x
  BY <1>3, <1>7
<1>11. TimerOrbit(after, x, n)
  BY <1>4, <1>8, <1>9, <1>10 DEF TimerOrbit
<1> QED BY <1>11

\* Iterating the PPU is one T-cycle after another.
LEMMA IteratePpu ==
    ASSUME NEW S, \A d \in S : AdvancePpuTCycle(d) \in S, NEW x \in S, NEW n \in Nat
    PROVE  \E f : PpuOrbit(f, x, n)
<1> DEFINE op == [d \in S |-> AdvancePpuTCycle(d)]
           Body(g, k) == IF k = 0 THEN x
                         ELSE IF k % 4 = 0
                         THEN CHOOSE y \in {FourTimes(AdvancePpuTCycle, v) : v \in {g[k - 4]}} : TRUE
                         ELSE CHOOSE y \in {AdvancePpuTCycle(v) : v \in {g[k - 1]}} : TRUE
           Rec(g) == g = [k \in 0..n |-> Body(g, k)]
           after == CHOOSE g : Rec(g)
<1>1. PICK f \in [0..n -> S] : Orbit(op, x, n, f)
  <2>1. op \in [S -> S]
    OBVIOUS
  <2> HIDE DEF op
  <2> QED BY <2>1, OrbitExists
<1>2. f[0] = x /\ \A k \in 1..n : f[k] = AdvancePpuTCycle(f[k - 1])
  <2>1. \A k \in 1..n : k - 1 \in 0..n
    OBVIOUS
  <2> QED BY <1>1, <2>1 DEF Orbit
<1> HIDE DEF op
<1>3. \A g, k : Body(g, k) = IF k = 0 THEN x
                             ELSE IF k % 4 = 0
                             THEN AdvancePpuTCycle(AdvancePpuTCycle(
                                    AdvancePpuTCycle(AdvancePpuTCycle(g[k - 4]))))
                             ELSE AdvancePpuTCycle(g[k - 1])
  BY DEF FourTimes
<1> HIDE DEF Body
<1>4. PpuRun(x, n) = after[n]
  BY DEF PpuRun, Iterate, Body
<1>5. Rec(f)
  <2> SUFFICES ASSUME NEW k \in 0..n PROVE f[k] = Body(f, k)
    OBVIOUS
  <2>1. CASE k = 0 \/ k % 4 # 0
    BY <1>2, <1>3, <2>1
  <2>2. CASE k # 0 /\ k % 4 = 0
    <3>1. k \in 1..n /\ k - 1 \in 1..n /\ k - 2 \in 1..n /\ k - 3 \in 1..n
      BY <2>2
    <3>2. (k - 1) - 1 = k - 2 /\ (k - 2) - 1 = k - 3 /\ (k - 3) - 1 = k - 4
      BY <3>1
    <3>3. /\ f[k] = AdvancePpuTCycle(f[k - 1]) /\ f[k - 1] = AdvancePpuTCycle(f[k - 2])
          /\ f[k - 2] = AdvancePpuTCycle(f[k - 3]) /\ f[k - 3] = AdvancePpuTCycle(f[k - 4])
      BY <1>2, <3>1, <3>2
    <3> QED BY <1>3, <2>2, <3>3
  <2> QED BY <2>1, <2>2
<1>6. Rec(after)
  BY <1>5
<1> HIDE DEF after
<1>7. \A k \in 0..n : after[k] = Body(after, k)
  BY <1>6
<1>8. \A k \in 1..n : k % 4 # 0 => after[k] = AdvancePpuTCycle(after[k - 1])
  BY <1>3, <1>7
<1>9. ASSUME NEW k \in 1..n, k % 4 = 0 PROVE after[k] = AdvancePpuTCycle(after[k - 1])
  <2>1. /\ k - 1 \in 1..n /\ k - 2 \in 1..n /\ k - 3 \in 1..n /\ k \in 0..n /\ k # 0
        /\ (k - 1) % 4 # 0 /\ (k - 2) % 4 # 0 /\ (k - 3) % 4 # 0
        /\ (k - 1) - 1 = k - 2 /\ (k - 2) - 1 = k - 3 /\ (k - 3) - 1 = k - 4
    BY <1>9
  <2>2. /\ after[k - 1] = AdvancePpuTCycle(after[k - 2])
        /\ after[k - 2] = AdvancePpuTCycle(after[k - 3])
        /\ after[k - 3] = AdvancePpuTCycle(after[k - 4])
    BY <1>8, <2>1
  <2>3. after[k] = Body(after, k)
    BY <1>7, <2>1
  <2>4. Body(after, k) = AdvancePpuTCycle(AdvancePpuTCycle(
                           AdvancePpuTCycle(AdvancePpuTCycle(after[k - 4]))))
    BY <1>3, <1>9, <2>1
  <2> QED BY <2>2, <2>3, <2>4
<1>10. after[0] = x
  BY <1>3, <1>7
<1>11. PpuOrbit(after, x, n)
  BY <1>4, <1>8, <1>9, <1>10 DEF PpuOrbit
<1> QED BY <1>11

\* A long skip is one chunk after another.
LEMMA IterateChunk ==
    ASSUME NEW S, \A d \in S : AdvanceChunk(d) \in S, NEW x \in S, NEW n \in Nat
    PROVE  \E f : ChunkOrbit(f, x, n)
<1> DEFINE op == [d \in S |-> AdvanceChunk(d)]
           Body(g, k) == IF k = 0 THEN x
                         ELSE IF k % 4 = 0
                         THEN CHOOSE y \in {FourTimes(AdvanceChunk, v) : v \in {g[k - 4]}} : TRUE
                         ELSE CHOOSE y \in {AdvanceChunk(v) : v \in {g[k - 1]}} : TRUE
           Rec(g) == g = [k \in 0..n |-> Body(g, k)]
           after == CHOOSE g : Rec(g)
<1>1. PICK f \in [0..n -> S] : Orbit(op, x, n, f)
  <2>1. op \in [S -> S]
    OBVIOUS
  <2> HIDE DEF op
  <2> QED BY <2>1, OrbitExists
<1>2. f[0] = x /\ \A k \in 1..n : f[k] = AdvanceChunk(f[k - 1])
  <2>1. \A k \in 1..n : k - 1 \in 0..n
    OBVIOUS
  <2> QED BY <1>1, <2>1 DEF Orbit
<1> HIDE DEF op
<1>3. \A g, k : Body(g, k) = IF k = 0 THEN x
                             ELSE IF k % 4 = 0
                             THEN AdvanceChunk(AdvanceChunk(
                                    AdvanceChunk(AdvanceChunk(g[k - 4]))))
                             ELSE AdvanceChunk(g[k - 1])
  BY DEF FourTimes
<1> HIDE DEF Body
<1>4. ChunkRun(x, n) = after[n]
  BY DEF ChunkRun, Iterate, Body
<1>5. Rec(f)
  <2> SUFFICES ASSUME NEW k \in 0..n PROVE f[k] = Body(f, k)
    OBVIOUS
  <2>1. CASE k = 0 \/ k % 4 # 0
    BY <1>2, <1>3, <2>1
  <2>2. CASE k # 0 /\ k % 4 = 0
    <3>1. k \in 1..n /\ k - 1 \in 1..n /\ k - 2 \in 1..n /\ k - 3 \in 1..n
      BY <2>2
    <3>2. (k - 1) - 1 = k - 2 /\ (k - 2) - 1 = k - 3 /\ (k - 3) - 1 = k - 4
      BY <3>1
    <3>3. /\ f[k] = AdvanceChunk(f[k - 1]) /\ f[k - 1] = AdvanceChunk(f[k - 2])
          /\ f[k - 2] = AdvanceChunk(f[k - 3]) /\ f[k - 3] = AdvanceChunk(f[k - 4])
      BY <1>2, <3>1, <3>2
    <3> QED BY <1>3, <2>2, <3>3
  <2> QED BY <2>1, <2>2
<1>6. Rec(after)
  BY <1>5
<1> HIDE DEF after
<1>7. \A k \in 0..n : after[k] = Body(after, k)
  BY <1>6
<1>8. \A k \in 1..n : k % 4 # 0 => after[k] = AdvanceChunk(after[k - 1])
  BY <1>3, <1>7
<1>9. ASSUME NEW k \in 1..n, k % 4 = 0 PROVE after[k] = AdvanceChunk(after[k - 1])
  <2>1. /\ k - 1 \in 1..n /\ k - 2 \in 1..n /\ k - 3 \in 1..n /\ k \in 0..n /\ k # 0
        /\ (k - 1) % 4 # 0 /\ (k - 2) % 4 # 0 /\ (k - 3) % 4 # 0
        /\ (k - 1) - 1 = k - 2 /\ (k - 2) - 1 = k - 3 /\ (k - 3) - 1 = k - 4
    BY <1>9
  <2>2. /\ after[k - 1] = AdvanceChunk(after[k - 2])
        /\ after[k - 2] = AdvanceChunk(after[k - 3])
        /\ after[k - 3] = AdvanceChunk(after[k - 4])
    BY <1>8, <2>1
  <2>3. after[k] = Body(after, k)
    BY <1>7, <2>1
  <2>4. Body(after, k) = AdvanceChunk(AdvanceChunk(
                           AdvanceChunk(AdvanceChunk(after[k - 4]))))
    BY <1>3, <1>9, <2>1
  <2> QED BY <2>2, <2>3, <2>4
<1>10. after[0] = x
  BY <1>3, <1>7
<1>11. ChunkOrbit(after, x, n)
  BY <1>4, <1>8, <1>9, <1>10 DEF ChunkOrbit
<1> QED BY <1>11
----------------------------------------------------------------------------
(* Devices stay in their ranges, and time only adds requests.              *)

\* The larger and the smaller of two numbers.
LEMMA MinMaxOfTwo ==
    ASSUME NEW a \in Int, NEW b \in Int
    PROVE  /\ Min({a, b}) = IF a <= b THEN a ELSE b
           /\ Max({a, b}) = IF a >= b THEN a ELSE b
<1>1. \E x \in {a, b} : \A y \in {a, b} : x <= y
  OBVIOUS
<1>2. \E x \in {a, b} : \A y \in {a, b} : x >= y
  OBVIOUS
<1>3. Min({a, b}) \in {a, b} /\ \A y \in {a, b} : Min({a, b}) <= y
  BY <1>1 DEF Min
<1>4. Max({a, b}) \in {a, b} /\ \A y \in {a, b} : Max({a, b}) >= y
  BY <1>2 DEF Max
<1> QED BY <1>3, <1>4

\* A T-cycle of the timer keeps its registers in range.
LEMMA TickTyped == ASSUME NEW t \in Timers PROVE Tick(t) \in Timers
<1> DEFINE piped == AdvanceReloadPipeline(t)
           moved == [piped EXCEPT !.div = (@ + 1) % DivModulus]
           latched == [moved EXCEPT !.latch = DetectorInput(moved)]
<1>1. piped \in Timers
  <2>1. t.modulo \in 0..CounterMax /\ t.phase \in 0..5
    BY DEF Timers, LastPhase
  <2>2. CASE ReloadFires(t)
    <3>1. piped = [t EXCEPT !.counter = t.modulo, !.phase = 0]
      BY <2>2 DEF AdvanceReloadPipeline
    <3>2. 0 \in 0..LastPhase
      BY DEF LastPhase
    <3> HIDE DEF piped
    <3> QED BY <2>1, <3>1, <3>2 DEF Timers
  <2>3. CASE ~ReloadFires(t)
    <3> DEFINE phase == IF t.phase = 0 THEN 0 ELSE t.phase + 1
    <3>1. phase \in 0..5
      BY <2>1, <2>3 DEF ReloadFires, LastPhase
    <3>2. piped = [t EXCEPT !.phase = phase]
      BY <2>3 DEF AdvanceReloadPipeline
    <3> HIDE DEF phase, piped
    <3> QED BY <3>1, <3>2 DEF Timers, LastPhase
  <2> QED BY <2>2, <2>3
<1>2. moved \in Timers
  <2>1. piped.div \in Nat
    BY <1>1 DEF Timers
  <2>2. (piped.div + 1) % DivModulus \in 0..(DivModulus - 1)
    BY <2>1, PeriodAssumption
  <2> HIDE DEF piped
  <2> QED BY <1>1, <2>2 DEF Timers
<1>3. latched \in Timers
  <2>1. DetectorInput(moved) \in BOOLEAN
    BY DEF DetectorInput
  <2> HIDE DEF moved
  <2> QED BY <1>2, <2>1 DEF Timers
<1>4. IncrementCounter(latched) \in Timers
  <2> HIDE DEF latched
  <2>1. latched.counter \in 0..CounterMax
    BY <1>3 DEF Timers
  <2>2. CASE latched.counter = CounterMax
    <3>1. 0 \in 0..CounterMax /\ 1 \in 0..LastPhase
      BY CounterAssumption DEF LastPhase
    <3>2. IncrementCounter(latched) = [latched EXCEPT !.counter = 0, !.phase = 1]
      BY <2>2 DEF IncrementCounter
    <3> QED BY <1>3, <3>1, <3>2 DEF Timers
  <2>3. CASE latched.counter # CounterMax
    <3>1. latched.counter + 1 \in 0..CounterMax
      BY <2>1, <2>3, CounterAssumption
    <3>2. IncrementCounter(latched) = [latched EXCEPT !.counter = @ + 1]
      BY <2>3 DEF IncrementCounter
    <3> QED BY <1>3, <3>1, <3>2 DEF Timers
  <2> QED BY <2>2, <2>3
<1> QED BY <1>3, <1>4 DEF Tick

\* What the clock leaves alone: the DMA, IE, and the interrupts requested.
Later(d) == {e \in Devices : e.dma = d.dma /\ e.enable = d.enable /\ d.request \subseteq e.request}

\* Later is transitive.
LEMMA LaterTwice ==
    ASSUME NEW d \in Devices, NEW e \in Later(d), NEW g \in Later(e) PROVE g \in Later(d)
BY DEF Later

\* A request is a later state.
LEMMA RequestLater ==
    ASSUME NEW d \in Devices, NEW i \in Interrupts PROVE Request(d, i) \in Later(d)
BY DEF Request, Later, Devices

\* A T-cycle of the timer leads to a later state.
LEMMA TimerLater == ASSUME NEW d \in Devices PROVE AdvanceTimerTCycle(d) \in Later(d)
<1> DEFINE ticked == [d EXCEPT !.timer = Tick(@)]
<1>1. Tick(d.timer) \in Timers
  BY TickTyped DEF Devices
<1>2. ticked \in Later(d)
  BY <1>1 DEF Later, Devices
<1>3. ticked \in Devices
  BY <1>2 DEF Later
<1> HIDE DEF ticked
<1>4. Request(ticked, "Timer") \in Later(d)
  BY <1>2, <1>3, RequestLater, LaterTwice DEF Interrupts
<1> QED BY <1>2, <1>4 DEF AdvanceTimerTCycle, ticked

\* The next dot is a later state.
LEMMA DotLater == ASSUME NEW d \in Devices PROVE NextDot(d) \in Later(d)
<1>1. CASE d.lcd.dot + 1 < LineDots
  <2>1. d.lcd.dot + 1 \in 0..(LineDots - 1)
    BY <1>1, PpuAssumption DEF Devices
  <2>2. NextDot(d) = [d EXCEPT !.lcd.dot = @ + 1]
    BY <1>1 DEF NextDot
  <2> QED BY <2>1, <2>2 DEF Later, Devices
<1>2. CASE ~(d.lcd.dot + 1 < LineDots)
  <2> DEFINE line  == IF d.lcd.line = Lines - 1 THEN 0 ELSE d.lcd.line + 1
             moved == [d EXCEPT !.lcd.dot = 0, !.lcd.line = line]
  <2>1. line \in 0..(Lines - 1) /\ 0 \in 0..(LineDots - 1)
    BY PpuAssumption DEF Devices
  <2> HIDE DEF line
  <2>2. moved \in Later(d)
    BY <2>1 DEF Later, Devices
  <2>3. moved \in Devices
    BY <2>2 DEF Later
  <2> HIDE DEF moved
  <2>4. Request(moved, "VBlank") \in Later(d)
    BY <2>2, <2>3, RequestLater, LaterTwice DEF Interrupts
  <2> QED BY <1>2, <2>2, <2>4 DEF NextDot, moved, line
<1> QED BY <1>1, <1>2

\* A T-cycle of the PPU leads to a later state.
LEMMA PpuLater == ASSUME NEW d \in Devices PROVE AdvancePpuTCycle(d) \in Later(d)
<1>1. NextDot(d) \in Later(d)
  BY DotLater
<1>2. NextDot(d) \in Devices
  BY <1>1 DEF Later
<1>3. Request(NextDot(d), "LcdStat") \in Later(d)
  BY <1>1, <1>2, RequestLater, LaterTwice DEF Interrupts
<1>4. [d EXCEPT !.lcd.line = 0, !.lcd.dot = 0] \in Later(d)
  <2>1. 0 \in 0..(Lines - 1) /\ 0 \in 0..(LineDots - 1)
    BY PpuAssumption
  <2> QED BY <2>1 DEF Later, Devices
<1> QED BY <1>1, <1>3, <1>4 DEF AdvancePpuTCycle, RequestStatRisingEdge

\* Time at the serial port leads to a later state.
LEMMA SerialLater ==
    ASSUME NEW d \in Devices, NEW ticks \in Nat PROVE AdvanceSerial(d, ticks) \in Later(d)
<1> DEFINE rest == d.serial.left - ticks
           left == Max({0, rest})
<1>1. d.serial.left \in 0..SerialTCycles
  BY DEF Devices
<1>2. left \in 0..SerialTCycles
  <2>1. rest \in Int /\ rest <= SerialTCycles
    BY <1>1, SerialAssumption
  <2> HIDE DEF rest
  <2>2. left = IF 0 >= rest THEN 0 ELSE rest
    BY <2>1, MinMaxOfTwo
  <2> QED BY <2>1, <2>2, SerialAssumption
<1> HIDE DEF left
<1>3. d \in Later(d) /\ [d EXCEPT !.serial.left = left] \in Later(d)
  BY <1>2 DEF Later, Devices
<1> DEFINE done == [d EXCEPT !.serial.left = 0, !.serial.start = FALSE]
<1>4. done \in Later(d)
  <2>1. 0 \in 0..SerialTCycles
    BY SerialAssumption
  <2> QED BY <2>1 DEF Later, Devices
<1>5. done \in Devices
  BY <1>4 DEF Later
<1> HIDE DEF done
<1>6. Request(done, "Serial") \in Later(d)
  BY <1>4, <1>5, RequestLater, LaterTwice DEF Interrupts
<1> QED BY <1>3, <1>6 DEF AdvanceSerial, left, rest, done

\* Any number of T-cycles of the timer leads to a later state.
LEMMA TimerRunLater ==
    ASSUME NEW d \in Devices, NEW n \in Nat PROVE TimerRun(d, n) \in Later(d)
<1>1. d \in Later(d)
  BY DEF Later
<1>2. \A e \in Later(d) : AdvanceTimerTCycle(e) \in Later(d)
  <2> SUFFICES ASSUME NEW e \in Later(d) PROVE AdvanceTimerTCycle(e) \in Later(d)
    OBVIOUS
  <2>1. e \in Devices
    BY DEF Later
  <2> QED BY <2>1, TimerLater, LaterTwice
<1>3. PICK f : TimerOrbit(f, d, n)
  BY <1>1, <1>2, IterateTimer, Zenon
<1>4. \A k \in 1..n : f[k - 1] \in Later(d) => f[k] \in Later(d)
  BY <1>2, <1>3 DEF TimerOrbit
<1>5. f[0] \in Later(d)
  BY <1>1, <1>3 DEF TimerOrbit
<1>6. f[n] \in Later(d)
  BY <1>4, <1>5, OrbitWithin, Zenon
<1> QED BY <1>3, <1>6 DEF TimerOrbit

\* Any number of T-cycles of the PPU leads to a later state.
LEMMA PpuRunLater ==
    ASSUME NEW d \in Devices, NEW n \in Nat PROVE PpuRun(d, n) \in Later(d)
<1>1. d \in Later(d)
  BY DEF Later
<1>2. \A e \in Later(d) : AdvancePpuTCycle(e) \in Later(d)
  <2> SUFFICES ASSUME NEW e \in Later(d) PROVE AdvancePpuTCycle(e) \in Later(d)
    OBVIOUS
  <2>1. e \in Devices
    BY DEF Later
  <2> QED BY <2>1, PpuLater, LaterTwice
<1>3. PICK f : PpuOrbit(f, d, n)
  BY <1>1, <1>2, IteratePpu, Zenon
<1>4. \A k \in 1..n : f[k - 1] \in Later(d) => f[k] \in Later(d)
  BY <1>2, <1>3 DEF PpuOrbit
<1>5. f[0] \in Later(d)
  BY <1>1, <1>3 DEF PpuOrbit
<1>6. f[n] \in Later(d)
  BY <1>4, <1>5, OrbitWithin, Zenon
<1> QED BY <1>3, <1>6 DEF PpuOrbit

\* advance_m_cycles leads to a later state.
LEMMA AdvanceLater ==
    ASSUME NEW d \in Devices, NEW m \in Nat PROVE AdvanceMCycles(d, m) \in Later(d)
<1> DEFINE ticks == Min({4 * m, ByteMax})
           timed == TimerRun(d, ticks)
           clocked == AdvanceSerial(timed, ticks)
<1>1. ticks \in Nat
  <2>1. 4 * m \in Nat /\ ByteMax \in Nat
    BY ChunkAssumption
  <2>2. \A a, b \in Nat : Min({a, b}) \in Nat
    <3> TAKE a, b \in Nat
    <3>1. Min({a, b}) = IF a <= b THEN a ELSE b
      BY MinMaxOfTwo
    <3> QED BY <3>1
  <2> QED BY <2>1, <2>2, Zenon
<1> HIDE DEF ticks
<1>2. timed \in Later(d)
  BY <1>1, TimerRunLater
<1>3. timed \in Devices
  BY <1>2 DEF Later
<1> HIDE DEF timed
<1>4. clocked \in Later(d)
  BY <1>1, <1>2, <1>3, SerialLater, LaterTwice
<1>5. clocked \in Devices
  BY <1>4 DEF Later
<1> HIDE DEF clocked
<1>6. PpuRun(clocked, ticks) \in Later(d)
  BY <1>1, <1>4, <1>5, PpuRunLater, LaterTwice
<1> QED BY <1>6 DEF AdvanceMCycles, TimerRun, PpuRun, ticks, timed, clocked

\* advance_quiet_long leads to a later state.
LEMMA QuietLongLater ==
    ASSUME NEW d \in Devices, NEW m \in Nat PROVE AdvanceQuietLong(d, m) \in Later(d)
<1> DEFINE n == m \div ChunkMCycles
           chunked == ChunkRun(d, n)
<1>1. n \in Nat /\ m % ChunkMCycles \in Nat
  BY ChunkAssumption
<1> HIDE DEF n
<1>2. d \in Later(d)
  BY DEF Later
<1>3. \A e \in Later(d) : AdvanceChunk(e) \in Later(d)
  <2> SUFFICES ASSUME NEW e \in Later(d) PROVE AdvanceChunk(e) \in Later(d)
    OBVIOUS
  <2>1. e \in Devices /\ ChunkMCycles \in Nat
    BY ChunkAssumption DEF Later
  <2>2. AdvanceMCycles(e, ChunkMCycles) \in Later(e)
    BY <2>1, AdvanceLater
  <2> QED BY <2>2, LaterTwice DEF AdvanceChunk
<1>4. PICK f : ChunkOrbit(f, d, n)
  BY <1>1, <1>2, <1>3, IterateChunk, Zenon
<1>5. f[n] \in Later(d)
  <2>1. \A k \in 1..n : f[k - 1] \in Later(d) => f[k] \in Later(d)
    BY <1>3, <1>4 DEF ChunkOrbit
  <2>2. f[0] \in Later(d)
    BY <1>2, <1>4 DEF ChunkOrbit
  <2> QED BY <1>1, <2>1, <2>2, OrbitWithin, Zenon
<1>6. chunked \in Later(d) /\ chunked \in Devices
  BY <1>4, <1>5 DEF Later, ChunkOrbit
<1> HIDE DEF chunked
<1>7. AdvanceMCycles(chunked, m % ChunkMCycles) \in Later(d)
  BY <1>1, <1>6, AdvanceLater, LaterTwice
<1> QED BY <1>7 DEF AdvanceQuietLong, ChunkRun, chunked, n

----------------------------------------------------------------------------
(* Register accesses.                                                      *)

\* A write to a sound register keeps the sound unit in its range.
LEMMA WriteApuTyped ==
    ASSUME NEW a \in Apus, NEW reg \in ApuRegisters,
           NEW v, IF reg = "NR52" THEN v.power \in BOOLEAN ELSE v \in SUBSET Bits
    PROVE  WriteApu(a, reg, v) \in Apus
<1>1. CASE reg = "Unused" \/ reg = "Wave"
  BY <1>1 DEF WriteApu, Apus
<1>2. CASE reg = "NR52"
  <2>1. WriteApu(a, reg, v) = WritePower(a, v.power)
    BY <1>2 DEF WriteApu
  <2>2. WritePower(a, v.power) \in Apus
    BY <1>2 DEF WritePower, Apus
  <2> QED BY <2>1, <2>2
<1>3. CASE reg \in ControlRegisters
  <2>1. reg # "NR52" /\ reg # "Unused" /\ reg # "Wave"
    BY <1>3 DEF ControlRegisters
  <2> DEFINE stored == [a EXCEPT !.registers[reg] = v \ ReadMask[reg]]
  <2>2. stored \in Apus
    BY <1>3, <2>1 DEF Apus
  <2>3. \A s, g : [stored EXCEPT !.active = (@ \ s) \cup (Channels \cap g)] \in Apus
    BY <2>2 DEF Apus
  <2> HIDE DEF stored
  <2>4. ApplyDacAndTrigger(stored, reg, v) \in Apus
    BY <2>2 DEF ApplyDacAndTrigger, Apus
  <2> QED BY <2>1, <2>4 DEF WriteApu, stored
<1> QED BY <1>1, <1>2, <1>3 DEF ApuRegisters

\* STAT and joypad edges only add a request.
LEMMA EdgeTyped ==
    ASSUME NEW d, NEW e \in Devices
    PROVE  /\ RequestStatRisingEdge(d, e) \in Later(e)
           /\ RequestJoypadFallingEdge(d, e) \in Later(e)
<1>1. e \in Later(e) /\ Request(e, "LcdStat") \in Later(e) /\ Request(e, "Joypad") \in Later(e)
  BY RequestLater DEF Later, Interrupts
<1> QED BY <1>1 DEF RequestStatRisingEdge, RequestJoypadFallingEdge

\* Writes to the timer registers keep the timer in its range.
LEMMA WriteTimerTyped ==
    ASSUME NEW t \in Timers
    PROVE  /\ WriteDiv(t) \in Timers
           /\ \A v \in 0..CounterMax : WriteCounter(t, v) \in Timers /\ WriteModulo(t, v) \in Timers
           /\ \A v \in [enable : BOOLEAN, select : Selects] : WriteControl(t, v) \in Timers
<1>1. 0 \in 0..(DivModulus - 1) /\ 0 \in 0..LastPhase
  BY PeriodAssumption DEF LastPhase
<1>2. WriteDiv(t) \in Timers
  BY <1>1 DEF WriteDiv, Timers
<1>3. ASSUME NEW v \in 0..CounterMax PROVE WriteCounter(t, v) \in Timers /\ WriteModulo(t, v) \in Timers
  <2>1. WriteCounter(t, v) \in Timers
    BY <1>1 DEF WriteCounter, Timers
  <2>2. WriteModulo(t, v) \in Timers
    BY DEF WriteModulo, Timers
  <2> QED BY <2>1, <2>2
<1>4. ASSUME NEW v \in [enable : BOOLEAN, select : Selects] PROVE WriteControl(t, v) \in Timers
  BY DEF WriteControl, Timers
<1> QED BY <1>2, <1>3, <1>4

Started(dma) == dma.active = TRUE /\ dma.index = 0 /\ dma.owed = 0

\* An access keeps the devices in their ranges; only a write to DMA touches
\* the transfer, and starts a new one.
LEMMA AccessTyped ==
    ASSUME NEW d \in Devices, NEW a \in RegisterAccesses
    PROVE  /\ Access(d, a) \in Devices
           /\ Access(d, a).dma = d.dma \/ Started(Access(d, a).dma)
<1> DEFINE Fine(e) == e \in Devices /\ (e.dma = d.dma \/ Started(e.dma))
<1> SUFFICES Fine(Access(d, a))
  OBVIOUS
<1>0. \A e \in Devices : \A g \in Later(e) : e.dma = d.dma => Fine(g)
  BY DEF Later
<1>1. CASE a.reg = "P1"
  <2>1. a.val \in SUBSET ButtonGroups
    BY <1>1 DEF RegisterAccesses, ApuRegisters, ControlRegisters
  <2> DEFINE e == [d EXCEPT !.joypad.select = a.val]
  <2>2. e \in Devices /\ e.dma = d.dma
    BY <2>1 DEF Devices
  <2>3. Access(d, a) = RequestJoypadFallingEdge(d, e)
    BY <1>1 DEF Access, ApuRegisters, ControlRegisters
  <2> HIDE DEF e, Fine
  <2> QED BY <1>0, <2>2, <2>3, EdgeTyped
<1>2. CASE a.reg = "ReadP1"
  <2>1. a.val \in SUBSET ButtonGroups
    BY <1>2 DEF RegisterAccesses, ApuRegisters, ControlRegisters
  <2> DEFINE e == [d EXCEPT !.joypad.pressed = a.val]
  <2>2. e \in Devices /\ e.dma = d.dma
    BY <2>1 DEF Devices
  <2>3. Access(d, a) = RequestJoypadFallingEdge(d, e)
    BY <1>2 DEF Access, ApuRegisters, ControlRegisters
  <2> HIDE DEF e, Fine
  <2> QED BY <1>0, <2>2, <2>3, EdgeTyped
<1>3. CASE a.reg = "SC"
  <2>1. a.val \in [start : BOOLEAN, internal : BOOLEAN]
    BY <1>3 DEF RegisterAccesses, ApuRegisters, ControlRegisters
  <2>2. Access(d, a) = WriteSerialControl(d, a.val)
    BY <1>3 DEF Access, ApuRegisters, ControlRegisters
  <2>3. SerialTCycles \in 0..SerialTCycles /\ 0 \in 0..SerialTCycles
    BY SerialAssumption
  <2>4. WriteSerialControl(d, a.val) \in Devices /\ WriteSerialControl(d, a.val).dma = d.dma
    BY <2>1, <2>3 DEF WriteSerialControl, Devices
  <2> QED BY <2>2, <2>4
<1>4. CASE a.reg \in {"DIV", "TIMA", "TMA", "TAC"}
  <2>1. /\ a.reg \in {"TIMA", "TMA"} => a.val \in 0..CounterMax
        /\ a.reg = "TAC" => a.val \in [enable : BOOLEAN, select : Selects]
    BY <1>4 DEF RegisterAccesses, ApuRegisters, ControlRegisters
  <2>2. d.timer \in Timers
    BY DEF Devices
  <2>3. \A t \in Timers : Fine([d EXCEPT !.timer = t])
    BY DEF Devices
  <2>4. \E t \in Timers : Access(d, a) = [d EXCEPT !.timer = t]
    <3>1. CASE a.reg = "DIV"
      BY <2>2, <3>1, WriteTimerTyped DEF Access, ApuRegisters, ControlRegisters
    <3>2. CASE a.reg = "TIMA"
      BY <2>1, <2>2, <3>2, WriteTimerTyped DEF Access, ApuRegisters, ControlRegisters
    <3>3. CASE a.reg = "TMA"
      BY <2>1, <2>2, <3>3, WriteTimerTyped DEF Access, ApuRegisters, ControlRegisters
    <3>4. CASE a.reg = "TAC"
      BY <2>1, <2>2, <3>4, WriteTimerTyped DEF Access, ApuRegisters, ControlRegisters
    <3> QED BY <1>4, <3>1, <3>2, <3>3, <3>4
  <2> HIDE DEF Fine
  <2> QED BY <2>3, <2>4
<1>5. CASE a.reg \in {"IF", "IE"}
  <2>1. a.val \in SUBSET Interrupts
    BY <1>5 DEF RegisterAccesses, ApuRegisters, ControlRegisters
  <2>2. Fine([d EXCEPT !.request = a.val]) /\ Fine([d EXCEPT !.enable = a.val])
    BY <2>1 DEF Devices
  <2>3. Access(d, a) \in {[d EXCEPT !.request = a.val], [d EXCEPT !.enable = a.val]}
    BY <1>5 DEF Access, ApuRegisters, ControlRegisters
  <2> HIDE DEF Fine
  <2> QED BY <2>2, <2>3
<1>6. CASE a.reg \in {"LCDC", "STAT", "LYC"}
  <2>1. /\ a.reg = "LCDC" => a.val \in BOOLEAN
        /\ a.reg = "STAT" => a.val \in SUBSET StatSources
        /\ a.reg = "LYC" => a.val \in 0..Lines
    BY <1>6 DEF RegisterAccesses, ApuRegisters, ControlRegisters
  <2>2. 0 \in 0..(Lines - 1) /\ 0 \in 0..(LineDots - 1)
    BY PpuAssumption
  <2>3. /\ [d EXCEPT !.lcd.on = TRUE] \in Devices /\ [d EXCEPT !.lcd.on = TRUE].dma = d.dma
        /\ [d EXCEPT !.lcd.on = FALSE, !.lcd.line = 0, !.lcd.dot = 0] \in Devices
        /\ [d EXCEPT !.lcd.on = FALSE, !.lcd.line = 0, !.lcd.dot = 0].dma = d.dma
    BY <2>2 DEF Devices
  <2>4. \E e \in Devices : e.dma = d.dma /\ Access(d, a) = RequestStatRisingEdge(d, e)
    <3>1. CASE a.reg = "LCDC"
      BY <2>3, <3>1 DEF Access, ApuRegisters, ControlRegisters, WriteLcdControl
    <3>2. CASE a.reg = "STAT"
      <4>1. [d EXCEPT !.lcd.stat = a.val] \in Devices /\ [d EXCEPT !.lcd.stat = a.val].dma = d.dma
        BY <2>1, <3>2 DEF Devices
      <4> QED BY <3>2, <4>1 DEF Access, ApuRegisters, ControlRegisters
    <3>3. CASE a.reg = "LYC"
      <4>1. [d EXCEPT !.lcd.lyc = a.val] \in Devices /\ [d EXCEPT !.lcd.lyc = a.val].dma = d.dma
        BY <2>1, <3>3 DEF Devices
      <4> QED BY <3>3, <4>1 DEF Access, ApuRegisters, ControlRegisters
    <3> QED BY <1>6, <3>1, <3>2, <3>3
  <2> HIDE DEF Fine
  <2> QED BY <1>0, <2>4, EdgeTyped
<1>7. CASE a.reg = "DMA"
  <2>1. a.val \in BOOLEAN
    BY <1>7 DEF RegisterAccesses, ApuRegisters, ControlRegisters
  <2>2. Access(d, a) = StartDma(d, a.val)
    BY <1>7 DEF Access, ApuRegisters, ControlRegisters
  <2>3. 0 \in 0..DmaLength /\ 0 \in 0..6
    BY DmaAssumption
  <2>4. Fine(StartDma(d, a.val))
    BY <2>1, <2>3 DEF StartDma, Started, Devices
  <2> HIDE DEF Fine
  <2> QED BY <2>2, <2>4
<1>8. CASE a.reg \in ApuRegisters
  <2>1. IF a.reg = "NR52" THEN a.val.power \in BOOLEAN ELSE a.val \in SUBSET Bits
    BY <1>8 DEF RegisterAccesses, ApuRegisters, ControlRegisters
  <2>2. d.apu \in Apus
    BY DEF Devices
  <2>3. WriteApu(d.apu, a.reg, a.val) \in Apus
    BY <1>8, <2>1, <2>2, WriteApuTyped
  <2>4. Access(d, a) = [d EXCEPT !.apu = WriteApu(d.apu, a.reg, a.val)]
    BY <1>8 DEF Access, ApuRegisters, ControlRegisters
  <2> QED BY <2>3, <2>4 DEF Devices
<1>9. a.reg \in {"P1", "ReadP1", "SC", "DIV", "TIMA", "TMA", "TAC", "IF", "IE", "LCDC", "STAT",
                 "LYC", "DMA"} \cup ApuRegisters
  BY DEF RegisterAccesses, ApuRegisters, ControlRegisters
<1> HIDE DEF Fine
<1> QED
  BY <1>1, <1>2, <1>3, <1>4, <1>5, <1>6, <1>7, <1>8, <1>9
\* f holds the states between the accesses s made from d.
AccessOrbit(f, d, s) ==
    /\ f \in [0..Len(s) -> Devices]
    /\ f[0] = d
    /\ \A n \in 1..Len(s) : f[n] = Access(f[n - 1], s[n])

\* The accesses of a step lead through device states, one access at a time.
LEMMA AccessAllOrbit ==
    ASSUME NEW d \in Devices, NEW s \in Seq(RegisterAccesses)
    PROVE  \E f : AccessOrbit(f, d, s) /\ f[Len(s)] = AccessAll(d, s)
<1> DEFINE N == Len(s)
           Run(g, n) == /\ g \in [0..n -> Devices]
                        /\ g[0] = d
                        /\ \A k \in 1..n : g[k] = Access(g[k - 1], s[k])
           T == {n \in Nat : n <= N => \E g : Run(g, n)}
           Def(g) == g = [k \in 0..N |-> IF k = 0 THEN d ELSE Access(g[k - 1], s[k])]
<1>0. N \in Nat /\ \A k \in 1..N : s[k] \in RegisterAccesses
  OBVIOUS
<1> HIDE DEF N
<1>1. 0 \in T
  <2>1. Run([k \in 0..0 |-> d], 0)
    OBVIOUS
  <2> QED BY <2>1
<1>2. ASSUME NEW n \in T PROVE n + 1 \in T
  <2>0. n \in Nat /\ n + 1 \in Nat
    OBVIOUS
  <2>1. CASE ~ n + 1 <= N
    BY <2>0, <2>1
  <2>2. CASE n + 1 <= N
    <3>1. PICK g : Run(g, n)
      BY <1>0, <2>0, <2>2
    <3> DEFINE h == [k \in 0..(n + 1) |-> IF k = n + 1 THEN Access(g[n], s[n + 1]) ELSE g[k]]
    <3>2. g[n] \in Devices /\ s[n + 1] \in RegisterAccesses
      BY <1>0, <2>0, <2>2, <3>1
    <3>3. Access(g[n], s[n + 1]) \in Devices
      BY <3>2, AccessTyped
    <3>4. h \in [0..(n + 1) -> Devices] /\ h[0] = d
      BY <2>0, <3>1, <3>3
    <3>5. ASSUME NEW k \in 1..(n + 1) PROVE h[k] = Access(h[k - 1], s[k])
      <4>1. k - 1 \in 0..n /\ k - 1 \in 0..(n + 1) /\ k - 1 # n + 1 /\ k \in 0..(n + 1)
        BY <2>0
      <4>2. h[k - 1] = g[k - 1]
        BY <4>1
      <4>3. CASE k = n + 1
        BY <2>0, <4>1, <4>2, <4>3
      <4>4. CASE k # n + 1
        <5>1. k \in 1..n
          BY <2>0, <4>4
        <5> QED BY <3>1, <4>1, <4>2, <4>4, <5>1
      <4> QED BY <4>3, <4>4
    <3>6. Run(h, n + 1)
      BY <3>4, <3>5
    <3> QED BY <2>0, <3>6
  <2> QED BY <2>1, <2>2
<1> HIDE DEF T
<1>3. N \in T
  BY <1>0, <1>1, <1>2, SetInduction
<1>4. PICK g : Run(g, N)
  BY <1>0, <1>3 DEF T
<1>5. Def(g)
  <2>1. ASSUME NEW k \in 0..N PROVE g[k] = IF k = 0 THEN d ELSE Access(g[k - 1], s[k])
    <3>1. CASE k = 0
      BY <1>4, <3>1
    <3>2. CASE k # 0
      <4>1. k \in 1..N
        BY <1>0, <3>2
      <4> QED BY <1>4, <3>2, <4>1
    <3> QED BY <3>1, <3>2
  <2> QED BY <1>4, <2>1
<1> DEFINE f == CHOOSE h : Def(h)
<1>6. Def(f)
  BY <1>5
<1>7. AccessAll(d, s) = f[N]
  BY DEF AccessAll, N
<1> HIDE DEF f
<1>8. \A k \in 0..N : f[k] = IF k = 0 THEN d ELSE Access(f[k - 1], s[k])
  BY <1>6
<1>9. DOMAIN f = 0..N /\ f = [k \in 0..N |-> f[k]]
  <2>1. DOMAIN f = 0..N
    BY <1>6
  <2> QED BY <1>6, <2>1
<1>10. f[0] = d /\ \A k \in 1..N : f[k] = Access(f[k - 1], s[k])
  <2>1. 0 \in 0..N /\ \A k \in 1..N : k \in 0..N /\ k # 0
    BY <1>0
  <2> QED BY <1>8, <2>1
<1>11. \A k \in 0..N : f[k] \in Devices
  <2> DEFINE U == {k \in Nat : k <= N => f[k] \in Devices}
  <2>1. 0 \in U
    BY <1>10
  <2>2. ASSUME NEW k \in U PROVE k + 1 \in U
    <3>1. CASE k + 1 <= N
      <4>1. k \in Nat /\ k + 1 \in 1..N /\ (k + 1) - 1 = k /\ k <= N
        BY <1>0, <3>1
      <4>2. f[k] \in Devices /\ s[k + 1] \in RegisterAccesses
        BY <1>0, <4>1
      <4>3. f[k + 1] = Access(f[k], s[k + 1])
        BY <1>10, <4>1
      <4>4. f[k + 1] \in Devices
        BY <4>2, <4>3, AccessTyped
      <4> QED BY <4>1, <4>4
    <3>2. CASE ~ k + 1 <= N
      BY <3>2
    <3> QED BY <3>1, <3>2
  <2> HIDE DEF U
  <2>3. \A k \in Nat : k \in U
    BY <2>1, <2>2, SetInduction
  <2> QED BY <1>0, <2>3 DEF U
<1>12. AccessOrbit(f, d, s)
  BY <1>9, <1>10, <1>11 DEF AccessOrbit, N
<1> QED BY <1>7, <1>12 DEF N
\* The states between the accesses are determined by the first of them, so the
\* accesses before the n-th lead to the n-th state.
LEMMA PrefixState ==
    ASSUME NEW d \in Devices, NEW s \in Seq(RegisterAccesses), NEW f, AccessOrbit(f, d, s),
           NEW n \in 0..Len(s)
    PROVE  AccessAll(d, SubSeq(s, 1, n)) = f[n]
<1> DEFINE q == SubSeq(s, 1, n)
<1>0. Len(s) \in Nat /\ n \in Nat
  OBVIOUS
<1>1. q \in Seq(RegisterAccesses) /\ Len(q) = n /\ \A k \in 1..n : q[k] = s[k]
  OBVIOUS
<1> HIDE DEF q
<1>2. PICK g : AccessOrbit(g, d, q) /\ g[Len(q)] = AccessAll(d, q)
  BY <1>1, AccessAllOrbit
<1>3. g[0] = d /\ f[0] = d
  BY <1>2 DEF AccessOrbit
<1>4. \A k \in 1..n : g[k] = Access(g[k - 1], s[k]) /\ f[k] = Access(f[k - 1], s[k])
  <2>1. \A k \in 1..n : k \in 1..Len(s) /\ k \in 1..Len(q)
    BY <1>0, <1>1
  <2> QED BY <1>1, <1>2, <2>1 DEF AccessOrbit
<1> DEFINE K == {k \in Nat : k <= n => g[k] = f[k]}
<1>5. 0 \in K
  BY <1>3
<1>6. ASSUME NEW k \in Nat, k \in K PROVE k + 1 \in K
  <2>1. CASE k + 1 <= n
    <3>1. k + 1 \in 1..n /\ (k + 1) - 1 = k /\ k <= n
      BY <1>0, <2>1
    <3>2. g[k] = f[k]
      BY <1>6, <3>1
    <3>3. g[k + 1] = Access(g[k], s[k + 1]) /\ f[k + 1] = Access(f[k], s[k + 1])
      BY <1>4, <3>1
    <3> QED BY <3>2, <3>3
  <2>2. CASE ~(k + 1 <= n)
    BY <2>2
  <2> QED BY <2>1, <2>2
<1> HIDE DEF K
<1>7. n \in K
  BY <1>0, <1>5, <1>6, SetInduction
<1>8. g[n] = f[n]
  BY <1>0, <1>7 DEF K
<1> QED BY <1>1, <1>2, <1>8 DEF q

\* The accesses of a step: the devices stay in range and, since a running
\* transfer forbids every further access, only the last can start a transfer
\* and only where none was running.
LEMMA AccessAllKeeps ==
    ASSUME NEW d \in Devices, NEW s \in Seq(RegisterAccesses), AccessesAllowed(d, s)
    PROVE  /\ AccessAll(d, s) \in Devices
           /\ \/ AccessAll(d, s).dma = d.dma
              \/ ~d.dma.active /\ Started(AccessAll(d, s).dma)
<1> DEFINE T == {e \in Devices : e.dma = d.dma \/ (~d.dma.active /\ Started(e.dma))}
<1>1. PICK f : AccessOrbit(f, d, s) /\ f[Len(s)] = AccessAll(d, s)
  BY AccessAllOrbit
<1>2. f[0] \in T
  BY <1>1 DEF AccessOrbit
<1>3. ASSUME NEW n \in 1..Len(s), f[n - 1] \in T PROVE f[n] \in T
  <2>1. n - 1 \in 0..Len(s) /\ s[n] \in RegisterAccesses /\ f[n - 1] \in Devices
    BY <1>3
  <2>2. ~f[n - 1].dma.active
    BY <1>1, <2>1, PrefixState DEF AccessesAllowed
  <2>3. f[n - 1].dma = d.dma /\ ~d.dma.active
    BY <1>3, <2>2 DEF Started
  <2>4. f[n] = Access(f[n - 1], s[n])
    BY <1>1 DEF AccessOrbit
  <2> QED BY <2>1, <2>3, <2>4, AccessTyped
<1> HIDE DEF T
<1>4. Len(s) \in Nat
  OBVIOUS
<1>5. f[Len(s)] \in T
  BY <1>2, <1>3, <1>4, OrbitWithin
<1> QED BY <1>1, <1>5 DEF T

\* No access undoes a reload that is being made: a TIMA write in that cycle is
\* ignored.
LEMMA AccessKeepsReload ==
    ASSUME NEW d \in Devices, NEW a \in RegisterAccesses, d.timer.phase = LastPhase
    PROVE  Access(d, a).timer.phase = LastPhase
<1>0. \A e \in Devices : \A i : e.timer.phase = LastPhase => Request(e, i).timer.phase = LastPhase
  BY DEF Request, Devices
<1>1. CASE a.reg \in {"P1", "ReadP1"}
  <2>1. a.val \in SUBSET ButtonGroups
    BY <1>1 DEF RegisterAccesses, ApuRegisters, ControlRegisters
  <2>2. \E e \in Devices : e.timer = d.timer /\ Access(d, a) = RequestJoypadFallingEdge(d, e)
    <3>1. /\ [d EXCEPT !.joypad.select = a.val] \in Devices
          /\ [d EXCEPT !.joypad.pressed = a.val] \in Devices
          /\ [d EXCEPT !.joypad.select = a.val].timer = d.timer
          /\ [d EXCEPT !.joypad.pressed = a.val].timer = d.timer
      BY <2>1 DEF Devices
    <3> QED BY <1>1, <3>1 DEF Access, ApuRegisters, ControlRegisters
  <2> QED BY <1>0, <2>2 DEF RequestJoypadFallingEdge
<1>2. CASE a.reg = "SC"
  BY <1>2 DEF Access, WriteSerialControl, Devices, ApuRegisters, ControlRegisters
<1>3. CASE a.reg \in {"DIV", "TIMA", "TMA", "TAC"}
  <2>1. d.timer \in Timers
    BY DEF Devices
  <2>2. /\ WriteDiv(d.timer).phase = LastPhase
        /\ WriteCounter(d.timer, a.val).phase = LastPhase
        /\ WriteModulo(d.timer, a.val).phase = LastPhase
        /\ WriteControl(d.timer, a.val).phase = LastPhase
    BY <2>1 DEF WriteDiv, WriteCounter, WriteModulo, WriteControl, Timers
  <2>3. \A t : [d EXCEPT !.timer = t].timer = t
    BY DEF Devices
  <2>4. Access(d, a) \in {[d EXCEPT !.timer = WriteDiv(d.timer)],
                          [d EXCEPT !.timer = WriteCounter(d.timer, a.val)],
                          [d EXCEPT !.timer = WriteModulo(d.timer, a.val)],
                          [d EXCEPT !.timer = WriteControl(d.timer, a.val)]}
    BY <1>3 DEF Access, ApuRegisters, ControlRegisters
  <2> QED BY <2>2, <2>3, <2>4
<1>4. CASE a.reg \in {"IF", "IE"}
  BY <1>4 DEF Access, Devices, ApuRegisters, ControlRegisters
<1>5. CASE a.reg \in {"LCDC", "STAT", "LYC"}
  <2>1. /\ a.reg = "STAT" => a.val \in SUBSET StatSources
        /\ a.reg = "LYC" => a.val \in 0..Lines
    BY <1>5 DEF RegisterAccesses, ApuRegisters, ControlRegisters
  <2>2. 0 \in 0..(Lines - 1) /\ 0 \in 0..(LineDots - 1)
    BY PpuAssumption
  <2>3. \E e \in Devices : e.timer = d.timer /\ Access(d, a) = RequestStatRisingEdge(d, e)
    <3>1. CASE a.reg = "LCDC"
      <4>1. /\ [d EXCEPT !.lcd.on = TRUE] \in Devices
            /\ [d EXCEPT !.lcd.on = TRUE].timer = d.timer
            /\ [d EXCEPT !.lcd.on = FALSE, !.lcd.line = 0, !.lcd.dot = 0] \in Devices
            /\ [d EXCEPT !.lcd.on = FALSE, !.lcd.line = 0, !.lcd.dot = 0].timer = d.timer
        BY <2>2 DEF Devices
      <4> QED BY <3>1, <4>1 DEF Access, WriteLcdControl, ApuRegisters, ControlRegisters
    <3>2. CASE a.reg = "STAT"
      <4>1. [d EXCEPT !.lcd.stat = a.val] \in Devices /\ [d EXCEPT !.lcd.stat = a.val].timer = d.timer
        BY <2>1, <3>2 DEF Devices
      <4> QED BY <3>2, <4>1 DEF Access, ApuRegisters, ControlRegisters
    <3>3. CASE a.reg = "LYC"
      <4>1. [d EXCEPT !.lcd.lyc = a.val] \in Devices /\ [d EXCEPT !.lcd.lyc = a.val].timer = d.timer
        BY <2>1, <3>3 DEF Devices
      <4> QED BY <3>3, <4>1 DEF Access, ApuRegisters, ControlRegisters
    <3> QED BY <1>5, <3>1, <3>2, <3>3
  <2> QED BY <1>0, <2>3 DEF RequestStatRisingEdge
<1>6. CASE a.reg = "DMA"
  BY <1>6 DEF Access, StartDma, Devices, ApuRegisters, ControlRegisters
<1>7. CASE a.reg \in ApuRegisters
  <2>1. Access(d, a) = [d EXCEPT !.apu = WriteApu(d.apu, a.reg, a.val)]
    BY <1>7 DEF Access, ApuRegisters, ControlRegisters
  <2> QED BY <2>1 DEF Devices
<1>8. a.reg \in {"P1", "ReadP1", "SC", "DIV", "TIMA", "TMA", "TAC", "IF", "IE", "LCDC", "STAT",
                 "LYC", "DMA"} \cup ApuRegisters
  BY DEF RegisterAccesses, ApuRegisters, ControlRegisters
<1> QED
  BY <1>1, <1>2, <1>3, <1>4, <1>5, <1>6, <1>7, <1>8

\* Nor do the accesses of a whole step.
LEMMA AccessAllKeepsReload ==
    ASSUME NEW d \in Devices, NEW s \in Seq(RegisterAccesses), d.timer.phase = LastPhase
    PROVE  AccessAll(d, s) \in Devices /\ AccessAll(d, s).timer.phase = LastPhase
<1> DEFINE T == {e \in Devices : e.timer.phase = LastPhase}
<1>1. PICK f : AccessOrbit(f, d, s) /\ f[Len(s)] = AccessAll(d, s)
  BY AccessAllOrbit
<1>2. f[0] \in T
  BY <1>1 DEF AccessOrbit
<1>3. ASSUME NEW n \in 1..Len(s), f[n - 1] \in T PROVE f[n] \in T
  <2>1. s[n] \in RegisterAccesses /\ f[n] = Access(f[n - 1], s[n])
    BY <1>1 DEF AccessOrbit
  <2> QED BY <1>3, <2>1, AccessTyped, AccessKeepsReload
<1> HIDE DEF T
<1>4. Len(s) \in Nat
  OBVIOUS
<1>5. f[Len(s)] \in T
  BY <1>2, <1>3, <1>4, OrbitWithin
<1> QED BY <1>1, <1>5 DEF T
----------------------------------------------------------------------------
(* A reload in its last T-cycle fires as soon as time passes.              *)

\* The devices of d, with the reload due or its interrupt requested.
Due(d) == d.timer.phase = LastPhase \/ "Timer" \in d.request

\* The first T-cycle of the timer requests the interrupt.
LEMMA TickFires ==
    ASSUME NEW d \in Devices, Due(d)
    PROVE  "Timer" \in AdvanceTimerTCycle(d).request
<1>1. CASE "Timer" \in d.request
  BY <1>1, TimerLater DEF Later
<1>2. CASE d.timer.phase = LastPhase
  <2> DEFINE ticked == [d EXCEPT !.timer = Tick(@)]
  <2>1. AdvanceTimerTCycle(d) = Request(ticked, "Timer")
    BY <1>2 DEF AdvanceTimerTCycle, ReloadFires
  <2>2. Request(ticked, "Timer").request = d.request \cup {"Timer"}
    BY DEF Request, Devices
  <2> QED BY <2>1, <2>2
<1> QED BY <1>1, <1>2 DEF Due

\* Any number of T-cycles but none requests it.
LEMMA TimerRunFires ==
    ASSUME NEW d \in Devices, Due(d), NEW n \in Nat \ {0}
    PROVE  "Timer" \in TimerRun(d, n).request
<1> DEFINE T == {e \in Devices : Due(e)}
<1>1. \A e \in Devices : AdvanceTimerTCycle(e) \in Devices
  BY TimerLater DEF Later
<1>2. PICK f : TimerOrbit(f, d, n)
  BY <1>1, IterateTimer, Zenon
<1>3. f[0] \in T
  BY <1>2 DEF TimerOrbit
<1>4. \A k \in 1..n : f[k - 1] \in T => f[k] \in T /\ "Timer" \in f[k].request
  BY <1>1, <1>2, TickFires DEF TimerOrbit, Due
<1> HIDE DEF T
<1>5. n - 1 \in Nat /\ n \in 1..n /\ \A k \in 1..(n - 1) : k \in 1..n
  OBVIOUS
<1>6. f[n - 1] \in T
  BY <1>3, <1>4, <1>5, OrbitWithin
<1> QED BY <1>2, <1>4, <1>5, <1>6 DEF TimerOrbit

\* So does any call of advance_m_cycles but an empty one.
LEMMA AdvanceFires ==
    ASSUME NEW d \in Devices, Due(d), NEW m \in Nat \ {0}
    PROVE  "Timer" \in AdvanceMCycles(d, m).request
<1> DEFINE ticks == Min({4 * m, ByteMax})
           timed == TimerRun(d, ticks)
           clocked == AdvanceSerial(timed, ticks)
<1>1. ticks \in Nat \ {0}
  <2>1. 4 * m \in Nat \ {0} /\ ByteMax \in Nat \ {0}
    BY ChunkAssumption
  <2>2. \A a, b \in Nat \ {0} : Min({a, b}) \in Nat \ {0}
    <3> TAKE a, b \in Nat \ {0}
    <3>1. Min({a, b}) = IF a <= b THEN a ELSE b
      BY MinMaxOfTwo
    <3> QED BY <3>1
  <2> QED BY <2>1, <2>2, Zenon
<1> HIDE DEF ticks
<1>2. "Timer" \in timed.request /\ timed \in Devices
  BY <1>1, TimerRunFires, TimerRunLater DEF Later
<1> HIDE DEF timed
<1>3. "Timer" \in clocked.request /\ clocked \in Devices
  BY <1>1, <1>2, SerialLater DEF Later
<1> HIDE DEF clocked
<1>4. "Timer" \in PpuRun(clocked, ticks).request
  BY <1>1, <1>3, PpuRunLater DEF Later
<1> QED BY <1>4 DEF AdvanceMCycles, TimerRun, PpuRun, ticks, timed, clocked

\* And any call of advance_quiet_long.
LEMMA QuietLongFires ==
    ASSUME NEW d \in Devices, Due(d), NEW m \in Nat \ {0}
    PROVE  "Timer" \in AdvanceQuietLong(d, m).request
<1> DEFINE n == m \div ChunkMCycles
           rest == m % ChunkMCycles
           chunked == ChunkRun(d, n)
           T == {e \in Devices : Due(e)}
<1>1. n \in Nat /\ rest \in Nat /\ (n = 0 => rest # 0)
  BY ChunkAssumption
<1> HIDE DEF n, rest
<1>2. ASSUME NEW e \in Devices, Due(e)
      PROVE  AdvanceChunk(e) \in Devices /\ "Timer" \in AdvanceChunk(e).request
  <2>1. ChunkMCycles \in Nat \ {0}
    BY ChunkAssumption
  <2> QED BY <1>2, <2>1, AdvanceLater, AdvanceFires DEF AdvanceChunk, Later
<1>3. d \in T /\ \A e \in T : AdvanceChunk(e) \in T
  BY <1>2 DEF Due
<1>4. PICK f : ChunkOrbit(f, d, n)
  <2> HIDE DEF T
  <2> QED BY <1>1, <1>3, IterateChunk, Zenon
<1>5. f[0] \in T /\ \A k \in 1..n : f[k - 1] \in T => f[k] \in T /\ "Timer" \in f[k].request
  BY <1>2, <1>3, <1>4 DEF ChunkOrbit
<1>6. chunked \in T /\ (n # 0 => "Timer" \in chunked.request)
  <2>1. f[n] = chunked /\ f[0] = d
    BY <1>4 DEF ChunkOrbit
  <2> HIDE DEF T
  <2>2. CASE n = 0
    BY <1>5, <2>1, <2>2
  <2>3. CASE n # 0
    <3>1. n - 1 \in Nat /\ n \in 1..n /\ \A k \in 1..(n - 1) : k \in 1..n
      BY <1>1, <2>3
    <3>2. f[n - 1] \in T
      BY <1>5, <3>1, OrbitWithin
    <3> QED BY <1>5, <2>1, <3>1, <3>2
  <2> QED BY <2>2, <2>3
<1> HIDE DEF chunked
<1>7. "Timer" \in AdvanceMCycles(chunked, rest).request
  <2>1. CASE rest = 0
    BY <1>1, <1>6, <2>1, AdvanceLater DEF Later
  <2>2. CASE rest # 0
    BY <1>1, <1>6, <2>2, AdvanceFires
  <2> QED BY <2>1, <2>2
<1> QED BY <1>7 DEF AdvanceQuietLong, ChunkRun, chunked, n, rest

----------------------------------------------------------------------------
(* Sleeping.                                                               *)

\* A sleeping step covers one to six M-cycles.
LEMMA HaltIdleLength == ASSUME NEW d PROVE HaltIdleMCycles(d) \in 1..6
<1> DEFINE wakes == {m \in 1..6 : Pending(StepMCycles(d, m)) # {}}
<1>1. CASE wakes = {}
  BY <1>1 DEF HaltIdleMCycles
<1>2. CASE wakes # {}
  <2>1. wakes \subseteq 1..6 /\ wakes \subseteq Nat
    OBVIOUS
  <2>2. HaltIdleMCycles(d) = Min(wakes)
    BY <1>2 DEF HaltIdleMCycles
  <2> HIDE DEF wakes
  <2>3. \E x \in wakes : \A y \in wakes : x <= y
    BY <1>2, <2>1, LeastNat
  <2>4. Min(wakes) \in wakes
    BY <2>3 DEF Min
  <2> QED BY <2>1, <2>2, <2>4
<1> QED BY <1>1, <1>2

\* A long skip has a length, and needs an idle DMA.
LEMMA SkipLengths ==
    ASSUME NEW d \in Devices
    PROVE  /\ HaltUntilVBlankMCycles(d) \in Nat /\ HaltUntilSerialMCycles(d) \in Nat
           /\ HaltUntilTimerMCycles(d) \in Nat
           /\ (HaltUntilVBlankMCycles(d) # 0 \/ HaltUntilSerialMCycles(d) # 0
                  \/ HaltUntilTimerMCycles(d) # 0) => ~d.dma.active
<1>1. d.lcd.line \in 0..(Lines - 1) /\ d.lcd.dot \in 0..(LineDots - 1)
      /\ d.serial.left \in 0..SerialTCycles /\ d.timer \in Timers
  BY DEF Devices
<1>2. HaltUntilVBlankMCycles(d) \in Nat
  <2> DEFINE position  == d.lcd.line * LineDots + d.lcd.dot
             vblank    == VBlankLine * LineDots
             remaining == IF position < vblank THEN vblank - position
                          ELSE Lines * LineDots - position + vblank
  <2>1. /\ d.lcd.line \in Nat /\ d.lcd.dot \in Nat /\ LineDots \in Nat /\ Lines \in Nat
        /\ VBlankLine \in Nat /\ d.lcd.dot < LineDots /\ d.lcd.line < Lines
    BY <1>1, PpuAssumption
  <2>2. \A a, b, c \in Nat : a < b => a * c + c <= b * c
    <3>1. \A a, b, c \in Nat : a < b => \E k \in Nat : b = a + 1 + k
      <4> TAKE a, b, c \in Nat
      <4> HAVE a < b
      <4>1. b - a - 1 \in Nat /\ b = a + 1 + (b - a - 1)
        OBVIOUS
      <4> QED BY <4>1
    <3>2. \A a, k, c \in Nat : (a + 1 + k) * c = a * c + c + k * c
      OBVIOUS
    <3>3. \A k, c \in Nat : k * c \in Nat
      OBVIOUS
    <3> QED BY <3>1, <3>2, <3>3
  <2>3. d.lcd.line * LineDots + LineDots <= Lines * LineDots
    BY <2>1, <2>2
  <2>4. d.lcd.line * LineDots \in Nat /\ Lines * LineDots \in Nat /\ VBlankLine * LineDots \in Nat
    BY <2>1
  <2>5. remaining \in Nat
    BY <2>1, <2>3, <2>4
  <2> HIDE DEF remaining
  <2>6. remaining \div 4 \in Nat
    BY <2>5
  <2> QED BY <2>6 DEF HaltUntilVBlankMCycles, remaining
<1>3. HaltUntilSerialMCycles(d) \in Nat
  <2>1. d.serial.left \div 4 \in Nat
    BY <1>1, SerialAssumption
  <2> QED BY <2>1 DEF HaltUntilSerialMCycles
<1>4. HaltUntilTimerMCycles(d) \in Nat
  <2>1. /\ Period[d.timer.select] \in Nat \ {0} /\ d.timer.div \in Nat
        /\ CounterMax - d.timer.counter \in Nat
    BY <1>1, PeriodAssumption, CounterAssumption DEF Timers
  <2>2. \A p \in Nat \ {0}, v, c \in Nat : (((p - (v % p)) + c * p + 5) + 3) \div 4 \in Nat
    <3> TAKE p \in Nat \ {0}, v, c \in Nat
    <3>1. v % p \in 0..(p - 1)
      OBVIOUS
    <3>2. c * p \in Nat
      OBVIOUS
    <3> QED BY <3>1, <3>2
  <2>3. (TCyclesUntilInterrupt(d.timer) + 3) \div 4 \in Nat
    BY <2>1, <2>2 DEF TCyclesUntilInterrupt
  <2> QED BY <2>3 DEF HaltUntilTimerMCycles
<1>5. (HaltUntilVBlankMCycles(d) # 0 \/ HaltUntilSerialMCycles(d) # 0
         \/ HaltUntilTimerMCycles(d) # 0) => DmaQuiet(d)
  BY DEF HaltUntilVBlankMCycles, HaltUntilSerialMCycles, HaltUntilTimerMCycles
<1> QED BY <1>2, <1>3, <1>4, <1>5 DEF DmaQuiet
----------------------------------------------------------------------------
(* The steps of the machine.                                               *)

\* DmaKeepsPace of devices d whose transfer has been copying for c M-cycles.
Paces(d, c) ==
    /\ d.dma.active => d.dma.index + d.dma.owed = Min({c, DmaLength})
    /\ ~d.dma.active => d.dma.owed = 0
    /\ d.dma.active => d.dma.index < DmaLength

\* The machine in range, without the alignment to M-cycles.
InRange ==
    /\ program \in Programs /\ run \in RunStates /\ ime \in ImeStates
    /\ dev \in Devices /\ clock \in Nat /\ shadow \in BOOLEAN

\* The inductive invariant: the delay of EI is an IME that is still pending.
MachineInvariant ==
    /\ InRange
    /\ DmaKeepsPace
    /\ HaltStatesSettled
    /\ shadow => ime = "EnablePending"

\* The machine starts in it.
LEMMA InitMachine == Init => MachineInvariant
<1> SUFFICES ASSUME Init PROVE MachineInvariant
  OBVIOUS
<1> DEFINE slowest == CHOOSE s \in Selects : \A r \in Selects : Period[r] <= Period[s]
<1>1. slowest \in Selects
  BY PeriodAssumption
<1>2. /\ 43980 % DivModulus \in 0..(DivModulus - 1) /\ 0 \in 0..CounterMax /\ 0 \in 0..LastPhase
  <2>1. \A n \in Nat \ {0} : 43980 % n \in 0..(n - 1)
    OBVIOUS
  <2> QED BY <2>1, PeriodAssumption, CounterAssumption DEF LastPhase
<1> HIDE DEF slowest
<1>3. DmgPostBoot.timer \in Timers
  BY <1>1, <1>2 DEF DmgPostBoot, Timers, slowest
<1>4. ApuPostBoot \in Apus
  BY DEF ApuPostBoot, Apus, Channels, Bits
<1>5. /\ 0 \in 0..SerialTCycles /\ 0 \in 0..Lines /\ 0 \in 0..(Lines - 1) /\ 0 \in 0..(LineDots - 1)
      /\ 0 \in 0..DmaLength
  BY SerialAssumption, PpuAssumption, DmaAssumption
<1>6. DmgPostBoot \in Devices
  BY <1>3, <1>4, <1>5 DEF DmgPostBoot, Devices, Interrupts, ButtonGroups
<1>7. ~dev.dma.active /\ dev.dma.owed = 0
  BY DEF Init, DmgPostBoot
<1> QED
  BY <1>6, <1>7 DEF Init, MachineInvariant, InRange, DmaKeepsPace, HaltStatesSettled, RunStates, ImeStates

\* A timed step: the devices stay in range, the transfer owes the bytes of the
\* step, no request is lost and a reload that was due has fired.
LEMMA TimedEffect ==
    ASSUME NEW d \in Devices, d.dma.active => d.dma.index < DmaLength,
           NEW m \in 1..6, NEW act \in BOOLEAN, act => d.dma.active
    PROVE  /\ Timed(d, m, act) \in Devices
           /\ Timed(d, m, act).dma.active = d.dma.active
           /\ Timed(d, m, act).dma.index = d.dma.index
           /\ Timed(d, m, act).dma.owed = IF act THEN Min({m, DmaLength - d.dma.index}) ELSE 0
           /\ Timed(d, m, act).enable = d.enable
           /\ d.request \subseteq Timed(d, m, act).request
           /\ Due(d) => "Timer" \in Timed(d, m, act).request
<1> DEFINE e == AdvanceMCycles(d, m)
           owed == IF act THEN Min({m, DmaLength - e.dma.index}) ELSE 0
<1>1. m \in Nat /\ m \in Nat \ {0}
  OBVIOUS
<1>2. e \in Devices /\ e.dma = d.dma /\ e.enable = d.enable /\ d.request \subseteq e.request
  BY <1>1, AdvanceLater DEF Later
<1>3. Due(d) => "Timer" \in e.request
  BY <1>1, AdvanceFires
<1> HIDE DEF e
<1>4. owed \in 0..6
  <2>1. d.dma.index \in 0..DmaLength /\ DmaLength \in Nat
    BY DmaAssumption DEF Devices
  <2>2. \A l \in Int : l >= 1 => Min({m, l}) \in 0..6
    <3> TAKE l \in Int
    <3> HAVE l >= 1
    <3>1. Min({m, l}) = IF m <= l THEN m ELSE l
      BY <1>1, MinMaxOfTwo
    <3> QED BY <3>1
  <2>3. act => DmaLength - e.dma.index \in Int /\ DmaLength - e.dma.index >= 1
    BY <1>2, <2>1
  <2> QED BY <2>2, <2>3
<1>5. Timed(d, m, act) = [e EXCEPT !.dma.owed = owed]
  BY DEF Timed, ScheduleDmaBytes, e
<1>6. \A o \in 0..6 : LET g == [e EXCEPT !.dma.owed = o]
                      IN  /\ g \in Devices /\ g.dma.active = e.dma.active /\ g.dma.index = e.dma.index
                          /\ g.dma.owed = o /\ g.enable = e.enable /\ g.request = e.request
  BY <1>2 DEF Devices
<1>7. owed = IF act THEN Min({m, DmaLength - d.dma.index}) ELSE 0
  BY <1>2
<1> HIDE DEF owed
<1> DEFINE g == [e EXCEPT !.dma.owed = owed]
<1>8. /\ g \in Devices /\ g.dma.active = e.dma.active /\ g.dma.index = e.dma.index
      /\ g.dma.owed = owed /\ g.enable = e.enable /\ g.request = e.request
  BY <1>4, <1>6
<1> HIDE DEF g
<1>9. Timed(d, m, act) = g
  BY <1>5 DEF g
<1> QED BY <1>2, <1>3, <1>7, <1>8, <1>9

\* A step of m M-cycles keeps the pace: it goes on with the transfer that was
\* running, or starts one, at once or with the next step.
LEMMA PaceKept ==
    ASSUME NEW d \in Devices, NEW c \in Nat, Paces(d, c), d.dma.owed = 0,
           NEW g \in Devices, g.dma = d.dma \/ (~d.dma.active /\ Started(g.dma)),
           NEW m \in 1..6, NEW act \in {d.dma.active, g.dma.active}
    PROVE  /\ Timed(g, m, act) \in Devices
           /\ Paces(Timed(g, m, act), IF act THEN (IF d.dma.active THEN c ELSE 0) + m ELSE 0)
<1>1. /\ d.dma.index \in 0..DmaLength /\ d.dma.active \in BOOLEAN /\ g.dma.index \in 0..DmaLength
      /\ g.dma.active \in BOOLEAN /\ DmaLength \in Nat \ {0}
  BY DmaAssumption DEF Devices
<1>2. act \in BOOLEAN /\ (act => g.dma.active) /\ (g.dma.active => g.dma.index < DmaLength)
  BY <1>1 DEF Paces, Started
<1> DEFINE e == Timed(g, m, act)
<1>3. /\ e \in Devices /\ e.dma.active = g.dma.active /\ e.dma.index = g.dma.index
      /\ e.dma.owed = IF act THEN Min({m, DmaLength - g.dma.index}) ELSE 0
  BY <1>2, TimedEffect
<1> HIDE DEF e
<1>4. CASE ~g.dma.active
  BY <1>2, <1>3, <1>4 DEF Paces, e
<1>5. CASE g.dma.active /\ ~act
  <2>1. ~d.dma.active /\ g.dma.index = 0
    BY <1>5 DEF Started
  <2>2. Min({0, DmaLength}) = 0
    BY <1>1, MinMaxOfTwo
  <2> QED BY <1>1, <1>3, <1>5, <2>1, <2>2 DEF Paces, e
<1>6. CASE g.dma.active /\ act
  <2> DEFINE c0 == IF d.dma.active THEN c ELSE 0
  <2>1. c0 \in Nat /\ g.dma.index = Min({c0, DmaLength}) /\ g.dma.index < DmaLength
    <3>1. CASE d.dma.active
      BY <1>1, <3>1 DEF Paces
    <3>2. CASE ~d.dma.active
      <4>1. g.dma.index = 0 /\ c0 = 0
        BY <1>6, <3>2 DEF Started
      <4>2. Min({0, DmaLength}) = 0
        BY <1>1, MinMaxOfTwo
      <4> QED BY <1>1, <4>1, <4>2
    <3> QED BY <3>1, <3>2
  <2> HIDE DEF c0
  <2>2. g.dma.index = c0
    <3>1. Min({c0, DmaLength}) = IF c0 <= DmaLength THEN c0 ELSE DmaLength
      BY <1>1, <2>1, MinMaxOfTwo
    <3> QED BY <1>1, <2>1, <3>1
  <2>3. ASSUME NEW i \in Nat, NEW l \in Nat, i < l PROVE i + Min({m, l - i}) = Min({i + m, l})
    <3>1. Min({m, l - i}) = IF m <= l - i THEN m ELSE l - i
      BY MinMaxOfTwo
    <3>2. Min({i + m, l}) = IF i + m <= l THEN i + m ELSE l
      BY MinMaxOfTwo
    <3> QED BY <2>3, <3>1, <3>2
  <2>4. e.dma.index + e.dma.owed = Min({c0 + m, DmaLength})
    <3>1. e.dma.index = c0 /\ e.dma.owed = Min({m, DmaLength - c0}) /\ c0 < DmaLength
      BY <1>3, <1>6, <2>1, <2>2
    <3> QED BY <1>1, <2>1, <2>3, <3>1
  <2> QED BY <1>3, <1>6, <2>1, <2>4 DEF Paces, e, c0
<1> QED BY <1>3, <1>4, <1>5, <1>6 DEF e

\* An instruction.
LEMMA ExecuteKeeps ==
    ASSUME MachineInvariant, NEW m \in 1..6, NEW s \in Seq(RegisterAccesses), Execute(m, s)
    PROVE  /\ dev' \in Devices /\ clock' \in Nat /\ DmaKeepsPace'
           /\ dev.timer.phase = LastPhase => "Timer" \in dev'.request
           /\ s = <<>> => dev'.enable = dev.enable /\ dev.request \subseteq dev'.request
<1> DEFINE g == AccessAll(dev, s)
<1>1. dev \in Devices /\ clock \in Nat /\ Paces(dev, clock) /\ dev.dma.owed = 0
  BY DEF MachineInvariant, InRange, DmaKeepsPace, Paces, Execute, CanExecute, Settled
<1>2. g \in Devices /\ (g.dma = dev.dma \/ (~dev.dma.active /\ Started(g.dma)))
  BY <1>1, AccessAllKeeps DEF Execute
<1>3. dev.timer.phase = LastPhase => Due(g)
  BY <1>1, AccessAllKeepsReload DEF Due
<1>4. s = <<>> => g = dev
  <2> SUFFICES ASSUME s = <<>> PROVE g = dev
    OBVIOUS
  <2>1. PICK f : AccessOrbit(f, dev, s) /\ f[Len(s)] = g
    BY <1>1, AccessAllOrbit
  <2>2. Len(s) = 0
    OBVIOUS
  <2> QED BY <2>1, <2>2 DEF AccessOrbit
<1>5. /\ dev' = Timed(g, m, dev.dma.active)
      /\ clock' = IF dev.dma.active THEN (IF dev.dma.active THEN clock ELSE 0) + m ELSE 0
  BY DEF Execute, DmaClock
<1> HIDE DEF g
<1>6. dev' \in Devices /\ Paces(dev', clock')
  BY <1>1, <1>2, <1>5, PaceKept
<1>7. clock' \in Nat
  BY <1>1, <1>5
<1>8. /\ g.dma.active => g.dma.index < DmaLength
      /\ dev.dma.active \in BOOLEAN /\ (dev.dma.active => g.dma.active)
  BY <1>1, <1>2, DmaAssumption DEF Paces, Started, Devices
<1>9. /\ dev'.enable = g.enable /\ g.request \subseteq dev'.request
      /\ Due(g) => "Timer" \in dev'.request
  BY <1>2, <1>5, <1>8, TimedEffect
<1> QED BY <1>3, <1>4, <1>6, <1>7, <1>9 DEF Paces, DmaKeepsPace
\* What a step does to the devices and to the history of the transfer.
DevicesStep ==
    /\ dev' \in Devices /\ clock' \in Nat /\ DmaKeepsPace'
    /\ dev.timer.phase = LastPhase /\ dev'.timer.div # dev.timer.div => "Timer" \in dev'.request

\* No request is lost and IE stays.
RequestsKept == dev'.enable = dev.enable /\ dev.request \subseteq dev'.request

\* A copied byte.
LEMMA DmaByteKeeps == ASSUME MachineInvariant, DmaByte PROVE DevicesStep /\ RequestsKept
<1>1. /\ dev \in Devices /\ clock \in Nat /\ Paces(dev, clock) /\ dev.dma.owed # 0
      /\ dev' = CompleteDmaByte(dev) /\ clock' = clock
  BY DEF MachineInvariant, InRange, DmaKeepsPace, Paces, DmaByte
<1>2. /\ dev.dma.index \in 0..DmaLength /\ dev.dma.owed \in 1..6 /\ DmaLength \in Nat \ {0}
      /\ dev.dma.active = TRUE
  BY <1>1, DmaAssumption DEF Devices, Paces
<1>3. Max({0, dev.dma.owed - 1}) = dev.dma.owed - 1 /\ dev.dma.owed - 1 \in 0..6
  <2>1. \A n \in 1..6 : n - 1 \in 0..6 /\ Max({0, n - 1}) = n - 1
    <3> TAKE n \in 1..6
    <3>1. n - 1 \in Int /\ 0 \in Int
      OBVIOUS
    <3>2. Max({0, n - 1}) = IF 0 >= n - 1 THEN 0 ELSE n - 1
      BY <3>1, MinMaxOfTwo
    <3> QED BY <3>2
  <2> QED BY <1>2, <2>1
<1>4. dev.dma.index < DmaLength /\ dev.dma.index + dev.dma.owed = Min({clock, DmaLength})
  BY <1>1, <1>2 DEF Paces
<1>5. dev.dma.index + dev.dma.owed <= DmaLength
  <2>1. Min({clock, DmaLength}) = IF clock <= DmaLength THEN clock ELSE DmaLength
    BY <1>1, <1>2, MinMaxOfTwo
  <2> QED BY <1>1, <1>2, <1>4, <2>1
<1> DEFINE i == IF dev.dma.index = DmaLength - 1 THEN DmaLength ELSE dev.dma.index + 1
           o == dev.dma.owed - 1
           a == dev.dma.index # DmaLength - 1
<1>6. i \in 0..DmaLength /\ o \in 0..6 /\ a \in BOOLEAN
  BY <1>2, <1>3, <1>4
<1>7. dev' = [dev EXCEPT !.dma.owed = o, !.dma.index = i, !.dma.active = a]
  BY <1>1, <1>3 DEF CompleteDmaByte
<1> HIDE DEF i, o, a
<1>8. /\ dev' \in Devices /\ dev'.dma.owed = o /\ dev'.dma.index = i /\ dev'.dma.active = a
      /\ dev'.timer = dev.timer /\ dev'.enable = dev.enable /\ dev'.request = dev.request
  <2> DEFINE r == [dev.dma EXCEPT !.owed = o, !.index = i, !.active = a]
  <2>1. r \in [readable : BOOLEAN, index : 0..DmaLength, active : BOOLEAN, owed : 0..6]
        /\ r.owed = o /\ r.index = i /\ r.active = a
    BY <1>1, <1>6 DEF Devices
  <2>2. dev' = [dev EXCEPT !.dma = r]
    BY <1>1, <1>7 DEF Devices
  <2> HIDE DEF r
  <2> QED BY <1>1, <2>1, <2>2 DEF Devices
<1>9. (a => i + o = dev.dma.index + dev.dma.owed /\ i < DmaLength) /\ (~a => o = 0)
  BY <1>2, <1>4, <1>5 DEF a, i, o
<1>10. Paces(dev', clock')
  BY <1>1, <1>4, <1>8, <1>9 DEF Paces
<1> QED BY <1>1, <1>8, <1>10 DEF DevicesStep, RequestsKept, Paces, DmaKeepsPace

\* An interrupt dispatch.
LEMMA DispatchKeeps == ASSUME MachineInvariant, InterruptDispatch PROVE DevicesStep
<1> DEFINE acked == Acknowledge(dev, PendingInterrupt(dev))
<1>1. dev \in Devices /\ clock \in Nat /\ Paces(dev, clock) /\ dev.dma.owed = 0 /\ program \in Programs
  BY DEF MachineInvariant, InRange, DmaKeepsPace, Paces, InterruptDispatch, Settled
<1>2. PICK push \in PushAccesses[program] \cup {<<>>} :
          /\ AccessesAllowed(acked, push)
          /\ dev' = Timed(AccessAll(acked, push), 5, AccessAll(acked, push).dma.active)
          /\ DmaClock(5, AccessAll(acked, push).dma.active)
  BY DEF InterruptDispatch
<1>3. push \in Seq(RegisterAccesses)
  <2>1. PushAccesses[program] \subseteq Seq(RegisterAccesses)
    BY <1>1, AccessesAssumption, Zenon
  <2>2. <<>> \in Seq(RegisterAccesses)
    OBVIOUS
  <2> QED BY <2>1, <2>2
<1>4. acked \in Devices /\ acked.dma = dev.dma /\ acked.timer = dev.timer
  BY <1>1 DEF Acknowledge, Devices
<1> HIDE DEF acked
<1> DEFINE g == AccessAll(acked, push)
<1>5. g \in Devices /\ (g.dma = dev.dma \/ (~dev.dma.active /\ Started(g.dma)))
  BY <1>2, <1>3, <1>4, AccessAllKeeps
<1>6. dev.timer.phase = LastPhase => Due(g)
  BY <1>3, <1>4, AccessAllKeepsReload DEF Due
<1>7. /\ dev' = Timed(g, 5, g.dma.active)
      /\ clock' = IF g.dma.active THEN (IF dev.dma.active THEN clock ELSE 0) + 5 ELSE 0
  BY <1>2 DEF DmaClock
<1> HIDE DEF g
<1>8. dev' \in Devices /\ Paces(dev', clock')
  <2>1. 5 \in 1..6
    OBVIOUS
  <2> QED BY <1>1, <1>5, <1>7, <2>1, PaceKept
<1>9. clock' \in Nat
  BY <1>1, <1>7
<1>10. (g.dma.active => g.dma.index < DmaLength) /\ g.dma.active \in BOOLEAN /\ 5 \in 1..6
  BY <1>1, <1>5, DmaAssumption DEF Paces, Started, Devices
<1>11. Due(g) => "Timer" \in dev'.request
  BY <1>5, <1>7, <1>10, TimedEffect
<1> QED BY <1>6, <1>8, <1>9, <1>11 DEF Paces, DmaKeepsPace, DevicesStep

\* A long skip.
LEMMA SkipKeeps ==
    ASSUME MachineInvariant, NEW m \in Nat \ {0}, ~dev.dma.active,
           dev' = AdvanceQuietLong(dev, m), clock' = clock
    PROVE  DevicesStep /\ RequestsKept
<1>1. dev \in Devices /\ clock \in Nat /\ Paces(dev, clock)
  BY DEF MachineInvariant, InRange, DmaKeepsPace, Paces
<1>2. dev' \in Later(dev)
  BY <1>1, QuietLongLater
<1>3. dev.timer.phase = LastPhase => "Timer" \in dev'.request
  BY <1>1, QuietLongFires DEF Due
<1>4. DmaKeepsPace'
  BY <1>1, <1>2 DEF DmaKeepsPace, Paces, Later
<1> QED BY <1>1, <1>2, <1>3, <1>4 DEF Later, DevicesStep, RequestsKept

\* A sleeping step.
LEMMA HaltIdleKeeps == ASSUME MachineInvariant, HaltIdle PROVE DevicesStep /\ RequestsKept
<1> DEFINE m == HaltIdleMCycles(dev)
<1>1. dev \in Devices /\ clock \in Nat /\ Paces(dev, clock) /\ dev.dma.owed = 0
  BY DEF MachineInvariant, InRange, DmaKeepsPace, Paces, HaltIdle, Asleep, Settled
<1>2. m \in 1..6
  BY HaltIdleLength
<1>3. /\ dev' = Timed(dev, m, dev.dma.active)
      /\ clock' = IF dev.dma.active THEN (IF dev.dma.active THEN clock ELSE 0) + m ELSE 0
  BY DEF HaltIdle, DmaClock
<1> HIDE DEF m
<1>4. dev' \in Devices /\ Paces(dev', clock')
  BY <1>1, <1>2, <1>3, PaceKept
<1>5. clock' \in Nat
  BY <1>1, <1>2, <1>3
<1>6. (dev.dma.active => dev.dma.index < DmaLength) /\ dev.dma.active \in BOOLEAN
  BY <1>1 DEF Paces, Devices
<1>7. /\ dev'.enable = dev.enable /\ dev.request \subseteq dev'.request
      /\ Due(dev) => "Timer" \in dev'.request
  BY <1>1, <1>2, <1>3, <1>6, TimedEffect
<1> QED BY <1>4, <1>5, <1>7 DEF Paces, DmaKeepsPace, DevicesStep, RequestsKept, Due
\* Every step keeps the invariant.
LEMMA StepKeeps ==
    ASSUME MachineInvariant, Next
    PROVE  MachineInvariant' /\ DevicesStep
<1> DEFINE Control == /\ run' \in RunStates /\ ime' \in ImeStates /\ shadow' \in BOOLEAN
                      /\ shadow' => ime' = "EnablePending"
                      /\ HaltStatesSettled'
<1> SUFFICES DevicesStep /\ Control
  BY DEF MachineInvariant, InRange, DevicesStep, Next
<1>1. /\ 1 \in 1..6 /\ 4 \in 1..6 /\ <<>> \in Seq(RegisterAccesses)
  OBVIOUS
<1>2. /\ program \in Programs /\ run \in RunStates /\ ime \in ImeStates /\ shadow \in BOOLEAN
      /\ shadow => ime = "EnablePending"
      /\ HaltStatesSettled /\ dev \in Devices
  BY DEF MachineInvariant, InRange
<1>3. CASE Plain
  <2>1. PICK m \in Cycles, s \in Accesses[program] \cup {<<>>} : Execute(m, s)
    BY <1>3 DEF Plain
  <2>2. m \in 1..6
    BY CyclesAssumption
  <2>3. s \in Seq(RegisterAccesses)
    <3>1. Accesses[program] \subseteq Seq(RegisterAccesses)
      BY <1>2, AccessesAssumption, Zenon
    <3> QED BY <1>1, <3>1
  <2>4. DevicesStep
    BY <2>1, <2>2, <2>3, ExecuteKeeps DEF DevicesStep
  <2>5. Control
    BY <1>2, <1>3 DEF Plain, DelayedIme, RunStates, ImeStates, HaltStatesSettled
  <2> QED BY <2>4, <2>5
<1>4. CASE EnableInterrupts
  <2>1. Execute(1, <<>>)
    BY <1>4 DEF EnableInterrupts
  <2>2. DevicesStep /\ RequestsKept
    BY <1>1, <2>1, ExecuteKeeps DEF DevicesStep, RequestsKept
  <2>3. Control
    BY <1>2, <1>4, <2>2
       DEF EnableInterrupts, DelayedIme, RunStates, ImeStates, HaltStatesSettled, Pending, RequestsKept
  <2> QED BY <2>2, <2>3
<1>5. CASE DisableInterrupts
  <2>1. Execute(1, <<>>)
    BY <1>5 DEF DisableInterrupts
  <2>2. DevicesStep /\ RequestsKept
    BY <1>1, <2>1, ExecuteKeeps DEF DevicesStep, RequestsKept
  <2>3. Control
    BY <1>2, <1>5, <2>2
       DEF DisableInterrupts, DelayedIme, RunStates, ImeStates, HaltStatesSettled, Pending, RequestsKept
  <2> QED BY <2>2, <2>3
<1>6. CASE ReturnFromInterrupt
  <2>1. Execute(4, <<>>)
    BY <1>6 DEF ReturnFromInterrupt
  <2>2. DevicesStep /\ RequestsKept
    BY <1>1, <2>1, ExecuteKeeps DEF DevicesStep, RequestsKept
  <2>3. Control
    BY <1>2, <1>6, <2>2
       DEF ReturnFromInterrupt, DelayedIme, RunStates, ImeStates, HaltStatesSettled, Pending, RequestsKept
  <2> QED BY <2>2, <2>3
<1>7. CASE Halt
  <2>1. Execute(1, <<>>)
    BY <1>7 DEF Halt
  <2>2. DevicesStep /\ RequestsKept
    BY <1>1, <2>1, ExecuteKeeps DEF DevicesStep, RequestsKept
  <2>3. Control
    BY <1>2, <1>7, <2>2
       DEF Halt, DelayedIme, RunStates, ImeStates, HaltStatesSettled, Pending, RequestsKept
  <2> QED BY <2>2, <2>3
<1>8. CASE Stop
  <2>1. Execute(1, <<>>)
    BY <1>8 DEF Stop
  <2>2. DevicesStep /\ RequestsKept
    BY <1>1, <2>1, ExecuteKeeps DEF DevicesStep, RequestsKept
  <2>3. Control
    BY <1>2, <1>8, <2>2
       DEF Stop, DelayedIme, RunStates, ImeStates, HaltStatesSettled, Pending, RequestsKept
  <2> QED BY <2>2, <2>3
<1>9. CASE DmaByte
  <2>1. DevicesStep /\ RequestsKept
    BY <1>9, DmaByteKeeps
  <2>2. Control
    BY <1>2, <1>9, <2>1 DEF DmaByte, HaltStatesSettled, Pending, RequestsKept
  <2> QED BY <2>1, <2>2
<1>10. CASE InterruptDispatch
  <2>1. DevicesStep
    BY <1>10, DispatchKeeps
  <2>2. Control
    BY <1>10 DEF InterruptDispatch, HaltStatesSettled, RunStates, ImeStates
  <2> QED BY <2>1, <2>2
<1>11. CASE HaltWake
  <2>1. DevicesStep
    BY <1>11 DEF HaltWake, DevicesStep, MachineInvariant, InRange, DmaKeepsPace
  <2>2. Control
    BY <1>2, <1>11 DEF HaltWake, HaltStatesSettled, RunStates
  <2> QED BY <2>1, <2>2
<1>12. ASSUME NEW m \in Nat, m # 0 => ~dev.dma.active, Skip({m})
       PROVE  DevicesStep /\ Control
  <2>1. /\ m \in Nat \ {0} /\ dev' = AdvanceQuietLong(dev, m) /\ clock' = clock
        /\ run' = run /\ ime' = ime /\ shadow' = shadow
    BY <1>12 DEF Skip
  <2>2. DevicesStep /\ RequestsKept
    BY <1>12, <2>1, SkipKeeps
  <2>3. Control
    BY <1>2, <2>1, <2>2 DEF HaltStatesSettled, Pending, RequestsKept
  <2> QED BY <2>2, <2>3
<1>13. CASE HaltUntilVBlank \/ HaltUntilSerial \/ HaltUntilTimer
  <2> HIDE DEF Control
  <2>1. \E m \in Nat : (m # 0 => ~dev.dma.active) /\ Skip({m})
    BY <1>2, <1>13, SkipLengths DEF HaltUntilVBlank, HaltUntilSerial, HaltUntilTimer
  <2> QED BY <1>12, <2>1
<1>14. CASE HaltIdle
  <2>1. DevicesStep /\ RequestsKept
    BY <1>14, HaltIdleKeeps
  <2>2. Control
    BY <1>2, <1>14, <2>1 DEF HaltIdle, HaltStatesSettled, Pending, RequestsKept
  <2> QED BY <2>1, <2>2
<1> HIDE DEF Control
<1> QED
  BY <1>3, <1>4, <1>5, <1>6, <1>7, <1>8, <1>9, <1>10, <1>11, <1>13, <1>14
     DEF Next, Instruction, MachineEvent

\* A stuttering step does too.
LEMMA StutterKeeps == ASSUME MachineInvariant, UNCHANGED vars PROVE MachineInvariant'
BY DEF MachineInvariant, InRange, DmaKeepsPace, HaltStatesSettled, Pending, vars

\* The invariant holds in every reachable state: the devices stay in range and
\* no step owes more than six DMA bytes.
THEOREM MachineStaysInRange == Spec => []MachineInvariant
<1>1. MachineInvariant /\ [Next]_vars => MachineInvariant'
  BY StepKeeps, StutterKeeps
<1> QED BY InitMachine, <1>1, PTL DEF Spec

\* The copied and owed bytes of an OAM DMA are the M-cycles since it began
\* (schedule_dma_bytes, complete_dma_byte), whatever instructions, dispatches
\* and sleeping steps the time is made of.
THEOREM DmaPaceKept == Spec => []DmaKeepsPace
<1>1. MachineInvariant => DmaKeepsPace
  BY DEF MachineInvariant
<1> QED BY <1>1, MachineStaysInRange, PTL

\* No interrupt is dispatched inside the delay of EI, and the HALT states are
\* entered and left as halt and apply_delayed_ime mean them to be.
THEOREM EiIsDelayed == Spec => EiDelaysDispatch
<1>1. MachineInvariant /\ Next => (InterruptDispatch => ~shadow) /\ HaltStatesSettled'
  <2>1. MachineInvariant /\ InterruptDispatch => ~shadow
    BY DEF MachineInvariant, InterruptDispatch
  <2>2. MachineInvariant /\ Next => HaltStatesSettled'
    BY StepKeeps DEF MachineInvariant
  <2> QED BY <2>1, <2>2
<1>2. MachineInvariant /\ [Next]_vars
         => [(InterruptDispatch => ~shadow) /\ HaltStatesSettled']_vars
  BY <1>1
<1> QED BY <1>2, MachineStaysInRange, PTL DEF Spec, EiDelaysDispatch

\* A TIMA reload that has reached its last T-cycle requests its interrupt in
\* the next step that takes time (advance_reload_pipeline), whatever registers
\* that step writes first and however long it sleeps.
THEOREM ReloadNeverLost == Spec => ReloadIsRequested
<1>1. MachineInvariant /\ [Next]_vars
         => [dev.timer.phase = LastPhase /\ dev'.timer.div # dev.timer.div
                => "Timer" \in dev'.request]_vars
  BY StepKeeps DEF DevicesStep
<1> QED BY <1>1, MachineStaysInRange, PTL DEF Spec, ReloadIsRequested
=============================================================================
