------------------------------- MODULE Clock --------------------------------
(***************************************************************************)
(* The single monotonic clock of the system: the exact conversion between  *)
(* hardware ticks and nanoseconds (src/shared/erhino_shared/src/time.rs)   *)
(* and the high-water marks every hart publishes its samples through       *)
(* (src/os/kernel/src/clock.rs).  read is not locked: its loads, its       *)
(* sample and its two fetch_max are separate steps of a hart.              *)
(***************************************************************************)
EXTENDS Integers, FiniteSets, TLAPS

CONSTANTS
  Hart,
  Nanos,        \* NANOS_PER_SECOND
  Top,          \* u64::MAX
  Frequencies,  \* the platform frequencies considered
  Origins,      \* the tick counts the boot hart may read in init
  Faults        \* bound: samples that fall behind by more than the skew

VARIABLES
  geometry,     \* frozen by init
  time,         \* the hardware counter; a hart may read it one tick late
  high_ticks, high_ns, failed,
  reader,       \* per hart: its step of read, and the values it carries
  best, lost,   \* history: the largest ns returned; a read has returned an error
  faults
vars == <<geometry, time, high_ticks, high_ns, failed, reader, best, lost, faults>>

Least(a, b) == IF a < b THEN a ELSE b
Greatest(a, b) == IF a < b THEN b ELSE a
div_ceil(a, b) == (a + b - 1) \div b
OutOfRange == -1

\* The offset of the last tick whose nanoseconds still fit.
Readable(f) == ((Top + 1) * f - 1) \div Nanos

\* ClockGeometry::new, for a frequency and origin it accepts.
new(f, origin) ==
  [frequency |-> f, origin |-> origin,
   max |-> (Least(Readable(f), Top - 1 - origin) * Nanos) \div f]

elapsed_ns(g, ticks) ==
  IF ticks = Top \/ ticks < g.origin THEN OutOfRange
  ELSE LET ns == ((ticks - g.origin) * Nanos) \div g.frequency
       IN IF ns > Top THEN OutOfRange ELSE ns

deadline_ticks(g, ns) ==
  IF ns > g.max THEN OutOfRange
  ELSE LET ticks == g.origin + div_ceil(ns * g.frequency, Nanos)
       IN IF ticks >= Top THEN OutOfRange ELSE ticks

\* What the boot has established of the platform before it calls init.
Admissible ==
  /\ Nanos \in Nat \ {0} /\ Top \in Nat \ {0} /\ Faults \in Nat
  /\ Frequencies \subseteq Nat \ {0} /\ Origins \subseteq 0 .. Top - 1

Idle == [at |-> "idle", prior |-> 0, ns |-> 0, ticks |-> 0, floor |-> 0, late |-> FALSE]

\* init on the boot hart: the origin is its own sample and the first high mark.
Init ==
  /\ geometry \in {new(f, o) : f \in Frequencies, o \in Origins}
  /\ time = geometry.origin
  /\ high_ticks = geometry.origin /\ high_ns = 0
  /\ failed = FALSE
  /\ reader = [h \in Hart |-> Idle]
  /\ best = 0 /\ lost = FALSE /\ faults = 0

Step(h, at) == reader' = [reader EXCEPT ![h].at = at]

tick == /\ time < Top
        /\ time' = time + 1
        /\ UNCHANGED <<geometry, high_ticks, high_ns, failed, reader, best, lost, faults>>

Refuse(h) == /\ reader' = [reader EXCEPT ![h] = Idle]
             /\ lost' = TRUE

\* read: the entry test of failed.
begin(h) ==
  /\ reader[h].at = "idle"
  /\ IF failed THEN Refuse(h)
     ELSE /\ reader' = [reader EXCEPT ![h] = [Idle EXCEPT !.at = "prior", !.floor = best, !.late = lost]]
          /\ UNCHANGED lost
  /\ UNCHANGED <<geometry, time, high_ticks, high_ns, failed, best, faults>>

load_prior(h) ==
  /\ reader[h].at = "prior"
  /\ reader' = [reader EXCEPT ![h].at = "sample", ![h].prior = high_ticks]
  /\ UNCHANGED <<geometry, time, high_ticks, high_ns, failed, best, lost, faults>>

\* The counter as hart h can read it: exact, one tick late, or broken.
Samples(h) ==
  {time, Greatest(time - 1, 0)} \cup (IF faults < Faults THEN {0} ELSE {})

\* How far a sample may fall behind the known high mark.
Discontinuous(prior, raw) == raw < prior /\ prior - raw > 1

sample(h) ==
  /\ reader[h].at = "sample"
  /\ \E raw \in Samples(h) :
       /\ faults' = IF raw < time - 1 THEN faults + 1 ELSE faults
       /\ \E ticks \in {Greatest(raw, geometry.origin)} :
            IF Discontinuous(reader[h].prior, raw) \/ elapsed_ns(geometry, ticks) = OutOfRange
            THEN failed' = TRUE /\ Refuse(h)
            ELSE /\ reader' = [reader EXCEPT ![h].at = "ticks", ![h].ticks = ticks,
                                             ![h].ns = elapsed_ns(geometry, ticks)]
                 /\ UNCHANGED <<failed, lost>>
  /\ UNCHANGED <<geometry, time, high_ticks, high_ns, best>>

publish_ticks(h) ==
  /\ reader[h].at = "ticks"
  /\ high_ticks' = Greatest(high_ticks, reader[h].ticks)
  /\ Step(h, "ns")
  /\ UNCHANGED <<geometry, time, high_ns, failed, best, lost, faults>>

publish_ns(h) ==
  /\ reader[h].at = "ns"
  /\ high_ns' = Greatest(high_ns, reader[h].ns)
  /\ reader' = [reader EXCEPT ![h].at = "check", ![h].ns = Greatest(high_ns, reader[h].ns)]
  /\ UNCHANGED <<geometry, time, high_ticks, failed, best, lost, faults>>

\* The second test of failed, and the snapshot returned.
check(h) ==
  /\ reader[h].at = "check"
  /\ IF failed THEN Refuse(h) ELSE Step(h, "done") /\ UNCHANGED lost
  /\ UNCHANGED <<geometry, time, high_ticks, high_ns, failed, best, faults>>

returns(h) ==
  /\ reader[h].at = "done"
  /\ best' = Greatest(best, reader[h].ns)
  /\ reader' = [reader EXCEPT ![h] = Idle]
  /\ UNCHANGED <<geometry, time, high_ticks, high_ns, failed, lost, faults>>

Next ==
  \/ tick
  \/ \E h \in Hart : \/ begin(h) \/ load_prior(h) \/ sample(h) \/ publish_ticks(h)
                     \/ publish_ns(h) \/ check(h) \/ returns(h)

Spec == Init /\ [][Next]_vars

-----------------------------------------------------------------------------
\* Reads that are ordered in time never go backwards across harts, whatever
\* samples are published late, and once a read was refused no read that begins
\* afterwards succeeds.
ReadsOrdered ==
  \A h \in Hart : reader[h].at = "done" => /\ reader[h].ns >= reader[h].floor
                                           /\ ~reader[h].late

\* The legal skew of one tick between harts never latches the failure: the
\* clock fails only on a real discontinuity or at the end of its epoch.
NoFalseAlarm ==
  failed => faults > 0 \/ elapsed_ns(geometry, time) = OutOfRange

\* Every deadline the geometry admits is rounded up to a tick that can be read
\* and programmed, is not before the deadline, and is the first such tick.
DeadlinesReadable ==
  \A ns \in 0 .. geometry.max :
    LET at == deadline_ticks(geometry, ns) IN
    /\ at # OutOfRange
    /\ elapsed_ns(geometry, at) >= ns
    /\ at > geometry.origin => elapsed_ns(geometry, at - 1) < ns

-----------------------------------------------------------------------------
(* Proofs, for any number of harts, any frequency, origin and width: reads *)
(* are ordered, the failure is latched for a reason only, and every        *)
(* admitted deadline is the first tick at which it has passed.             *)

\* Division by a positive number rounds down.
LEMMA Division ==
  ASSUME NEW x \in Int, NEW d \in Nat \ {0}
  PROVE  x \div d \in Int /\ d * (x \div d) <= x /\ x < d * (x \div d) + d
BY SMT

\* A bound on the dividend is a bound on the quotient.
LEMMA QuotientAtMost ==
  ASSUME NEW x \in Int, NEW d \in Nat \ {0}, NEW k \in Int, x < d * (k + 1)
  PROVE  x \div d <= k
<1> DEFINE p == x \div d
<1>1. p \in Int /\ d * p <= x BY Division
<1>2. d * p < d * (k + 1) BY <1>1
<1>3. p < k + 1 BY <1>1, <1>2, SMT
<1>. QED BY <1>1, <1>3

LEMMA QuotientAtLeast ==
  ASSUME NEW x \in Int, NEW d \in Nat \ {0}, NEW k \in Int, d * k <= x
  PROVE  k <= x \div d
<1> DEFINE p == x \div d
<1>1. p \in Int /\ x < d * p + d BY Division
<1>2. d * k < d * (p + 1) BY <1>1
<1>3. k < p + 1 BY <1>1, <1>2, SMT
<1>. QED BY <1>1, <1>3

-----------------------------------------------------------------------------
(* The conversions.                                                        *)

Geometries == {new(f, o) : f \in Frequencies, o \in Origins}

\* What a geometry is made of.
LEMMA GeometryParts ==
  ASSUME Admissible, NEW g \in Geometries
  PROVE  /\ g.frequency \in Nat \ {0} /\ g.origin \in 0 .. Top - 1
         /\ \E last \in Nat : /\ last <= Readable(g.frequency) /\ g.origin + last < Top
                              /\ g.max = (last * Nanos) \div g.frequency
<1>1. PICK f \in Frequencies, o \in Origins : g = new(f, o) BY DEF Geometries
<1>2. f \in Nat \ {0} /\ o \in 0 .. Top - 1 BY DEF Admissible
<1>3. g.frequency = f /\ g.origin = o /\ g.max = (Least(Readable(f), Top - 1 - o) * Nanos) \div f
  BY <1>1 DEF new
<1> DEFINE last == Least(Readable(f), Top - 1 - o)
<1>4. Readable(f) \in Int /\ 0 <= Readable(f)
  <2>1. (Top + 1) * f - 1 \in Int /\ Nanos * 0 <= (Top + 1) * f - 1 BY <1>2, SMT DEF Admissible
  <2>. QED BY <2>1, Division, QuotientAtLeast DEF Admissible, Readable
<1>5. last \in Nat /\ last <= Readable(f) /\ o + last < Top BY <1>2, <1>4 DEF Least, Admissible
<1>. QED BY <1>2, <1>3, <1>5

\* Later ticks are out of range when earlier ones are.
LEMMA ElapsedMonotone ==
  ASSUME Admissible, NEW g \in Geometries, NEW a \in Nat, NEW b \in Nat,
         g.origin <= a, a <= b, b <= Top, elapsed_ns(g, a) = OutOfRange
  PROVE  elapsed_ns(g, b) = OutOfRange
<1>1. g.frequency \in Nat \ {0} /\ g.origin \in Nat BY GeometryParts, SMT DEF Admissible
<1>2. CASE a = Top BY <1>2 DEF elapsed_ns, Admissible
<1>3. CASE a # Top
  <2> DEFINE x == (a - g.origin) * Nanos
             y == (b - g.origin) * Nanos
             p == x \div g.frequency
             q == y \div g.frequency
  <2>1. x \in Int /\ y \in Int /\ 0 <= x /\ x <= y BY <1>1, SMT DEF Admissible
  <2>2. p \in Int /\ q \in Int /\ g.frequency * p <= x BY <1>1, <2>1, Division
  <2>3. g.frequency * p <= y BY <1>1, <2>1, <2>2, SMT
  <2>4. 0 <= p /\ p <= q
    <3>1. g.frequency * 0 <= x BY <1>1, <2>1, SMT
    <3>. QED BY <1>1, <2>1, <2>2, <2>3, <3>1, QuotientAtLeast
  <2>5. p > Top BY <1>1, <1>3, <2>2, <2>4 DEF elapsed_ns, OutOfRange, Admissible
  <2>. QED BY <1>1, <2>2, <2>4, <2>5 DEF elapsed_ns, Admissible
<1>. QED BY <1>2, <1>3

\* deadline_ticks rounds up to a tick that can be read, and not further than it has to.
LEMMA Deadline ==
  ASSUME Admissible, NEW g \in Geometries, NEW ns \in 0 .. g.max
  PROVE  /\ deadline_ticks(g, ns) # OutOfRange
         /\ elapsed_ns(g, deadline_ticks(g, ns)) >= ns
         /\ deadline_ticks(g, ns) > g.origin => elapsed_ns(g, deadline_ticks(g, ns) - 1) < ns
<1> DEFINE f == g.frequency
           need == ns * f
           d == div_ceil(need, Nanos)
           at == g.origin + d
<1>1. f \in Nat \ {0} /\ g.origin \in Nat /\ Nanos \in Nat \ {0} /\ Top \in Nat
  BY GeometryParts, SMT DEF Admissible
<1>2. PICK last \in Nat : /\ last <= Readable(f) /\ g.origin + last < Top
                          /\ g.max = (last * Nanos) \div f
  BY GeometryParts
<1>3. last * Nanos \in Int /\ g.max \in Int /\ f * g.max <= last * Nanos
  <2>1. last * Nanos \in Int BY <1>1, SMT
  <2>. QED BY <1>1, <1>2, <2>1, Division
<1>4. ns \in Nat /\ ns <= g.max BY <1>3
<1>5. need \in Nat /\ need <= last * Nanos
  <2>1. f * ns <= f * g.max BY <1>1, <1>3, <1>4, SMT
  <2>. QED BY <1>1, <1>3, <1>4, <2>1, SMT
<1> HIDE DEF need
<1>6. d \in Int /\ need <= Nanos * d /\ Nanos * d < need + Nanos
  <2> DEFINE x == need + Nanos - 1
  <2>1. x \in Int BY <1>1, <1>5
  <2>2. x \div Nanos \in Int /\ Nanos * (x \div Nanos) <= x /\ x < Nanos * (x \div Nanos) + Nanos
    BY <1>1, <2>1, Division
  <2>. QED BY <1>1, <1>5, <2>2, SMT DEF div_ceil
<1>7. 0 <= d
  <2>1. Nanos * 0 <= need + Nanos - 1 BY <1>1, <1>5
  <2>. QED BY <1>1, <1>5, <2>1, QuotientAtLeast DEF div_ceil
<1>8. d <= last
  <2> DEFINE x == need + Nanos - 1
  <2>1. x \in Int /\ last \in Int /\ x < Nanos * (last + 1) BY <1>1, <1>2, <1>5, SMT
  <2> HIDE DEF x
  <2>2. x \div Nanos <= last BY <1>1, <2>1, QuotientAtMost
  <2>. QED BY <2>2 DEF div_ceil, x
<1> HIDE DEF d
<1>9. deadline_ticks(g, ns) = at /\ at \in Nat /\ at < Top /\ g.origin <= at
  BY <1>1, <1>2, <1>3, <1>4, <1>6, <1>7, <1>8 DEF deadline_ticks, d, need
<1>10. elapsed_ns(g, at) >= ns
  <2> DEFINE x == d * Nanos
             p == x \div f
  <2>1. x \in Int /\ f * ns <= x BY <1>1, <1>4, <1>6, SMT DEF need
  <2>2. p \in Int /\ ns <= p BY <1>1, <1>4, <2>1, Division, QuotientAtLeast
  <2>3. p <= Top
    <3> DEFINE y == (Top + 1) * f - 1
               r == y \div Nanos
    <3>1. y \in Int BY <1>1, SMT
    <3>2. r \in Int /\ Nanos * r <= y BY <1>1, <3>1, Division
    <3>3. d <= r BY <1>2, <1>6, <1>8, <3>2 DEF Readable
    <3>4. Nanos * d <= Nanos * r BY <1>1, <1>6, <3>2, <3>3, SMT
    <3>5. x < f * (Top + 1) BY <1>1, <1>6, <3>2, <3>4, SMT
    <3> HIDE DEF x, f
    <3>6. Top \in Int BY <1>1
    <3>. QED BY <1>1, <2>1, <3>5, <3>6, QuotientAtMost
  <2>4. at - g.origin = d BY <1>1, <1>6
  <2>. QED BY <1>1, <1>9, <2>2, <2>3, <2>4 DEF elapsed_ns
<1>11. at > g.origin => elapsed_ns(g, at - 1) < ns
  <2> SUFFICES ASSUME at > g.origin PROVE elapsed_ns(g, at - 1) < ns OBVIOUS
  <2> DEFINE x == (d - 1) * Nanos
             p == x \div f
  <2>1. x \in Int /\ x < f * ((ns - 1) + 1)
    <3>1. x = Nanos * d - Nanos BY <1>1, <1>6, SMT
    <3>2. f * ((ns - 1) + 1) = need BY <1>1, <1>4, SMT DEF need
    <3>. QED BY <1>1, <1>5, <1>6, <3>1, <3>2, SMT
  <2>2. p \in Int /\ p <= ns - 1 BY <1>1, <1>4, <2>1, Division, QuotientAtMost
  <2>3. (at - 1) - g.origin = d - 1 BY <1>1, <1>6
  <2>. QED BY <1>1, <1>4, <1>9, <2>2, <2>3 DEF elapsed_ns, OutOfRange
<1>. QED BY <1>1, <1>9, <1>10, <1>11 DEF OutOfRange

-----------------------------------------------------------------------------
(* The reads.                                                              *)

Reader == [at : {"idle", "prior", "sample", "ticks", "ns", "check", "done"}, prior : Nat, ns : Int,
           ticks : Nat, floor : Int, late : BOOLEAN]

TypeInv ==
  /\ geometry \in Geometries
  /\ time \in Nat /\ high_ticks \in Nat /\ high_ns \in Nat /\ best \in Int /\ faults \in Nat
  /\ failed \in BOOLEAN /\ lost \in BOOLEAN
  /\ reader \in [Hart -> Reader]

\* No sample, published or about to be, is ahead of the counter; what was returned is below the
\* high mark, and so is what a read must not fall below; a refusal has latched the failure, so that
\* no read that got past the entry test begins after one.
MarksInv ==
  /\ geometry.origin <= time /\ time <= Top /\ high_ticks <= time
  /\ best <= high_ns
  /\ lost => failed
  /\ \A h \in Hart :
       /\ reader[h].prior <= time /\ reader[h].ticks <= time
       /\ reader[h].floor <= high_ns /\ ~reader[h].late
       /\ reader[h].at \in {"check", "done"} => reader[h].floor <= reader[h].ns /\ reader[h].ns <= high_ns

IInv == TypeInv /\ MarksInv /\ NoFalseAlarm

LEMMA IdleReader ==
  /\ Idle \in Reader /\ Idle.at = "idle" /\ Idle.prior = 0 /\ Idle.ticks = 0 /\ Idle.floor = 0
  /\ ~Idle.late
BY DEF Idle, Reader

LEMMA ElapsedType ==
  ASSUME Admissible, NEW g \in Geometries, NEW ticks \in Nat
  PROVE  elapsed_ns(g, ticks) \in Int
<1>1. g.frequency \in Nat \ {0} /\ g.origin \in Nat BY GeometryParts, SMT DEF Admissible
<1>2. (ticks - g.origin) * Nanos \in Int BY <1>1, SMT DEF Admissible
<1>3. ((ticks - g.origin) * Nanos) \div g.frequency \in Int BY <1>1, <1>2, Division
<1>. QED BY <1>3 DEF elapsed_ns, OutOfRange

LEMMA Initially == ASSUME Admissible, Init PROVE IInv
<1>1. geometry \in Geometries BY DEF Init, Geometries
<1>2. geometry.origin \in 0 .. Top - 1 BY <1>1, GeometryParts
<1>3. TypeInv
  <2>1. geometry.origin \in Nat BY <1>2 DEF Admissible
  <2>2. reader \in [Hart -> Reader] BY IdleReader DEF Init
  <2>3. time \in Nat /\ high_ticks \in Nat /\ high_ns \in Nat /\ best \in Int /\ faults \in Nat
    BY <2>1 DEF Init
  <2>4. failed \in BOOLEAN /\ lost \in BOOLEAN BY DEF Init
  <2>. QED BY <1>1, <2>2, <2>3, <2>4 DEF TypeInv
<1>4. MarksInv BY <1>2, IdleReader, SMT DEF Init, MarksInv, Admissible
<1>5. NoFalseAlarm BY DEF Init, NoFalseAlarm
<1>. QED BY <1>3, <1>4, <1>5 DEF IInv

\* Samples are at most the counter, and what a sound counter shows is at most one tick behind.
LEMMA Sampled ==
  ASSUME Admissible, IInv, NEW h \in Hart, sample(h)
  PROVE  IInv'
<1> USE DEF IInv
<1>1. PICK raw \in Samples(h) :
        /\ faults' = IF raw < time - 1 THEN faults + 1 ELSE faults
        /\ \E ticks \in {Greatest(raw, geometry.origin)} :
             IF Discontinuous(reader[h].prior, raw) \/ elapsed_ns(geometry, ticks) = OutOfRange
             THEN failed' = TRUE /\ Refuse(h)
             ELSE /\ reader' = [reader EXCEPT ![h].at = "ticks", ![h].ticks = ticks,
                                              ![h].ns = elapsed_ns(geometry, ticks)]
                  /\ UNCHANGED <<failed, lost>>
  BY DEF sample
<1> DEFINE ticks == Greatest(raw, geometry.origin)
           ns == elapsed_ns(geometry, ticks)
<1>2. UNCHANGED <<geometry, time, high_ticks, high_ns, best>> BY DEF sample
<1>3. geometry \in Geometries /\ geometry.origin \in 0 .. Top - 1 BY GeometryParts DEF TypeInv
<1>4. raw \in Nat /\ raw <= time BY DEF Samples, Greatest, TypeInv
<1>5. ticks \in Nat /\ ticks <= time /\ geometry.origin <= ticks BY <1>3, <1>4 DEF Greatest, TypeInv, MarksInv
<1>6. ns \in Int BY <1>3, <1>5, ElapsedType
<1>7. faults' \in Nat /\ faults <= faults' BY <1>1 DEF TypeInv
<1> HIDE DEF ticks, ns
<1>8. CASE Discontinuous(reader[h].prior, raw) \/ ns = OutOfRange
  <2>1. failed' = TRUE /\ lost' = TRUE /\ reader' = [reader EXCEPT ![h] = Idle]
    BY <1>1, <1>8 DEF Refuse, ticks, ns
  <2>2. TypeInv' BY <1>2, <1>7, <2>1, IdleReader DEF TypeInv
  <2>3. MarksInv' BY <1>2, <2>1, <2>2, IdleReader DEF TypeInv, MarksInv
  <2>4. NoFalseAlarm'
    <3>1. CASE ns = OutOfRange
      <4>1. elapsed_ns(geometry, time) = OutOfRange
        BY <1>3, <1>5, <3>1, ElapsedMonotone DEF TypeInv, MarksInv, ns
      <4>. QED BY <1>2, <4>1 DEF NoFalseAlarm
    <3>2. CASE Discontinuous(reader[h].prior, raw)
      <4>1. reader[h].prior \in Nat /\ reader[h].prior <= time BY DEF TypeInv, MarksInv, Reader
      <4>2. raw < time - 1 BY <1>4, <3>2, <4>1 DEF Discontinuous, TypeInv
      <4>. QED BY <1>1, <4>2 DEF NoFalseAlarm, TypeInv
    <3>. QED BY <1>8, <3>1, <3>2
  <2>. QED BY <2>2, <2>3, <2>4
<1>9. CASE ~(Discontinuous(reader[h].prior, raw) \/ ns = OutOfRange)
  <2>1. /\ reader' = [reader EXCEPT ![h].at = "ticks", ![h].ticks = ticks, ![h].ns = ns]
        /\ failed' = failed /\ lost' = lost
    BY <1>1, <1>9 DEF ticks, ns
  <2> DEFINE r == [reader[h] EXCEPT !.at = "ticks", !.ticks = ticks, !.ns = ns]
  <2>a. r \in Reader BY <1>5, <1>6 DEF TypeInv, Reader
  <2>b. reader' = [reader EXCEPT ![h] = r] BY <2>1 DEF TypeInv, Reader
  <2>2. TypeInv'
    <3>1. reader' \in [Hart -> Reader] BY <2>a, <2>b DEF TypeInv
    <3>. QED BY <1>2, <1>7, <2>1, <3>1 DEF TypeInv
  <2>3. MarksInv' BY <1>2, <1>5, <2>1, <2>2 DEF TypeInv, MarksInv, Reader
  <2>4. NoFalseAlarm' BY <1>2, <1>7, <2>1 DEF NoFalseAlarm, TypeInv
  <2>. QED BY <2>2, <2>3, <2>4
<1>. QED BY <1>8, <1>9

LEMMA Inductive == ASSUME Admissible, IInv, [Next]_vars PROVE IInv'
<1> USE DEF IInv
<1>1. CASE tick
  <2>1. TypeInv' BY <1>1 DEF tick, TypeInv
  <2>a. geometry.origin \in Nat BY GeometryParts DEF TypeInv, Admissible
  <2>2. MarksInv' BY <1>1, <2>1, <2>a DEF tick, TypeInv, MarksInv, Reader, Admissible
  <2>3. NoFalseAlarm'
    <3>1. geometry \in Geometries /\ time' \in Nat /\ time <= time' /\ time' <= Top /\ geometry.origin <= time
      BY <1>1, <2>2 DEF tick, TypeInv, MarksInv
    <3>2. elapsed_ns(geometry, time) = OutOfRange => elapsed_ns(geometry, time') = OutOfRange
      BY <3>1, ElapsedMonotone DEF TypeInv
    <3>. QED BY <1>1, <3>2 DEF NoFalseAlarm, tick
  <2>. QED BY <2>1, <2>2, <2>3
<1>2. ASSUME NEW h \in Hart, begin(h) PROVE IInv'
  <2> DEFINE r == IF failed THEN Idle ELSE [Idle EXCEPT !.at = "prior", !.floor = best, !.late = lost]
  <2>a. r \in Reader
    <3>1. CASE failed BY <3>1, IdleReader
    <3>2. CASE ~failed
      <4>1. r = [Idle EXCEPT !.at = "prior", !.floor = best, !.late = lost] BY <3>2
      <4>2. best \in Int /\ lost \in BOOLEAN BY DEF TypeInv
      <4> HIDE DEF r
      <4>. QED BY <4>1, <4>2, IdleReader DEF Reader
    <3>. QED BY <3>1, <3>2
  <2>b. /\ r.at \in {"idle", "prior"} /\ r.prior = 0 /\ r.ticks = 0 /\ r.floor \in {0, best}
        /\ r.late => lost /\ ~failed
    BY DEF Idle
  <2>c. reader' = [reader EXCEPT ![h] = r] /\ lost' \in BOOLEAN /\ (lost' => failed)
    BY <1>2 DEF begin, Refuse, TypeInv, MarksInv
  <2> HIDE DEF r
  <2>1. TypeInv' BY <1>2, <2>a, <2>c DEF begin, TypeInv
  <2>2. MarksInv' BY <1>2, <2>1, <2>a, <2>b, <2>c DEF begin, TypeInv, MarksInv
  <2>3. NoFalseAlarm' BY <1>2 DEF begin, NoFalseAlarm
  <2>. QED BY <2>1, <2>2, <2>3
<1>3. ASSUME NEW h \in Hart, load_prior(h) PROVE IInv'
  <2>1. TypeInv' BY <1>3 DEF load_prior, TypeInv, Reader
  <2>2. MarksInv' BY <1>3, <2>1 DEF load_prior, TypeInv, MarksInv, Reader
  <2>3. NoFalseAlarm' BY <1>3 DEF load_prior, NoFalseAlarm
  <2>. QED BY <2>1, <2>2, <2>3
<1>4. ASSUME NEW h \in Hart, publish_ticks(h) PROVE IInv'
  <2>1. TypeInv' BY <1>4 DEF publish_ticks, Step, Greatest, TypeInv, Reader
  <2>2. MarksInv' BY <1>4, <2>1 DEF publish_ticks, Step, Greatest, TypeInv, MarksInv, Reader
  <2>3. NoFalseAlarm' BY <1>4 DEF publish_ticks, NoFalseAlarm
  <2>. QED BY <2>1, <2>2, <2>3
<1>5. ASSUME NEW h \in Hart, publish_ns(h) PROVE IInv'
  <2> DEFINE n == Greatest(high_ns, reader[h].ns)
             r == [reader[h] EXCEPT !.at = "check", !.ns = n]
  <2>a. r \in Reader
    <3>1. n \in Int BY DEF Greatest, TypeInv, Reader
    <3> HIDE DEF n
    <3>. QED BY <3>1 DEF TypeInv, Reader
  <2>b. reader' = [reader EXCEPT ![h] = r] BY <1>5 DEF publish_ns, TypeInv, Reader
  <2>c. high_ns' \in Nat BY <1>5 DEF publish_ns, Greatest, TypeInv, Reader
  <2>1. TypeInv'
    <3>1. reader' \in [Hart -> Reader] BY <2>a, <2>b DEF TypeInv
    <3>. QED BY <1>5, <2>c, <3>1 DEF publish_ns, TypeInv
  <2>2. MarksInv' BY <1>5, <2>1 DEF publish_ns, Greatest, TypeInv, MarksInv, Reader
  <2>3. NoFalseAlarm' BY <1>5 DEF publish_ns, NoFalseAlarm
  <2>. QED BY <2>1, <2>2, <2>3
<1>6. ASSUME NEW h \in Hart, check(h) PROVE IInv'
  <2> DEFINE r == IF failed THEN Idle ELSE [reader[h] EXCEPT !.at = "done"]
  <2>a. r \in Reader BY IdleReader DEF TypeInv, Reader
  <2>c. reader' = [reader EXCEPT ![h] = r] /\ lost' \in BOOLEAN /\ (lost' => failed)
    BY <1>6 DEF check, Step, Refuse, TypeInv, MarksInv
  <2>1. TypeInv'
    <3>1. reader' \in [Hart -> Reader] BY <2>a, <2>c DEF TypeInv
    <3>. QED BY <1>6, <2>c, <3>1 DEF check, TypeInv
  <2>2. MarksInv' BY <1>6, <2>1, <2>c, IdleReader DEF check, TypeInv, MarksInv, Reader
  <2>3. NoFalseAlarm' BY <1>6 DEF check, NoFalseAlarm
  <2>. QED BY <2>1, <2>2, <2>3
<1>7. ASSUME NEW h \in Hart, returns(h) PROVE IInv'
  <2>1. TypeInv' BY <1>7 DEF returns, Greatest, TypeInv, Reader, Idle
  <2>2. MarksInv' BY <1>7, <2>1 DEF returns, Greatest, TypeInv, MarksInv, Reader, Idle
  <2>3. NoFalseAlarm' BY <1>7 DEF returns, NoFalseAlarm
  <2>. QED BY <2>1, <2>2, <2>3
<1>8. CASE UNCHANGED vars BY <1>8 DEF vars, TypeInv, MarksInv, NoFalseAlarm
<1>. QED BY <1>1, <1>2, <1>3, <1>4, <1>5, <1>6, <1>7, <1>8, Sampled DEF Next

LEMMA Invariance == Admissible => (Spec => []IInv)
<1> SUFFICES ASSUME Admissible PROVE Spec => []IInv OBVIOUS
<1>1. Init => IInv BY Initially
<1>2. IInv /\ [Next]_vars => IInv' BY Inductive
<1>. QED BY <1>1, <1>2, PTL DEF Spec

\* Two reads of which the first returned before the second began never go backwards, on any harts,
\* though neither the samples nor the two marks are published under a lock; and after a refusal no
\* read that begins later succeeds.
THEOREM ReadsAlwaysOrdered == Admissible => (Spec => []ReadsOrdered)
<1> SUFFICES ASSUME Admissible PROVE Spec => []ReadsOrdered OBVIOUS
<1>1. IInv => ReadsOrdered BY DEF IInv, TypeInv, MarksInv, ReadsOrdered, Reader
<1>. QED BY <1>1, Invariance, PTL

\* The clock latches its failure only for a counter that has really fallen behind, or at the end of the
\* epoch it can express: the skew of one tick between harts never does it.
THEOREM NeverFalseAlarm == Admissible => (Spec => []NoFalseAlarm)
<1> SUFFICES ASSUME Admissible PROVE Spec => []NoFalseAlarm OBVIOUS
<1>1. IInv => NoFalseAlarm BY DEF IInv
<1>. QED BY <1>1, Invariance, PTL

\* Every deadline up to the max_ns that ClockGeometry::new computes is rounded up to a tick that can be
\* read and programmed, is not before the deadline, and is the first such tick: no rounding of the
\* two conversions, and neither end of u64, comes between them.
THEOREM DeadlinesAlwaysReadable == Admissible => (Spec => []DeadlinesReadable)
<1> SUFFICES ASSUME Admissible PROVE Spec => []DeadlinesReadable OBVIOUS
<1>1. IInv => DeadlinesReadable BY Deadline DEF IInv, TypeInv, DeadlinesReadable
<1>. QED BY <1>1, Invariance, PTL
=============================================================================
