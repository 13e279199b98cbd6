-------------------------- MODULE CostLedgerProofs --------------------------
(***************************************************************************)
(* Proofs about CostLedger, for any requests, prices, time zones, page     *)
(* sizes and moments: which moments a report covers, what a prune may take,*)
(* that a reader who walks the pages misses nothing, what a row costs, and *)
(* that the reports add up to the same.                                    *)
(***************************************************************************)
EXTENDS CostLedger, FiniteSetTheorems, NaturalsInduction, WellFoundedInduction, TLAPS

-----------------------------------------------------------------------------
(* Induction and sums *)

\* A set of numbers has a least one.
LEMMA LeastOf ==
  ASSUME NEW S \in SUBSET Nat, S # {}
  PROVE  \E i \in S : \A j \in S : i <= j
<1> DEFINE R == OpToRel(<, Nat)
<1>1. PICK i \in S : \A j \in S : ~(<<j, i>> \in R)
  BY NatLessThanWellFounded, WFMin
<1>2. \A j \in S : ~(j < i)
  BY <1>1 DEF OpToRel
<1> QED
  BY <1>2

\* Any set of numbers with 0 that is closed under the successor has them all:
\* induction, for a property given as a set.
LEMMA InductionSet ==
  ASSUME NEW P \in SUBSET Nat, 0 \in P, \A n \in P : n + 1 \in P
  PROVE  P = Nat
<1> SUFFICES ASSUME Nat \ P # {} PROVE FALSE
  OBVIOUS
<1>1. PICK i \in Nat \ P : \A j \in Nat \ P : i <= j
  BY LeastOf
<1>2. i - 1 \in P
  BY <1>1
<1> QED
  BY <1>1, <1>2

-----------------------------------------------------------------------------

OneOf(s) == CHOOSE x \in s : TRUE

\* h sums up fun over the sets in L as the library's fold does.
Solution(h, fun, L) ==
  h = [s \in L |-> IF s = {} THEN 0 ELSE fun[OneOf(s)] + h[s \ {OneOf(s)}]]

SumsUp(h, fun, S) == Solution(h, fun, SUBSET S)

LEMMA SumIs ==
  ASSUME NEW fun, NEW S
  PROVE  SumFunctionOnSet(fun, S) = (CHOOSE h : SumsUp(h, fun, S))[S]
  BY DEF SumFunctionOnSet, FoldFunctionOnSet, MapThenFoldSet, SumsUp, Solution, OneOf

LEMMA OneIn == ASSUME NEW s, s # {} PROVE OneOf(s) \in s
  BY DEF OneOf

\* Taking an element out of a finite set.
LEMMA Smaller ==
  ASSUME NEW S, IsFiniteSet(S), NEW x \in S
  PROVE  /\ IsFiniteSet(S \ {x}) /\ Cardinality(S) \in Nat /\ Cardinality(S) # 0
         /\ Cardinality(S \ {x}) = Cardinality(S) - 1
  BY FS_RemoveElement, FS_CardinalityType, FS_EmptySet

\* Of some subsets of a finite set one has the fewest elements.
LEMMA FewestOf ==
  ASSUME NEW S, IsFiniteSet(S), NEW Bad \in SUBSET (SUBSET S), Bad # {}
  PROVE  \E s \in Bad : IsFiniteSet(s) /\ \A x \in s : s \ {x} \notin Bad
<1> DEFINE Sizes == {Cardinality(s) : s \in Bad}
<1>1. \A s \in Bad : IsFiniteSet(s) /\ Cardinality(s) \in Nat
  BY FS_Subset, FS_CardinalityType
<1>2. Sizes \in SUBSET Nat /\ Sizes # {}
  BY <1>1
<1>3. PICK n \in Sizes : \A m \in Sizes : n <= m
  <2> HIDE DEF Sizes
  <2> QED
    BY <1>2, LeastOf
<1>4. PICK s \in Bad : Cardinality(s) = n
  OBVIOUS
<1>5. ASSUME NEW x \in s PROVE s \ {x} \notin Bad
  <2>1. Cardinality(s \ {x}) = n - 1 /\ n \in Nat
    BY <1>1, <1>4, Smaller
  <2> QED
    BY <1>3, <2>1
<1> QED
  BY <1>1, <1>5

\* Finite sets have a sum: a solution up to n elements gives one up to n + 1.
LEMMA SolutionExists ==
  ASSUME NEW fun, NEW S, IsFiniteSet(S)
  PROVE  \E h : SumsUp(h, fun, S)
<1> DEFINE Layer(n) == {s \in SUBSET S : Cardinality(s) <= n}
           P == {n \in Nat : \E h : Solution(h, fun, Layer(n))}
<1>1. \A s \in SUBSET S : IsFiniteSet(s) /\ Cardinality(s) \in Nat
  BY FS_Subset, FS_CardinalityType
<1>2. 0 \in P
  <2> DEFINE h == [s \in Layer(0) |-> 0]
  <2>1. \A s \in Layer(0) : s = {}
    BY <1>1, FS_EmptySet
  <2>2. Solution(h, fun, Layer(0))
    BY <2>1 DEF Solution
  <2> QED
    BY <2>2
<1>3. ASSUME NEW n \in P PROVE n + 1 \in P
  <2>1. PICK h : Solution(h, fun, Layer(n))
    OBVIOUS
  <2> DEFINE g == [s \in Layer(n + 1) |-> IF s = {} THEN 0
                                          ELSE fun[OneOf(s)] + h[s \ {OneOf(s)}]]
  <2>2. ASSUME NEW s \in Layer(n + 1), s # {} PROVE s \ {OneOf(s)} \in Layer(n)
    <3>1. Cardinality(s \ {OneOf(s)}) = Cardinality(s) - 1 /\ Cardinality(s) \in Nat
      BY <1>1, <2>2, OneIn, Smaller
    <3> QED
      BY <2>2, <3>1
  <2>3. ASSUME NEW s \in Layer(n) PROVE s \in Layer(n + 1) /\ g[s] = h[s]
    <3>1. s \in Layer(n + 1)
      BY <1>1
    <3>2. h[s] = IF s = {} THEN 0 ELSE fun[OneOf(s)] + h[s \ {OneOf(s)}]
      BY <2>1 DEF Solution
    <3> QED
      BY <3>1, <3>2
  <2>4. \A s \in Layer(n + 1) : s # {} => g[s \ {OneOf(s)}] = h[s \ {OneOf(s)}]
    BY <2>2, <2>3
  <2> HIDE DEF Layer
  <2>5. g = [s \in Layer(n + 1) |-> IF s = {} THEN 0 ELSE fun[OneOf(s)] + g[s \ {OneOf(s)}]]
    BY <2>4
  <2>6. Solution(g, fun, Layer(n + 1))
    BY <2>5 DEF Solution
  <2> QED
    BY <2>6
<1>4. Cardinality(S) \in P
  <2> HIDE DEF P
  <2>1. P \in SUBSET Nat
    BY DEF P
  <2> QED
    BY <1>1, <1>2, <1>3, <2>1, InductionSet
<1>5. Layer(Cardinality(S)) = SUBSET S
  BY FS_Subset
<1> QED
  BY <1>4, <1>5 DEF SumsUp

\* The sum of a set does not depend on the set it is seen as a part of.
LEMMA SolutionUnique ==
  ASSUME NEW fun, NEW S, NEW T, NEW g, NEW h, IsFiniteSet(S), T \subseteq S,
         SumsUp(g, fun, S), SumsUp(h, fun, T)
  PROVE  \A s \in SUBSET T : g[s] = h[s]
<1> DEFINE Bad == {s \in SUBSET T : g[s] # h[s]}
<1> SUFFICES ASSUME Bad # {} PROVE FALSE
  OBVIOUS
<1>1. IsFiniteSet(T)
  BY FS_Subset
<1>2. PICK s \in Bad : \A x \in s : s \ {x} \notin Bad
  <2>1. Bad \in SUBSET (SUBSET T)
    OBVIOUS
  <2> HIDE DEF Bad
  <2> QED
    BY <1>1, <2>1, FewestOf
<1>3. g[s] = IF s = {} THEN 0 ELSE fun[OneOf(s)] + g[s \ {OneOf(s)}]
  BY DEF SumsUp, Solution
<1>4. h[s] = IF s = {} THEN 0 ELSE fun[OneOf(s)] + h[s \ {OneOf(s)}]
  BY DEF SumsUp, Solution
<1>5. s # {}
  BY <1>3, <1>4
<1>6. g[s \ {OneOf(s)}] = h[s \ {OneOf(s)}]
  BY <1>2, <1>5, OneIn
<1> QED
  BY <1>3, <1>4, <1>5, <1>6

\* SumFunctionOnSet, step by step.
LEMMA SumStep ==
  ASSUME NEW fun, NEW S, IsFiniteSet(S)
  PROVE  SumFunctionOnSet(fun, S) =
           IF S = {} THEN 0 ELSE fun[OneOf(S)] + SumFunctionOnSet(fun, S \ {OneOf(S)})
<1>1. ASSUME NEW T, IsFiniteSet(T)
      PROVE  \E h : SumsUp(h, fun, T) /\ SumFunctionOnSet(fun, T) = h[T]
  BY <1>1, SolutionExists, SumIs
<1>2. PICK T : T = S \ {OneOf(S)}
  OBVIOUS
<1>3. T \subseteq S /\ T \in SUBSET T /\ S \in SUBSET S /\ IsFiniteSet(T)
  BY <1>2, FS_Subset
<1>4. PICK g : SumsUp(g, fun, S) /\ SumFunctionOnSet(fun, S) = g[S]
  BY <1>1
<1>5. PICK h : SumsUp(h, fun, T) /\ SumFunctionOnSet(fun, T) = h[T]
  BY <1>1, <1>3
<1>6. g[S] = IF S = {} THEN 0 ELSE fun[OneOf(S)] + g[T]
  BY <1>2, <1>3, <1>4 DEF SumsUp, Solution
<1>7. \A s \in SUBSET T : g[s] = h[s]
  BY <1>3, <1>4, <1>5, SolutionUnique
<1>8. g[T] = h[T]
  BY <1>3, <1>7
<1> QED
  BY <1>2, <1>4, <1>5, <1>6, <1>8

IntOn(fun, S) == \A x \in S : fun[x] \in Int

\* A sum is a number, and any element can be added last.
LEMMA SumOver ==
  ASSUME NEW fun, NEW S, IsFiniteSet(S), IntOn(fun, S)
  PROVE  /\ SumFunctionOnSet(fun, S) \in Int
         /\ SumFunctionOnSet(fun, {}) = 0
         /\ \A x \in S : SumFunctionOnSet(fun, S) = fun[x] + SumFunctionOnSet(fun, S \ {x})
<1> DEFINE F(s) == SumFunctionOnSet(fun, s)
<1>1. \A s \in SUBSET S : IsFiniteSet(s) /\ Cardinality(s) \in Nat
  BY FS_Subset, FS_CardinalityType
<1>2. \A s \in SUBSET S : F(s) = IF s = {} THEN 0 ELSE fun[OneOf(s)] + F(s \ {OneOf(s)})
  BY <1>1, SumStep
<1> HIDE DEF F
<1>3. \A s \in SUBSET S : F(s) \in Int
  <2> DEFINE Bad == {s \in SUBSET S : F(s) \notin Int}
  <2> SUFFICES ASSUME Bad # {} PROVE FALSE
    OBVIOUS
  <2>1. PICK s \in Bad : \A x \in s : s \ {x} \notin Bad
    <3>1. Bad \in SUBSET (SUBSET S)
      OBVIOUS
    <3> HIDE DEF Bad
    <3> QED
      BY <3>1, FewestOf
  <2>2. s # {} /\ OneOf(s) \in s
    BY <1>2, OneIn
  <2>3. F(s \ {OneOf(s)}) \in Int
    BY <2>1, <2>2
  <2> QED
    BY <1>2, <2>2, <2>3 DEF IntOn
<1>4. \A s \in SUBSET S : \A x \in s : F(s) = fun[x] + F(s \ {x})
  <2> DEFINE Bad == {s \in SUBSET S : \E x \in s : F(s) # fun[x] + F(s \ {x})}
  <2> SUFFICES ASSUME Bad # {} PROVE FALSE
    OBVIOUS
  <2>1. PICK s \in Bad : \A x \in s : s \ {x} \notin Bad
    <3>1. Bad \in SUBSET (SUBSET S)
      OBVIOUS
    <3> HIDE DEF Bad
    <3> QED
      BY <3>1, FewestOf
  <2>2. PICK x \in s : F(s) # fun[x] + F(s \ {x})
    OBVIOUS
  <2>3. PICK y \in s : F(s) = fun[y] + F(s \ {y})
    BY <1>2, OneIn
  <2>4. x # y
    BY <2>2, <2>3
  <2>5. s \ {y} \in SUBSET S /\ s \ {x} \in SUBSET S
        /\ x \in s \ {y} /\ y \in s \ {x}
    BY <2>4
  <2>6. F(s \ {y}) = fun[x] + F((s \ {y}) \ {x})
    BY <2>1, <2>5
  <2>7. F(s \ {x}) = fun[y] + F((s \ {x}) \ {y})
    BY <2>1, <2>5
  <2>8. (s \ {x}) \ {y} = (s \ {y}) \ {x}
    OBVIOUS
  <2>9. F((s \ {y}) \ {x}) \in Int /\ fun[x] \in Int /\ fun[y] \in Int
    BY <1>3 DEF IntOn
  <2> QED
    BY <2>2, <2>3, <2>6, <2>7, <2>8, <2>9
<1> QED
  BY <1>2, <1>3, <1>4 DEF F

-----------------------------------------------------------------------------
(* Days and seconds *)

\* Products grow with their factors.
LEMMA Times ==
  ASSUME NEW d \in Nat, NEW a \in Int, NEW b \in Int, a <= b
  PROVE  d * a <= d * b /\ d * a \in Int /\ d * b \in Int
<1>1. (b - a) \in Nat
  OBVIOUS
<1>2. d * (b - a) \in Nat
  BY <1>1
<1>3. d * (b - a) = d * b - d * a
  OBVIOUS
<1> QED
  BY <1>2, <1>3

\* Quotient and remainder.
LEMMA DivMod ==
  ASSUME NEW x \in Int, NEW d \in Nat \ {0}
  PROVE  /\ x \div d \in Int /\ x % d \in 0..(d - 1) /\ d * (x \div d) \in Int
         /\ x = d * (x \div d) + (x % d)
  OBVIOUS

\* A moment is on a day or after it if it is not before its start.
LEMMA DivAtLeast ==
  ASSUME NEW x \in Int, NEW d \in Nat \ {0}, NEW k \in Int
  PROVE  x \div d >= k <=> x >= d * k
<1> DEFINE q == x \div d
<1>1. q \in Int /\ x % d \in 0..(d - 1) /\ x = d * q + (x % d)
  BY DivMod
<1> HIDE DEF q
<1>2. CASE q >= k
  <2>1. d * k <= d * q /\ d * k \in Int /\ d * q \in Int
    BY <1>1, <1>2, Times
  <2> QED
    BY <1>1, <1>2, <2>1 DEF q
<1>3. CASE q < k
  <2>1. d * (q + 1) <= d * k /\ d * (q + 1) \in Int /\ d * k \in Int
    BY <1>1, <1>3, Times
  <2>2. d * (q + 1) = d * q + d
    BY <1>1
  <2>3. d * q \in Int
    BY <1>1
  <2>4. x < d * k
    BY <1>1, <2>1, <2>2, <2>3
  <2> QED
    BY <1>1, <1>3, <2>1, <2>4 DEF q
<1> QED
  BY <1>1, <1>2, <1>3

\* The last multiple moves on with the clock.
LEMMA WholeGrows ==
  ASSUME NEW d \in Nat \ {0}, NEW t \in Int, NEW u \in Int, t <= u
  PROVE  /\ t - (t % d) \in Int /\ u - (u % d) \in Int
         /\ t - (t % d) <= u - (u % d)
<1>1. /\ t \div d \in Int /\ t % d \in 0..(d - 1)
      /\ t = d * (t \div d) + (t % d) /\ d * (t \div d) \in Int
  BY DivMod
<1>2. /\ u \div d \in Int /\ u % d \in 0..(d - 1)
      /\ u = d * (u \div d) + (u % d) /\ d * (u \div d) \in Int
  BY DivMod
<1>3. u >= d * (t \div d)
  BY <1>1
<1>4. u \div d >= t \div d
  BY <1>1, <1>3, DivAtLeast
<1>5. d * (t \div d) <= d * (u \div d)
  BY <1>1, <1>2, <1>4, Times
<1> QED
  BY <1>1, <1>2, <1>5

\* The units of time.
LEMMA Units ==
  /\ Day \in Nat \ {0} /\ Second \in Nat \ {0} /\ Second < Day
  /\ \A t \in Instants : t \in Nat
  BY TimeAssumption

\* An offset beyond the range of time zones is taken as its nearest end.
LEMMA ClampInt ==
  ASSUME NEW o \in Int
  PROVE  Clamp(o) \in Int
<1>1. \A a, b \in Int : Min({a, b}) \in Int
  <2> SUFFICES ASSUME NEW a \in Int, NEW b \in Int PROVE Min({a, b}) \in Int
    OBVIOUS
  <2>1. \E x \in {a, b} : \A y \in {a, b} : x <= y
    OBVIOUS
  <2> QED
    BY <2>1 DEF Min
<1>2. \A a, b \in Int : Max({a, b}) \in Int
  <2> SUFFICES ASSUME NEW a \in Int, NEW b \in Int PROVE Max({a, b}) \in Int
    OBVIOUS
  <2>1. \E x \in {a, b} : \A y \in {a, b} : x >= y
    OBVIOUS
  <2> QED
    BY <2>1 DEF Max
<1>3. -(Day \div 2) \in Int /\ (7 * Day) \div 12 \in Int
  BY Units
<1> QED
  BY <1>1, <1>2, <1>3 DEF Clamp

\* A range of local days begins with one.
LEMMA LocalStartIs ==
  ASSUME now \in Int, NEW days \in Nat \ {0}, NEW o \in Int
  PROVE  /\ LocalDay(now, o) \in Int /\ Clamp(o) \in Int
         /\ LocalStart(days, o) = Day * (LocalDay(now, o) - days + 1) - Clamp(o)
<1>1. Clamp(o) \in Int
  BY ClampInt
<1> DEFINE local == now + Clamp(o)
           q == local \div Day
<1>2. local \in Int
  BY <1>1
<1>3. q \in Int /\ (local % Day) \in Int /\ local = Day * q + (local % Day)
      /\ Day * q \in Int
  <2> HIDE DEF local
  <2>1. q \in Int /\ (local % Day) \in 0..(Day - 1) /\ local = Day * q + (local % Day)
        /\ Day * q \in Int
    BY <1>2, Units, DivMod
  <2> QED
    BY <2>1, Units
<1>4. LocalStart(days, o) = local - (local % Day) - (days - 1) * Day - Clamp(o)
  BY DEF LocalStart
<1> HIDE DEF q
<1>5. (days - 1) * Day \in Int
  BY Units
<1>6. Day * (q - days + 1) = Day * q - (days - 1) * Day
  BY <1>3, Units
<1>7. LocalDay(now, o) = q
  BY DEF LocalDay, q
<1> HIDE DEF local
<1> QED
  BY <1>1, <1>2, <1>3, <1>4, <1>5, <1>6, <1>7

\* The last whole second is at most a second ago, and moves on with the clock.
LEMMA TruncatedIs ==
  ASSUME NEW t \in Int
  PROVE  Truncated(t) \in Int /\ Truncated(t) <= t /\ t < Truncated(t) + Second
  BY Units, DivMod DEF Truncated

LEMMA TruncatedGrows ==
  ASSUME NEW t \in Int, NEW u \in Int, t <= u
  PROVE  Truncated(t) <= Truncated(u)
  BY Units, WholeGrows DEF Truncated

\* The range of a report ends with the last whole second and starts where it
\* should; with the clock both ends move on.
Start(days, tz) == compute_time_range(days, tz).start

LEMMA RangeIs ==
  ASSUME NEW days, NEW tz
  PROVE  /\ compute_time_range(days, tz).end = Truncated(now)
         /\ Start(days, tz) = IF tz = UtcDays THEN Truncated(now) - days * Day
                              ELSE LocalStart(days, tz)
  BY DEF compute_time_range, Start

-----------------------------------------------------------------------------
(* What a report covers *)

\* The clock shows one of the moments.
ClockOK == now \in Instants

LEMMA InitClock == Init => ClockOK
<1> SUFFICES ASSUME Init PROVE ClockOK
  OBVIOUS
<1>1. \E i \in Instants : \A j \in Instants : i <= j
  BY TimeAssumption, LeastOf
<1> QED
  BY <1>1 DEF Init, ClockOK, Min

\* Time moves on to the next moment.
LEMMA TickForward ==
  ASSUME ClockOK, Tick
  PROVE  ClockOK' /\ now' > now
<1> DEFINE later == {t \in Instants : t > now}
<1>1. later # {}
  <2> SUFFICES ASSUME \A t \in Instants : ~(t > now) PROVE FALSE
    OBVIOUS
  <2>1. \A t \in Instants : now >= t
    BY Units DEF ClockOK
  <2>2. /\ Max(Instants) \in Instants /\ \A t \in Instants : Max(Instants) >= t
    BY <2>1 DEF Max, ClockOK
  <2>3. Max(Instants) = now
    BY <2>1, <2>2, Units DEF ClockOK
  <2> QED
    BY <2>3 DEF Tick
<1>2. \E i \in later : \A j \in later : i <= j
  <2>1. later \in SUBSET Nat
    BY Units
  <2> HIDE DEF later
  <2> QED
    BY <1>1, <2>1, LeastOf
<1>3. Min(later) \in later
  BY <1>2 DEF Min
<1>4. now' = Min(later)
  BY DEF Tick
<1> QED
  BY <1>3, <1>4 DEF ClockOK

LEMMA StepClock ==
  ASSUME ClockOK, [Next]_vars
  PROVE  ClockOK' /\ now' >= now
<1>1. now \in Nat
  BY Units DEF ClockOK
<1>2. CASE Tick
  <2>1. ClockOK' /\ now' > now
    BY <1>2, TickForward
  <2>2. now' \in Nat
    BY <2>1, Units DEF ClockOK
  <2> QED
    BY <1>1, <2>1, <2>2
<1>3. CASE ~Tick
  <2>1. now' = now
    BY <1>3 DEF Next, EditBilling, ReadPage, Prune, StartReading, Route, BuildRecord,
                InsertRecord, InsertFails, vars
  <2> QED
    BY <1>1, <2>1 DEF ClockOK
<1> QED
  BY <1>2, <1>3

LEMMA ClockRuns == Spec => []ClockOK
<1>1. Init => ClockOK
  BY InitClock
<1>2. ClockOK /\ [Next]_vars => ClockOK'
  BY StepClock
<1> QED
  BY <1>1, <1>2, PTL DEF Spec

\* compute_time_range: whatever the time zone, also one beyond the clamp, the range
\* of a calendar report holds exactly the moments on its local days whose second
\* is over.
THEOREM DaysReported == Spec => []CalendarRange
<1>1. ASSUME ClockOK PROVE CalendarRange
  <2> SUFFICES ASSUME NEW days \in DaysAsked \ {0}, NEW o \in Offsets, NEW t \in Instants
               PROVE  InRange([at |-> t], compute_time_range(days, o)) <=>
                        /\ LocalDay(t, o) >= LocalDay(now, o) - days + 1
                        /\ t < Truncated(now)
    BY DEF CalendarRange
  <2>1. /\ now \in Int /\ t \in Int /\ days \in Nat \ {0} /\ o \in Int /\ o # UtcDays
    BY <1>1, Units, TimeAssumption DEF ClockOK
  <2>2. /\ LocalDay(now, o) \in Int /\ Clamp(o) \in Int
        /\ LocalStart(days, o) = Day * (LocalDay(now, o) - days + 1) - Clamp(o)
    BY <2>1, LocalStartIs
  <2> DEFINE k == LocalDay(now, o) - days + 1
  <2>3. k \in Int /\ Day * k \in Int
    BY <2>1, <2>2, Units
  <2>4. (t + Clamp(o)) \div Day >= k <=> t + Clamp(o) >= Day * k
    BY <2>1, <2>2, <2>3, Units, DivAtLeast
  <2>5. LocalDay(t, o) >= k <=> LocalStart(days, o) <= t
    <3>1. LocalDay(t, o) = (t + Clamp(o)) \div Day
      BY DEF LocalDay
    <3>2. LocalStart(days, o) = Day * k - Clamp(o)
      BY <2>2
    <3> HIDE DEF k
    <3> QED
      BY <2>1, <2>2, <2>3, <2>4, <3>1, <3>2
  <2>6. /\ compute_time_range(days, o).start = LocalStart(days, o)
        /\ compute_time_range(days, o).end = Truncated(now)
    BY <2>1 DEF compute_time_range
  <2> QED
    BY <2>5, <2>6 DEF InRange
<1> QED
  BY <1>1, ClockRuns, PTL

-----------------------------------------------------------------------------
(* The rows of the table *)

Stamped(r) == req[r].pc \in {"stamped", "recorded", "lost"}

\* Every row is the record of a request that was stamped, no two at one moment.
Books ==
  /\ req = [r \in Requests |-> [pc |-> req[r].pc, pricing |-> req[r].pricing,
                                cost |-> req[r].cost, at |-> req[r].at]]
  /\ \A r \in Requests : IF Stamped(r) THEN req[r].at \in Instants ELSE req[r].at = NoTime
  /\ \A r, s \in Requests : Stamped(r) /\ req[r].at = req[s].at => r = s
  /\ IsFiniteSet(table)
  /\ \A row \in table : /\ row.id \in Requests /\ req[row.id].pc = "recorded"
                        /\ row = Row(row.id)

LEMMA InitBooks == Init => Books
<1> SUFFICES ASSUME Init PROVE Books
  OBVIOUS
<1>1. /\ req = [r \in Requests |-> NotAsked] /\ table = {}
      /\ NotAsked.pc = "idle" /\ NotAsked.at = NoTime
  BY DEF Init, NotAsked
<1>2. NotAsked = [pc |-> NotAsked.pc, pricing |-> NotAsked.pricing,
                  cost |-> NotAsked.cost, at |-> NotAsked.at]
  BY DEF NotAsked
<1> HIDE DEF NotAsked
<1>3. req = [r \in Requests |-> [pc |-> req[r].pc, pricing |-> req[r].pricing,
                                 cost |-> req[r].cost, at |-> req[r].at]]
  BY <1>1, <1>2
<1>4. \A r \in Requests : ~Stamped(r) /\ req[r].at = NoTime
  BY <1>1 DEF Stamped
<1> QED
  BY <1>1, <1>3, <1>4, FS_EmptySet DEF Books

\* A request that moves on, and is not recorded yet or leaves its row alone.
LEMMA RequestMoves ==
  ASSUME Books, NEW r \in Requests, req[r].pc # "recorded", NEW q,
         req' = [s \in Requests |-> IF s = r THEN q ELSE req[s]],
         q = [pc |-> q.pc, pricing |-> q.pricing, cost |-> q.cost, at |-> q.at],
         IF q.pc \in {"stamped", "recorded", "lost"} THEN q.at \in Instants ELSE q.at = NoTime,
         Stamped(r) => q.at = req[r].at /\ q.pc \in {"stamped", "recorded", "lost"},
         ~Stamped(r) /\ q.at # NoTime => \A s \in Requests : req[s].at # q.at,
         table' \subseteq table
         \/ /\ q.pc = "recorded"
            /\ table' = table \cup {Row(r)'}
  PROVE  Books'
<1>4. req = [s \in Requests |-> [pc |-> req[s].pc, pricing |-> req[s].pricing,
                                 cost |-> req[s].cost, at |-> req[s].at]]
  BY DEF Books
<1>5. req'[r] = q /\ \A s \in Requests \ {r} : req'[s] = req[s]
  BY <1>4
<1>6. req' = [s \in Requests |-> [pc |-> req'[s].pc, pricing |-> req'[s].pricing,
                                  cost |-> req'[s].cost, at |-> req'[s].at]]
  <2>1. \A s \in Requests : req[s] = [pc |-> req[s].pc, pricing |-> req[s].pricing,
                                      cost |-> req[s].cost, at |-> req[s].at]
    BY <1>4
  <2>2. \A s \in Requests : req'[s] = [pc |-> req'[s].pc, pricing |-> req'[s].pricing,
                                       cost |-> req'[s].cost, at |-> req'[s].at]
    BY <1>5, <2>1
  <2>3. req' = [s \in Requests |-> req'[s]]
    OBVIOUS
  <2> QED
    BY <2>2, <2>3
<1>7. \A s \in Requests : IF Stamped(s)' THEN req'[s].at \in Instants ELSE req'[s].at = NoTime
  BY <1>5 DEF Books, Stamped
<1>8. ASSUME NEW s \in Requests, NEW t \in Requests, Stamped(s)', req'[s].at = req'[t].at
      PROVE  s = t
  <2>1. NoTime \notin Instants
    BY Units DEF NoTime
  <2>2. CASE s # r /\ t # r
    BY <1>5, <1>8, <2>2 DEF Books, Stamped
  <2>3. CASE s = r \/ t = r
    BY <1>5, <1>7, <1>8, <2>1, <2>3 DEF Books, Stamped
  <2> QED
    BY <2>2, <2>3
<1>9. ASSUME NEW row \in table
      PROVE  row.id \in Requests /\ req'[row.id].pc = "recorded" /\ row = Row(row.id)'
  <2>1. row.id \in Requests /\ req[row.id].pc = "recorded" /\ row = Row(row.id)
    BY DEF Books
  <2>2. req'[row.id] = req[row.id]
    BY <1>5, <2>1
  <2> QED
    BY <2>1, <2>2 DEF Row
<1>10. IsFiniteSet(table')
  BY FS_Subset, FS_AddElement DEF Books
<1>11. ASSUME NEW row \in table'
       PROVE  row.id \in Requests /\ req'[row.id].pc = "recorded" /\ row = Row(row.id)'
  <2>1. CASE row \in table
    BY <1>9, <2>1
  <2>2. CASE row \notin table
    <3>1. row = Row(r)' /\ q.pc = "recorded"
      BY <1>11, <2>2
    <3>2. row.id = r
      BY <3>1 DEF Row
    <3> QED
      BY <1>5, <3>1, <3>2
  <2> QED
    BY <2>1, <2>2
<1> QED
  BY <1>6, <1>7, <1>8, <1>10, <1>11 DEF Books

\* A request's record after it is routed.
LEMMA RoutedIs ==
  ASSUME NEW q, q = [pc |-> q.pc, pricing |-> q.pricing, cost |-> q.cost, at |-> q.at], NEW e
  PROVE  [q EXCEPT !.pc = "routed", !.pricing = e]
         = [pc |-> "routed", pricing |-> e, cost |-> q.cost, at |-> q.at]
<1>1. PICK q1 : q1 = [q EXCEPT !.pc = "routed"]
  OBVIOUS
<1>2. q1 = [pc |-> "routed", pricing |-> q.pricing, cost |-> q.cost, at |-> q.at]
  BY <1>1
<1>3. [q EXCEPT !.pc = "routed", !.pricing = e] = [q1 EXCEPT !.pricing = e]
  BY <1>1
<1> QED
  BY <1>2, <1>3

\* Every step keeps the books.
LEMMA StepBooks ==
  ASSUME ClockOK, Books, [Next]_vars
  PROVE  Books'
<1>1. ASSUME req' = req, table' \subseteq table PROVE Books'
  <2>1. IsFiniteSet(table')
    BY <1>1, FS_Subset DEF Books
  <2>2. \A row \in table : Row(row.id)' = Row(row.id)
    BY <1>1 DEF Row
  <2> QED
    BY <1>1, <2>1, <2>2 DEF Books, Stamped
<1>2. CASE Tick \/ EditBilling \/ ReadPage \/ UNCHANGED vars
  BY <1>1, <1>2 DEF Tick, EditBilling, ReadPage, vars
<1>3. ASSUME NEW days, Prune(days) \/ \E way \in Readers, tz \in Offsets \cup {UtcDays} :
                                          StartReading(way, days, tz)
      PROVE  Books'
  BY <1>1, <1>3 DEF Prune, StartReading
<1>4. ASSUME NEW r \in Requests,
             Route(r) \/ BuildRecord(r) \/ InsertRecord(r) \/ InsertFails(r)
      PROVE  Books'
  <2>1. /\ req = [s \in Requests |-> req[s]]
        /\ req[r] = [pc |-> req[r].pc, pricing |-> req[r].pricing,
                     cost |-> req[r].cost, at |-> req[r].at]
        /\ IF Stamped(r) THEN req[r].at \in Instants ELSE req[r].at = NoTime
    BY DEF Books
  <2>2. CASE Route(r)
    <3>1. /\ req[r].pc = "idle" /\ table' = table
          /\ req' = [req EXCEPT ![r] = [@ EXCEPT !.pc = "routed", !.pricing = Head(editions)]]
      BY <2>2 DEF Route
    <3>2. PICK q : q = [pc |-> "routed", pricing |-> Head(editions), cost |-> req[r].cost,
                        at |-> req[r].at]
      OBVIOUS
    <3>3. req' = [s \in Requests |-> IF s = r THEN q ELSE req[s]]
      <4>1. [req[r] EXCEPT !.pc = "routed", !.pricing = Head(editions)] = q
        BY <2>1, <3>2, RoutedIs
      <4>2. req' = [req EXCEPT ![r] = q]
        BY <3>1, <4>1
      <4> QED
        BY <2>1, <4>2
    <3>4. /\ q.pc = "routed" /\ q.at = req[r].at
          /\ q = [pc |-> q.pc, pricing |-> q.pricing, cost |-> q.cost, at |-> q.at]
      BY <3>2
    <3>5. ~Stamped(r) /\ q.at = NoTime /\ ~(q.pc \in {"stamped", "recorded", "lost"})
      BY <2>1, <3>1, <3>4 DEF Stamped
    <3> QED
      BY <3>1, <3>3, <3>4, <3>5, RequestMoves
  <2>3. CASE BuildRecord(r)
    <3>1. /\ req[r].pc = "routed" /\ table' = table /\ \A s \in Requests : req[s].at # now
          /\ req' = [req EXCEPT ![r] = [@ EXCEPT !.pc = "stamped", !.at = now,
                                          !.cost = Cost(Asks[r].usage, req[r].pricing)]]
      BY <2>3 DEF BuildRecord
    <3>2. PICK q : q = [pc |-> "stamped", pricing |-> req[r].pricing, 
                        cost |-> Cost(Asks[r].usage, req[r].pricing), at |-> now]
      OBVIOUS
    <3>3. req' = [s \in Requests |-> IF s = r THEN q ELSE req[s]]
      <4>1. [req[r] EXCEPT !.pc = "stamped", !.at = now,
                           !.cost = Cost(Asks[r].usage, req[r].pricing)] = q
        <5>1. PICK p, t, c : p = req[r] /\ t = now /\ c = Cost(Asks[r].usage, req[r].pricing)
          OBVIOUS
        <5>2. p = [pc |-> p.pc, pricing |-> p.pricing, cost |-> p.cost, at |-> p.at]
          BY <2>1, <5>1
        <5>3. [p EXCEPT !.pc = "stamped", !.at = t, !.cost = c]
              = [pc |-> "stamped", pricing |-> p.pricing, cost |-> c, at |-> t]
          <6>1. PICK p1 : p1 = [p EXCEPT !.pc = "stamped"]
            OBVIOUS
          <6>2. p1 = [pc |-> "stamped", pricing |-> p.pricing, cost |-> p.cost, at |-> p.at]
            BY <5>2, <6>1
          <6>3. PICK p2 : p2 = [p1 EXCEPT !.at = t]
            OBVIOUS
          <6>4. p2 = [pc |-> "stamped", pricing |-> p.pricing, cost |-> p.cost, at |-> t]
            BY <6>2, <6>3
          <6>5. [p EXCEPT !.pc = "stamped", !.at = t, !.cost = c] = [p2 EXCEPT !.cost = c]
            BY <6>1, <6>3
          <6> QED
            BY <6>4, <6>5
        <5> QED
          BY <3>2, <5>1, <5>3
      <4>2. req' = [req EXCEPT ![r] = q]
        BY <3>1, <4>1
      <4> QED
        BY <2>1, <4>2
    <3>4. /\ q.pc = "stamped" /\ q.at = now
          /\ q = [pc |-> q.pc, pricing |-> q.pricing, cost |-> q.cost, at |-> q.at]
      BY <3>2
    <3> QED
      BY <2>1, <3>1, <3>3, <3>4, RequestMoves DEF Stamped, ClockOK
  <2>4. CASE InsertRecord(r)
    <3>1. /\ req[r].pc = "stamped" /\ table' = table \cup {Row(r)}
          /\ req' = [req EXCEPT ![r].pc = "recorded"]
      BY <2>4 DEF InsertRecord
    <3>2. PICK q : q = [pc |-> "recorded", pricing |-> req[r].pricing, cost |-> req[r].cost,
                        at |-> req[r].at]
      OBVIOUS
    <3>3. req' = [s \in Requests |-> IF s = r THEN q ELSE req[s]]
      BY <2>1, <3>1, <3>2
    <3>4. /\ q.pc = "recorded" /\ q.at = req[r].at
          /\ q = [pc |-> q.pc, pricing |-> q.pricing, cost |-> q.cost, at |-> q.at]
      BY <3>2
    <3>5. Row(r)' = Row(r)
      <4>1. req'[r] = q
        BY <3>3
      <4>2. q.pricing = req[r].pricing /\ q.cost = req[r].cost /\ q.at = req[r].at
        BY <3>2
      <4> QED
        BY <4>1, <4>2 DEF Row
    <3> QED
      BY <2>1, <3>1, <3>3, <3>4, <3>5, RequestMoves DEF Stamped
  <2>5. CASE InsertFails(r)
    <3>1. /\ req[r].pc = "stamped" /\ table' = table
          /\ req' = [req EXCEPT ![r].pc = "lost"]
      BY <2>5 DEF InsertFails
    <3>2. PICK q : q = [pc |-> "lost", pricing |-> req[r].pricing, cost |-> req[r].cost,
                        at |-> req[r].at]
      OBVIOUS
    <3>3. req' = [s \in Requests |-> IF s = r THEN q ELSE req[s]]
      BY <2>1, <3>1, <3>2
    <3>4. /\ q.pc = "lost" /\ q.at = req[r].at
          /\ q = [pc |-> q.pc, pricing |-> q.pricing, cost |-> q.cost, at |-> q.at]
      BY <3>2
    <3> QED
      BY <2>1, <3>1, <3>3, <3>4, RequestMoves DEF Stamped
  <2> QED
    BY <1>4, <2>2, <2>3, <2>4, <2>5
<1> QED
  BY <1>2, <1>3, <1>4 DEF Next

LEMMA BooksKept == Spec => []Books
<1>1. Init => Books
  BY InitBooks
<1>2. ClockOK /\ Books /\ [Next]_vars => Books'
  BY StepBooks
<1> QED
  BY <1>1, <1>2, ClockRuns, PTL DEF Spec

\* Rows have moments, and different rows different ones.
LEMMA RowMoments ==
  ASSUME Books
  PROVE  /\ \A row \in table : row.at \in Nat /\ row.id \in Requests /\ row.at = req[row.id].at
         /\ \A row, other \in table : row.at = other.at \/ row.id = other.id => row = other
<1>1. ASSUME NEW row \in table
      PROVE  /\ row.id \in Requests /\ row.at = req[row.id].at /\ Stamped(row.id)
             /\ row.at \in Nat /\ row = Row(row.id)
  <2>1. row.id \in Requests /\ req[row.id].pc = "recorded" /\ row = Row(row.id)
    BY DEF Books
  <2>2. Row(row.id).at = req[row.id].at
    BY DEF Row
  <2>3. row.at = req[row.id].at
    BY <2>1, <2>2
  <2>4. Stamped(row.id)
    BY <2>1 DEF Stamped
  <2> QED
    BY <2>1, <2>3, <2>4, Units DEF Books
<1>2. ASSUME NEW row \in table, NEW other \in table, row.at = other.at \/ row.id = other.id
      PROVE  row = other
  <2>1. row.id = other.id
    BY <1>1, <1>2 DEF Books
  <2> QED
    BY <1>1, <2>1
<1> QED
  BY <1>1, <1>2

-----------------------------------------------------------------------------
(* Pruning *)

\* A range of as many local days begins less than as many days ago, one of fewer
\* rolling days too.
LEMMA RangeInDays ==
  ASSUME now \in Int, NEW days \in Nat \ {0}
  PROVE  /\ days * Day \in Int
         /\ \A o \in Offsets : /\ Start(days, o) \in Int
                               /\ Start(days, o) > now - days * Day
         /\ Start(days - 1, UtcDays) \in Int
         /\ Start(days - 1, UtcDays) > now - days * Day
<1>1. /\ days * Day \in Int /\ (days - 1) * Day \in Int
      /\ (days - 1) * Day = days * Day - Day /\ Day \in Nat /\ Second \in Nat /\ Second < Day
  BY Units
<1>2. ASSUME NEW o \in Offsets
      PROVE  Start(days, o) \in Int /\ Start(days, o) > now - days * Day
  <2>1. o # UtcDays /\ o \in Int
    BY TimeAssumption
  <2>2. Start(days, o) = LocalStart(days, o)
    BY <2>1, RangeIs
  <2>3. PICK c \in Int : c = Clamp(o)
    BY <2>1, ClampInt
  <2>4. ((now + c) % Day) \in 0..(Day - 1)
    <3>1. \A t \in Int : (t % Day) \in 0..(Day - 1)
      BY Units, DivMod
    <3> QED
      BY <2>3, <3>1
  <2>5. LocalStart(days, o) = (now + c) - ((now + c) % Day) - (days - 1) * Day - c
    <3>1. LocalStart(days, o) = (now + Clamp(o)) - ((now + Clamp(o)) % Day)
                                - (days - 1) * Day - Clamp(o)
      BY DEF LocalStart
    <3> QED
      BY <2>3, <3>1, Zenon
  <2> QED
    BY <1>1, <2>2, <2>3, <2>4, <2>5
<1>3. Start(days - 1, UtcDays) = Truncated(now) - (days - 1) * Day
  BY RangeIs
<1>4. Truncated(now) \in Int /\ now < Truncated(now) + Second
  BY TruncatedIs
<1> QED
  BY <1>1, <1>2, <1>3, <1>4

\* prune_cost_records cuts at the moment, the calendar reports at local midnights and
\* the rolling ones at whole seconds: still what it deletes is in none of them.
THEOREM PruneSpares == Spec => PruneSparesReports
<1>1. ASSUME ClockOK, Books, NEW days \in DaysAsked \ {0}, Prune(days), NEW row \in table \ table'
      PROVE  /\ \A o \in Offsets : ~InRange(row, compute_time_range(days, o))
             /\ ~InRange(row, compute_time_range(days - 1, UtcDays))
  <2>1. now \in Int /\ days \in Nat \ {0}
    BY <1>1, Units, TimeAssumption DEF ClockOK
  <2>2. row.at \in Int
    BY <1>1, RowMoments
  <2>3. ~(row.at >= now - days * Day)
    BY <1>1 DEF Prune
  <2> QED
    BY <2>1, <2>2, <2>3, RangeInDays DEF InRange, Start
<1>2. ClockOK /\ Books => [\A days \in DaysAsked \ {0} :
         Prune(days) =>
           \A row \in table \ table' :
             /\ \A o \in Offsets : ~InRange(row, compute_time_range(days, o))
             /\ ~InRange(row, compute_time_range(days - 1, UtcDays))]_vars
  BY <1>1
<1> QED
  BY <1>2, ClockRuns, BooksKept, PTL DEF PruneSparesReports

-----------------------------------------------------------------------------
(* The order of the pages *)

\* Rows of different moments, in a finite set.
Dated(R) == /\ IsFiniteSet(R)
            /\ \A x \in R : x.at \in Nat
            /\ \A x, y \in R : x.at = y.at => x = y

Rank(row, R) == Cardinality(RowsBefore(row, R))

LEMMA RankIs ==
  ASSUME NEW R, Dated(R), NEW row
  PROVE  Rank(row, R) \in Nat /\ IsFiniteSet(RowsBefore(row, R))
<1>1. RowsBefore(row, R) \in SUBSET R
  BY DEF RowsBefore
<1> QED
  BY <1>1, FS_Subset, FS_CardinalityType DEF Rank, Dated

\* With more rows before it a row comes no earlier.
LEMMA RankGrows ==
  ASSUME NEW R, NEW S, Dated(R), Dated(S), NEW row,
         RowsBefore(row, R) \in SUBSET RowsBefore(row, S)
  PROVE  Rank(row, R) <= Rank(row, S)
  BY RankIs, FS_Subset DEF Rank

\* Just before a row that is not the first comes another.
LEMMA RankBefore ==
  ASSUME NEW R, Dated(R), NEW row \in R, Rank(row, R) # 0
  PROVE  \E x \in R : Rank(x, R) = Rank(row, R) - 1
<1> DEFINE B == RowsBefore(row, R)
           Times1 == {x.at : x \in B}
<1>1. B \in SUBSET R /\ IsFiniteSet(B) /\ B # {}
  BY RankIs, FS_EmptySet DEF RowsBefore, Rank
<1>2. \A x \in R : x.at \in Nat
  BY DEF Dated
<1>3. Times1 \in SUBSET Nat /\ Times1 # {}
  BY <1>1, <1>2
<1>4. PICK i \in Times1 : \A j \in Times1 : i <= j
  <2> HIDE DEF Times1
  <2> QED
    BY <1>3, LeastOf
<1>5. PICK x \in B : x.at = i
  BY <1>4
<1>6. \A y \in B : x.at <= y.at
  BY <1>4, <1>5
<1>7. RowsBefore(x, R) = B \ {x}
  <2>1. x \in R /\ x.at > row.at
    BY <1>5 DEF RowsBefore
  <2>2. ASSUME NEW y \in R, y.at > x.at PROVE y \in B \ {x}
    <3>1. y.at > row.at
      BY <1>2, <2>1, <2>2
    <3>2. y # x
      BY <1>2, <2>1, <2>2
    <3> QED
      BY <3>1, <3>2 DEF RowsBefore
  <2>3. ASSUME NEW y \in B \ {x} PROVE y \in R /\ y.at > x.at
    <3>1. y \in R /\ x.at <= y.at
      BY <1>6 DEF RowsBefore
    <3>2. y.at # x.at
      BY <2>1, <3>1 DEF Dated
    <3> QED
      BY <1>2, <2>1, <3>1, <3>2
  <2> QED
    BY <2>2, <2>3 DEF RowsBefore
<1>8. Cardinality(B \ {x}) = Cardinality(B) - 1
  BY <1>1, <1>5, Smaller
<1> QED
  BY <1>1, <1>5, <1>7, <1>8 DEF Rank

\* Before a row there is one at every earlier place.
LEMMA RankReached ==
  ASSUME NEW R, Dated(R), NEW row \in R, NEW j \in Nat, j <= Rank(row, R)
  PROVE  \E x \in R : Rank(x, R) = j
<1> DEFINE P == {d \in Nat : \A x \in R : Rank(x, R) = j + d => \E y \in R : Rank(y, R) = j}
<1>1. 0 \in P
  OBVIOUS
<1>2. ASSUME NEW d \in P PROVE d + 1 \in P
  <2> SUFFICES ASSUME NEW x \in R, Rank(x, R) = j + (d + 1)
               PROVE  \E y \in R : Rank(y, R) = j
    OBVIOUS
  <2>1. Rank(x, R) # 0
    OBVIOUS
  <2>2. PICK z \in R : Rank(z, R) = Rank(x, R) - 1
    BY <2>1, RankBefore
  <2>3. Rank(z, R) = j + d
    BY <2>2
  <2> QED
    BY <2>3
<1>3. P = Nat
  <2>1. P \in SUBSET Nat
    OBVIOUS
  <2> HIDE DEF P
  <2> QED
    BY <1>1, <1>2, <2>1, InductionSet
<1>4. Rank(row, R) \in Nat
  BY RankIs
<1>5. (Rank(row, R) - j) \in P /\ Rank(row, R) = j + (Rank(row, R) - j)
  BY <1>3, <1>4
<1> QED
  BY <1>5

\* No two rows have the same place.
LEMMA RankInjective ==
  ASSUME NEW R, Dated(R), NEW x \in R, NEW y \in R, Rank(x, R) = Rank(y, R)
  PROVE  x = y
<1>1. \A z \in R : z.at \in Nat
  BY DEF Dated
<1>2. ASSUME NEW a \in R, NEW b \in R, a.at < b.at PROVE Rank(b, R) < Rank(a, R)
  <2> DEFINE A == RowsBefore(a, R)
  <2>1. b \in A /\ RowsBefore(b, R) \in SUBSET (A \ {b})
    BY <1>1, <1>2 DEF RowsBefore
  <2>2. IsFiniteSet(A) /\ IsFiniteSet(RowsBefore(b, R))
    BY RankIs
  <2> HIDE DEF A
  <2>3. /\ IsFiniteSet(A \ {b}) /\ Cardinality(A) \in Nat
        /\ Cardinality(A \ {b}) = Cardinality(A) - 1
    BY <2>1, <2>2, Smaller
  <2>4. Cardinality(RowsBefore(b, R)) <= Cardinality(A \ {b})
    BY <2>1, <2>3, FS_Subset
  <2>5. Cardinality(RowsBefore(b, R)) \in Nat
    BY <2>2, FS_CardinalityType
  <2> QED
    BY <2>3, <2>4, <2>5 DEF Rank, A
<1>3. Rank(x, R) \in Nat /\ Rank(y, R) \in Nat
  BY RankIs
<1>4. ~(x.at < y.at) /\ ~(y.at < x.at)
  BY <1>2, <1>3
<1> QED
  BY <1>1, <1>4 DEF Dated

\* The rows a query may give at most.
Capped(limit) == Min({limit, MaxLimit})

LEMMA CappedIs ==
  ASSUME NEW limit \in Nat
  PROVE  Capped(limit) = IF limit <= MaxLimit THEN limit ELSE MaxLimit
<1>1. MaxLimit \in Nat
  BY TimeAssumption
<1>2. PICK m : m = IF limit <= MaxLimit THEN limit ELSE MaxLimit
  OBVIOUS
<1>3. m \in {limit, MaxLimit} /\ \A y \in {limit, MaxLimit} : m <= y
  BY <1>1, <1>2
<1>4. \A x \in {limit, MaxLimit} : (\A y \in {limit, MaxLimit} : x <= y) => x = m
  BY <1>1, <1>3
<1> QED
  BY <1>2, <1>3, <1>4 DEF Capped, Min

\* A page behind which there is still a row is full, and no fuller than the cap.
LEMMA FullPage ==
  ASSUME NEW R, Dated(R), NEW row \in R, NEW offset \in Nat, NEW limit \in Nat,
         offset + Capped(limit) <= Rank(row, R)
  PROVE  Cardinality(query_cost_records(R, limit, offset)) = Capped(limit)
<1> DEFINE Page(n) == {x \in R : Rank(x, R) \in offset..(offset + n - 1)}
           P == {n \in Nat : offset + n <= Rank(row, R) => Cardinality(Page(n)) >= n}
<1>1. \A n \in Nat : IsFiniteSet(Page(n)) /\ Cardinality(Page(n)) \in Nat
  <2>1. \A n \in Nat : Page(n) \in SUBSET R
    OBVIOUS
  <2> HIDE DEF Page
  <2> QED
    BY <2>1, FS_Subset, FS_CardinalityType DEF Dated
<1>2. 0 \in P
  <2> HIDE DEF Page
  <2> QED
    BY <1>1
<1>3. ASSUME NEW n \in P PROVE n + 1 \in P
  <2> SUFFICES ASSUME offset + (n + 1) <= Rank(row, R)
               PROVE  Cardinality(Page(n + 1)) >= n + 1
    OBVIOUS
  <2>1. Rank(row, R) \in Nat
    BY RankIs
  <2>2. Cardinality(Page(n)) >= n
    <3> HIDE DEF Page
    <3> QED
      BY <2>1
  <2>3. PICK x \in R : Rank(x, R) = offset + n
    BY <2>1, RankReached
  <2>4. x \notin Page(n)
    BY <2>3
  <2>5. Page(n) \cup {x} \in SUBSET Page(n + 1)
    BY <2>3
  <2> HIDE DEF Page
  <2>6. Cardinality(Page(n) \cup {x}) = Cardinality(Page(n)) + 1
    BY <1>1, <2>4, FS_AddElement
  <2>7. Cardinality(Page(n) \cup {x}) <= Cardinality(Page(n + 1))
    BY <1>1, <2>5, FS_Subset
  <2> QED
    BY <1>1, <2>2, <2>6, <2>7
<1>4. P = Nat
  <2>1. P \in SUBSET Nat
    OBVIOUS
  <2> HIDE DEF P
  <2> QED
    BY <1>2, <1>3, <2>1, InductionSet
<1>5. query_cost_records(R, limit, offset) = Page(Capped(limit))
  BY DEF query_cost_records, Rank, Capped
<1>6. Capped(limit) \in Nat
  BY CappedIs, TimeAssumption
<1>7. Capped(limit) \in P
  BY <1>4, <1>6
<1>8. ASSUME NEW n \in Nat PROVE Cardinality(Page(n)) <= n
  <2> DEFINE f == [x \in Page(n) |-> Rank(x, R)]
             T == offset..(offset + n - 1)
  <2>1. f \in Injection(Page(n), T)
    <3>1. f \in [Page(n) -> T]
      OBVIOUS
    <3>2. \A x, y \in Page(n) : f[x] = f[y] => x = y
      BY RankInjective
    <3> QED
      BY <3>1, <3>2 DEF Injection, IsInjective
  <2>2. IsFiniteSet(T) /\ Cardinality(T) = n
    <3>1. offset \in Int /\ offset + n - 1 \in Int
      BY <1>8
    <3>2. /\ IsFiniteSet(T)
          /\ Cardinality(T) = IF offset > offset + n - 1 THEN 0 ELSE (offset + n - 1) - offset + 1
      BY <3>1, FS_Interval
    <3> QED
      BY <3>2, <1>8
  <2> HIDE DEF f, T, Page
  <2> QED
    BY <2>1, <2>2, FS_Injection
<1> HIDE DEF Page
<1> QED
  BY <1>1, <1>5, <1>6, <1>7, <1>8

-----------------------------------------------------------------------------
(* The reader *)

Queried == RowsIn(compute_time_range(reader.days, reader.tz))

\* What the reader is owed is in the table or was pruned, and a second old; and
\* as long as it reads, a row it has not seen yet is on a later page.
Walk ==
  /\ reader = [pc |-> reader.pc, way |-> reader.way, days |-> reader.days, tz |-> reader.tz,
               offset |-> reader.offset, seen |-> reader.seen, owed |-> reader.owed]
  /\ reader.way \in [limit : Nat \ {0}, until : {"short", "empty"}]
  /\ reader.days \in Nat /\ reader.tz \in Zones /\ reader.offset \in Nat
  /\ \A r \in reader.owed : r \in Requests /\ req[r].pc = "recorded"
  /\ \A row \in table : row.id \in reader.owed => row.at < Truncated(now)
  /\ \A row \in Queried :
       row.id \in reader.owed =>
         \/ row.id \in reader.seen \/ Deceived(reader.way)
         \/ reader.pc = "reading" /\ Rank(row, Queried) >= reader.offset

\* The start of a range at a moment, and how it moves.
StartAt(t, days, tz) ==
  IF tz = UtcDays THEN (t - (t % Second)) - days * Day
  ELSE ((t + Clamp(tz)) - ((t + Clamp(tz)) % Day))
       - (IF days > 0 THEN days - 1 ELSE 0) * Day - Clamp(tz)

LEMMA StartIs ==
  ASSUME NEW days, NEW tz
  PROVE  Start(days, tz) = StartAt(now, days, tz)
  BY DEF Start, compute_time_range, StartAt, LocalStart, Truncated

LEMMA StartGrows ==
  ASSUME NEW t \in Int, NEW u \in Int, t <= u, NEW days \in Nat, NEW tz \in Zones
  PROVE  /\ StartAt(t, days, tz) \in Int /\ StartAt(u, days, tz) \in Int
         /\ StartAt(t, days, tz) <= StartAt(u, days, tz)
<1>1. CASE tz = UtcDays
  <2>1. /\ t - (t % Second) \in Int /\ u - (u % Second) \in Int
        /\ t - (t % Second) <= u - (u % Second)
    BY Units, WholeGrows
  <2>2. days * Day \in Int
    BY Units
  <2> QED
    BY <1>1, <2>1, <2>2 DEF StartAt
<1>2. CASE tz # UtcDays
  <2>1. tz \in Int
    BY <1>2, TimeAssumption DEF Zones
  <2>2. PICK c \in Int : c = Clamp(tz)
    BY <2>1, ClampInt
  <2>3. PICK back \in Int : back = (IF days > 0 THEN days - 1 ELSE 0) * Day
    BY Units
  <2>4. t + c \in Int /\ u + c \in Int /\ t + c <= u + c
    BY <2>2
  <2>5. /\ (t + c) - ((t + c) % Day) \in Int /\ (u + c) - ((u + c) % Day) \in Int
        /\ (t + c) - ((t + c) % Day) <= (u + c) - ((u + c) % Day)
    BY <2>4, Units, WholeGrows
  <2>6. /\ StartAt(t, days, tz) = ((t + c) - ((t + c) % Day)) - back - c
        /\ StartAt(u, days, tz) = ((u + c) - ((u + c) % Day)) - back - c
    BY <1>2, <2>2, <2>3 DEF StartAt
  <2> QED
    BY <2>2, <2>3, <2>5, <2>6
<1> QED
  BY <1>1, <1>2

LEMMA QueriedIs ==
  /\ \A row : row \in Queried <=>
       /\ row \in table
       /\ StartAt(now, reader.days, reader.tz) <= row.at
       /\ row.at < Truncated(now)
  /\ \A row : row \in Queried' <=>
       /\ row \in table'
       /\ StartAt(now', reader'.days, reader'.tz) <= row.at
       /\ row.at < Truncated(now')
  BY DEF Queried, RowsIn, InRange, compute_time_range, StartAt, LocalStart, Truncated

\* The rows of a query are rows of different moments.
LEMMA QueriedDated ==
  ASSUME Books
  PROVE  Dated(Queried)
<1>1. Queried \in SUBSET table
  BY QueriedIs
<1>2. IsFiniteSet(Queried)
  BY <1>1, FS_Subset DEF Books
<1> QED
  BY <1>1, <1>2, RowMoments DEF Dated

\* The same after a step.
LEMMA QueriedDatedNext ==
  Books' => (Dated(Queried) /\ \A row \in table : row.at \in Nat)'
<1>1. Books => Dated(Queried) /\ \A row \in table : row.at \in Nat
  BY QueriedDated, RowMoments
<1> QED
  BY <1>1, PTL

\* A step that leaves the reader alone, adds no row it is owed, and takes away only
\* rows older than the ones it leaves: the rows before a row it waits for only
\* get more.
LEMMA WalkKept ==
  ASSUME ClockOK, ClockOK', now' >= now, Books, Books', Walk, reader' = reader,
         \A r \in Requests : req[r].pc = "recorded" => req'[r].pc = "recorded",
         \A row \in table' : row.id \in reader.owed => row \in table,
         \A row \in table', other \in table : other.at > row.at => other \in table'
  PROVE  Walk'
<1>1. now \in Int /\ now' \in Int
  BY Units DEF ClockOK
<1>2. /\ Truncated(now) \in Int /\ Truncated(now') \in Int
      /\ Truncated(now) <= Truncated(now')
  BY <1>1, TruncatedIs, TruncatedGrows
<1>3. reader.days \in Nat /\ reader.tz \in Zones
  BY DEF Walk
<1>4. PICK a, b \in Int : /\ a = StartAt(now, reader.days, reader.tz)
                          /\ b = StartAt(now', reader.days, reader.tz)
                          /\ a <= b
  BY <1>1, <1>3, StartGrows
<1>5. /\ \A row \in table : row.at \in Nat
      /\ \A row \in table' : row.at \in Nat
  BY RowMoments, QueriedDatedNext
<1>6. ASSUME NEW row \in table', row.id \in reader.owed
      PROVE  row \in table /\ row.at < Truncated(now) /\ row.at < Truncated(now')
  BY <1>2, <1>5, <1>6 DEF Walk
<1>7. PICK Q, Q1 : Q = Queried /\ Q1 = Queried'
  OBVIOUS
<1>8. /\ \A row : row \in Q <=> row \in table /\ a <= row.at /\ row.at < Truncated(now)
      /\ \A row : row \in Q1 <=> row \in table' /\ b <= row.at /\ row.at < Truncated(now')
  BY <1>4, <1>7, QueriedIs
<1>9. Dated(Q) /\ Dated(Q1)
  BY <1>7, QueriedDated, QueriedDatedNext DEF Dated
<1>10. ASSUME NEW row \in Q1, row.id \in reader.owed
       PROVE  row \in Q /\ Rank(row, Q) <= Rank(row, Q1)
  <2>1. row \in Q
    BY <1>4, <1>5, <1>6, <1>8, <1>10
  <2>2. ASSUME NEW other \in Q, other.at > row.at PROVE other \in Q1
    BY <1>2, <1>4, <1>5, <1>8, <2>2
  <2>3. RowsBefore(row, Q) \in SUBSET RowsBefore(row, Q1)
    BY <2>2 DEF RowsBefore
  <2> QED
    BY <1>9, <2>1, <2>3, RankGrows
<1>11. ASSUME NEW row \in Q1, row.id \in reader.owed
       PROVE  \/ row.id \in reader.seen \/ Deceived(reader.way)
              \/ reader.pc = "reading" /\ Rank(row, Q1) >= reader.offset
  <2>1. row \in Q /\ Rank(row, Q) <= Rank(row, Q1)
    BY <1>10, <1>11
  <2>2. \/ row.id \in reader.seen \/ Deceived(reader.way)
        \/ reader.pc = "reading" /\ Rank(row, Q) >= reader.offset
    BY <1>7, <1>11, <2>1 DEF Walk
  <2>3. Rank(row, Q) \in Nat /\ Rank(row, Q1) \in Nat /\ reader.offset \in Nat
    BY <1>9, RankIs DEF Walk
  <2> QED
    BY <2>1, <2>2, <2>3
<1>12. \A row : Rank(row, Queried)' = Rank(row, Q1)
  BY <1>7 DEF Rank, RowsBefore
<1>13. \A row \in Queried' : row.id \in reader'.owed =>
           \/ row.id \in reader'.seen \/ Deceived(reader'.way)
           \/ reader'.pc = "reading" /\ Rank(row, Queried)' >= reader'.offset
  BY <1>7, <1>11, <1>12
<1>14. \A r \in reader'.owed : r \in Requests /\ req'[r].pc = "recorded"
  BY DEF Walk
<1>15. \A row \in table' : row.id \in reader'.owed => row.at < Truncated(now')
  BY <1>6
<1>16. Truncated(now)' = Truncated(now')
  BY DEF Truncated
<1> QED
  BY <1>13, <1>14, <1>15, <1>16 DEF Walk, Deceived

LEMMA InitWalk == Init => Walk
<1> SUFFICES ASSUME Init PROVE Walk
  OBVIOUS
<1>1. /\ reader.pc = "idle" /\ reader.days = 0 /\ reader.tz = UtcDays /\ reader.offset = 0
      /\ reader.seen = {} /\ reader.owed = {} /\ table = {}
      /\ reader.way = [limit |-> 1, until |-> "empty"]
      /\ reader = [pc |-> reader.pc, way |-> reader.way, days |-> reader.days, tz |-> reader.tz,
                   offset |-> reader.offset, seen |-> reader.seen, owed |-> reader.owed]
  BY DEF Init, NotReading
<1>2. reader.way \in [limit : Nat \ {0}, until : {"short", "empty"}]
  BY <1>1
<1>3. Queried = {}
  BY <1>1, QueriedIs
<1> QED
  BY <1>1, <1>2, <1>3 DEF Walk, Zones

\* The reader begins: what it is owed is all before it.
LEMMA WalkBegins ==
  ASSUME ClockOK, Books, NEW way \in Readers, NEW days \in DaysAsked,
         NEW tz \in Offsets \cup {UtcDays}, StartReading(way, days, tz)
  PROVE  Walk'
<1>1. /\ UNCHANGED <<now, req, table>>
      /\ reader' = [NotReading EXCEPT
           !.pc = "reading", !.way = way, !.days = days, !.tz = tz,
           !.owed = {row.id : row \in RowsIn(compute_time_range(days, tz))}]
  BY DEF StartReading
<1>2. PICK owed : owed = {row.id : row \in RowsIn(compute_time_range(days, tz))}
  OBVIOUS
<1>3. reader' = [pc |-> "reading", way |-> way, days |-> days, tz |-> tz, offset |-> 0,
                 seen |-> {}, owed |-> owed]
  BY <1>1, <1>2 DEF NotReading
<1>4. /\ reader'.pc = "reading" /\ reader'.days = days /\ reader'.tz = tz
      /\ reader'.offset = 0 /\ reader'.seen = {} /\ reader'.owed = owed /\ reader'.way = way
      /\ reader' = [pc |-> reader'.pc, way |-> reader'.way, days |-> reader'.days, tz |-> reader'.tz,
                    offset |-> reader'.offset, seen |-> reader'.seen, owed |-> reader'.owed]
  BY <1>3
<1>5. ASSUME NEW r \in owed
      PROVE  \E row \in table : row.id = r /\ row.at < Truncated(now)
  BY <1>2 DEF RowsIn, InRange, compute_time_range
<1>6. \A r \in owed : r \in Requests /\ req[r].pc = "recorded"
  BY <1>5 DEF Books
<1>7. \A row \in table : row.id \in owed => row.at < Truncated(now)
  BY <1>5, RowMoments
<1>8. Dated(Queried)'
  <2>1. Books'
    BY <1>1 DEF Books, Stamped, Row
  <2> QED
    BY <2>1, QueriedDatedNext
<1>9. \A row : Rank(row, Queried)' >= 0
  <2>1. PICK Q : Q = Queried'
    OBVIOUS
  <2>2. Dated(Q)
    BY <1>8, <2>1 DEF Dated
  <2>3. \A row : Rank(row, Q) >= 0
    BY <2>2, RankIs
  <2>4. \A row : Rank(row, Queried)' = Rank(row, Q)
    BY <2>1 DEF Rank, RowsBefore
  <2> QED
    BY <2>3, <2>4
<1>10. /\ reader'.days \in Nat /\ reader'.tz \in Zones /\ reader'.offset \in Nat
       /\ reader'.way \in [limit : Nat \ {0}, until : {"short", "empty"}]
  BY <1>4, TimeAssumption DEF Zones
<1>11. \A r \in reader'.owed : r \in Requests /\ req'[r].pc = "recorded"
  BY <1>1, <1>4, <1>6
<1>12. \A row \in table' : row.id \in reader'.owed => row.at < Truncated(now)'
  BY <1>1, <1>4, <1>7 DEF Truncated
<1> QED
  BY <1>4, <1>9, <1>10, <1>11, <1>12 DEF Walk, Deceived

\* A page: what it shows is seen, what comes later waits behind it, and then the
\* page is full and the reader goes on.
LEMMA WalkGoesOn ==
  ASSUME ClockOK, Books, Walk, ReadPage
  PROVE  Walk'
<1> DEFINE limit == reader.way.limit
           least == IF reader.way.until = "short" THEN limit ELSE 1
           page == query_cost_records(Queried, limit, reader.offset)
<1>1. /\ UNCHANGED <<now, req, table>> /\ reader.pc = "reading"
      /\ reader' = [reader EXCEPT
           !.offset = @ + Cardinality(page),
           !.seen = @ \cup {row.id : row \in page},
           !.pc = IF Cardinality(page) < least THEN "done" ELSE @]
  BY DEF ReadPage, Queried
<1>2. reader = [pc |-> reader.pc, way |-> reader.way, days |-> reader.days, tz |-> reader.tz,
                offset |-> reader.offset, seen |-> reader.seen, owed |-> reader.owed]
  BY DEF Walk
<1>3. PICK pg : pg = page
  OBVIOUS
<1> HIDE DEF page, least
<1>4. /\ reader'.pc = (IF Cardinality(pg) < least THEN "done" ELSE "reading")
      /\ reader'.way = reader.way /\ reader'.days = reader.days /\ reader'.tz = reader.tz
      /\ reader'.offset = reader.offset + Cardinality(pg)
      /\ reader'.seen = reader.seen \cup {row.id : row \in pg} /\ reader'.owed = reader.owed
      /\ reader' = [pc |-> reader'.pc, way |-> reader'.way, days |-> reader'.days,
                    tz |-> reader'.tz, offset |-> reader'.offset, seen |-> reader'.seen,
                    owed |-> reader'.owed]
  BY <1>1, <1>2, <1>3
<1>5. PICK Q : Q = Queried
  OBVIOUS
<1>6. Queried' = Q
  BY <1>1, <1>4, <1>5, QueriedIs
<1>7. Dated(Q)
  BY <1>5, QueriedDated
<1>8. /\ limit \in Nat \ {0} /\ reader.offset \in Nat /\ MaxLimit \in Nat \ {0}
      /\ reader.way.until \in {"short", "empty"}
  BY TimeAssumption DEF Walk
<1>15. Cardinality(pg) \in Nat
  <2>1. pg \in SUBSET Q
    BY <1>3, <1>5 DEF page, query_cost_records
  <2> QED
    BY <1>7, <2>1, FS_Subset, FS_CardinalityType DEF Dated
<1> HIDE DEF limit
<1>16. Capped(limit) = IF limit <= MaxLimit THEN limit ELSE MaxLimit
  BY <1>8, CappedIs
<1>9. ASSUME NEW row \in Q, row.id \in reader.owed
      PROVE  \/ row.id \in reader'.seen \/ Deceived(reader'.way)
             \/ reader'.pc = "reading" /\ Rank(row, Q) >= reader'.offset
  <2>1. Rank(row, Q) \in Nat
    BY <1>7, RankIs
  <2>2. \/ row.id \in reader.seen \/ Deceived(reader.way)
        \/ Rank(row, Q) >= reader.offset
    BY <1>5, <1>9 DEF Walk
  <2>3. CASE row.id \in reader.seen \/ Deceived(reader.way)
    BY <1>4, <2>3
  <2>4. CASE Rank(row, Q) \in reader.offset..(reader.offset + Capped(limit) - 1)
    <3>1. row \in pg
      BY <1>3, <1>5, <2>4 DEF page, query_cost_records, Rank, Capped
    <3> QED
      BY <1>4, <3>1
  <2>5. CASE Rank(row, Q) >= reader.offset + Capped(limit) /\ ~Deceived(reader.way)
    <3>1. Cardinality(query_cost_records(Q, limit, reader.offset)) = Capped(limit)
      BY <1>7, <1>8, <1>16, <2>1, <2>5, FullPage
    <3>2. Cardinality(pg) = Capped(limit)
      BY <1>3, <1>5, <3>1 DEF page
    <3>3. least <= Capped(limit) /\ least \in Nat
      BY <1>8, <1>16, <2>5 DEF least, Deceived, limit
    <3>4. reader'.pc = "reading"
      BY <1>4, <1>15, <3>2, <3>3
    <3> QED
      BY <1>4, <2>5, <3>2, <3>4
  <2> QED
    BY <1>8, <1>16, <2>1, <2>2, <2>3, <2>4, <2>5
<1>10. \A row : Rank(row, Queried)' = Rank(row, Q)
  BY <1>6 DEF Rank, RowsBefore
<1>11. /\ reader'.days \in Nat /\ reader'.tz \in Zones /\ reader'.offset \in Nat
       /\ reader'.way \in [limit : Nat \ {0}, until : {"short", "empty"}]
  BY <1>4, <1>8, <1>15 DEF Walk
<1>12. \A r \in reader'.owed : r \in Requests /\ req'[r].pc = "recorded"
  BY <1>1, <1>4 DEF Walk
<1>13. \A row \in table' : row.id \in reader'.owed => row.at < Truncated(now)'
  BY <1>1, <1>4 DEF Walk, Truncated
<1>14. \A row \in Queried' : row.id \in reader'.owed =>
           \/ row.id \in reader'.seen \/ Deceived(reader'.way)
           \/ reader'.pc = "reading" /\ Rank(row, Queried)' >= reader'.offset
  BY <1>4, <1>6, <1>9, <1>10
<1> QED
  BY <1>4, <1>11, <1>12, <1>13, <1>14 DEF Walk, Deceived

LEMMA StepWalk ==
  ASSUME ClockOK, ClockOK', Books, Books', Walk, [Next]_vars
  PROVE  Walk'
<1>1. now' >= now /\ now \in Int
  BY StepClock, Units DEF ClockOK
<1>2. ASSUME reader' = reader, table' = table,
             \A r \in Requests : req[r].pc = "recorded" => req'[r].pc = "recorded"
      PROVE  Walk'
  BY <1>1, <1>2, WalkKept
<1>3. CASE Tick \/ EditBilling \/ UNCHANGED vars
  BY <1>2, <1>3 DEF Tick, EditBilling, vars
<1>4. CASE ReadPage
  BY <1>4, WalkGoesOn
<1>5. ASSUME NEW days \in DaysAsked, Prune(days) PROVE Walk'
  <2>1. /\ table' = {row \in table : row.at >= now - days * Day}
        /\ reader' = reader /\ req' = req
    BY <1>5 DEF Prune
  <2>2. now - days * Day \in Int
    BY <1>1, Units, TimeAssumption
  <2>3. \A row \in table : row.at \in Nat
    BY RowMoments
  <2>4. \A row \in table', other \in table : other.at > row.at => other \in table'
    BY <2>1, <2>2, <2>3
  <2> QED
    BY <1>1, <2>1, <2>4, WalkKept
<1>6. ASSUME NEW way \in Readers, NEW days \in DaysAsked, NEW tz \in Offsets \cup {UtcDays},
             StartReading(way, days, tz)
      PROVE  Walk'
  BY <1>6, WalkBegins
<1>7. ASSUME NEW r \in Requests,
             Route(r) \/ BuildRecord(r) \/ InsertRecord(r) \/ InsertFails(r)
      PROVE  Walk'
  <2>1. req[r].pc # "recorded" /\ reader' = reader
    BY <1>7 DEF Route, BuildRecord, InsertRecord, InsertFails
  <2>2. \A s \in Requests : req[s].pc = "recorded" => req'[s].pc = "recorded"
    <3>1. req = [s \in Requests |-> req[s]]
      BY DEF Books
    <3>2. \A s \in Requests : s # r => req'[s] = req[s]
      BY <1>7, <3>1 DEF Route, BuildRecord, InsertRecord, InsertFails
    <3> QED
      BY <2>1, <3>2
  <2>3. CASE ~InsertRecord(r)
    BY <1>2, <1>7, <2>1, <2>2, <2>3 DEF Route, BuildRecord, InsertFails
  <2>4. CASE InsertRecord(r)
    <3>1. table' = table \cup {Row(r)} /\ Row(r).id = r
      BY <2>4 DEF InsertRecord, Row
    <3>2. r \notin reader.owed
      BY <2>1 DEF Walk
    <3>3. \A row \in table' : row.id \in reader.owed => row \in table
      BY <3>1, <3>2
    <3> QED
      BY <1>1, <2>1, <2>2, <3>1, <3>3, WalkKept
  <2> QED
    BY <2>3, <2>4
<1> QED
  BY <1>3, <1>4, <1>5, <1>6, <1>7 DEF Next

\* GET /admin/cost-records, page by page: although rows are inserted, also late ones,
\* although older ones are pruned and the range moves on, a row the reader has not
\* seen never slips in front of its offset, and a page that is not full leaves
\* none behind it.  A reader who takes a page for full only if it is as long as it
\* asked must not ask for more than MaxLimit.
THEOREM NothingMissed == Spec => []ReaderMissesNothing
<1>1. Init => Walk
  BY InitWalk
<1>2. ClockOK /\ ClockOK' /\ Books /\ Books' /\ Walk /\ [Next]_vars => Walk'
  BY StepWalk
<1>3. Walk => ReaderMissesNothing
  BY DEF Walk, ReaderMissesNothing, Queried
<1> QED
  BY <1>1, <1>2, <1>3, ClockRuns, BooksKept, PTL DEF Spec

-----------------------------------------------------------------------------
(* What a request costs *)

LEMMA MetersFinite == IsFiniteSet(Meters)
<1>1. Meters = ((({} \cup {"input"}) \cup {"output"}) \cup {"cache_write"}) \cup {"cache_read"}
  BY DEF Meters
<1> QED
  BY <1>1, FS_EmptySet, FS_AddElement

\* The sum over the meters, written out.
LEMMA FourMeters ==
  ASSUME NEW f, IntOn(f, Meters), DOMAIN f = Meters
  PROVE  SumFunction(f) = f["input"] + f["output"] + f["cache_write"] + f["cache_read"]
<1> DEFINE F(s) == SumFunctionOnSet(f, s)
           A == {"output", "cache_write", "cache_read"}
           B == {"cache_write", "cache_read"}
           C == {"cache_read"}
<1>1. ASSUME NEW S, S \subseteq Meters, NEW x \in S
      PROVE  F(S) = f[x] + F(S \ {x}) /\ F(S) \in Int /\ F({}) = 0 /\ f[x] \in Int
  <2>1. IsFiniteSet(S) /\ IntOn(f, S)
    BY <1>1, MetersFinite, FS_Subset DEF IntOn
  <2> QED
    BY <1>1, <2>1, SumOver DEF IntOn
<1>2. /\ Meters \ {"input"} = A /\ "input" \in Meters
      /\ A \ {"output"} = B /\ "output" \in A /\ A \subseteq Meters
      /\ B \ {"cache_write"} = C /\ "cache_write" \in B /\ B \subseteq Meters
      /\ C \ {"cache_read"} = {} /\ "cache_read" \in C /\ C \subseteq Meters
  BY DEF Meters
<1> HIDE DEF A, B, C
<1>3. F(Meters) = f["input"] + F(A) /\ f["input"] \in Int /\ F(A) \in Int
  BY <1>1, <1>2
<1>4. F(A) = f["output"] + F(B) /\ f["output"] \in Int /\ F(B) \in Int
  BY <1>1, <1>2
<1>5. F(B) = f["cache_write"] + F(C) /\ f["cache_write"] \in Int /\ F(C) \in Int
  BY <1>1, <1>2
<1>6. F(C) = f["cache_read"] + F({}) /\ F({}) = 0 /\ f["cache_read"] \in Int
  <2>1. "cache_read" \in C /\ C \subseteq Meters /\ C \ {"cache_read"} = {}
    BY <1>2
  <2>2. /\ F(C) = f["cache_read"] + F(C \ {"cache_read"}) /\ F({}) = 0
        /\ f["cache_read"] \in Int
    BY <1>1, <2>1, Zenon
  <2> QED
    BY <2>1, <2>2, Zenon
<1>7. SumFunction(f) = F(Meters)
  BY DEF SumFunction
<1> HIDE DEF F
<1> QED
  BY <1>3, <1>4, <1>5, <1>6, <1>7

MeterSum(usage, list) == SumFunction([m \in Meters |-> usage[m] * list[m]])

LEMMA MeterSumIs ==
  ASSUME NEW usage \in Usage, NEW list \in Prices
  PROVE  /\ MeterSum(usage, list) \in Int
         /\ MeterSum(usage, list) =
              usage["input"] * list["input"] + usage["output"] * list["output"]
              + usage["cache_write"] * list["cache_write"]
              + usage["cache_read"] * list["cache_read"]
<1> DEFINE f == [m \in Meters |-> usage[m] * list[m]]
<1>1. \A m \in Meters : usage[m] \in Int /\ list[m] \in Int
  BY DEF Usage, Prices
<1>2. ASSUME NEW m \in Meters PROVE usage[m] * list[m] \in Int
  <2>1. usage[m] \in Int /\ list[m] \in Int
    BY <1>1
  <2> QED
    BY <2>1
<1>3. /\ DOMAIN f = Meters /\ \A m \in Meters : f[m] = usage[m] * list[m]
      /\ MeterSum(usage, list) = SumFunction(f)
  BY DEF MeterSum
<1> HIDE DEF f
<1>4. IntOn(f, Meters)
  BY <1>2, <1>3 DEF IntOn
<1>5. SumFunction(f) = f["input"] + f["output"] + f["cache_write"] + f["cache_read"]
  BY <1>3, <1>4, FourMeters
<1>6. /\ f["input"] = usage["input"] * list["input"]
      /\ f["output"] = usage["output"] * list["output"]
      /\ f["cache_write"] = usage["cache_write"] * list["cache_write"]
      /\ f["cache_read"] = usage["cache_read"] * list["cache_read"]
      /\ f["input"] \in Int /\ f["output"] \in Int
      /\ f["cache_write"] \in Int /\ f["cache_read"] \in Int
  BY <1>3, <1>4 DEF IntOn, Meters
<1> QED
  BY <1>3, <1>5, <1>6

\* Nothing for every meter.
NoPrice == [m \in Meters |-> 0]

LEMMA NoPriceSum ==
  ASSUME NEW usage \in Usage
  PROVE  MeterSum(usage, NoPrice) = 0
<1>1. NoPrice \in Prices /\ \A m \in Meters : NoPrice[m] = 0 /\ usage[m] \in Nat
  BY DEF NoPrice, Prices, Usage
<1>2. ASSUME NEW m \in Meters PROVE usage[m] * NoPrice[m] = 0
  <2>1. usage[m] \in Nat /\ NoPrice[m] = 0
    BY <1>1
  <2> QED
    BY <2>1
<1> QED
  BY <1>1, <1>2, MeterSumIs DEF Meters

\* Of tiers in order the first that covers the tokens is the narrowest.
LEMMA FirstIsNarrowest ==
  ASSUME NEW tiers, tiers \in Seq(Range(tiers)), \A t \in Range(tiers) : IsTier(t),
         Ordered(tiers), NEW tokens \in Nat,
         NEW covering, covering = {i \in DOMAIN tiers : Covers(tiers[i], tokens)}, covering # {}
  PROVE  /\ Min(covering) \in covering
         /\ NarrowestTier(tiers, tokens) = Min(covering)
<1>1. DOMAIN tiers \subseteq Nat
  OBVIOUS
<1>2. covering \in SUBSET Nat
  BY <1>1
<1>3. \E i \in covering : \A j \in covering : i <= j
  BY <1>2, LeastOf
<1>4. PICK k \in covering : k = Min(covering) /\ \A j \in covering : k <= j
  BY <1>3 DEF Min
<1>5. \A i \in DOMAIN tiers : tiers[i].up_to \in Nat \cup {Unlimited}
  BY DEF Range, IsTier
<1> DEFINE Narrow(i) == \A j \in DOMAIN tiers :
                          Covers(tiers[j], tokens)
                          => \/ tiers[j].up_to = Unlimited
                             \/ tiers[i].up_to # Unlimited /\ tiers[i].up_to <= tiers[j].up_to
<1>6. \A j \in covering : j = k \/ k < j
  BY <1>2, <1>4
<1>7. Narrow(k)
  <2> SUFFICES ASSUME NEW j \in covering, tiers[j].up_to # Unlimited
               PROVE  tiers[k].up_to # Unlimited /\ tiers[k].up_to <= tiers[j].up_to
    OBVIOUS
  <2>1. tiers[j].up_to \in Nat
    BY <1>5
  <2>2. CASE j = k
    BY <2>1, <2>2
  <2>3. CASE k < j
    <3>1. /\ tiers[k].up_to # Unlimited
          /\ tiers[j].up_to = Unlimited \/ tiers[k].up_to < tiers[j].up_to
      BY <1>4, <2>3 DEF Ordered
    <3>2. tiers[k].up_to \in Nat
      BY <1>4, <1>5, <3>1
    <3> QED
      BY <2>1, <3>1, <3>2
  <2> QED
    BY <1>6, <2>2, <2>3
<1>8. ASSUME NEW i \in covering, Narrow(i) PROVE i = k
  <2> SUFFICES ASSUME k < i PROVE FALSE
    BY <1>6
  <2>1. /\ tiers[k].up_to # Unlimited
        /\ tiers[i].up_to = Unlimited \/ tiers[k].up_to < tiers[i].up_to
    BY <1>4 DEF Ordered
  <2>2. tiers[i].up_to # Unlimited /\ tiers[i].up_to <= tiers[k].up_to
    BY <1>4, <1>8, <2>1
  <2> QED
    BY <1>4, <1>5, <2>1, <2>2
<1>9. NarrowestTier(tiers, tokens) = CHOOSE i \in covering : Narrow(i)
  BY Zenon DEF NarrowestTier
<1> QED
  BY <1>4, <1>7, <1>8, <1>9

\* calc_cost charges what the reference says, for every kind of price.
LEMMA CostIs ==
  ASSUME NEW usage \in Usage, NEW p, IsBilling(p)
  PROVE  /\ Cost(usage, p).amount = ReferenceAmount(usage, p)
         /\ Cost(usage, p).amount \in Int
<1> DEFINE fixed == CASE p.kind = "credits" -> Scale * Million * p.request
                      [] p.kind = "per_unit" -> Scale * Million * p.unit
                      [] p.kind = "char_based" ->
                           (Scale - 1) * p.per_char
                           * (usage["input"] + p.multiplier * usage["output"])
                      [] OTHER -> 0
           sum == MeterSum(usage, PriceList(usage, p))
<1>1. ReferenceAmount(usage, p) = Scale * sum + fixed
  BY DEF ReferenceAmount, MeterSum
<1>2. usage["input"] \in Nat /\ usage["output"] \in Nat
  BY DEF Usage, Meters
<1>3. ASSUME NEW list \in Prices, NEW currency
      PROVE  calc_per_token(usage, list, currency).amount = Scale * MeterSum(usage, list)
  <2>1. calc_per_token(usage, list, currency).amount =
          Scale * (usage["input"] * list["input"] + usage["output"] * list["output"]
                   + usage["cache_write"] * list["cache_write"]
                   + usage["cache_read"] * list["cache_read"])
    BY DEF calc_per_token, Charge
  <2>2. MeterSum(usage, list) =
          usage["input"] * list["input"] + usage["output"] * list["output"]
          + usage["cache_write"] * list["cache_write"]
          + usage["cache_read"] * list["cache_read"]
    BY MeterSumIs
  <2> QED
    BY <2>1, <2>2, Zenon
<1>4. \A list \in Prices : MeterSum(usage, list) \in Int
  BY MeterSumIs
<1>5. Scale = 4 /\ Million \in Nat
  BY DEF Scale, Million
<1>6. CASE p.kind = "per_token" /\ p.price \in Prices
  <2>1. Cost(usage, p) = calc_per_token(usage, p.price, p.currency)
    BY <1>6 DEF Cost, calc_cost
  <2>2. PriceList(usage, p) = p.price /\ fixed = 0
    BY <1>6 DEF PriceList
  <2> QED
    BY <1>1, <1>3, <1>4, <1>5, <1>6, <2>1, <2>2
<1>7. CASE p.kind = "flat_fee"
  <2>1. Cost(usage, p).amount = 0
    BY <1>7 DEF Cost, Charge
  <2>2. PriceList(usage, p) = NoPrice /\ fixed = 0
    BY <1>7 DEF PriceList, NoPrice
  <2> QED
    BY <1>1, <1>5, <2>1, <2>2, NoPriceSum
<1>8. CASE p.kind = "per_unit" /\ p.unit \in Int
  <2>1. Cost(usage, p).amount = Scale * p.unit * Million
    BY <1>8 DEF Cost, calc_cost, Charge
  <2>2. PriceList(usage, p) = NoPrice /\ fixed = Scale * Million * p.unit
    BY <1>8 DEF PriceList, NoPrice
  <2> QED
    BY <1>1, <1>5, <1>8, <2>1, <2>2, NoPriceSum
<1>9. CASE p.kind = "char_based" /\ p.per_char \in Int /\ p.multiplier \in Int
  <2>1. Cost(usage, p).amount
        = 3 * (usage["input"] + usage["output"] * p.multiplier) * p.per_char
    BY <1>9 DEF Cost, calc_cost, Charge
  <2>2. /\ PriceList(usage, p) = NoPrice
        /\ fixed = (Scale - 1) * p.per_char * (usage["input"] + p.multiplier * usage["output"])
    BY <1>9 DEF PriceList, NoPrice
  <2>3. usage["output"] * p.multiplier = p.multiplier * usage["output"]
    BY <1>2, <1>9
  <2>4. PICK chars \in Int : chars = usage["input"] + p.multiplier * usage["output"]
    BY <1>2, <1>9
  <2>5. 3 * chars * p.per_char = (4 - 1) * p.per_char * chars
    BY <1>9
  <2>6. sum = 0
    BY <2>2, NoPriceSum
  <2>7. fixed = (4 - 1) * p.per_char * chars /\ fixed \in Int
    BY <1>5, <1>9, <2>2, <2>4
  <2>8. Cost(usage, p).amount = 3 * chars * p.per_char
    BY <2>1, <2>3, <2>4, Zenon
  <2> HIDE DEF fixed, sum
  <2> QED
    BY <1>1, <1>5, <2>5, <2>6, <2>7, <2>8
<1>10. CASE p.kind = "credits" /\ p.input \in Int /\ p.output \in Int /\ p.request \in Int
  <2> DEFINE list == [m \in Meters |-> CASE m = "input" -> p.input
                                         [] m = "output" -> p.output
                                         [] OTHER -> 0]
  <2>1. Cost(usage, p).amount = Scale * (usage["input"] * p.input + usage["output"] * p.output
                                         + p.request * Million)
    BY <1>10 DEF Cost, calc_cost, Charge
  <2>2. PriceList(usage, p) = list
    BY <1>10 DEF PriceList
  <2>3. fixed = Scale * Million * p.request
    BY <1>10
  <2>4. /\ list \in Prices /\ list["input"] = p.input /\ list["output"] = p.output
        /\ list["cache_write"] = 0 /\ list["cache_read"] = 0
    BY <1>10 DEF Prices, Meters
  <2> HIDE DEF list
  <2>5. usage["cache_write"] \in Nat /\ usage["cache_read"] \in Nat
    BY DEF Usage, Meters
  <2>6. /\ usage["cache_write"] * list["cache_write"] = 0
        /\ usage["cache_read"] * list["cache_read"] = 0
    BY <2>4, <2>5
  <2>7. PICK a, b \in Int : a = usage["input"] * p.input /\ b = usage["output"] * p.output
    BY <1>2, <1>10
  <2>8. sum = a + b + 0 + 0
    BY <2>2, <2>4, <2>6, <2>7, MeterSumIs, Zenon
  <2>9. Cost(usage, p).amount = 4 * (a + b + p.request * Million)
    BY <1>5, <2>1, <2>7, Zenon
  <2> HIDE DEF fixed, sum
  <2> QED
    BY <1>1, <1>5, <1>10, <2>3, <2>7, <2>8, <2>9
<1>11. CASE /\ p.kind = "tiered" /\ p.tiers \in Seq(Range(p.tiers))
            /\ (\A t \in Range(p.tiers) : IsTier(t)) /\ Ordered(p.tiers)
  <2> DEFINE tokens == usage["input"] + usage["output"]
             covering == {i \in DOMAIN p.tiers : Covers(p.tiers[i], tokens)}
  <2>1. tokens \in Nat
    BY <1>2
  <2>2. fixed = 0
    BY <1>11
  <2>3. covering # {} <=> \E t \in Range(p.tiers) : Covers(t, tokens)
    BY DEF Range
  <2>4. ASSUME Cost(usage, p).amount = 0, PriceList(usage, p) = NoPrice
        PROVE  /\ Cost(usage, p).amount = ReferenceAmount(usage, p)
               /\ Cost(usage, p).amount \in Int
    BY <1>1, <1>5, <2>2, <2>4, NoPriceSum
  <2>5. CASE p.dimension # "tokens"
    <3>1. Cost(usage, p).amount = 0
      BY <1>11, <2>5 DEF Cost, calc_cost, Charge
    <3>2. PriceList(usage, p) = NoPrice
      BY <1>11, <2>5 DEF PriceList, NoPrice
    <3> QED
      BY <2>4, <3>1, <3>2
  <2>6. CASE p.dimension = "tokens" /\ covering = {}
    <3>1. Cost(usage, p) = calc_tiered_tokens(usage, p.tiers, p.currency)
      BY <1>11, <2>6 DEF Cost, calc_cost
    <3>2. calc_tiered_tokens(usage, p.tiers, p.currency) = Charge(0, p.currency)
      BY <2>6 DEF calc_tiered_tokens
    <3>3. PriceList(usage, p) = NoPrice
      BY <1>11, <2>3, <2>6 DEF PriceList, NoPrice
    <3> QED
      BY <2>4, <3>1, <3>2, <3>3 DEF Charge
  <2>7. CASE p.dimension = "tokens" /\ covering # {}
    <3>1. Cost(usage, p) = calc_tiered_tokens(usage, p.tiers, p.currency)
      BY <1>11, <2>7 DEF Cost, calc_cost
    <3>2. /\ Min(covering) \in covering
          /\ NarrowestTier(p.tiers, tokens) = Min(covering)
      <4> HIDE DEF tokens
      <4> QED
        BY <1>11, <2>1, <2>7, FirstIsNarrowest
    <3>3. PICK t : t = p.tiers[Min(covering)]
      OBVIOUS
    <3>4. IsTier(t)
      BY <1>11, <3>2, <3>3 DEF Range
    <3>5. calc_tiered_tokens(usage, p.tiers, p.currency)
          = IF t.by_token THEN calc_per_token(usage, t.price, p.currency)
            ELSE Charge(0, p.currency)
      BY <2>7, <3>3 DEF calc_tiered_tokens
    <3>6. PriceList(usage, p) = IF t.by_token THEN t.price ELSE NoPrice
      <4>1. PriceList(usage, p)
            = LET u == p.tiers[NarrowestTier(p.tiers, tokens)]
              IN  IF u.by_token THEN u.price ELSE [m \in Meters |-> 0]
        BY <1>11, <2>3, <2>7 DEF PriceList
      <4> QED
        BY <3>2, <3>3, <4>1 DEF NoPrice
    <3>7. CASE t.by_token
      <4>1. t.price \in Prices
        BY <3>4, <3>7 DEF IsTier
      <4>2. Cost(usage, p).amount = Scale * MeterSum(usage, t.price)
        BY <1>3, <3>1, <3>5, <3>7, <4>1
      <4> QED
        BY <1>1, <1>4, <1>5, <2>2, <3>6, <3>7, <4>1, <4>2
    <3>8. CASE ~t.by_token
      BY <2>4, <3>1, <3>5, <3>6, <3>8 DEF Charge
    <3> QED
      BY <3>7, <3>8
  <2> QED
    BY <2>5, <2>6, <2>7
<1> QED
  BY <1>6, <1>7, <1>8, <1>9, <1>10, <1>11 DEF IsBilling

-----------------------------------------------------------------------------
(* The audit *)

Known == UNION {Range(h) : h \in Histories}

\* The billings there are, and the cost of a stamped request by the one it was
\* routed with.
Billed ==
  /\ editions \in Seq(Known) /\ editions # <<>>
  /\ \A r \in Requests :
       /\ IsBilling(req[r].pricing)
       /\ Stamped(r) => req[r].cost = Cost(Asks[r].usage, req[r].pricing)

LEMMA KnownBillings == \A p \in Known : IsBilling(p)
  BY BillingAssumption DEF Known

LEMMA InitBilled == Init => Billed
<1> SUFFICES ASSUME Init PROVE Billed
  OBVIOUS
<1>1. editions \in Seq(Range(editions)) /\ editions # <<>> /\ editions \in Histories
  BY BillingAssumption DEF Init
<1>2. Range(editions) \subseteq Known
  BY <1>1 DEF Known
<1>3. editions \in Seq(Known)
  BY <1>1, <1>2
<1>4. NotAsked.pricing = FlatFee /\ NotAsked.pc = "idle" /\ FlatFee.kind = "flat_fee"
  BY DEF NotAsked, FlatFee
<1>5. \A r \in Requests : req[r] = NotAsked
  BY DEF Init
<1>6. IsBilling(FlatFee)
  BY <1>4 DEF IsBilling
<1> HIDE DEF NotAsked, FlatFee
<1> QED
  BY <1>1, <1>3, <1>4, <1>5, <1>6 DEF Billed, Stamped

LEMMA StepBilled ==
  ASSUME Books, Billed, [Next]_vars
  PROVE  Billed'
<1>1. ASSUME req' = req, editions' = editions PROVE Billed'
  BY <1>1 DEF Billed, Stamped
<1>2. CASE Tick \/ ReadPage \/ UNCHANGED vars
  BY <1>1, <1>2 DEF Tick, ReadPage, vars
<1>3. ASSUME NEW days, Prune(days) \/ \E way \in Readers, tz \in Offsets \cup {UtcDays} :
                                          StartReading(way, days, tz)
      PROVE  Billed'
  BY <1>1, <1>3 DEF Prune, StartReading
<1>4. CASE EditBilling
  <2>1. /\ Len(editions) > 1 /\ editions' = Tail(editions) /\ req' = req
        /\ editions \in Seq(Known)
    BY <1>4 DEF EditBilling, Billed
  <2>2. editions' \in Seq(Known) /\ Len(editions') = Len(editions) - 1
    BY <2>1
  <2>3. editions' # <<>>
    <3>1. Len(editions) \in Nat /\ Len(editions) > 1 /\ Len(<<>>) = 0
      BY <2>1
    <3>2. Len(editions') # 0
      BY <2>2, <3>1
    <3> QED
      BY <3>1, <3>2
  <2> QED
    BY <2>1, <2>2, <2>3 DEF Billed, Stamped
<1>5. ASSUME NEW r \in Requests,
             Route(r) \/ BuildRecord(r) \/ InsertRecord(r) \/ InsertFails(r)
      PROVE  Billed'
  <2>1. editions' = editions
    BY <1>5 DEF Route, BuildRecord, InsertRecord, InsertFails
  <2>2. req = [s \in Requests |-> req[s]]
    BY DEF Books
  <2>3. \A s \in Requests : s # r => req'[s] = req[s]
    BY <1>5, <2>2 DEF Route, BuildRecord, InsertRecord, InsertFails
  <2>4. req[r] = [pc |-> req[r].pc, pricing |-> req[r].pricing,
                  cost |-> req[r].cost, at |-> req[r].at]
    BY DEF Books
  <2>5. SUFFICES /\ IsBilling(req'[r].pricing)
                 /\ Stamped(r)' => req'[r].cost = Cost(Asks[r].usage, req'[r].pricing)
    BY <2>1, <2>3, <2>5 DEF Billed, Stamped
  <2>6. CASE Route(r)
    <3>1. req' = [req EXCEPT ![r] = [@ EXCEPT !.pc = "routed", !.pricing = Head(editions)]]
      BY <2>6 DEF Route
    <3>2. Head(editions) \in Known
      BY DEF Billed
    <3>3. req'[r] = [req[r] EXCEPT !.pc = "routed", !.pricing = Head(editions)]
      BY <2>2, <3>1
    <3>4. req'[r] = [pc |-> "routed", pricing |-> Head(editions),
                     cost |-> req[r].cost, at |-> req[r].at]
      BY <2>4, <3>3, RoutedIs
    <3>5. req'[r].pc = "routed" /\ req'[r].pricing = Head(editions)
      BY <3>4
    <3> QED
      BY <3>2, <3>5, KnownBillings DEF Stamped
  <2>7. CASE BuildRecord(r)
    <3>1. PICK c : c = Cost(Asks[r].usage, req[r].pricing)
      OBVIOUS
    <3>2. req' = [req EXCEPT ![r] = [@ EXCEPT !.pc = "stamped", !.at = now, !.cost = c]]
      BY <2>7, <3>1 DEF BuildRecord
    <3>3. req'[r] = [req[r] EXCEPT !.pc = "stamped", !.at = now, !.cost = c]
      BY <2>2, <3>2
    <3>4. req'[r].pricing = req[r].pricing /\ req'[r].cost = c
      BY <2>4, <3>3
    <3> QED
      BY <3>1, <3>4 DEF Billed
  <2>8. CASE InsertRecord(r) \/ InsertFails(r)
    <3>1. PICK pc : req' = [req EXCEPT ![r].pc = pc]
      BY <2>8 DEF InsertRecord, InsertFails
    <3>2. req'[r].pricing = req[r].pricing /\ req'[r].cost = req[r].cost
      BY <2>2, <2>4, <3>1
    <3>3. Stamped(r)
      BY <2>8 DEF InsertRecord, InsertFails, Stamped
    <3> QED
      BY <3>2, <3>3 DEF Billed
  <2> QED
    BY <1>5, <2>6, <2>7, <2>8
<1> QED
  BY <1>2, <1>3, <1>4, <1>5 DEF Next

\* record() charges by the pricing that went with the request, and the row keeps
\* that pricing: whatever the administrator edits meanwhile, the row's cost
\* is what its own snapshot charges, tier by tier.
THEOREM Audits == Spec => []CostAudits
<1>1. Init => Billed
  BY InitBilled
<1>2. Books /\ Billed /\ [Next]_vars => Billed'
  BY StepBilled
<1>3. ASSUME Books, Billed, NEW row \in table
      PROVE  row.cost.amount = ReferenceAmount(row.usage, row.snapshot)
  <2>1. row.id \in Requests /\ req[row.id].pc = "recorded" /\ row = Row(row.id)
    BY <1>3 DEF Books
  <2>2. PICK r \in Requests : row = Row(r) /\ req[r].pc = "recorded"
    BY <2>1
  <2>3. row.usage = Asks[r].usage /\ row.snapshot = req[r].pricing /\ row.cost = req[r].cost
    BY <2>2 DEF Row
  <2>4. IsBilling(req[r].pricing) /\ req[r].cost = Cost(Asks[r].usage, req[r].pricing)
    BY <1>3, <2>2 DEF Billed, Stamped
  <2>5. Asks[r].usage \in Usage
    BY BillingAssumption
  <2> QED
    BY <2>3, <2>4, <2>5, CostIs
<1>4. Books /\ Billed => CostAudits
  BY <1>3 DEF CostAudits
<1> QED
  BY <1>1, <1>2, <1>4, BooksKept, PTL DEF Spec

-----------------------------------------------------------------------------
(* Sums compared *)

SumOf(f, S) == SumFunctionOnSet(f, S)

\* What is used of sums from here on.
LEMMA SumFacts ==
  ASSUME NEW S, IsFiniteSet(S), NEW f, IntOn(f, S)
  PROVE  /\ SumOf(f, {}) = 0
         /\ \A s \in SUBSET S : SumOf(f, s) \in Int
         /\ \A s \in SUBSET S : \A x \in s : SumOf(f, s) = f[x] + SumOf(f, s \ {x})
<1>1. ASSUME NEW s \in SUBSET S
      PROVE  /\ SumOf(f, s) \in Int /\ SumOf(f, {}) = 0
             /\ \A x \in s : SumOf(f, s) = f[x] + SumOf(f, s \ {x})
  <2>1. IsFiniteSet(s) /\ IntOn(f, s)
    BY FS_Subset DEF IntOn
  <2> QED
    BY <2>1, SumOver DEF SumOf
<1> QED
  BY <1>1

\* What holds of the empty set, and of a set if it does of the set without one of its
\* elements, holds of every finite set.
LEMMA SetInduction ==
  ASSUME NEW S, IsFiniteSet(S), NEW Good \in SUBSET (SUBSET S), {} \in Good,
         \A s \in SUBSET S : \A x \in s : s \ {x} \in Good => s \in Good
  PROVE  S \in Good
<1> SUFFICES ASSUME (SUBSET S) \ Good # {} PROVE FALSE
  OBVIOUS
<1>1. PICK s \in (SUBSET S) \ Good : \A x \in s : s \ {x} \notin (SUBSET S) \ Good
  <2>1. (SUBSET S) \ Good \in SUBSET (SUBSET S)
    OBVIOUS
  <2> QED
    BY <2>1, FewestOf
<1>2. PICK x \in s : TRUE
  BY <1>1
<1>3. s \ {x} \in Good
  BY <1>1, <1>2
<1> QED
  BY <1>1, <1>2, <1>3

\* Functions that agree on a set have the same sum over it.
LEMMA SumSame ==
  ASSUME NEW S, IsFiniteSet(S), NEW f, NEW g, IntOn(f, S), \A x \in S : f[x] = g[x]
  PROVE  SumOf(f, S) = SumOf(g, S)
<1> DEFINE Good == {s \in SUBSET S : SumOf(f, s) = SumOf(g, s)}
<1>1. IntOn(g, S)
  BY DEF IntOn
<1>2. {} \in Good
  BY <1>1, SumFacts
<1>3. ASSUME NEW s \in SUBSET S, NEW x \in s, s \ {x} \in Good PROVE s \in Good
  <2>1. SumOf(f, s) = f[x] + SumOf(f, s \ {x})
    BY SumFacts
  <2>2. SumOf(g, s) = g[x] + SumOf(g, s \ {x})
    BY <1>1, SumFacts
  <2>3. SumOf(f, s \ {x}) = SumOf(g, s \ {x}) /\ f[x] = g[x]
    BY <1>3
  <2> QED
    BY <2>1, <2>2, <2>3
<1>4. S \in Good
  <2>1. Good \in SUBSET (SUBSET S)
    OBVIOUS
  <2> HIDE DEF Good
  <2> QED
    BY <1>2, <1>3, <2>1, SetInduction
<1> QED
  BY <1>4

\* Sums are added and compared term by term.
LEMMA SumAdded ==
  ASSUME NEW S, IsFiniteSet(S), NEW f, NEW g, NEW h, IntOn(f, S), IntOn(g, S),
         \A x \in S : h[x] = f[x] + g[x]
  PROVE  SumOf(h, S) = SumOf(f, S) + SumOf(g, S)
<1> DEFINE Good == {s \in SUBSET S : SumOf(h, s) = SumOf(f, s) + SumOf(g, s)}
<1>1. IntOn(h, S)
  BY DEF IntOn
<1>2. {} \in Good
  BY <1>1, SumFacts
<1>3. ASSUME NEW s \in SUBSET S, NEW x \in s, s \ {x} \in Good PROVE s \in Good
  <2>1. SumOf(f, s) = f[x] + SumOf(f, s \ {x}) /\ SumOf(f, s \ {x}) \in Int
    BY SumFacts
  <2>2. SumOf(g, s) = g[x] + SumOf(g, s \ {x}) /\ SumOf(g, s \ {x}) \in Int
    BY SumFacts
  <2>3. SumOf(h, s) = h[x] + SumOf(h, s \ {x})
    BY <1>1, SumFacts
  <2>4. /\ SumOf(h, s \ {x}) = SumOf(f, s \ {x}) + SumOf(g, s \ {x})
        /\ h[x] = f[x] + g[x] /\ f[x] \in Int /\ g[x] \in Int
    BY <1>3 DEF IntOn
  <2> QED
    BY <2>1, <2>2, <2>3, <2>4
<1>4. S \in Good
  <2>1. Good \in SUBSET (SUBSET S)
    OBVIOUS
  <2> HIDE DEF Good
  <2> QED
    BY <1>2, <1>3, <2>1, SetInduction
<1> QED
  BY <1>4

LEMMA SumAtMost ==
  ASSUME NEW S, IsFiniteSet(S), NEW f, NEW g, IntOn(f, S), IntOn(g, S),
         \A x \in S : f[x] <= g[x]
  PROVE  SumOf(f, S) <= SumOf(g, S)
<1> DEFINE Good == {s \in SUBSET S : SumOf(f, s) <= SumOf(g, s)}
<1>2. {} \in Good
  BY SumFacts
<1>3. ASSUME NEW s \in SUBSET S, NEW x \in s, s \ {x} \in Good PROVE s \in Good
  <2>1. SumOf(f, s) = f[x] + SumOf(f, s \ {x}) /\ SumOf(f, s \ {x}) \in Int
    BY SumFacts
  <2>2. SumOf(g, s) = g[x] + SumOf(g, s \ {x}) /\ SumOf(g, s \ {x}) \in Int
    BY SumFacts
  <2>4. /\ SumOf(f, s \ {x}) <= SumOf(g, s \ {x})
        /\ f[x] <= g[x] /\ f[x] \in Int /\ g[x] \in Int
    BY <1>3 DEF IntOn
  <2> QED
    BY <2>1, <2>2, <2>4
<1>4. S \in Good
  <2>1. Good \in SUBSET (SUBSET S)
    OBVIOUS
  <2> HIDE DEF Good
  <2> QED
    BY <1>2, <1>3, <2>1, SetInduction
<1> QED
  BY <1>4

\* The number of elements is the sum of ones.
LEMMA SumOnes ==
  ASSUME NEW S, IsFiniteSet(S), NEW f, \A x \in S : f[x] = 1
  PROVE  SumOf(f, S) = Cardinality(S)
<1> DEFINE Good == {s \in SUBSET S : SumOf(f, s) = Cardinality(s)}
<1>1. IntOn(f, S)
  BY DEF IntOn
<1>2. {} \in Good
  BY <1>1, SumFacts, FS_EmptySet
<1>3. ASSUME NEW s \in SUBSET S, NEW x \in s, s \ {x} \in Good PROVE s \in Good
  <2>1. SumOf(f, s) = f[x] + SumOf(f, s \ {x}) /\ SumOf(f, s \ {x}) \in Int
    BY <1>1, SumFacts
  <2>2. IsFiniteSet(s)
    BY FS_Subset
  <2>3. Cardinality(s \ {x}) = Cardinality(s) - 1 /\ Cardinality(s) \in Nat
    BY <2>2, Smaller
  <2>4. SumOf(f, s \ {x}) = Cardinality(s \ {x}) /\ f[x] = 1
    BY <1>3
  <2> QED
    BY <2>1, <2>3, <2>4
<1>4. S \in Good
  <2>1. Good \in SUBSET (SUBSET S)
    OBVIOUS
  <2> HIDE DEF Good
  <2> QED
    BY <1>2, <1>3, <2>1, SetInduction
<1> QED
  BY <1>4

LEMMA SumNothing ==
  ASSUME NEW S, IsFiniteSet(S), NEW f, \A x \in S : f[x] = 0
  PROVE  SumOf(f, S) = 0
<1>1. IntOn(f, S)
  BY DEF IntOn
<1>2. SumOf(f, S) = SumOf(f, S) + SumOf(f, S)
  <2>1. \A x \in S : f[x] = f[x] + f[x]
    OBVIOUS
  <2> QED
    BY <1>1, <2>1, SumAdded
<1>3. PICK n \in Int : n = SumOf(f, S)
  BY <1>1, SumFacts
<1>4. n = n + n
  BY <1>2, <1>3, Zenon
<1>5. n = 0
  <2>1. \A i \in Int : i = i + i => i = 0
    OBVIOUS
  <2> QED
    BY <1>4, <2>1, Zenon
<1> QED
  BY <1>3, <1>5, Zenon

\* A sum with one term.
LEMMA SumOneTerm ==
  ASSUME NEW S, IsFiniteSet(S), NEW f, NEW y \in S, f[y] \in Int,
         \A x \in S : x # y => f[x] = 0
  PROVE  SumOf(f, S) = f[y]
<1>1. IntOn(f, S)
  BY DEF IntOn
<1>2. SumOf(f, S) = f[y] + SumOf(f, S \ {y})
  BY <1>1, SumFacts
<1>3. IsFiniteSet(S \ {y})
  BY FS_Subset
<1>4. SumOf(f, S \ {y}) = 0
  BY <1>3, SumNothing
<1> QED
  BY <1>2, <1>4

\* GROUP BY: the sums of the groups add up to the sum of all.
LEMMA SumGrouped ==
  ASSUME NEW R, IsFiniteSet(R), NEW val, IntOn(val, R), NEW key,
         NEW K, IsFiniteSet(K), \A x \in R : key[x] \in K,
         NEW sums, \A k \in K : sums[k] = SumOf(val, {x \in R : key[x] = k})
  PROVE  SumOf(sums, K) = SumOf(val, R)
<1> DEFINE Part(T, k) == {x \in T : key[x] = k}
           Parts(T) == [k \in K |-> SumOf(val, Part(T, k))]
           Good == {T \in SUBSET R : SumOf(Parts(T), K) = SumOf(val, T)}
<1>1. /\ \A T \in SUBSET R : SumOf(val, T) \in Int
      /\ \A T \in SUBSET R : \A x \in T : SumOf(val, T) = val[x] + SumOf(val, T \ {x})
      /\ SumOf(val, {}) = 0
  BY SumFacts
<1>2. \A T \in SUBSET R : \A k \in K : Parts(T)[k] = SumOf(val, Part(T, k))
  OBVIOUS
<1>3. ASSUME NEW T \in SUBSET R PROVE IntOn(Parts(T), K)
  <2>1. \A k \in K : Part(T, k) \in SUBSET R
    OBVIOUS
  <2> QED
    BY <1>1, <1>2, <2>1 DEF IntOn
<1>4. {} \in Good
  <2>1. \A k \in K : Parts({})[k] = 0
    <3>1. \A k \in K : Part({}, k) = {}
      OBVIOUS
    <3>2. \A k \in K : SumOf(val, Part({}, k)) = SumOf(val, {})
      BY <3>1
    <3> QED
      BY <1>1, <1>2, <3>2
  <2>2. SumOf(Parts({}), K) = 0
    <3> HIDE DEF Parts
    <3> QED
      BY <2>1, SumNothing
  <2> QED
    BY <1>1, <2>2
<1>5. ASSUME NEW T \in SUBSET R, NEW x \in T, T \ {x} \in Good PROVE T \in Good
  <2> DEFINE U == T \ {x}
             bump == [k \in K |-> IF k = key[x] THEN val[x] ELSE 0]
  <2>1. U \in SUBSET R /\ SumOf(Parts(U), K) = SumOf(val, U)
    BY <1>5
  <2>2. val[x] \in Int /\ key[x] \in K
    BY DEF IntOn
  <2>3. \A k \in K : Parts(T)[k] = Parts(U)[k] + bump[k]
    <3> SUFFICES ASSUME NEW k \in K PROVE Parts(T)[k] = Parts(U)[k] + bump[k]
      OBVIOUS
    <3>1. Part(T, k) \in SUBSET R /\ Part(U, k) \in SUBSET R
      OBVIOUS
    <3>2. SumOf(val, Part(U, k)) \in Int
      BY <1>1, <3>1
    <3>3. CASE k = key[x]
      <4>1. x \in Part(T, k) /\ Part(U, k) = Part(T, k) \ {x}
        BY <3>3
      <4>2. bump[k] = val[x]
        BY <3>3
      <4> HIDE DEF Part, Parts, bump, U
      <4>3. SumOf(val, Part(T, k)) = val[x] + SumOf(val, Part(T, k) \ {x})
        BY <1>1, <3>1, <4>1
      <4>4. SumOf(val, Part(T, k)) = val[x] + SumOf(val, Part(U, k))
        BY <4>1, <4>3
      <4> QED
        BY <1>2, <2>1, <2>2, <3>2, <4>2, <4>4
    <3>4. CASE k # key[x]
      <4>1. Part(T, k) = Part(U, k)
        BY <3>4
      <4>2. bump[k] = 0
        BY <3>4
      <4> HIDE DEF Part, Parts, bump, U
      <4> QED
        BY <1>2, <2>1, <3>2, <4>1, <4>2
    <3> QED
      BY <3>3, <3>4
  <2>4. IntOn(bump, K)
    BY <2>2 DEF IntOn
  <2>5. SumOf(bump, K) = val[x]
    <3>1. bump[key[x]] = val[x] /\ \A k \in K : k # key[x] => bump[k] = 0
      BY <2>2
    <3> HIDE DEF bump
    <3> QED
      BY <2>2, <3>1, SumOneTerm
  <2>6. IntOn(Parts(U), K)
    BY <1>3, <2>1
  <2> HIDE DEF Parts, bump
  <2>7. SumOf(Parts(T), K) = SumOf(Parts(U), K) + SumOf(bump, K)
    <3>1. PICK a, b : a = Parts(T) /\ b = Parts(U)
      OBVIOUS
    <3>2. /\ \A k \in K : a[k] = b[k] + bump[k]
          /\ IntOn(b, K)
      BY <2>3, <2>6, <3>1
    <3>3. SumOf(a, K) = SumOf(b, K) + SumOf(bump, K)
      BY <2>4, <3>2, SumAdded
    <3> QED
      BY <3>1, <3>3
  <2>8. SumOf(val, T) = val[x] + SumOf(val, U) /\ SumOf(val, U) \in Int
    BY <1>1, <2>1
  <2> QED
    BY <2>1, <2>2, <2>5, <2>7, <2>8
<1>6. R \in Good
  <2>1. Good \in SUBSET (SUBSET R)
    OBVIOUS
  <2> HIDE DEF Good
  <2> QED
    BY <1>4, <1>5, <2>1, SetInduction
<1>7. SumOf(Parts(R), K) = SumOf(val, R)
  BY <1>6
<1>8. \A k \in K : Parts(R)[k] = sums[k]
  OBVIOUS
<1>9. IntOn(Parts(R), K)
  BY <1>3
<1> HIDE DEF Parts
<1> QED
  BY <1>7, <1>8, <1>9, SumSame

-----------------------------------------------------------------------------
(* The reports *)

Columns == {"input", "output", "cost", "saved", "count"}

\* What a row adds to a column.
Column(c) ==
  [row \in table |-> CASE c = "input" -> row.usage["input"]
                       [] c = "output" -> row.usage["output"]
                       [] c = "cost" -> row.cost.amount
                       [] c = "saved" -> row.compression
                       [] c = "count" -> 1]

\* One line of a report.
Sums(S) == [input |-> SumFunction([row \in S |-> row.usage["input"]]),
            output |-> SumFunction([row \in S |-> row.usage["output"]]),
            cost |-> SumFunction([row \in S |-> row.cost.amount]),
            saved |-> SumFunction([row \in S |-> row.compression]),
            count |-> Cardinality(S)]

\* The contents of a row.
LEMMA RowIs ==
  ASSUME Books, Billed, NEW row \in table
  PROVE  /\ row.usage["input"] \in Int /\ row.usage["output"] \in Int
         /\ row.cost.amount \in Int /\ row.compression \in Int /\ row.parts \in Int
         /\ row.id \in Requests /\ row.project = Asks[row.id].project
         /\ row.parts <= row.compression /\ row.total \in Int /\ row.compression <= row.total
<1>1. PICK r \in Requests : row = Row(r) /\ req[r].pc = "recorded"
  BY DEF Books
<1>2. /\ row.id = r /\ row.project = Asks[r].project /\ row.usage = Asks[r].usage
      /\ row.parts = Asks[r].hook + Asks[r].proxy
      /\ row.compression = Asks[r].hook + Asks[r].proxy + Asks[r].header
      /\ row.total = Asks[r].hook + (Asks[r].hook + Asks[r].proxy + Asks[r].header)
      /\ row.cost = req[r].cost
  BY <1>1 DEF Row
<1>3. /\ Asks[r].usage \in Usage /\ Asks[r].hook \in Nat
      /\ Asks[r].proxy \in Nat /\ Asks[r].header \in Nat
  BY BillingAssumption
<1>4. IsBilling(req[r].pricing) /\ req[r].cost = Cost(Asks[r].usage, req[r].pricing)
  BY <1>1 DEF Billed, Stamped
<1>5. row.cost.amount \in Int
  BY <1>2, <1>3, <1>4, CostIs
<1>6. row.usage["input"] \in Int /\ row.usage["output"] \in Int
  BY <1>2, <1>3 DEF Usage, Meters
<1> QED
  BY <1>2, <1>3, <1>5, <1>6

LEMMA SumFunctionIs ==
  ASSUME NEW S, IsFiniteSet(S), NEW f, DOMAIN f = S, NEW g, IntOn(g, S),
         \A x \in S : f[x] = g[x]
  PROVE  SumFunction(f) = SumOf(g, S)
<1>1. IntOn(f, S)
  BY DEF IntOn
<1>2. SumOf(f, S) = SumOf(g, S)
  BY <1>1, SumSame
<1> QED
  BY <1>2 DEF SumFunction, SumOf

LEMMA ColumnInt ==
  ASSUME Books, Billed, NEW c \in Columns
  PROVE  IntOn(Column(c), table)
<1> SUFFICES ASSUME NEW row \in table PROVE Column(c)[row] \in Int
  BY DEF IntOn
<1> QED
  BY RowIs DEF Column, Columns

\* A line, column by column.
LEMMA SumsIs ==
  ASSUME Books, Billed, NEW S \in SUBSET table
  PROVE  Sums(S) = [c \in Columns |-> SumOf(Column(c), S)]
<1>1. IsFiniteSet(S)
  BY FS_Subset DEF Books
<1>2. \A c \in Columns : IntOn(Column(c), S)
  BY ColumnInt DEF IntOn
<1>3. ASSUME NEW f, DOMAIN f = S, NEW c \in Columns, \A row \in S : f[row] = Column(c)[row]
      PROVE  SumFunction(f) = SumOf(Column(c), S)
  <2>1. PICK g : g = Column(c)
    OBVIOUS
  <2> QED
    BY <1>1, <1>2, <1>3, <2>1, SumFunctionIs
<1>4. SumFunction([row \in S |-> row.usage["input"]]) = SumOf(Column("input"), S)
  <2> DEFINE f == [row \in S |-> row.usage["input"]]
  <2>1. DOMAIN f = S /\ "input" \in Columns /\ \A row \in S : f[row] = Column("input")[row]
    BY DEF Column, Columns
  <2> HIDE DEF f
  <2>2. SumFunction(f) = SumOf(Column("input"), S)
    BY <1>3, <2>1
  <2> QED
    BY <2>2 DEF f
<1>5. SumFunction([row \in S |-> row.usage["output"]]) = SumOf(Column("output"), S)
  <2> DEFINE f == [row \in S |-> row.usage["output"]]
  <2>1. DOMAIN f = S /\ "output" \in Columns /\ \A row \in S : f[row] = Column("output")[row]
    BY DEF Column, Columns
  <2> HIDE DEF f
  <2>2. SumFunction(f) = SumOf(Column("output"), S)
    BY <1>3, <2>1
  <2> QED
    BY <2>2 DEF f
<1>6. SumFunction([row \in S |-> row.cost.amount]) = SumOf(Column("cost"), S)
  <2> DEFINE f == [row \in S |-> row.cost.amount]
  <2>1. DOMAIN f = S /\ "cost" \in Columns /\ \A row \in S : f[row] = Column("cost")[row]
    BY DEF Column, Columns
  <2> HIDE DEF f
  <2>2. SumFunction(f) = SumOf(Column("cost"), S)
    BY <1>3, <2>1
  <2> QED
    BY <2>2 DEF f
<1>7. SumFunction([row \in S |-> row.compression]) = SumOf(Column("saved"), S)
  <2> DEFINE f == [row \in S |-> row.compression]
  <2>1. DOMAIN f = S /\ "saved" \in Columns /\ \A row \in S : f[row] = Column("saved")[row]
    BY DEF Column, Columns
  <2> HIDE DEF f
  <2>2. SumFunction(f) = SumOf(Column("saved"), S)
    BY <1>3, <2>1
  <2> QED
    BY <2>2 DEF f
<1>8. Cardinality(S) = SumOf(Column("count"), S)
  <2>1. \A row \in S : Column("count")[row] = 1
    BY DEF Column
  <2>2. PICK g : g = Column("count")
    OBVIOUS
  <2> QED
    BY <1>1, <2>1, <2>2, SumOnes
<1>9. PICK a, b, c, d, e : /\ a = SumOf(Column("input"), S) /\ b = SumOf(Column("output"), S)
                           /\ c = SumOf(Column("cost"), S) /\ d = SumOf(Column("saved"), S)
                           /\ e = SumOf(Column("count"), S)
  OBVIOUS
<1>10. Sums(S) = [input |-> a, output |-> b, cost |-> c, saved |-> d, count |-> e]
  BY <1>4, <1>5, <1>6, <1>7, <1>8, <1>9 DEF Sums
<1>11. Sums(S) = [k \in Columns |-> Sums(S)[k]]
  BY <1>10 DEF Columns
<1>12. \A k \in Columns : Sums(S)[k] = SumOf(Column(k), S)
  BY <1>9, <1>10 DEF Columns
<1> QED
  BY <1>11, <1>12

\* Whatever the groups, the lines of an aggregate add up to the one of all rows.
LEMMA TotalIs ==
  ASSUME Books, Billed, NEW R \in SUBSET table, NEW group_by
  PROVE  Total(aggregate_costs(group_by, R)) = Sums(R)
<1> DEFINE key == [row \in R |-> GroupKey(row, group_by)]
           K == {key[row] : row \in R}
           Group(k) == {row \in R : key[row] = k}
<1>1. PICK agg : agg = aggregate_costs(group_by, R)
  OBVIOUS
<1>2. agg = [k \in K |-> Sums(Group(k))]
  <2>1. agg = [k \in {GroupKey(row, group_by) : row \in R} |->
                 Sums({row \in R : GroupKey(row, group_by) = k})]
    BY <1>1 DEF aggregate_costs, Sums
  <2>2. {GroupKey(row, group_by) : row \in R} = K
    OBVIOUS
  <2>3. \A k : {row \in R : GroupKey(row, group_by) = k} = Group(k)
    OBVIOUS
  <2> HIDE DEF K, Group, key
  <2> QED
    BY <2>1, <2>2, <2>3
<1>3. IsFiniteSet(R) /\ IsFiniteSet(K)
  <2>1. IsFiniteSet(R)
    BY FS_Subset DEF Books
  <2>2. key \in Surjection(R, K)
    BY DEF Surjection
  <2> HIDE DEF key, K
  <2> QED
    BY <2>1, <2>2, FS_Surjection
<1>4. \A row \in R : key[row] \in K
  OBVIOUS
<1>5. \A k : Group(k) \in SUBSET table
  OBVIOUS
<1> HIDE DEF key, K
<1>6. ASSUME NEW c \in Columns
      PROVE  SumFunction([k \in DOMAIN agg |-> agg[k][c]]) = Sums(R)[c]
  <2>1. PICK val : val = Column(c)
    OBVIOUS
  <2>2. IntOn(val, table)
    BY <2>1, ColumnInt
  <2>3. \A S \in SUBSET table : Sums(S)[c] = SumOf(val, S)
    BY <2>1, SumsIs
  <2>4. PICK sums : sums = [k \in DOMAIN agg |-> agg[k][c]]
    OBVIOUS
  <2>5. DOMAIN sums = K /\ \A k \in K : sums[k] = SumOf(val, Group(k))
    <3>1. DOMAIN agg = K /\ \A k \in K : agg[k] = Sums(Group(k))
      BY <1>2
    <3>2. \A k \in K : Sums(Group(k))[c] = SumOf(val, Group(k))
      BY <1>5, <2>3
    <3> HIDE DEF Group
    <3> QED
      BY <2>4, <3>1, <3>2
  <2>6. IntOn(val, R)
    BY <2>2 DEF IntOn
  <2>7. SumOf(sums, K) = SumOf(val, R)
    BY <1>3, <1>4, <2>5, <2>6, SumGrouped
  <2>8. SumFunction(sums) = SumOf(sums, K)
    BY <2>5 DEF SumFunction, SumOf
  <2> QED
    BY <2>3, <2>4, <2>7, <2>8
<1>7. Total(agg) = [c \in Columns |-> SumFunction([k \in DOMAIN agg |-> agg[k][c]])]
  BY DEF Total, Columns
<1>8. Sums(R) = [c \in Columns |-> Sums(R)[c]]
  <2>1. Sums(R) = [c \in Columns |-> SumOf(Column(c), R)]
    BY SumsIs
  <2> QED
    BY <2>1
<1>9. Total(agg) = Sums(R)
  BY <1>6, <1>7, <1>8
<1> QED
  BY <1>1, <1>9

\* A default page that all rows fit into shows them all.
LEMMA WholePage ==
  ASSUME Books, NEW R \in SUBSET table, Cardinality(R) <= DefaultLimit
  PROVE  query_cost_records(R, DefaultLimit, 0) = R
<1>1. IsFiniteSet(R) /\ Cardinality(R) \in Nat /\ DefaultLimit \in Nat
  BY FS_Subset, FS_CardinalityType, TimeAssumption DEF Books
<1>3. Min({DefaultLimit, MaxLimit}) = DefaultLimit
  BY <1>1, CappedIs, TimeAssumption DEF Capped
<1>2. ASSUME NEW row \in R PROVE Cardinality(RowsBefore(row, R)) \in 0..(0 + DefaultLimit - 1)
  <2>1. RowsBefore(row, R) \in SUBSET (R \ {row})
    BY RowMoments DEF RowsBefore
  <2>2. IsFiniteSet(R \ {row}) /\ Cardinality(R \ {row}) = Cardinality(R) - 1
    BY <1>1, Smaller
  <2>3. /\ Cardinality(RowsBefore(row, R)) <= Cardinality(R \ {row})
        /\ Cardinality(RowsBefore(row, R)) \in Nat
    BY <2>1, <2>2, FS_Subset, FS_CardinalityType
  <2> QED
    BY <1>1, <2>2, <2>3
<1> QED
  BY <1>2, <1>3 DEF query_cost_records

\* The line of a project in the report of all projects.
LEMMA LineIs ==
  ASSUME NEW R
  PROVE  LET report == aggregate_costs("project", R)
         IN  /\ DOMAIN report = {row.project : row \in R}
             /\ \A p \in DOMAIN report : report[p] = Sums(InProject(R, p))
<1>1. \A row : GroupKey(row, "project") = row.project
  BY DEF GroupKey
<1>2. PICK K : K = {GroupKey(row, "project") : row \in R}
  OBVIOUS
<1>3. K = {row.project : row \in R}
  BY <1>1, <1>2
<1>4. aggregate_costs("project", R)
      = [k \in K |-> Sums({row \in R : GroupKey(row, "project") = k})]
  BY <1>2 DEF aggregate_costs, Sums
<1>5. \A p : {row \in R : GroupKey(row, "project") = p} = InProject(R, p)
  BY <1>1 DEF InProject
<1> QED
  BY <1>3, <1>4, <1>5

\* The groups of a project in its own report are those of its rows alone.
LEMMA OwnGroups ==
  ASSUME NEW R, NEW p, Len(p) \in Nat,
         NEW groups, groups = aggregate_costs("project_model_month", R),
         NEW own, own = Restrict(groups, {k \in DOMAIN groups : IsPrefix(p, k[1])})
  PROVE  Restrict(own, {k \in DOMAIN own : k[1] = p})
         = aggregate_costs("project_model_month", InProject(R, p))
<1> DEFINE key(row) == <<row.project, row.model>>
           K == {key(row) : row \in R}
           KP == {key(row) : row \in InProject(R, p)}
<1>1. \A row : GroupKey(row, "project_model_month") = key(row)
  BY DEF GroupKey
<1>2. ASSUME NEW S
      PROVE  aggregate_costs("project_model_month", S)
             = [k \in {key(row) : row \in S} |-> Sums({row \in S : key(row) = k})]
  BY <1>1 DEF aggregate_costs, Sums
<1>3. groups = [k \in K |-> Sums({row \in R : key(row) = k})]
  BY <1>2
<1>4. IsPrefix(p, p)
  BY DEF IsPrefix
<1>5. {k \in {l \in K : IsPrefix(p, l[1])} : k[1] = p} = KP
  <2>1. ASSUME NEW row \in R, key(row)[1] = p PROVE row \in InProject(R, p)
    BY <2>1 DEF InProject
  <2>2. ASSUME NEW row \in InProject(R, p)
        PROVE  row \in R /\ key(row)[1] = p /\ IsPrefix(p, key(row)[1])
    BY <1>4 DEF InProject
  <2> HIDE DEF key
  <2> QED
    BY <2>1, <2>2
<1>6. \A k \in KP : {row \in R : key(row) = k} = {row \in InProject(R, p) : key(row) = k}
  BY DEF InProject
<1>7. Restrict(own, {k \in DOMAIN own : k[1] = p})
      = [k \in KP |-> Sums({row \in R : key(row) = k})]
  <2>1. DOMAIN groups = K
    BY <1>3
  <2>2. DOMAIN own = {l \in K : IsPrefix(p, l[1])} /\ \A k \in DOMAIN own : own[k] = groups[k]
    BY <2>1 DEF Restrict
  <2>3. {k \in DOMAIN own : k[1] = p} = KP
    BY <1>5, <2>2
  <2>4. \A k \in KP : k \in K /\ k \in DOMAIN own
    BY <2>2, <2>3
  <2> HIDE DEF K, KP, key
  <2>5. \A k \in KP : own[k] = Sums({row \in R : key(row) = k})
    BY <1>3, <2>2, <2>4
  <2> QED
    BY <2>3, <2>5 DEF Restrict
<1>8. aggregate_costs("project_model_month", InProject(R, p))
      = [k \in KP |-> Sums({row \in InProject(R, p) : key(row) = k})]
  BY <1>2
<1> HIDE DEF K, KP, key
<1> QED
  BY <1>6, <1>7, <1>8

\* The savings of a project whose rows fit into a page.
LEMMA SavingsAre ==
  ASSUME Books, Billed, NEW S \in SUBSET table
  PROVE  /\ SumFunction([row \in S |-> row.parts]) <= Sums(S).saved
         /\ SumFunction([row \in S |-> row.total]) >= Sums(S).saved
<1>1. IsFiniteSet(S)
  BY FS_Subset DEF Books
<1>2. PICK parts, total, saved :
        /\ parts = [row \in S |-> row.parts] /\ total = [row \in S |-> row.total]
        /\ saved = [row \in S |-> row.compression]
  OBVIOUS
<1>3. /\ DOMAIN parts = S /\ DOMAIN total = S /\ DOMAIN saved = S
      /\ IntOn(parts, S) /\ IntOn(saved, S) /\ IntOn(total, S)
      /\ \A row \in S : parts[row] <= saved[row] /\ saved[row] <= total[row]
  BY <1>2, RowIs DEF IntOn
<1>4. SumOf(parts, S) <= SumOf(saved, S)
  BY <1>1, <1>3, SumAtMost
<1>5. SumOf(saved, S) <= SumOf(total, S) /\ SumOf(saved, S) \in Int /\ SumOf(total, S) \in Int
  BY <1>1, <1>3, SumAtMost, SumFacts
<1>6. /\ SumFunction(parts) = SumOf(parts, S) /\ SumFunction(total) = SumOf(total, S)
      /\ SumFunction(saved) = SumOf(saved, S)
  BY <1>3 DEF SumFunction, SumOf
<1>7. Sums(S).saved = SumFunction(saved)
  BY <1>2 DEF Sums
<1> QED
  BY <1>2, <1>4, <1>5, <1>6, <1>7

\* What ReportsAgree says of one range.
Agree(days, tz, report) ==
  LET projects == {Asks[r].project : r \in Requests}
      total == Total(report)
  IN  /\ Total(cost_trend(days, tz, projects, "hourly")) = total
      /\ Total(cost_trend(days, tz, projects, "daily")) = total
      /\ \A p \in DOMAIN report :
           LET own == cost_report_of(days, tz, p)
               savings == cost_savings(days, tz, p)
           IN  /\ Total(cost_trend(days, tz, {p}, "hourly")) = report[p]
               /\ Total(Restrict(own, {k \in DOMAIN own : k[1] = p})) = report[p]
               /\ report[p].count <= DefaultLimit =>
                    /\ savings.parts <= report[p].saved
                    /\ savings.total >= report[p].saved

\* aggregate_costs and query_cost_records behind four endpoints: grouped by project, by
\* project and model, by hour or by day, restricted to a project in SQL, by the
\* prefix of a key or not at all, they charge the same.
THEOREM OneStory == Spec => []ReportsAgree
<1>1. ASSUME Books, Billed, NEW days \in DaysAsked, NEW tz \in Zones, NEW R,
             R = RowsIn(compute_time_range(days, tz)),
             NEW report, report = cost_report(days, tz)
      PROVE  Agree(days, tz, report)
  <2>1. R \in SUBSET table
    BY <1>1 DEF RowsIn
  <2>2. report = aggregate_costs("project", R)
    BY <1>1 DEF cost_report
  <2>3. Total(report) = Sums(R)
    BY <1>1, <2>1, <2>2, TotalIs
  <2>4. ASSUME NEW projects, NEW group_by
        PROVE  Total(cost_trend(days, tz, projects, group_by))
               = Sums({row \in R : row.project \in projects})
    <3>1. cost_trend(days, tz, projects, group_by)
          = aggregate_costs(group_by, {row \in R : row.project \in projects})
      BY <1>1 DEF cost_trend
    <3>2. PICK S : S = {row \in R : row.project \in projects}
      OBVIOUS
    <3>3. S \in SUBSET table
      BY <2>1, <3>2
    <3>4. Total(aggregate_costs(group_by, S)) = Sums(S)
      BY <1>1, <3>3, TotalIs
    <3> QED
      BY <3>1, <3>2, <3>4
  <2>5. {row \in R : row.project \in {Asks[r].project : r \in Requests}} = R
    BY <1>1, <2>1, RowIs
  <2>6. ASSUME NEW group_by
        PROVE  Total(cost_trend(days, tz, {Asks[r].project : r \in Requests}, group_by))
               = Total(report)
    BY <2>3, <2>4, <2>5
  <2>7. ASSUME NEW p \in DOMAIN report
        PROVE  LET own == cost_report_of(days, tz, p)
                   savings == cost_savings(days, tz, p)
               IN  /\ Total(cost_trend(days, tz, {p}, "hourly")) = report[p]
                   /\ Total(Restrict(own, {k \in DOMAIN own : k[1] = p})) = report[p]
                   /\ report[p].count <= DefaultLimit =>
                        /\ savings.parts <= report[p].saved
                        /\ savings.total >= report[p].saved
    <3>1. PICK S : S = InProject(R, p)
      OBVIOUS
    <3>2. S \in SUBSET table
      BY <2>1, <3>1 DEF InProject
    <3>3. report[p] = Sums(S) /\ p \in {row.project : row \in R}
      BY <2>2, <2>7, <3>1, LineIs
    <3>4. Total(cost_trend(days, tz, {p}, "hourly")) = report[p]
      <4>1. {row \in R : row.project \in {p}} = S
        BY <3>1 DEF InProject
      <4> QED
        BY <2>4, <3>3, <4>1
    <3>5. Len(p) \in Nat
      <4>1. PICK row \in R : p = row.project
        BY <3>3
      <4>2. p \in Seq(Range(p))
        BY <1>1, <2>1, <4>1, RowIs, BillingAssumption
      <4> QED
        BY <4>2
    <3>6. PICK groups, own :
            /\ groups = aggregate_costs("project_model_month", R)
            /\ own = Restrict(groups, {k \in DOMAIN groups : IsPrefix(p, k[1])})
            /\ own = cost_report_of(days, tz, p)
      BY <1>1 DEF cost_report_of
    <3>7. Restrict(own, {k \in DOMAIN own : k[1] = p})
          = aggregate_costs("project_model_month", S)
      BY <3>1, <3>5, <3>6, OwnGroups
    <3>8. Total(Restrict(own, {k \in DOMAIN own : k[1] = p})) = report[p]
      BY <1>1, <3>2, <3>3, <3>7, TotalIs
    <3>9. ASSUME report[p].count <= DefaultLimit
          PROVE  /\ cost_savings(days, tz, p).parts <= report[p].saved
                 /\ cost_savings(days, tz, p).total >= report[p].saved
      <4>1. Sums(S).count = Cardinality(S)
        BY DEF Sums
      <4>2. query_cost_records(S, DefaultLimit, 0) = S
        BY <1>1, <3>2, <3>3, <3>9, <4>1, WholePage
      <4>3. cost_savings(days, tz, p) = [parts |-> SumFunction([row \in S |-> row.parts]),
                                         total |-> SumFunction([row \in S |-> row.total])]
        BY <1>1, <3>1, <4>2 DEF cost_savings
      <4>5. /\ SumFunction([row \in S |-> row.parts]) <= Sums(S).saved
            /\ SumFunction([row \in S |-> row.total]) >= Sums(S).saved
        BY <1>1, <3>2, SavingsAre
      <4>6. /\ cost_savings(days, tz, p).parts = SumFunction([row \in S |-> row.parts])
            /\ cost_savings(days, tz, p).total = SumFunction([row \in S |-> row.total])
        BY <4>3
      <4> QED
        BY <3>3, <4>5, <4>6, Zenon
    <3> QED
      BY <3>4, <3>6, <3>8, <3>9
  <2> QED
    BY <2>6, <2>7 DEF Agree
<1>2. Books /\ Billed => ReportsAgree
  <2>1. ASSUME Books, Billed, NEW days \in DaysAsked, NEW tz \in Zones
        PROVE  Agree(days, tz, cost_report(days, tz))
    BY <1>1, <2>1
  <2> QED
    BY <2>1 DEF ReportsAgree, Agree
<1>3. Init => Billed
  BY InitBilled
<1>4. Books /\ Billed /\ [Next]_vars => Billed'
  BY StepBilled
<1> QED
  BY <1>2, <1>3, <1>4, BooksKept, PTL DEF Spec

=============================================================================
