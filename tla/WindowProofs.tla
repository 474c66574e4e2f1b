---------------------------- MODULE WindowProofs ----------------------------
(***************************************************************************)
(* How much the window of n seconds can differ from the last n seconds,    *)
(* for a ring of any size, any clock and any irregularity of the ticks.    *)
(***************************************************************************)
EXTENDS WindowAccuracy, WellFoundedInduction, TLAPS

(***************************************************************************)
(* Running totals                                                          *)
(***************************************************************************)

\* A non-empty set of natural numbers has a least element: the form in which the
\* proofs below use induction.
LEMMA LeastNat ==
  ASSUME NEW T, T \subseteq Nat, T # {}
  PROVE  \E x \in T : \A y \in T : x <= y
  <1>1. PICK x \in T : \A y \in T : ~(<<y, x>> \in OpToRel(<, Nat))
    BY NatLessThanWellFounded, WFMin, Zenon
  <1>2. ASSUME NEW y \in T PROVE x <= y
    <2>1. x \in Nat /\ y \in Nat
      OBVIOUS
    <2>2. ~(y < x)
      BY <1>1, <2>1 DEF OpToRel
    <2>3. QED BY <2>1, <2>2
  <1>3. QED BY <1>2

\* Saturating addition within u64, and where it is plain addition.
LEMMA SatAddFacts ==
  ASSUME NEW a \in U64, NEW b \in Nat
  PROVE  /\ SatAdd(a, b) \in U64
         /\ a + b <= U64Max => SatAdd(a, b) = a + b
  BY UnitsAssumption DEF SatAdd, U64

\* A remainder of a sum of two slots.
LEMMA WrapOnce ==
  ASSUME NEW x \in Nat, x < 2 * Buckets
  PROVE  /\ x % Buckets = IF x < Buckets THEN x ELSE x - Buckets
         /\ x % Buckets \in Slots
  BY BucketsAssumption DEF Slots

\* A bucket of the ring is a u64.
LEMMA BehindType ==
  ASSUME NEW w \in Window, NEW i \in 0 .. Buckets - 1
  PROVE  Behind(w, i) \in U64
  <1>1. w.buckets \in [Slots -> U64] /\ w.cursor \in 0 .. Buckets - 1
    BY DEF Window, Slots
  <1>2. w.cursor + Buckets - i \in Nat /\ w.cursor + Buckets - i < 2 * Buckets
    BY <1>1, BucketsAssumption
  <1>3. QED
    BY <1>1, <1>2, WrapOnce DEF Behind

\* f holds the running totals of the first n buckets behind the cursor.
Totals(w, n, f) ==
  /\ f \in [1 .. n -> U64]
  /\ \A i \in 1 .. n : f[i] = SatAdd(IF i = 1 THEN 0 ELSE f[i - 1], Behind(w, i - 1))

\* Running totals exist for any number of buckets.
LEMMA TotalsExist ==
  ASSUME NEW w \in Window
  PROVE  \E f : Totals(w, Buckets, f)
  <1> DEFINE Bad == {n \in 0 .. Buckets : ~ \E f : Totals(w, n, f)}
  <1>1. SUFFICES ASSUME Bad # {} PROVE FALSE
    BY BucketsAssumption
  <1>2. PICK n \in Bad : \A m \in Bad : n <= m
    <2>1. Bad \subseteq Nat
      BY BucketsAssumption
    <2> HIDE DEF Bad
    <2>2. QED BY <1>1, <2>1, LeastNat
  <1>3. CASE n = 0
    <2>1. Totals(w, 0, [i \in 1 .. 0 |-> 0])
      BY DEF Totals
    <2>2. QED BY <1>2, <1>3, <2>1
  <1>4. CASE n # 0
    <2>1. n - 1 \in 0 .. Buckets /\ n - 1 \notin Bad /\ n \in 1 .. Buckets
      BY <1>2, <1>4, BucketsAssumption
    <2>2. PICK f : Totals(w, n - 1, f)
      BY <2>1
    <2> DEFINE b == Behind(w, n - 1)
               last == SatAdd(IF n = 1 THEN 0 ELSE f[n - 1], b)
               g == [i \in 1 .. n |-> IF i = n THEN last ELSE f[i]]
    <2>3. b \in U64 /\ b \in Nat
      BY <2>1, BehindType, BucketsAssumption, UnitsAssumption DEF U64
    <2>4. (IF n = 1 THEN 0 ELSE f[n - 1]) \in U64
      BY <2>1, <2>2, UnitsAssumption DEF Totals, U64
    <2>5. last \in U64
      BY <2>3, <2>4, SatAddFacts
    <2> HIDE DEF b, last
    <2>6. g \in [1 .. n -> U64]
      BY <2>1, <2>2, <2>5 DEF Totals
    <2>7. ASSUME NEW i \in 1 .. n
          PROVE  g[i] = SatAdd(IF i = 1 THEN 0 ELSE g[i - 1], Behind(w, i - 1))
      <3>1. CASE i = n
        BY <2>1, <3>1 DEF last, b
      <3>2. CASE i # n
        <4>1. i \in 1 .. n - 1 /\ i - 1 # n
          BY <2>1, <3>2
        <4>2. g[i] = f[i] /\ (i # 1 => g[i - 1] = f[i - 1])
          BY <2>1, <4>1
        <4>3. QED
          BY <2>2, <4>1, <4>2 DEF Totals
      <3>3. QED BY <3>1, <3>2
    <2>8. Totals(w, n, g)
      BY <2>6, <2>7 DEF Totals
    <2>9. QED BY <1>2, <2>8
  <1>5. QED BY <1>3, <1>4

\* The equation that defines the loop, whatever the values of f are known to be.
Solves(w, f) ==
  f = [i \in 1 .. Buckets |-> SatAdd(IF i = 1 THEN 0 ELSE f[i - 1], Behind(w, i - 1))]

\* It has one solution.
LEMMA SolutionUnique ==
  ASSUME NEW w, NEW f, NEW g, Solves(w, f), Solves(w, g)
  PROVE  f = g
  <1> DEFINE Bad == {i \in 1 .. Buckets : f[i] # g[i]}
  <1>0. DOMAIN f = 1 .. Buckets /\ DOMAIN g = 1 .. Buckets
        /\ f = [i \in 1 .. Buckets |-> f[i]] /\ g = [i \in 1 .. Buckets |-> g[i]]
    BY DEF Solves
  <1>1. SUFFICES ASSUME Bad # {} PROVE FALSE
    BY <1>0
  <1>2. Bad \subseteq Nat
    BY BucketsAssumption
  <1>3. PICK i \in Bad : \A m \in Bad : i <= m
    <2> HIDE DEF Bad
    <2>1. QED BY <1>1, <1>2, LeastNat
  <1>4. i = 1 \/ (i - 1 \in 1 .. Buckets /\ i - 1 \notin Bad)
    BY <1>3, BucketsAssumption
  <1>5. f[i] = g[i]
    BY <1>3, <1>4 DEF Solves
  <1>6. QED BY <1>3, <1>5

\* Running totals solve the equation.
LEMMA TotalsSolve ==
  ASSUME NEW w, NEW f, Totals(w, Buckets, f)
  PROVE  Solves(w, f)
  BY DEF Totals, Solves

\* What satisfies the equations of the running totals is what the loop of
\* SlidingWindow::sum computes.
LEMMA UpToIs ==
  ASSUME NEW w, NEW f, Totals(w, Buckets, f)
  PROVE  UpTo(w) = f
  <1>1. Solves(w, f)
    BY TotalsSolve
  <1>2. UpTo(w) = CHOOSE g : Solves(w, g)
    BY DEF UpTo, Solves
  <1>3. Solves(w, UpTo(w))
    BY <1>1, <1>2
  <1>4. QED
    BY <1>1, <1>3, SolutionUnique

\* The loop computes running totals.
LEMMA UpToTotals ==
  ASSUME NEW w \in Window
  PROVE  Totals(w, Buckets, UpTo(w))
  BY TotalsExist, UpToIs

(***************************************************************************)
(* SlidingWindow::advance and add, on running totals                       *)
(***************************************************************************)

\* Whole seconds: the fraction that advance() drops is less than one of them.
LEMMA ElapsedFacts ==
  ASSUME NEW w \in Window, NEW t \in Nat, w.last_advance <= t
  PROVE  /\ Elapsed(w, t) \in Nat
         /\ Elapsed(w, t) * Second <= t - w.last_advance
         /\ t - w.last_advance < Elapsed(w, t) * Second + Second
  <1>1. w.last_advance \in Nat
    BY DEF Window, Instant
  <1>2. PICK d \in Nat : d = t - w.last_advance
    BY <1>1
  <1>3. Elapsed(w, t) = d \div Second
    BY <1>1, <1>2 DEF Elapsed, SatSub, AsSecs
  <1>4. d \div Second \in Nat /\ (d \div Second) * Second <= d /\ d < (d \div Second) * Second + Second
    BY UnitsAssumption
  <1>5. QED BY <1>2, <1>3, <1>4

\* How far advance() moves the cursor.
Moves(w, t) == IF Elapsed(w, t) < Buckets THEN Elapsed(w, t) ELSE Buckets

\* advance() shifts the buckets away from the cursor and fills up with empty ones.
LEMMA AdvanceShifts ==
  ASSUME NEW w \in Window, NEW t \in Nat, w.last_advance <= t, Elapsed(w, t) # 0
  PROVE  /\ Advance(w, t) \in Window
         /\ Advance(w, t).last_advance = t
         /\ Moves(w, t) \in 1 .. Buckets
         /\ \A i \in 0 .. Buckets - 1 :
              Behind(Advance(w, t), i) = IF i < Moves(w, t) THEN 0 ELSE Behind(w, i - Moves(w, t))
  <1> DEFINE k == Moves(w, t)
             c == w.cursor
             d == (c + k) % Buckets
             b == [s \in Slots |-> IF Cleared(w, k, s) THEN 0 ELSE w.buckets[s]]
             v == [buckets |-> b, cursor |-> d, last_advance |-> t]
  <1>1. k \in 1 .. Buckets
    BY ElapsedFacts, BucketsAssumption DEF Moves
  <1>2. w.buckets \in [Slots -> U64] /\ c \in 0 .. Buckets - 1
    BY DEF Window, Slots
  <1>3. Advance(w, t) = v
    BY DEF Advance, Moves
  <1> HIDE DEF k, c
  <1>4. d \in Slots /\ d = IF c + k < Buckets THEN c + k ELSE c + k - Buckets
    <2>1. c + k \in Nat /\ c + k < 2 * Buckets
      BY <1>1, <1>2, BucketsAssumption
    <2> DEFINE z == c + k
    <2>2. z % Buckets \in Slots /\ z % Buckets = IF z < Buckets THEN z ELSE z - Buckets
      <3>1. z \in Nat /\ z < 2 * Buckets
        BY <2>1
      <3> HIDE DEF z
      <3>2. QED BY <3>1, WrapOnce
    <2>3. QED BY <1>1, <1>2, <2>2, BucketsAssumption
  <1> HIDE DEF d
  <1>5. b \in [Slots -> U64]
    BY <1>2, UnitsAssumption DEF U64
  <1>6. v \in Window
    BY <1>4, <1>5 DEF Window, Instant
  <1>7. ASSUME NEW i \in 0 .. Buckets - 1
        PROVE  Behind(v, i) = IF i < k THEN 0 ELSE Behind(w, i - k)
    <2> DEFINE x == d + Buckets - i
               s == x % Buckets
               y == s + Buckets - c - 1
    <2>1. x \in Nat /\ x < 2 * Buckets
      BY <1>4, BucketsAssumption DEF Slots
    <2>2. s \in Slots /\ s = IF x < Buckets THEN x ELSE x - Buckets
      BY <2>1, WrapOnce
    <2> HIDE DEF s
    <2>3. y \in Nat /\ y < 2 * Buckets
      BY <1>2, <2>2, BucketsAssumption DEF Slots
    <2>4. y % Buckets = IF y < Buckets THEN y ELSE y - Buckets
      BY <2>3, WrapOnce
    <2>5. (y % Buckets < k) <=> (i < k)
      BY <1>1, <1>2, <1>4, <2>2, <2>4, BucketsAssumption DEF Slots
    <2>6. Behind(v, i) = IF i < k THEN 0 ELSE w.buckets[s]
      BY <2>2, <2>5 DEF Behind, Cleared, c, s
    <2>7. CASE i >= k
      <3> DEFINE z == c + Buckets - (i - k)
      <3>1. z \in Nat /\ z < 2 * Buckets
        BY <1>1, <1>2, <2>7, BucketsAssumption
      <3>2. z % Buckets = IF z < Buckets THEN z ELSE z - Buckets
        BY <3>1, WrapOnce
      <3>3. z % Buckets = s
        BY <1>1, <1>2, <1>4, <2>2, <2>7, <3>2, BucketsAssumption DEF Slots
      <3>4. QED BY <1>1, <2>6, <2>7, <3>3, BucketsAssumption DEF Behind, c
    <2>8. QED BY <1>1, <2>6, <2>7
  <1>8. QED
    BY <1>1, <1>3, <1>6, <1>7 DEF k

\* The running totals after advance().
LEMMA AdvanceTotals ==
  ASSUME NEW w \in Window, NEW t \in Nat, w.last_advance <= t, Elapsed(w, t) # 0,
         NEW n \in 1 .. Buckets
  PROVE  UpTo(Advance(w, t))[n] =
           IF n <= Moves(w, t) THEN 0 ELSE UpTo(w)[n - Moves(w, t)]
  <1> DEFINE k == Moves(w, t)
             v == Advance(w, t)
             f == [m \in 1 .. Buckets |-> IF m <= k THEN 0 ELSE UpTo(w)[m - k]]
  <1>1. v \in Window /\ k \in 1 .. Buckets
    BY AdvanceShifts
  <1>2. \A i \in 0 .. Buckets - 1 : Behind(v, i) = IF i < k THEN 0 ELSE Behind(w, i - k)
    BY AdvanceShifts
  <1>3. Totals(w, Buckets, UpTo(w))
    BY UpToTotals
  <1> HIDE DEF k, v
  <1>4. f \in [1 .. Buckets -> U64]
    BY <1>1, <1>3, UnitsAssumption, BucketsAssumption DEF Totals, U64
  <1>5. ASSUME NEW i \in 1 .. Buckets
        PROVE  f[i] = SatAdd(IF i = 1 THEN 0 ELSE f[i - 1], Behind(v, i - 1))
    <2>1. i - 1 \in 0 .. Buckets - 1
      BY BucketsAssumption
    <2>2. CASE i <= k
      <3>1. Behind(v, i - 1) = 0
        BY <1>1, <1>2, <2>1, <2>2, BucketsAssumption
      <3>2. f[i] = 0 /\ (i # 1 => f[i - 1] = 0)
        BY <1>1, <2>2, BucketsAssumption
      <3>3. SatAdd(0, 0) = 0
        BY UnitsAssumption DEF SatAdd
      <3>4. QED BY <3>1, <3>2, <3>3
    <2>3. CASE i > k
      <3>1. Behind(v, i - 1) = Behind(w, i - k - 1) /\ i # 1 /\ i - k \in 1 .. Buckets
        BY <1>1, <1>2, <2>1, <2>3, BucketsAssumption
      <3>2. UpTo(w)[i - k] =
              SatAdd(IF i - k = 1 THEN 0 ELSE UpTo(w)[i - k - 1], Behind(w, i - k - 1))
        BY <1>3, <3>1 DEF Totals
      <3>3. f[i] = UpTo(w)[i - k]
        BY <1>1, <2>3, BucketsAssumption
      <3>4. f[i - 1] = IF i - k = 1 THEN 0 ELSE UpTo(w)[i - k - 1]
        BY <1>1, <2>3, BucketsAssumption
      <3>5. QED BY <3>1, <3>2, <3>3, <3>4
    <2>4. QED BY <1>1, <2>2, <2>3
  <1>6. UpTo(v) = f
    <2>1. Totals(v, Buckets, f)
      BY <1>4, <1>5 DEF Totals
    <2> HIDE DEF f
    <2>2. QED BY <2>1, UpToIs
  <1>7. QED
    BY <1>6 DEF k, v

\* The running totals after the delta went into the bucket under the cursor, if they
\* stay within u64.
LEMMA AddTotals ==
  ASSUME NEW w \in Window, NEW delta \in Nat, NEW t \in Nat, Elapsed(w, t) = 0,
         \A n \in 1 .. Buckets : UpTo(w)[n] + delta <= U64Max
  PROVE  /\ Add(w, delta, t) \in Window
         /\ Add(w, delta, t).last_advance = w.last_advance
         /\ \A n \in 1 .. Buckets : UpTo(Add(w, delta, t))[n] = UpTo(w)[n] + delta
  <1> DEFINE c == w.cursor
             v == [w EXCEPT !.buckets[w.cursor] = SatAdd(@, delta)]
             f == [n \in 1 .. Buckets |-> UpTo(w)[n] + delta]
  <1>1. Add(w, delta, t) = v
    BY DEF Add, Advance
  <1>2. w.buckets \in [Slots -> U64] /\ c \in Slots /\ c \in Nat /\ c < Buckets
    BY BucketsAssumption DEF Window, Slots
  <1>3. SatAdd(w.buckets[c], delta) \in U64
    BY <1>2, SatAddFacts
  <1>4. /\ v \in Window /\ v.last_advance = w.last_advance /\ v.cursor = c
        /\ v.buckets = [w.buckets EXCEPT ![c] = SatAdd(@, delta)]
    BY <1>2, <1>3 DEF Window
  <1> HIDE DEF v, c
  <1>5. ASSUME NEW i \in 0 .. Buckets - 1
        PROVE  Behind(v, i) = IF i = 0 THEN SatAdd(Behind(w, 0), delta) ELSE Behind(w, i)
    <2> DEFINE x == c + Buckets - i
    <2>1. x \in Nat /\ x < 2 * Buckets /\ (x < Buckets => x # c) /\ (x - Buckets = c <=> i = 0)
      BY <1>2, BucketsAssumption
    <2>2. x % Buckets \in Slots /\ x % Buckets = IF x < Buckets THEN x ELSE x - Buckets
      <3> HIDE DEF x
      <3>1. QED BY <2>1, WrapOnce
    <2>3. x % Buckets = c <=> i = 0
      BY <2>1, <2>2, <1>2, BucketsAssumption
    <2>4. Behind(v, i) = IF x % Buckets = c THEN SatAdd(w.buckets[c], delta)
                         ELSE w.buckets[x % Buckets]
      BY <1>2, <1>4, <2>2 DEF Behind
    <2>5. Behind(w, i) = w.buckets[x % Buckets]
      BY DEF Behind, c
    <2>6. QED
      BY <2>3, <2>4, <2>5
  <1>6. Totals(w, Buckets, UpTo(w))
    BY UpToTotals
  <1>7. f \in [1 .. Buckets -> U64]
    BY <1>6, UnitsAssumption DEF Totals, U64
  <1>8. ASSUME NEW i \in 1 .. Buckets
        PROVE  f[i] = SatAdd(IF i = 1 THEN 0 ELSE f[i - 1], Behind(v, i - 1))
    <2>1. i - 1 \in 0 .. Buckets - 1 /\ i - 1 \in Nat
      BY BucketsAssumption
    <2>2. PICK b \in Nat : b = Behind(w, i - 1) /\ b <= U64Max
      BY <2>1, BehindType, UnitsAssumption DEF U64
    <2>3. UpTo(w)[i] \in Nat /\ UpTo(w)[i] + delta <= U64Max /\ f[i] = UpTo(w)[i] + delta
      BY <1>6, UnitsAssumption DEF Totals, U64
    <2>4. CASE i = 1
      <3>1. Behind(v, i - 1) = SatAdd(b, delta)
        BY <1>5, <2>1, <2>2, <2>4
      <3>2. UpTo(w)[i] = SatAdd(0, b)
        BY <1>6, <2>2, <2>4 DEF Totals
      <3>3. QED
        BY <2>2, <2>3, <2>4, <3>1, <3>2, UnitsAssumption DEF SatAdd
    <2>5. CASE i # 1
      <3>1. Behind(v, i - 1) = b
        BY <1>5, <2>1, <2>2, <2>5
      <3>2. UpTo(w)[i] = SatAdd(UpTo(w)[i - 1], b)
        BY <1>6, <2>2, <2>5 DEF Totals
      <3>3. i - 1 \in 1 .. Buckets
        BY <2>5, BucketsAssumption
      <3>4. UpTo(w)[i - 1] \in Nat /\ f[i - 1] = UpTo(w)[i - 1] + delta
        BY <1>6, <3>3, UnitsAssumption DEF Totals, U64
      <3>5. QED
        BY <2>2, <2>3, <2>5, <3>1, <3>2, <3>4, UnitsAssumption DEF SatAdd
    <2>6. QED BY <2>4, <2>5
  <1>9. UpTo(v) = f
    <2>1. Totals(v, Buckets, f)
      BY <1>7, <1>8 DEF Totals
    <2> HIDE DEF f
    <2>2. QED BY <2>1, UpToIs
  <1>10. QED
    BY <1>1, <1>4, <1>9

\* The running totals of a new window.
LEMMA NewTotals ==
  ASSUME NEW t \in Nat
  PROVE  /\ NewWindow(t) \in Window
         /\ NewWindow(t).last_advance = t
         /\ \A n \in 1 .. Buckets : UpTo(NewWindow(t))[n] = 0
  <1> DEFINE w == NewWindow(t)
             f == [n \in 1 .. Buckets |-> 0]
  <1>1. w \in Window /\ w.last_advance = t
    BY BucketsAssumption, UnitsAssumption DEF NewWindow, Window, Slots, U64, Instant
  <1>2. \A i \in 0 .. Buckets - 1 : Behind(w, i) = 0
    <2>1. TAKE i \in 0 .. Buckets - 1
    <2>2. Buckets - i \in Nat /\ Buckets - i < 2 * Buckets
      BY BucketsAssumption
    <2>3. (0 + Buckets - i) % Buckets \in Slots
      BY <2>2, WrapOnce
    <2>4. QED BY <2>3 DEF Behind, NewWindow
  <1> HIDE DEF w
  <1>3. Totals(w, Buckets, f)
    <2>1. \A i \in 1 .. Buckets : i - 1 \in 0 .. Buckets - 1 /\ (i # 1 => i - 1 \in 1 .. Buckets)
      BY BucketsAssumption
    <2>2. SatAdd(0, 0) = 0 /\ 0 \in U64
      BY UnitsAssumption DEF SatAdd, U64
    <2>3. QED BY <1>2, <2>1, <2>2 DEF Totals
  <1>4. UpTo(w) = f
    <2> HIDE DEF f
    <2>1. QED BY <1>3, UpToIs
  <1>5. QED
    BY <1>1, <1>4 DEF w

(***************************************************************************)
(* The ring against the history                                            *)
(***************************************************************************)

\* A history of what was fed up to each instant.
History(F) ==
  /\ F \in [Times -> Nat]
  /\ \A s, t \in Times : s <= t => F[s] <= F[t]

\* What was fed before an instant.
Before(F, t) == IF t <= 0 THEN 0 ELSE F[t - 1]

\* The n buckets that end at the cursor hold all that was fed since n-1 seconds before
\* the last advance, and nothing that was fed earlier than twice that; all that was
\* fed was fed less than a second after the last advance.
Fits(w, F) ==
  LET first == w.last_advance IN
  /\ w \in Window /\ first \in Times
  /\ \A n \in 1 .. Buckets :
       /\ UpTo(w)[n] >= F[MaxTime] - Before(F, first - (n - 1) * Second)
       /\ UpTo(w)[n] <= F[MaxTime] - Before(F, first - (2 * (n - 1)) * Second)
  /\ \A t \in Times : t >= first + Second => Before(F, t) = F[MaxTime]

\* The history after a tick.
Feed(F, t, delta) == [s \in Times |-> IF s < t THEN F[s] ELSE F[s] + delta]

\* Before is a number that grows with the instant and never exceeds the total.
LEMMA BeforeGrows ==
  ASSUME NEW F, History(F), NEW s \in Int, NEW t \in Int, s <= t, t <= MaxTime
  PROVE  /\ Before(F, s) \in Nat /\ Before(F, t) \in Nat /\ F[MaxTime] \in Nat
         /\ Before(F, s) <= Before(F, t)
         /\ Before(F, t) <= F[MaxTime]
  <1>1. MaxTime \in Times /\ (s > 0 => s - 1 \in Times) /\ (t > 0 => t - 1 \in Times)
    BY AccuracyAssumption DEF Times
  <1>2. /\ F[MaxTime] \in Nat
        /\ s > 0 => F[s - 1] \in Nat
        /\ t > 0 => F[t - 1] \in Nat /\ F[t - 1] <= F[MaxTime]
    BY <1>1, AccuracyAssumption DEF History, Times
  <1>3. s > 0 => t > 0 /\ F[s - 1] <= F[t - 1]
    BY <1>1 DEF History
  <1>4. QED
    BY <1>2, <1>3 DEF Before

\* advance() keeps the ring in agreement with the history.
LEMMA AdvanceFits ==
  ASSUME NEW F, History(F), NEW w, Fits(w, F), NEW t \in Times, w.last_advance <= t
  PROVE  /\ Fits(Advance(w, t), F)
         /\ Advance(w, t).last_advance <= t /\ t < Advance(w, t).last_advance + Second
         /\ Elapsed(Advance(w, t), t) = 0
  <1> DEFINE e == Elapsed(w, t)
             first == w.last_advance
             v == Advance(w, t)
             k == Moves(w, t)
  <1>0. w \in Window /\ first \in Nat /\ t \in Nat /\ t <= MaxTime /\ MaxTime \in Nat /\ first <= t
    BY AccuracyAssumption DEF Fits, Times
  <1>1. e \in Nat /\ e * Second <= t - first /\ t - first < e * Second + Second
    BY <1>0, ElapsedFacts
  <1>2. CASE e = 0
    <2>1. v = w
      BY <1>2 DEF Advance
    <2>2. t < first + Second
      BY <1>0, <1>1, <1>2, UnitsAssumption
    <2>3. QED
      BY <1>0, <1>2, <2>1, <2>2
  <1>3. CASE e # 0
    <2>1. /\ v \in Window /\ v.last_advance = t /\ k \in Nat /\ 1 <= k /\ k <= Buckets
          /\ \A n \in 1 .. Buckets : UpTo(v)[n] = IF n <= k THEN 0 ELSE UpTo(w)[n - k]
      BY <1>0, <1>3, AdvanceShifts, AdvanceTotals, BucketsAssumption
    <2>2. k <= e /\ (k < Buckets => k = e)
      BY <1>1, BucketsAssumption DEF Moves
    <2> HIDE DEF v, k, e
    <2>3. PICK S \in Nat : S = Second /\ S > 0
      BY UnitsAssumption
    <2>4. k * S <= e * S
      BY <1>1, <2>1, <2>2, <2>3
    <2>5. ASSUME NEW n \in 1 .. Buckets
          PROVE  /\ UpTo(v)[n] >= F[MaxTime] - Before(F, t - (n - 1) * Second)
                 /\ UpTo(v)[n] <= F[MaxTime] - Before(F, t - (2 * (n - 1)) * Second)
      <3> DEFINE lo == t - (n - 1) * S
                 old == t - (2 * (n - 1)) * S
      <3>0. n \in Nat /\ n >= 1 /\ n <= Buckets /\ Buckets \in Nat
        BY BucketsAssumption
      <3>1. lo \in Int /\ old \in Int /\ old <= lo /\ lo <= t
        BY <1>0, <2>3, <3>0
      <3>2. CASE n <= k
        <4>1. (n - 1) * S + S <= k * S
          BY <2>1, <2>3, <3>0, <3>2
        <4>2. lo >= first + S /\ lo \in Times
          <5>1. PICK a \in Int, b \in Int, c \in Int : a = (n - 1) * S /\ b = k * S /\ c = e * S
            BY <1>1, <2>1, <2>3, <3>0
          <5>2. c <= t - first /\ b <= c /\ a + S <= b /\ lo = t - a
            BY <1>1, <2>3, <2>4, <4>1, <5>1
          <5>3. lo >= first + S /\ lo <= t
            BY <1>0, <3>1, <5>1, <5>2
          <5> HIDE DEF lo
          <5>4. QED
            BY <1>0, <2>3, <3>1, <5>3 DEF Times
        <4>3. Before(F, lo) = F[MaxTime]
          BY <2>3, <4>2 DEF Fits
        <4>4. Before(F, old) <= F[MaxTime] /\ Before(F, old) \in Nat /\ F[MaxTime] \in Nat
          <5> HIDE DEF old
          <5>1. QED BY <1>0, <3>1, BeforeGrows
        <4>5. UpTo(v)[n] = 0
          BY <2>1, <3>2
        <4>6. QED
          BY <2>3, <4>3, <4>4, <4>5
      <3>3. CASE n > k
        <4> DEFINE m == n - k
                   lo0 == first - (m - 1) * S
                   old0 == first - (2 * (m - 1)) * S
        <4>1. m \in 1 .. Buckets /\ m \in Nat /\ UpTo(v)[n] = UpTo(w)[m] /\ k = e
          BY <2>1, <2>2, <3>0, <3>3
        <4>2. /\ UpTo(w)[m] >= F[MaxTime] - Before(F, lo0)
              /\ UpTo(w)[m] <= F[MaxTime] - Before(F, old0)
          BY <2>3, <4>1 DEF Fits
        <4>3. lo0 \in Int /\ old0 \in Int
          BY <1>0, <2>1, <2>3, <4>1
        <4>4. (n - 1) * S = (m - 1) * S + k * S
              /\ (2 * (n - 1)) * S = (2 * (m - 1)) * S + 2 * (k * S)
          BY <2>1, <2>3, <3>0
        <4>5. k * S >= S
          BY <2>1, <2>3
        <4>6. lo0 <= lo /\ old <= old0 /\ old0 <= MaxTime
          <5>1. PICK p \in Int, q \in Int, r \in Int :
                  p = (m - 1) * S /\ q = k * S /\ r = (2 * (m - 1)) * S /\ r >= 0
            BY <2>1, <2>3, <4>1
          <5>2. first + q <= t /\ t < first + q + S
            BY <1>0, <1>1, <2>3, <4>1, <5>1
          <5>3. QED
            BY <1>0, <2>3, <4>4, <4>5, <5>1, <5>2
        <4>7. Before(F, lo0) <= Before(F, lo) /\ Before(F, lo) \in Nat /\ Before(F, lo0) \in Nat
          <5> HIDE DEF lo, lo0
          <5>1. QED BY <1>0, <3>1, <4>3, <4>6, BeforeGrows
        <4>8. Before(F, old) <= Before(F, old0) /\ Before(F, old) \in Nat /\ Before(F, old0) \in Nat
              /\ F[MaxTime] \in Nat
          <5> HIDE DEF old, old0
          <5>1. QED BY <1>0, <3>1, <4>3, <4>6, BeforeGrows
        <4>9. UpTo(w)[m] \in Nat
          <5>1. UpTo(w) \in [1 .. Buckets -> U64]
            BY <1>0, UpToTotals DEF Totals
          <5> HIDE DEF m
          <5>2. QED BY <4>1, <5>1, UnitsAssumption DEF U64
        <4>10. QED
          <5> HIDE DEF lo, lo0, old, old0, m
          <5>1. /\ UpTo(v)[n] >= F[MaxTime] - Before(F, lo)
                /\ UpTo(v)[n] <= F[MaxTime] - Before(F, old)
            BY <4>1, <4>2, <4>7, <4>8, <4>9
          <5>2. QED BY <2>3, <5>1 DEF lo, old
      <3>4. QED BY <2>1, <3>0, <3>2, <3>3
    <2>6. ASSUME NEW x \in Times, x >= t + Second
          PROVE  Before(F, x) = F[MaxTime]
      BY <1>0, <2>6, UnitsAssumption DEF Fits, Times
    <2>7. Fits(v, F)
      BY <2>1, <2>5, <2>6 DEF Fits
    <2>8. Elapsed(v, t) = 0 /\ t < v.last_advance + Second
      BY <1>0, <2>1, UnitsAssumption DEF Elapsed, SatSub, AsSecs
    <2>9. QED
      BY <1>0, <2>1, <2>7, <2>8 DEF v
  <1>4. QED BY <1>2, <1>3

\* The history of a tick is a history.
LEMMA FeedHistory ==
  ASSUME NEW F, History(F), NEW t \in Times, NEW delta \in Nat
  PROVE  History(Feed(F, t, delta)) /\ Feed(F, t, delta)[MaxTime] = F[MaxTime] + delta
  BY AccuracyAssumption DEF History, Feed, Times

\* add() keeps the ring in agreement with the history.
LEMMA AddFits ==
  ASSUME NEW F, History(F), NEW w, Fits(w, F), NEW t \in Times, NEW delta \in Nat,
         w.last_advance <= t, t < w.last_advance + Second, Elapsed(w, t) = 0,
         F[MaxTime] + delta <= U64Max
  PROVE  /\ Fits(Add(w, delta, t), Feed(F, t, delta))
         /\ Add(w, delta, t).last_advance = w.last_advance
  <1> DEFINE first == w.last_advance
             v == Add(w, delta, t)
             G == Feed(F, t, delta)
  <1>0. w \in Window /\ first \in Nat /\ first \in Times /\ t \in Nat /\ t <= MaxTime
        /\ MaxTime \in Nat /\ first <= t
    BY AccuracyAssumption DEF Fits, Times
  <1>1. UpTo(w) \in [1 .. Buckets -> U64]
    BY <1>0, UpToTotals DEF Totals
  <1>2. ASSUME NEW n \in 1 .. Buckets
        PROVE  \E lo \in Int, old \in Int :
                 /\ lo = first - (n - 1) * Second /\ lo <= first
                 /\ old = first - (2 * (n - 1)) * Second /\ old <= first
                 /\ UpTo(w)[n] \in Nat
                 /\ UpTo(w)[n] >= F[MaxTime] - Before(F, lo)
                 /\ UpTo(w)[n] <= F[MaxTime] - Before(F, old)
    <2>1. PICK S \in Nat : S = Second
      BY UnitsAssumption
    <2>2. n \in Nat /\ n >= 1
      BY BucketsAssumption
    <2>3. (n - 1) * S \in Nat /\ (2 * (n - 1)) * S \in Nat
      BY <2>1, <2>2
    <2>4. UpTo(w)[n] \in Nat
      BY <1>1, UnitsAssumption DEF U64
    <2>5. /\ UpTo(w)[n] >= F[MaxTime] - Before(F, first - (n - 1) * Second)
          /\ UpTo(w)[n] <= F[MaxTime] - Before(F, first - (2 * (n - 1)) * Second)
      BY DEF Fits
    <2>6. QED
      BY <1>0, <2>1, <2>3, <2>4, <2>5
  <1>3. \A n \in 1 .. Buckets : UpTo(w)[n] + delta <= U64Max
    <2>1. TAKE n \in 1 .. Buckets
    <2>2. PICK old \in Int : old <= first /\ UpTo(w)[n] \in Nat
                              /\ UpTo(w)[n] <= F[MaxTime] - Before(F, old)
      BY <1>2
    <2>3. Before(F, old) \in Nat /\ F[MaxTime] \in Nat
      BY <1>0, <2>2, BeforeGrows
    <2>4. QED
      BY <2>2, <2>3, UnitsAssumption
  <1>4. /\ v \in Window /\ v.last_advance = first
        /\ \A n \in 1 .. Buckets : UpTo(v)[n] = UpTo(w)[n] + delta
    BY <1>0, <1>3, AddTotals
  <1>5. G[MaxTime] = F[MaxTime] + delta /\ F[MaxTime] \in Nat
    <2>1. MaxTime \in Times
      BY <1>0 DEF Times
    <2>2. QED BY <2>1, FeedHistory DEF History
  <1>6. ASSUME NEW x \in Int, x <= t PROVE Before(G, x) = Before(F, x)
    BY <1>0, <1>6 DEF Before, Feed, Times
  <1>7. ASSUME NEW x \in Times, x >= first + Second PROVE Before(G, x) = G[MaxTime]
    <2>1. Before(F, x) = F[MaxTime]
      BY <1>7 DEF Fits
    <2>2. x \in Nat /\ x > t /\ x - 1 \in Times /\ ~(x - 1 < t) /\ x > 0
      BY <1>0, <1>7, UnitsAssumption DEF Times
    <2>3. F[x - 1] = F[MaxTime] /\ G[x - 1] = F[x - 1] + delta
      BY <2>1, <2>2 DEF Before, Feed
    <2>4. QED
      BY <1>5, <2>2, <2>3 DEF Before
  <1> HIDE DEF v, G
  <1>8. ASSUME NEW n \in 1 .. Buckets
        PROVE  /\ UpTo(v)[n] >= G[MaxTime] - Before(G, first - (n - 1) * Second)
               /\ UpTo(v)[n] <= G[MaxTime] - Before(G, first - (2 * (n - 1)) * Second)
    <2>1. PICK lo \in Int, old \in Int :
            /\ lo = first - (n - 1) * Second /\ lo <= first
            /\ old = first - (2 * (n - 1)) * Second /\ old <= first
            /\ UpTo(w)[n] \in Nat
            /\ UpTo(w)[n] >= F[MaxTime] - Before(F, lo)
            /\ UpTo(w)[n] <= F[MaxTime] - Before(F, old)
      BY <1>2
    <2>2. Before(G, lo) = Before(F, lo) /\ Before(G, old) = Before(F, old)
      BY <1>0, <1>6, <2>1
    <2>3. Before(F, lo) \in Nat /\ Before(F, old) \in Nat
      BY <1>0, <2>1, BeforeGrows
    <2>4. UpTo(v)[n] >= G[MaxTime] - Before(G, lo) /\ UpTo(v)[n] <= G[MaxTime] - Before(G, old)
      BY <1>4, <1>5, <2>1, <2>2, <2>3
    <2>5. QED BY <2>1, <2>4
  <1>9. Fits(v, G)
    BY <1>0, <1>4, <1>7, <1>8 DEF Fits
  <1>10. QED
    BY <1>4, <1>9 DEF v, G

\* A new window agrees with an empty history.
LEMMA NewFits ==
  ASSUME NEW F, History(F), F[MaxTime] = 0, NEW t \in Times
  PROVE  /\ Fits(NewWindow(t), F) /\ NewWindow(t).last_advance = t
         /\ Elapsed(NewWindow(t), t) = 0
  <1> DEFINE w == NewWindow(t)
  <1>0. t \in Nat /\ MaxTime \in Nat /\ t <= MaxTime
    BY AccuracyAssumption DEF Times
  <1>1. /\ w \in Window /\ w.last_advance = t
        /\ \A n \in 1 .. Buckets : UpTo(w)[n] = 0
    BY <1>0, NewTotals
  <1>2. ASSUME NEW x \in Int, x <= MaxTime PROVE Before(F, x) = 0
    <2>1. Before(F, x) \in Nat /\ Before(F, x) <= F[MaxTime]
      BY <1>2, BeforeGrows
    <2>2. QED BY <2>1
  <1> HIDE DEF w
  <1>3. ASSUME NEW n \in 1 .. Buckets
        PROVE  Before(F, t - (n - 1) * Second) = 0 /\ Before(F, t - (2 * (n - 1)) * Second) = 0
    <2>1. PICK S \in Nat : S = Second
      BY UnitsAssumption
    <2>2. n \in Nat /\ n >= 1
      BY BucketsAssumption
    <2>3. (n - 1) * S \in Nat /\ (2 * (n - 1)) * S \in Nat
      BY <2>1, <2>2
    <2>4. QED BY <1>0, <1>2, <2>1, <2>3
  <1>4. \A x \in Times : Before(F, x) = 0
    BY <1>0, <1>2 DEF Times
  <1>5. Fits(w, F)
    BY <1>1, <1>3, <1>4 DEF Fits
  <1>6. Elapsed(w, t) = 0
    BY <1>0, <1>1, UnitsAssumption DEF Elapsed, SatSub, AsSecs
  <1>7. QED BY <1>1, <1>5, <1>6 DEF w

(***************************************************************************)
(* The inductive invariant                                                 *)
(***************************************************************************)

\* Types, and what the steps of the decision thread have done.
Sound ==
  /\ now \in Times /\ at \in Times /\ at <= now
  /\ pc \in {"sleep", "started", "timed"}
  /\ pending \in Nat /\ arrived \in 0 .. MaxUnits
  /\ History(fed) /\ fed[MaxTime] + pending = arrived

\* All that was fed was fed by ticks up to the last one.
Caught == fed[at] = fed[MaxTime]

\* The ring agrees with the history; after a tick less than a second has passed since
\* its last advance.
Ring ==
  /\ win = None => fed[MaxTime] = 0
  /\ win # None => /\ Fits(win, fed) /\ win.last_advance <= at
                   /\ pc # "timed" => at < win.last_advance + Second

Inv == Sound /\ Caught /\ Ring

\* The tick that feeds the window preserves the invariant.
LEMMA FeedStep ==
  ASSUME Inv, TickFeed
  PROVE  Inv'
  <1> DEFINE w == IF win = None THEN None ELSE Advance(win, at)
             u == IF w = None THEN NewWindow(at) ELSE w
  <1>0. at \in Times /\ History(fed) /\ pending \in Nat /\ fed[MaxTime] \in Nat
        /\ fed[MaxTime] + pending <= U64Max
    BY AccuracyAssumption, UnitsAssumption DEF Inv, Sound, History, Times, U64
  <1>1. /\ pc' = "sleep" /\ pending' = 0 /\ fed' = Feed(fed, at, pending)
        /\ now' = now /\ at' = at /\ arrived' = arrived
        /\ win' = IF pending = 0 THEN w ELSE Add(u, pending, at)
    BY DEF TickFeed, Feed
  <1>2. History(fed') /\ fed'[MaxTime] = fed[MaxTime] + pending
    BY <1>0, <1>1, FeedHistory
  <1>3. Sound'
    BY <1>0, <1>1, <1>2 DEF Inv, Sound
  <1>4. Caught'
    <2>1. fed[at] = fed[MaxTime] /\ ~(at < at)
      BY AccuracyAssumption DEF Inv, Caught, Sound, Times
    <2>2. fed'[at] = fed[at] + pending
      BY <1>0, <1>1, <2>1 DEF Feed
    <2>3. QED
      BY <1>1, <1>2, <2>1, <2>2 DEF Caught
  <1>5. /\ win = None => fed[MaxTime] = 0
        /\ win # None => Fits(win, fed) /\ win.last_advance <= at
    BY DEF Inv, Ring
  <1>6. w # None => /\ Fits(w, fed) /\ w.last_advance <= at /\ at < w.last_advance + Second
                    /\ Elapsed(w, at) = 0
    BY <1>0, <1>5, AdvanceFits
  <1>7. w = None => fed[MaxTime] = 0
    <2>1. \A v : Fits(v, fed) => v # None
      BY AccuracyAssumption DEF Fits
    <2>2. win # None => Advance(win, at) # None
      BY <1>0, <1>5, <2>1, AdvanceFits
    <2>3. QED BY <1>5, <2>2
  <1> HIDE DEF w
  <1>8. CASE pending = 0
    <2>1. fed' = fed
      BY <1>0, <1>1, <1>8 DEF Feed, History
    <2>2. win' = w
      BY <1>1, <1>8
    <2>3. Ring'
      BY <1>1, <1>6, <1>7, <2>1, <2>2 DEF Ring
    <2>4. QED BY <1>3, <1>4, <2>3 DEF Inv
  <1>9. CASE pending # 0
    <2>1. /\ Fits(u, fed) /\ u.last_advance <= at /\ at < u.last_advance + Second
          /\ Elapsed(u, at) = 0
      <3>1. CASE w = None
        <4>1. Fits(NewWindow(at), fed) /\ NewWindow(at).last_advance = at
              /\ Elapsed(NewWindow(at), at) = 0
          BY <1>0, <1>7, <3>1, NewFits
        <4>2. at <= at /\ at < at + Second
          BY <1>0, UnitsAssumption, AccuracyAssumption DEF Times
        <4>3. QED BY <3>1, <4>1, <4>2
      <3>2. CASE w # None
        BY <1>6, <3>2
      <3>3. QED BY <3>1, <3>2
    <2> HIDE DEF u
    <2>2. Fits(win', fed') /\ win'.last_advance = u.last_advance
      BY <1>0, <1>1, <1>9, <2>1, AddFits
    <2>3. win' # None
      BY <2>2, AccuracyAssumption DEF Fits
    <2>4. Ring'
      BY <1>1, <2>1, <2>2, <2>3 DEF Ring
    <2>5. QED BY <1>3, <1>4, <2>4 DEF Inv
  <1>10. QED BY <1>8, <1>9

\* The invariant holds of every behaviour.
LEMMA InvHolds == Spec => []Inv
  <1>1. ASSUME Init PROVE Inv
    <2>1. 0 \in Times /\ MaxTime \in Times /\ MaxUnits \in Nat
      BY AccuracyAssumption, UnitsAssumption DEF Times, U64
    <2>2. History(fed) /\ fed[MaxTime] = 0 /\ fed[0] = 0
      BY <1>1, <2>1 DEF Init, History
    <2>3. QED
      BY <1>1, <2>1, <2>2 DEF Init, Inv, Sound, Caught, Ring
  <1>2. ASSUME Inv, [Next]_vars PROVE Inv'
    <2>0. /\ MaxTime \in Nat /\ MaxTime \in Times /\ MaxUnits \in Nat /\ MaxUnits <= U64Max
          /\ U64Max \in Nat /\ now \in Nat /\ at \in Nat /\ fed[MaxTime] \in Nat
      BY <1>2, AccuracyAssumption, UnitsAssumption DEF Times, U64, Inv, Sound, History
    <2>1. CASE Clock
      BY <1>2, <2>0, <2>1 DEF Clock, Inv, Sound, Caught, Ring, Times
    <2>2. CASE Arrive
      <3>1. SatAdd(pending, 1) = pending + 1
        BY <1>2, <2>0, <2>2 DEF Arrive, Inv, Sound, SatAdd
      <3>2. QED
        BY <1>2, <2>0, <2>2, <3>1 DEF Arrive, Inv, Sound, Caught, Ring
    <2>3. CASE TickStart
      BY <1>2, <2>3 DEF TickStart, Inv, Sound, Caught, Ring
    <2>4. CASE TickNow
      <3>1. fed[now] = fed[MaxTime]
        BY <1>2, <2>0 DEF Inv, Sound, Caught, History, Times
      <3>2. win # None => win.last_advance <= now
        BY <1>2, <2>0 DEF Inv, Sound, Ring, Fits, Times
      <3>3. QED
        BY <1>2, <2>0, <2>4, <3>1, <3>2 DEF TickNow, Inv, Sound, Caught, Ring
    <2>5. CASE TickFeed
      BY <1>2, <2>5, FeedStep
    <2>6. CASE UNCHANGED vars
      BY <1>2, <2>6 DEF vars, Inv, Sound, Caught, Ring
    <2>7. QED
      BY <1>2, <2>1, <2>2, <2>3, <2>4, <2>5, <2>6 DEF Next
  <1>3. QED
    BY <1>1, <1>2, PTL DEF Spec

(***************************************************************************)
(* The theorems                                                            *)
(***************************************************************************)

\* No unit is lost or duplicated between the sniffer and the window, and the window
\* stays a ring of u64 with its cursor on a bucket (CounterStore::add, tick).
THEOREM UnitsConserved == Spec => []TypeOK
  <1>1. ASSUME Inv PROVE TypeOK
    <2>1. fed[now] = fed[MaxTime]
      BY <1>1, AccuracyAssumption DEF Inv, Sound, Caught, History, Times
    <2>2. QED
      BY <1>1, <2>1 DEF Inv, Sound, Ring, Fits, TypeOK
  <1>2. QED
    BY <1>1, InvHolds, PTL

\* What a window of n seconds reads is the running total, a number.
LEMMA MeasuredIs ==
  ASSUME NEW n \in 1 .. Buckets, win # None
  PROVE  /\ Measured(n) = UpTo(win)[n]
         /\ win \in Window => Measured(n) \in Nat
  <1>1. Measured(n) = UpTo(win)[n]
    BY BucketsAssumption DEF Measured, SumLast
  <1>2. ASSUME win \in Window PROVE UpTo(win)[n] \in Nat
    <2>1. UpTo(win) \in [1 .. Buckets -> U64]
      BY <1>2, UpToTotals DEF Totals
    <2>2. UpTo(win)[n] \in U64
      BY <2>1
    <2>3. QED
      BY <2>2, UnitsAssumption DEF U64
  <1>3. QED
    BY <1>1, <1>2

\* What was fed in the last d+1 instants up to `at', in terms of Before.
LEMMA FedWithinIs ==
  ASSUME Inv, NEW d \in Int
  PROVE  FedWithin(d + 1) = fed[MaxTime] - Before(fed, at - d)
  BY AccuracyAssumption DEF Inv, Sound, Caught, Times, FedWithin, Before

\* Nothing recent is missed: for a ring of any size and however late the ticks are,
\* the window of n seconds includes the delta of the last tick and every one fed up to
\* n-1 seconds before it (SlidingWindow::advance, sum).
THEOREM RecentCounted == Spec => []NothingRecentMissed
  <1>1. ASSUME Inv, pc = "sleep", NEW n \in 1 .. Buckets
        PROVE  Measured(n) >= FedWithin((n - 1) * Second + 1)
    <2>1. PICK d \in Nat : d = (n - 1) * Second
      BY BucketsAssumption, UnitsAssumption
    <2>2. FedWithin(d + 1) = fed[MaxTime] - Before(fed, at - d)
      BY <1>1, FedWithinIs
    <2>3. History(fed) /\ at \in Nat /\ at <= MaxTime /\ MaxTime \in Nat
      BY <1>1, AccuracyAssumption DEF Inv, Sound, Times
    <2>4. CASE win = None
      <3>1. fed[MaxTime] = 0 /\ Measured(n) = 0
        BY <1>1, <2>4 DEF Inv, Ring, Measured
      <3>2. Before(fed, at - d) \in Nat
        BY <2>3, BeforeGrows
      <3>3. QED
        BY <2>1, <2>2, <3>1, <3>2
    <2>5. CASE win # None
      <3>1. Fits(win, fed) /\ win.last_advance <= at
        BY <1>1, <2>5 DEF Inv, Ring
      <3>2. PICK first \in Nat : first = win.last_advance
        BY <2>3, <3>1 DEF Fits, Times
      <3>3. Measured(n) >= fed[MaxTime] - Before(fed, first - d)
        BY <2>1, <2>5, <3>1, <3>2, MeasuredIs DEF Fits
      <3>4. /\ Before(fed, first - d) <= Before(fed, at - d) /\ fed[MaxTime] \in Nat
            /\ Before(fed, first - d) \in Nat /\ Before(fed, at - d) \in Nat
        BY <2>3, <3>1, <3>2, BeforeGrows
      <3>5. Measured(n) \in Nat
        BY <2>5, <3>1, MeasuredIs DEF Fits
      <3>6. QED
        BY <2>1, <2>2, <3>3, <3>4, <3>5
    <2>6. QED BY <2>4, <2>5
  <1>2. Inv => NothingRecentMissed
    BY <1>1 DEF NothingRecentMissed
  <1>3. QED
    BY <1>2, InvHolds, PTL

\* Nothing old lingers: although each advance drops a fraction of a second, the
\* window of n seconds never shows a delta fed 2n-1 seconds ago or earlier, for a ring
\* of any size (SlidingWindow::advance, sum).
THEOREM OldForgotten == Spec => []NothingOldLingers
  <1>1. ASSUME Inv, pc = "sleep", NEW n \in 1 .. Buckets
        PROVE  Measured(n) <= FedWithin((2 * n - 1) * Second)
    <2>0. PICK S \in Nat : S = Second /\ S > 0
      BY UnitsAssumption
    <2>1. PICK d \in Nat : d = (2 * (n - 1)) * S
      BY <2>0, BucketsAssumption
    <2>2. (2 * n - 1) * Second = (d + S - 1) + 1
      BY <2>0, <2>1, BucketsAssumption
    <2>3. FedWithin((2 * n - 1) * Second) = fed[MaxTime] - Before(fed, at - (d + S - 1))
      BY <1>1, <2>2, FedWithinIs
    <2>4. History(fed) /\ at \in Nat /\ at <= MaxTime /\ MaxTime \in Nat
      BY <1>1, AccuracyAssumption DEF Inv, Sound, Times
    <2>5. PICK x \in Int : x = at - (d + S - 1) /\ x <= MaxTime
      BY <2>0, <2>4
    <2>6. CASE win = None
      <3>1. fed[MaxTime] = 0 /\ Measured(n) = 0
        BY <1>1, <2>6 DEF Inv, Ring, Measured
      <3>2. Before(fed, x) \in Nat /\ Before(fed, x) <= fed[MaxTime]
        BY <2>4, <2>5, BeforeGrows
      <3>3. QED
        BY <2>3, <2>5, <3>1, <3>2
    <2>7. CASE win # None
      <3>1. Fits(win, fed) /\ win.last_advance <= at /\ at < win.last_advance + Second
        BY <1>1, <2>7 DEF Inv, Ring
      <3>2. PICK first \in Nat : first = win.last_advance /\ first <= MaxTime
        BY <2>4, <3>1 DEF Fits, Times
      <3>3. Measured(n) <= fed[MaxTime] - Before(fed, first - d)
        BY <2>0, <2>1, <2>7, <3>1, <3>2, MeasuredIs DEF Fits
      <3>4. x <= first - d
        BY <2>0, <2>4, <2>5, <3>1, <3>2
      <3>5. /\ Before(fed, x) <= Before(fed, first - d) /\ fed[MaxTime] \in Nat
            /\ Before(fed, first - d) \in Nat /\ Before(fed, x) \in Nat
        BY <2>4, <3>2, <3>4, BeforeGrows
      <3>6. Measured(n) \in Nat
        BY <2>7, <3>1, MeasuredIs DEF Fits
      <3>7. QED
        BY <2>3, <2>5, <3>3, <3>5, <3>6
    <2>8. QED BY <2>6, <2>7
  <1>2. Inv => NothingOldLingers
    BY <1>1 DEF NothingOldLingers
  <1>3. QED
    BY <1>2, InvHolds, PTL
=============================================================================
