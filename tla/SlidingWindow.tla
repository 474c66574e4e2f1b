--------------------------- MODULE SlidingWindow ----------------------------
(***************************************************************************)
(* The ring of one-second buckets a (client, rule) pair is measured with:  *)
(* mw-core/src/window.rs.  No state of its own.                            *)
(*                                                                         *)
(* A bucket holds one number: the sniffer adds to a rule's counters only   *)
(* in the metric of the rule, so the other two fields of the code's Bucket *)
(* stay zero as long as no reload gives the rule another metric.           *)
(***************************************************************************)
EXTENDS Units

CONSTANT Buckets    \* buckets in the ring (the code: 60)

ASSUME BucketsAssumption == Buckets \in Nat \ {0}

Slots == 0 .. Buckets - 1

Window == [buckets : [Slots -> U64], cursor : Slots, last_advance : Instant]

NewWindow(now) == [buckets |-> [s \in Slots |-> 0], cursor |-> 0, last_advance |-> now]

\* Whole seconds since the last advance; the fraction is dropped with them.
Elapsed(w, now) == AsSecs(SatSub(now, w.last_advance))

\* The slots that `steps' moves of the cursor clear: the `steps' after it.
Cleared(w, steps, s) == (s + Buckets - w.cursor - 1) % Buckets < steps

\* Mutants: one slot too few is cleared; every slot is cleared.
AdvanceClearsLess(w, now) ==
  LET elapsed == Elapsed(w, now)
      steps == IF elapsed < Buckets THEN elapsed ELSE Buckets
  IN IF elapsed = 0
       THEN w
       ELSE [buckets |-> [s \in Slots |-> IF Cleared(w, steps - 1, s) THEN 0 ELSE w.buckets[s]],
             cursor |-> (w.cursor + steps) % Buckets,
             last_advance |-> now]

AdvanceClearsAll(w, now) ==
  IF Elapsed(w, now) = 0 THEN w ELSE NewWindow(now)

Advance(w, now) ==
  LET elapsed == Elapsed(w, now)
      steps == IF elapsed < Buckets THEN elapsed ELSE Buckets
  IN IF elapsed = 0
       THEN w
       ELSE [buckets |-> [s \in Slots |-> IF Cleared(w, steps, s) THEN 0 ELSE w.buckets[s]],
             cursor |-> (w.cursor + steps) % Buckets,
             last_advance |-> now]

Add(w, delta, now) ==
  LET v == Advance(w, now)
  IN [v EXCEPT !.buckets[v.cursor] = SatAdd(@, delta)]

\* The bucket under the cursor i moves ago.
Behind(w, i) == w.buckets[(w.cursor + Buckets - i) % Buckets]

\* The running totals of the loop from the cursor backwards.
UpTo(w) ==
  LET upto[i \in 1 .. Buckets] ==
        SatAdd(IF i = 1 THEN 0 ELSE upto[i - 1], Behind(w, i - 1))
  IN upto

\* Sum of the `secs' buckets that end at the cursor, secs clamped to 1 .. Buckets.
SumLast(w, secs) ==
  UpTo(w)[IF secs < 1 THEN 1 ELSE IF secs > Buckets THEN Buckets ELSE secs]
=============================================================================
