------------------------------- MODULE Units --------------------------------
(***************************************************************************)
(* The base types every module of the project shares: time, Rust's Option  *)
(* and the machine integers whose width the code relies on.                *)
(***************************************************************************)
EXTENDS Integers

CONSTANTS None,      \* Option::None, a value outside every payload type
          Second,    \* clock units in a second
          U64Max     \* u64::MAX, where saturating arithmetic stops

ASSUME UnitsAssumption == /\ Second \in Nat \ {0}
                          /\ U64Max \in Nat

\* std::time::Instant, in clock units since the model's time 0.
Instant == Nat

U8 == 0 .. 255
U64 == 0 .. U64Max

\* Mutant: plain addition.
PlainAdd(a, b) == a + b

SatAdd(a, b) == IF a + b > U64Max THEN U64Max ELSE a + b
SatSub(a, b) == IF a > b THEN a - b ELSE 0

\* Duration::as_secs and the Unix time in seconds: the fraction is dropped.
AsSecs(d) == d \div Second
=============================================================================
