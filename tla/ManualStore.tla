---------------------------- MODULE ManualStore -----------------------------
(***************************************************************************)
(* The persisted form of a manual policy and the Redis key that holds it:  *)
(* StoredManualPolicy of mw-core/src/policy.rs and the ManualPolicyStore   *)
(* half of mw-store/src/redis_store.rs.  No state of its own.              *)
(***************************************************************************)
EXTENDS Policy

StoredManualPolicy == [throttle        : U8 \cup {None},
                       blocked         : BOOLEAN,
                       until_unix_secs : Nat \cup {None}]

\* A Redis key: its value and the instant its TTL removes it (None: no TTL).
Key == [policy : StoredManualPolicy, gone_at : Instant \cup {None}]

\* A missing key is no key.
ASSUME KeyAssumption == None \notin Key

\* `at' is the instant the handler read on entry, `now' the clock while it serialises.
FromRuntime(m, at, now) ==
  [throttle |-> m.throttle, blocked |-> m.blocked,
   until_unix_secs |-> IF m.until = None THEN None
                       ELSE AsSecs(now) + AsSecs(SatSub(m.until, at))]

\* Mutant: a reloaded policy is permanent.
ToRuntimePermanent(s, now) ==
  [throttle |-> s.throttle, blocked |-> s.blocked, until |-> None]

\* A stored deadline in the past becomes `now': expired from the start.
ToRuntime(s, now) ==
  [throttle |-> s.throttle, blocked |-> s.blocked,
   until |-> IF s.until_unix_secs = None THEN None
             ELSE IF s.until_unix_secs * Second >= now THEN s.until_unix_secs * Second
             ELSE now]

\* put(): SET, or SET with a TTL of at least one second.
Ttl(s, now) == LET left == SatSub(s.until_unix_secs, AsSecs(now))
               IN IF left < 1 THEN 1 ELSE left

PutKey(s, now) ==
  [policy |-> s,
   gone_at |-> IF s.until_unix_secs = None THEN None ELSE now + Ttl(s, now) * Second]

\* Redis drops a key when its TTL runs out.
Present(k, now) == k # None /\ (k.gone_at # None => now < k.gone_at)
=============================================================================
