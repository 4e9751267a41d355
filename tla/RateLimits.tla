----------------------------- MODULE RateLimits -----------------------------
(***************************************************************************)
(* TangleRateLimiter (crates/tangle_runtime/src/rate_limits.rs): for each  *)
(* key a window that opens with the first hit after the last one ended and *)
(* a count of its hits.  The time of a hit is the caller's, read from the  *)
(* system clock before the lock is taken: times may come out of order and  *)
(* go back.                                                                *)
(*                                                                         *)
(* "allowed" is a history: for each key, the times of the hits let through *)
(* and, for each, the number of the hit that opened its window.            *)
(***************************************************************************)
EXTENDS Integers, Sequences

CONSTANTS
  Keys,      \* TangleRateLimitKey
  RuleOf,    \* the rule the configuration gives each key
  Readings   \* readings of the clock

\* TangleRateLimitRule::new refuses zeros.
ASSUME RuleAssumption ==
  /\ RuleOf \in [Keys -> [max_hits : Nat \ {0}, window_seconds : Nat \ {0}]]
  /\ Readings \subseteq Nat

VARIABLES entries, allowed
limiterVars == <<entries, allowed>>

\* A key without an entry is one whose window ended before the clock began.
NoEntry == [reset_at |-> 0, hits |-> 0]

LimiterInit ==
  /\ entries = [k \in Keys |-> NoEntry]
  /\ allowed = [k \in Keys |-> <<>>]

ResetAt(k, now) == now + RuleOf[k].window_seconds

\* Mutation: an entry lasts as long as it is used.
RefreshSliding(k, now) ==
  [reset_at |-> ResetAt(k, now),
   hits |-> IF now >= entries[k].reset_at THEN 0
            ELSE IF entries[k].hits = RuleOf[k].max_hits THEN entries[k].hits - 1 ELSE entries[k].hits]

\* reset_if_expired
Refresh(k, now) ==
  IF now >= entries[k].reset_at THEN [reset_at |-> ResetAt(k, now), hits |-> 0] ELSE entries[k]

Allows(k, now) == Refresh(k, now).hits < RuleOf[k].max_hits

Opener(k, now) ==
  IF Refresh(k, now).hits = 0 THEN Len(allowed[k]) + 1 ELSE allowed[k][Len(allowed[k])].first

\* record: Allowed
Hit(k, now) ==
  /\ Allows(k, now)
  /\ entries' = [entries EXCEPT ![k] = [reset_at |-> Refresh(k, now).reset_at,
                                        hits |-> Refresh(k, now).hits + 1]]
  /\ allowed' = [allowed EXCEPT ![k] = Append(@, [at |-> now, first |-> Opener(k, now)])]

\* record: Rejected
Reject(k, now) ==
  /\ ~Allows(k, now)
  /\ entries' = [entries EXCEPT ![k] = Refresh(k, now)]
  /\ UNCHANGED allowed

Record(k, now) == Hit(k, now) \/ Reject(k, now)

LimiterNext == \E k \in Keys, now \in Readings : Record(k, now)

LimiterSpec == LimiterInit /\ [][LimiterNext]_limiterVars

-----------------------------------------------------------------------------
Entries == [reset_at : Nat, hits : Nat]
Hits == [at : Nat, first : Nat]

LimiterTypeOK ==
  /\ entries \in [Keys -> Entries]
  /\ allowed \in [Keys -> Seq(Hits)]

\* However the clock goes, among any 2 * max_hits hits in a row that a key is let
\* through, one comes a whole window after another before it: a burst over the edge of
\* two windows is the worst the fixed windows of record() allow.
BurstBound ==
  \A k \in Keys : \A i \in 1..Len(allowed[k]) :
    LET last == i + 2 * RuleOf[k].max_hits - 1
    IN last <= Len(allowed[k]) =>
         \E p, q \in i..last :
           p < q /\ allowed[k][q].at >= allowed[k][p].at + RuleOf[k].window_seconds
=============================================================================
