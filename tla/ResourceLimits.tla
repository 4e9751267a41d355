--------------------------- MODULE ResourceLimits ---------------------------
(***************************************************************************)
(* RelayResourceLimiter (resource_limits.rs) as the host uses it for its   *)
(* connections: one atomic counter that every connection's task reads,     *)
(* compares and exchanges, and that the permit's Drop decrements.  A       *)
(* caller's steps are those between two accesses to the counter.           *)
(***************************************************************************)
EXTENDS Naturals, FiniteSets

CONSTANTS
  Callers,  \* tasks that ask for a permit
  Limit,    \* max_total_connections
  UsizeMax  \* the largest value of the counter's type

ASSUME LimiterAssumption ==
  /\ Limit \in Nat \ {0}
  /\ UsizeMax \in Nat
  /\ Limit <= UsizeMax
  /\ IsFiniteSet(Callers)

VARIABLES
  active,  \* active_connections
  step,    \* step[c]: where c is in increment_with_limit, or what it holds
  seen     \* seen[c]: `current`, c's last reading of the counter

limiterVars == <<active, step, seen>>

Steps == {"idle", "read", "held", "refused"}

LimiterInit ==
  /\ active = 0
  /\ step = [c \in Callers |-> "idle"]
  /\ seen = [c \in Callers |-> 0]

\* checked_add overflows, or the next value is over the limit.
OverLimit(n) == n + 1 > UsizeMax \/ n + 1 > Limit

\* counter.load, the first access of try_open_connection.
Load(c) ==
  /\ step[c] = "idle"
  /\ step' = [step EXCEPT ![c] = "read"]
  /\ seen' = [seen EXCEPT ![c] = active]
  /\ UNCHANGED active

\* A loop that stores what it computed from an older reading.
StoreWithoutCompare(c) ==
  /\ step[c] = "read"
  /\ ~OverLimit(seen[c])
  /\ active' = seen[c] + 1
  /\ step' = [step EXCEPT ![c] = "held"]
  /\ UNCHANGED seen

\* One turn of the loop: compare_exchange succeeds, or its result is the next
\* `current`.
Exchange(c) ==
  /\ step[c] = "read"
  /\ ~OverLimit(seen[c])
  /\ IF active = seen[c]
     THEN /\ active' = active + 1
          /\ step' = [step EXCEPT ![c] = "held"]
          /\ UNCHANGED seen
     ELSE /\ seen' = [seen EXCEPT ![c] = active]
          /\ UNCHANGED <<active, step>>

\* The loop gives up on what it last read.
GiveUp(c) ==
  /\ step[c] = "read"
  /\ OverLimit(seen[c])
  /\ step' = [step EXCEPT ![c] = "refused"]
  /\ UNCHANGED <<active, seen>>

\* The caller handles the error and is done.
Refused(c) ==
  /\ step[c] = "refused"
  /\ step' = [step EXCEPT ![c] = "idle"]
  /\ seen' = [seen EXCEPT ![c] = 0]
  /\ UNCHANGED active

\* The permit is dropped: fetch_sub, once.
Release(c) ==
  /\ step[c] = "held"
  /\ active' = active - 1
  /\ step' = [step EXCEPT ![c] = "idle"]
  /\ seen' = [seen EXCEPT ![c] = 0]

LimiterNext ==
  \E c \in Callers : Load(c) \/ Exchange(c) \/ GiveUp(c) \/ Refused(c) \/ Release(c)

LimiterSpec == LimiterInit /\ [][LimiterNext]_limiterVars

-----------------------------------------------------------------------------
\* The decision to refuse is taken when the counter is read, not when the
\* caller acts on it: other permits may have been returned in between.
Holders == {c \in Callers : step[c] = "held"}
RefusedCallers ==
  {c \in Callers : step[c] = "refused" \/ (step[c] = "read" /\ OverLimit(seen[c]))}

Pool == INSTANCE PermitPool WITH holders <- Holders, refused <- RefusedCallers

\* The limiter implements the pool: never more than Limit permits, no permit
\* lost when a task ends, and no refusal at a moment when a permit was free, in
\* every interleaving of the loops (RelayResourceLimiter::try_open_connection).
ImplementsPool == Pool!Spec

LimiterTypeOK ==
  /\ active \in 0..UsizeMax
  /\ step \in [Callers -> Steps]
  /\ seen \in [Callers -> 0..UsizeMax]

\* The counter is the number of permits that are out, and is within its limit.
CounterIsHolders ==
  /\ active = Cardinality(Holders)
  /\ active <= Limit
=============================================================================
