----------------------------- MODULE PermitPool -----------------------------
(***************************************************************************)
(* What the relay's connection limiter promises: at most Limit permits are *)
(* out at any moment, and a caller is refused only at a moment at which    *)
(* all of them are out.  ResourceLimits implements this with one atomic    *)
(* counter and a compare-and-exchange loop.                                *)
(***************************************************************************)
EXTENDS Naturals, FiniteSets

CONSTANTS
  Callers,  \* those who may ask for a permit
  Limit     \* how many may hold one

VARIABLES
  holders,  \* who holds a permit
  refused   \* who was refused and has not been told yet

poolVars == <<holders, refused>>

Init == holders = {} /\ refused = {}

\* c gets a permit while one is left.
Grant(c) ==
  /\ c \notin holders \union refused
  /\ Cardinality(holders) < Limit
  /\ holders' = holders \union {c}
  /\ UNCHANGED refused

\* c is refused while none is left.
Refuse(c) ==
  /\ c \notin holders \union refused
  /\ Cardinality(holders) >= Limit
  /\ refused' = refused \union {c}
  /\ UNCHANGED holders

\* The refusal reaches c, which may ask again.
Answer(c) ==
  /\ c \in refused
  /\ refused' = refused \ {c}
  /\ UNCHANGED holders

\* c's permit is dropped.
Return(c) ==
  /\ c \in holders
  /\ holders' = holders \ {c}
  /\ UNCHANGED refused

Next == \E c \in Callers : Grant(c) \/ Refuse(c) \/ Answer(c) \/ Return(c)

Spec == Init /\ [][Next]_poolVars
=============================================================================
