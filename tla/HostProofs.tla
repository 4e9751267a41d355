----------------------------- MODULE HostProofs -----------------------------
(***************************************************************************)
(* The compare-and-exchange loop implements the pool of permits, for every *)
(* limit, width of the counter and finite set of callers; and the host     *)
(* keeps its promises about tenants, connections and the data at shutdown  *)
(* for every set of configurations, requests and connections.              *)
(***************************************************************************)
EXTENDS Host, FiniteSetTheorems, WellFoundedInduction, TLAPS

-----------------------------------------------------------------------------
(* The limiter *)

LimiterInv == LimiterTypeOK /\ CounterIsHolders

\* The set of holders is finite, and grows and shrinks by one.
LEMMA HoldersCount ==
  /\ IsFiniteSet(Holders)
  /\ \A c \in Callers : c \notin Holders => Cardinality(Holders \union {c}) = Cardinality(Holders) + 1
  /\ \A c \in Holders : Cardinality(Holders \ {c}) = Cardinality(Holders) - 1
<1>1. IsFiniteSet(Holders)
  <2>1. Holders \subseteq Callers
    BY DEF Holders
  <2> QED
    BY <2>1, LimiterAssumption, FS_Subset
<1>2. \A c \in Callers : c \notin Holders => Cardinality(Holders \union {c}) = Cardinality(Holders) + 1
  BY <1>1, FS_AddElement
<1>3. \A c \in Holders : Cardinality(Holders \ {c}) = Cardinality(Holders) - 1
  BY <1>1, FS_RemoveElement
<1> QED
  BY <1>1, <1>2, <1>3

\* The pool counts with the same cardinality.
LEMMA PoolCardinality == \A S : Pool!Cardinality(S) = Cardinality(S)
BY DEF Pool!Cardinality, Cardinality

\* A counter within the limit is refused only at the limit.
LEMMA OverMeansFull ==
  ASSUME NEW n \in Nat, n <= Limit
  PROVE  (OverLimit(n) <=> n >= Limit) /\ (~OverLimit(n) => n + 1 <= Limit /\ n + 1 <= UsizeMax)
BY LimiterAssumption DEF OverLimit

\* No permit is out at first.
LEMMA InitInv == LimiterInit => LimiterInv /\ Pool!Init
<1> SUFFICES ASSUME LimiterInit PROVE LimiterInv /\ Pool!Init
  OBVIOUS
<1>1. Holders = {} /\ Cardinality({}) = 0
  BY FS_EmptySet DEF LimiterInit, Holders
<1>2. RefusedCallers = {}
  BY DEF LimiterInit, RefusedCallers
<1>3. LimiterTypeOK
  BY LimiterAssumption DEF LimiterInit, LimiterTypeOK, Steps
<1>4. CounterIsHolders
  BY <1>1, LimiterAssumption DEF LimiterInit, CounterIsHolders
<1> QED
  BY <1>1, <1>2, <1>3, <1>4 DEF LimiterInv, Pool!Init

\* A reading of the counter refuses the caller when the pool is empty, and is invisible
\* otherwise (load, and a compare_exchange that fails).
LEMMA ReadStep ==
  ASSUME LimiterInv, NEW c \in Callers,
         step[c] \in {"idle", "read"}, step[c] = "read" => ~OverLimit(seen[c]),
         step' = [step EXCEPT ![c] = "read"], seen' = [seen EXCEPT ![c] = active],
         active' = active
  PROVE  LimiterInv' /\ (Pool!Refuse(c) \/ UNCHANGED Pool!poolVars)
<1>1. LimiterTypeOK /\ active = Cardinality(Holders) /\ active <= Limit /\ active \in Nat
  BY DEF LimiterInv, CounterIsHolders, LimiterTypeOK
<1>2. LimiterTypeOK'
  BY <1>1 DEF LimiterTypeOK, Steps
<1>3. Holders' = Holders
  BY <1>1 DEF Holders, LimiterTypeOK
<1>4. LimiterInv'
  BY <1>1, <1>2, <1>3 DEF LimiterInv, CounterIsHolders
<1>5. c \notin Holders /\ c \notin RefusedCallers
  BY DEF Holders, RefusedCallers
<1>6. CASE OverLimit(active)
  <2>1. RefusedCallers' = RefusedCallers \union {c}
    BY <1>1, <1>6 DEF RefusedCallers, LimiterTypeOK, OverLimit
  <2>2. Cardinality(Holders) >= Limit
    BY <1>1, <1>6, OverMeansFull
  <2> QED
    BY <1>3, <1>4, <1>5, <2>1, <2>2, PoolCardinality DEF Pool!Refuse
<1>7. CASE ~OverLimit(active)
  <2>1. RefusedCallers' = RefusedCallers
    BY <1>1, <1>5, <1>7 DEF RefusedCallers, LimiterTypeOK, OverLimit
  <2> QED
    BY <1>3, <1>4, <2>1 DEF Pool!poolVars
<1> QED
  BY <1>6, <1>7

\* compare_exchange that succeeds takes a permit while one is left.
LEMMA TakeStep ==
  ASSUME LimiterInv, NEW c \in Callers, Exchange(c), active = seen[c]
  PROVE  LimiterInv' /\ Pool!Grant(c)
<1>1. LimiterTypeOK /\ active = Cardinality(Holders) /\ active <= Limit /\ active \in Nat
  BY DEF LimiterInv, CounterIsHolders, LimiterTypeOK
<1>2. /\ step[c] = "read" /\ ~OverLimit(active)
      /\ active' = active + 1 /\ step' = [step EXCEPT ![c] = "held"] /\ seen' = seen
  BY DEF Exchange
<1>3. active + 1 <= Limit /\ active + 1 <= UsizeMax
  BY <1>1, <1>2, OverMeansFull
<1>4. LimiterTypeOK'
  BY <1>1, <1>2, <1>3, LimiterAssumption DEF LimiterTypeOK, Steps
<1>5. c \notin Holders /\ Holders' = Holders \union {c}
  BY <1>1, <1>2 DEF Holders, LimiterTypeOK
<1>6. Cardinality(Holders') = Cardinality(Holders) + 1
  BY <1>5, HoldersCount
<1>7. c \notin RefusedCallers /\ RefusedCallers' = RefusedCallers
  BY <1>1, <1>2 DEF RefusedCallers, LimiterTypeOK, OverLimit
<1>8. LimiterInv'
  BY <1>1, <1>2, <1>3, <1>4, <1>6 DEF LimiterInv, CounterIsHolders
<1>9. Cardinality(Holders) < Limit
  BY <1>1, <1>3, LimiterAssumption
<1> QED
  BY <1>5, <1>7, <1>8, <1>9, PoolCardinality DEF Pool!Grant

\* Giving up was decided by the last reading.
LEMMA GiveUpStep ==
  ASSUME LimiterInv, NEW c \in Callers, GiveUp(c)
  PROVE  LimiterInv' /\ UNCHANGED Pool!poolVars
<1>1. LimiterTypeOK
  BY DEF LimiterInv
<1>2. LimiterTypeOK'
  BY <1>1 DEF GiveUp, LimiterTypeOK, Steps
<1>3. Holders' = Holders /\ RefusedCallers' = RefusedCallers
  BY <1>1 DEF GiveUp, Holders, RefusedCallers, LimiterTypeOK, OverLimit
<1> QED
  BY <1>2, <1>3 DEF LimiterInv, CounterIsHolders, GiveUp, Pool!poolVars

\* The refusal reaches the caller.
LEMMA RefusedStep ==
  ASSUME LimiterInv, NEW c \in Callers, Refused(c)
  PROVE  LimiterInv' /\ Pool!Answer(c)
<1>1. LimiterTypeOK
  BY DEF LimiterInv
<1>2. LimiterTypeOK'
  BY <1>1, LimiterAssumption DEF Refused, LimiterTypeOK, Steps
<1>3. Holders' = Holders
  BY <1>1 DEF Refused, Holders, LimiterTypeOK
<1>4. c \in RefusedCallers /\ RefusedCallers' = RefusedCallers \ {c}
  BY <1>1 DEF Refused, RefusedCallers, LimiterTypeOK, OverLimit
<1> QED
  BY <1>2, <1>3, <1>4 DEF LimiterInv, CounterIsHolders, Refused, Pool!Answer

\* Dropping a permit returns it.
LEMMA ReleaseStep ==
  ASSUME LimiterInv, NEW c \in Callers, Release(c)
  PROVE  LimiterInv' /\ Pool!Return(c)
<1>1. LimiterTypeOK /\ active = Cardinality(Holders) /\ active <= Limit /\ active \in Nat
  BY DEF LimiterInv, CounterIsHolders, LimiterTypeOK
<1>2. c \in Holders /\ Holders' = Holders \ {c}
  BY <1>1 DEF Release, Holders, LimiterTypeOK
<1>3. Cardinality(Holders') = Cardinality(Holders) - 1 /\ Cardinality(Holders') \in Nat
  <2>1. IsFiniteSet(Holders \ {c})
    BY HoldersCount, FS_Subset, Holders \ {c} \subseteq Holders
  <2> QED
    BY <1>2, <2>1, HoldersCount, FS_CardinalityType
<1>4. active' = Cardinality(Holders') /\ active' \in Nat /\ active' <= Limit
  BY <1>1, <1>3, LimiterAssumption DEF Release
<1>5. LimiterTypeOK'
  BY <1>1, <1>4, LimiterAssumption DEF Release, LimiterTypeOK, Steps
<1>6. RefusedCallers' = RefusedCallers
  BY <1>1 DEF Release, RefusedCallers, LimiterTypeOK, OverLimit
<1> QED
  BY <1>2, <1>4, <1>5, <1>6 DEF LimiterInv, CounterIsHolders, Pool!Return

\* Every step keeps the invariant and is a step of the pool, or none.
LEMMA NextStep ==
  LimiterInv /\ [LimiterNext]_limiterVars => LimiterInv' /\ [Pool!Next]_(Pool!poolVars)
<1> SUFFICES ASSUME LimiterInv, [LimiterNext]_limiterVars
             PROVE  LimiterInv' /\ [Pool!Next]_(Pool!poolVars)
  OBVIOUS
<1>1. CASE UNCHANGED limiterVars
  BY <1>1 DEF limiterVars, LimiterInv, LimiterTypeOK, CounterIsHolders, Holders, RefusedCallers,
              Pool!poolVars
<1>2. ASSUME NEW c \in Callers, Load(c) PROVE LimiterInv' /\ [Pool!Next]_(Pool!poolVars)
  BY <1>2, ReadStep DEF Load, Pool!Next
<1>3. ASSUME NEW c \in Callers, Exchange(c) PROVE LimiterInv' /\ [Pool!Next]_(Pool!poolVars)
  <2>1. CASE active = seen[c]
    BY <1>3, <2>1, TakeStep DEF Pool!Next
  <2>2. CASE active # seen[c]
    <3>1. step \in [Callers -> Steps]
      BY DEF LimiterInv, LimiterTypeOK
    <3>2. step' = [step EXCEPT ![c] = "read"]
      BY <1>3, <2>2, <3>1 DEF Exchange
    <3> QED
      BY <1>3, <2>2, <3>2, ReadStep DEF Exchange, Pool!Next
  <2> QED
    BY <2>1, <2>2
<1>4. ASSUME NEW c \in Callers, GiveUp(c) PROVE LimiterInv' /\ [Pool!Next]_(Pool!poolVars)
  BY <1>4, GiveUpStep
<1>5. ASSUME NEW c \in Callers, Refused(c) PROVE LimiterInv' /\ [Pool!Next]_(Pool!poolVars)
  BY <1>5, RefusedStep DEF Pool!Next
<1>6. ASSUME NEW c \in Callers, Release(c) PROVE LimiterInv' /\ [Pool!Next]_(Pool!poolVars)
  BY <1>6, ReleaseStep DEF Pool!Next
<1> QED
  BY <1>1, <1>2, <1>3, <1>4, <1>5, <1>6 DEF LimiterNext

\* The counter of RelayResourceLimiter is the number of permits out, never more than its
\* limit, in every interleaving of try_open_connection and Drop.
THEOREM CounterExact == LimiterSpec => [](LimiterTypeOK /\ CounterIsHolders)
<1>1. LimiterInit => LimiterInv
  BY InitInv
<1>2. LimiterInv /\ [LimiterNext]_limiterVars => LimiterInv'
  BY NextStep
<1>3. LimiterInv => LimiterTypeOK /\ CounterIsHolders
  BY DEF LimiterInv
<1> QED
  BY <1>1, <1>2, <1>3, PTL DEF LimiterSpec

\* The limiter is a pool of permits: it grants while one is left, and refuses only at a
\* moment at which none is (increment_with_limit, RelayResourcePermit::drop).
THEOREM LimiterIsPool == LimiterSpec => ImplementsPool
<1>1. LimiterInit => LimiterInv /\ Pool!Init
  BY InitInv
<1>2. LimiterInv /\ [LimiterNext]_limiterVars => LimiterInv' /\ [Pool!Next]_(Pool!poolVars)
  BY NextStep
<1> QED
  BY <1>1, <1>2, PTL DEF LimiterSpec, ImplementsPool, Pool!Spec

-----------------------------------------------------------------------------
(* The least of a set of numbers *)

Less == {p \in Nat \X Nat : p[1] < p[2]}

\* A set of numbers that is not empty has a least element.
LEMMA LeastExists ==
  ASSUME NEW T \in SUBSET Nat, T # {}
  PROVE  \E x \in T : \A y \in T : x <= y
<1>1. IsWellFoundedOn(Less, Nat)
  <2>1. OpToRel(<, Nat) = Less
    BY Zenon DEF OpToRel, Less
  <2> QED
    BY <2>1, NatLessThanWellFounded, Zenon
<1>2. PICK x \in T : \A y \in T : ~(<<y, x>> \in Less)
  BY <1>1, WFMin
<1>3. \A a, b \in Nat : <<b, a>> \notin Less => a <= b
  BY DEF Less
<1>4. \A y \in T : x <= y
  BY <1>2, <1>3
<1> QED
  BY <1>4

\* The tenants left to open have a first one, and those left to flush one of
\* the least rank.
LEMMA LeastRank ==
  ASSUME NEW S, NEW f, f \in [S -> Nat], S # {}
  PROVE  \E i \in S : \A j \in S : f[i] <= f[j]
<1> DEFINE T == {f[i] : i \in S}
<1>1. T \in SUBSET Nat /\ T # {}
  OBVIOUS
<1>2. PICK x \in T : \A y \in T : x <= y
  BY <1>1, LeastExists
<1>3. PICK i \in S : x = f[i]
  OBVIOUS
<1>4. \A j \in S : f[i] <= f[j]
  BY <1>2, <1>3
<1> QED
  BY <1>4

-----------------------------------------------------------------------------
(* The main task *)

Started == {"open", "bind", "serve", "drain", "stopped"}

MainInv ==
  /\ config \in Configs
  /\ phase \in Phases \ {"panicked"}
  /\ opened \subseteq Active /\ bound \subseteq Active /\ flushed \subseteq Active
  /\ shutdown \in BOOLEAN
  /\ phase \in Started \/ opened # {} => ConfigAccepted(config)
  /\ \A i \in opened : TenantOpens(config.tenants[i])
  /\ ~shutdown => flushed = {}
  /\ phase \in {"drain", "stopped"} => shutdown
  /\ phase = "stopped" => flushed = Active

DataInv ==
  /\ stored \in [Tenants -> Nat] /\ synced \in [Tenants -> Nat] /\ owed \in [Tenants -> Nat]
  /\ \A t \in Tenants : synced[t] <= stored[t] /\ owed[t] <= stored[t]
  /\ \A t \in flushed : synced[t] >= owed[t]

\* What the configurations are assumed to be.
LEMMA ConfigFacts ==
  ASSUME MainInv
  PROVE  /\ Active \subseteq Tenants /\ Tenants \subseteq Nat \ {0}
         /\ config.host.limits.max_total_connections \in Nat
         /\ ConfigAccepted(config) =>
              /\ config.host.limits.max_total_connections = Limit
              /\ \A i \in Tenants : HostRank(ActiveHost(i)) \in Nat
         /\ \A i \in Tenants : config.tenants[i].auth.challenge_ttl_seconds \in Nat
<1>1. ConfigAccepted(config) => \A i \in Tenants : CanonicalHost(config.tenants[i].host) # None
  BY DEF ConfigAccepted, TenantValid, Tenants
<1> QED
  BY <1>1, HostAssumption DEF MainInv, Active, ActiveTenants, Tenants, ActiveHost

\* The next tenant to open is an active one,
LEMMA NextOpenedIn ==
  ASSUME MainInv, opened # Active
  PROVE  NextOpened \in Active
<1>1. Active \ opened # {} /\ Active \ opened \in SUBSET Nat
  BY ConfigFacts DEF MainInv
<1>2. \E i \in Active \ opened : \A j \in Active \ opened : i <= j
  BY <1>1, LeastExists
<1> QED
  BY <1>2 DEF NextOpened

\* and so is the next to flush.
LEMMA NextFlushedIn ==
  ASSUME MainInv, ConfigAccepted(config), flushed # Active
  PROVE  NextFlushed \in Active
<1> DEFINE S == Active \ flushed
           f == [i \in S |-> HostRank(ActiveHost(i))]
<1>1. S # {} /\ f \in [S -> Nat]
  BY ConfigFacts DEF MainInv
<1>2. \E i \in S : \A j \in S : f[i] <= f[j]
  <2> HIDE DEF f, S
  <2> QED BY <1>1, LeastRank
<1>3. \E i \in S : \A j \in S : HostRank(ActiveHost(i)) <= HostRank(ActiveHost(j))
  BY <1>2
<1> QED
  BY <1>3 DEF NextFlushed

\* A start that was accepted does not ask for chunks of no tenants.
LEMMA StartupConcurrency ==
  ASSUME ConfigAccepted(config)
  PROVE  config.host.limits.tenant_startup_concurrency # 0
BY DEF ConfigAccepted, HostValid, HostLimitsValid, RequirePositive, HostLimitFields

\* The main task's steps leave connections and permits alone.
LEMMA MainFrame ==
  ASSUME Main
  PROVE  UNCHANGED <<limiterVars, connVars, config, stored, owed, shutdown>>
BY DEF Main, LoadConfig, OpenTenant, OpenFails, Register, Bind, ServeReturns, FlushTenant, FlushFails,
       Stop, dataVars

\* They keep its invariant,
LEMMA MainStep ==
  ASSUME MainInv, Main
  PROVE  MainInv'
<1>0. config' = config /\ Active' = Active /\ shutdown' = shutdown /\ Tenants' = Tenants
  BY MainFrame DEF Active, Tenants
<1>1. CASE LoadConfig
  BY <1>0, <1>1 DEF LoadConfig, MainInv, Started, Phases
<1>2. CASE OpenTenant
  <2>1. ConfigAccepted(config) /\ phase = "open" /\ opened # Active
    BY <1>2 DEF MainInv, OpenTenant, Started
  <2>2. UNCHANGED <<bound, flushed>>
    BY <1>2 DEF OpenTenant
  <2>3. CASE TenantOpens(config.tenants[NextOpened])
    <3>1. opened' = opened \union {NextOpened} /\ phase' = phase
      BY <1>2, <2>1, <2>3, StartupConcurrency DEF OpenTenant
    <3>2. opened' \subseteq Active
      BY <2>1, <3>1, NextOpenedIn DEF MainInv
    <3>3. \A i \in opened' : TenantOpens(config.tenants[i])
      BY <2>3, <3>1 DEF MainInv
    <3> QED
      BY <1>0, <2>1, <2>2, <3>1, <3>2, <3>3 DEF MainInv
  <2>4. CASE ~TenantOpens(config.tenants[NextOpened])
    <3>1. opened' = opened /\ phase' = "failed"
      BY <1>2, <2>1, <2>4, StartupConcurrency DEF OpenTenant
    <3> QED
      BY <1>0, <2>1, <2>2, <3>1 DEF MainInv, Phases
  <2> QED
    BY <2>3, <2>4
<1>3. CASE OpenFails
  BY <1>0, <1>3 DEF OpenFails, MainInv, Started, Phases
<1>4. CASE Register
  BY <1>0, <1>4 DEF Register, MainInv, Started, Phases
<1>5. CASE Bind
  BY <1>0, <1>5 DEF Bind, MainInv, Started, Phases
<1>6. CASE ServeReturns
  BY <1>0, <1>6 DEF ServeReturns, MainInv, Started, Phases
<1>7. CASE FlushTenant
  <2>1. ConfigAccepted(config) /\ phase = "drain" /\ flushed # Active
    BY <1>7 DEF MainInv, FlushTenant, Started
  <2>2. NextFlushed \in Active
    BY <2>1, NextFlushedIn
  <2>3. flushed' = flushed \union {NextFlushed} /\ UNCHANGED <<phase, opened, bound>>
    BY <1>7 DEF FlushTenant
  <2> QED
    BY <1>0, <2>1, <2>2, <2>3 DEF MainInv
<1>8. CASE FlushFails
  BY <1>0, <1>8 DEF FlushFails, MainInv, Started, Phases
<1>9. CASE Stop
  BY <1>0, <1>9 DEF Stop, MainInv, Started, Phases
<1> QED
  BY <1>1, <1>2, <1>3, <1>4, <1>5, <1>6, <1>7, <1>8, <1>9 DEF Main

\* and what is owed to clients is on disk where it was flushed.
LEMMA MainData ==
  ASSUME MainInv, DataInv, Main
  PROVE  DataInv'
<1>0. Tenants' = Tenants /\ stored' = stored /\ owed' = owed
  BY MainFrame DEF Tenants
<1>1. CASE FlushTenant
  <2>1. ConfigAccepted(config) /\ flushed # Active
    BY <1>1 DEF MainInv, FlushTenant, Started
  <2>2. NextFlushed \in Tenants
    BY <2>1, NextFlushedIn, ConfigFacts
  <2>3. /\ synced' = [synced EXCEPT ![NextFlushed] = stored[NextFlushed]]
        /\ flushed' = flushed \union {NextFlushed}
    BY <1>1 DEF FlushTenant
  <2>4. stored[NextFlushed] \in Nat /\ owed[NextFlushed] <= stored[NextFlushed]
    BY <2>2 DEF DataInv
  <2>5. synced' \in [Tenants -> Nat]
    BY <2>3, <2>4 DEF DataInv
  <2>6. \A t \in Tenants : t # NextFlushed => synced'[t] = synced[t]
    BY <2>3 DEF DataInv
  <2>7. synced'[NextFlushed] = stored[NextFlushed]
    BY <2>2, <2>3 DEF DataInv
  <2>8. flushed \subseteq Tenants
    BY ConfigFacts DEF MainInv
  <2>9. \A t \in Tenants : synced'[t] <= stored[t]
    BY <2>4, <2>6, <2>7 DEF DataInv
  <2>10. \A t \in flushed' : synced'[t] >= owed[t]
    BY <2>3, <2>4, <2>6, <2>7, <2>8 DEF DataInv
  <2> QED
    BY <1>0, <2>5, <2>9, <2>10 DEF DataInv
<1>2. CASE ~FlushTenant
  <2>1. synced' = synced /\ flushed' = flushed
    BY <1>2 DEF Main, LoadConfig, OpenTenant, OpenFails, Register, Bind, ServeReturns, FlushFails,
                Stop, dataVars
  <2> QED
    BY <1>0, <2>1 DEF DataInv
<1> QED
  BY <1>1, <1>2

\* The signal is set: what is stored is what is owed from now on.
LEMMA ShutdownStep ==
  ASSUME MainInv, DataInv, RequestShutdown
  PROVE  MainInv' /\ DataInv' /\ UNCHANGED <<limiterVars, connVars, config, dataVars>>
<1>1. /\ phase = "serve" /\ ~shutdown /\ shutdown' = TRUE /\ owed' = stored
      /\ UNCHANGED <<limiterVars, connVars, dataVars, config, phase, opened, bound, flushed>>
  BY DEF RequestShutdown
<1>2. Active' = Active /\ Tenants' = Tenants /\ stored' = stored /\ synced' = synced
  BY <1>1 DEF Active, Tenants, dataVars
<1>3. MainInv'
  BY <1>1, <1>2 DEF MainInv
<1>4. flushed' = {}
  BY <1>1 DEF MainInv
<1>5. DataInv'
  BY <1>1, <1>2, <1>4 DEF DataInv
<1> QED
  BY <1>1, <1>3, <1>5

\* A session stores an event of a tenant.
LEMMA StoreData ==
  ASSUME MainInv, DataInv, NEW c \in Callers, StoreEvent(c), conn[c].tenant \in Tenants
  PROVE  DataInv' /\ UNCHANGED <<limiterVars, mainVars, connVars>>
<1> DEFINE t == conn[c].tenant
<1>1. /\ stored' = [stored EXCEPT ![t] = stored[t] + 1]
      /\ synced' = [synced EXCEPT ![t] = SyncAfterWrite(t, stored[t] + 1)]
      /\ UNCHANGED <<limiterVars, mainVars, connVars>>
  BY DEF StoreEvent
<1>2. Tenants' = Tenants /\ owed' = owed /\ flushed' = flushed
  BY <1>1 DEF mainVars, Tenants
<1>3. t \in Tenants /\ stored[t] \in Nat /\ synced[t] \in Nat /\ synced[t] <= stored[t] /\ owed[t] <= stored[t]
  BY DEF DataInv
<1> HIDE DEF t
<1>4. PICK n : n = SyncAfterWrite(t, stored[t] + 1)
  OBVIOUS
<1>5. n \in Nat /\ n >= synced[t] /\ n <= stored[t] + 1
  BY <1>3, <1>4 DEF SyncAfterWrite
<1>6. stored' \in [Tenants -> Nat] /\ synced' \in [Tenants -> Nat]
  BY <1>1, <1>3, <1>4, <1>5 DEF DataInv
<1>7. /\ stored'[t] = stored[t] + 1 /\ synced'[t] = n
      /\ \A u \in Tenants : u # t => stored'[u] = stored[u] /\ synced'[u] = synced[u]
  BY <1>1, <1>3, <1>4 DEF DataInv
<1>8. \A u \in Tenants : synced'[u] <= stored'[u] /\ owed[u] <= stored'[u]
  BY <1>3, <1>5, <1>7 DEF DataInv
<1>9. \A u \in Tenants : synced'[u] >= synced[u] /\ synced'[u] \in Nat /\ synced[u] \in Nat /\ owed[u] \in Nat
  BY <1>5, <1>6, <1>7 DEF DataInv
<1>10. flushed \subseteq Tenants
  BY ConfigFacts DEF MainInv
<1>11. \A u \in flushed : synced'[u] >= owed[u]
  BY <1>9, <1>10 DEF DataInv
<1> QED
  BY <1>1, <1>2, <1>6, <1>8, <1>11 DEF DataInv

-----------------------------------------------------------------------------
(* Connections *)

Conns == [stage : Stages, tenant : Active \union {0}]
Holding == {"session", "upgrade", "run"}
Codes == {0, 101, 200, 400, 404, 429, 500}

\* A connection's stage says what it is in the limiter; and one that is being
\* served belongs to an active tenant of a configuration that was accepted.
Coupled(k, s) ==
  /\ k.stage \in Holding <=> s = "held"
  /\ k.stage = "free" => s = "idle"
  /\ k.stage # "free" => k.tenant \in Active /\ ConfigAccepted(config)

\* An internal error has only one cause left.
CodeExplained(x) ==
  x = 500 => \E i \in Active : config.tenants[i].auth.challenge_ttl_seconds = 0

ConnInv ==
  /\ conn \in [Callers -> Conns] /\ status \in [Callers -> Codes]
  /\ \A c \in Callers : Coupled(conn[c], step[c]) /\ CodeExplained(status[c])

\* A connection goes to another stage.
LEMMA StageSet ==
  ASSUME NEW k \in Conns, NEW s \in Stages
  PROVE  /\ [k EXCEPT !.stage = s] \in Conns
         /\ [k EXCEPT !.stage = s].stage = s /\ [k EXCEPT !.stage = s].tenant = k.tenant
BY DEF Conns

\* A step of one connection keeps the invariant if it does so for that one.
LEMMA ConnStep ==
  ASSUME ConnInv, LimiterTypeOK, UNCHANGED config, NEW c \in Callers,
         NEW k \in Conns, NEW s, NEW x \in Codes,
         conn' = [conn EXCEPT ![c] = k], step' = [step EXCEPT ![c] = s],
         status' = [status EXCEPT ![c] = x], Coupled(k, s), CodeExplained(x)
  PROVE  ConnInv'
<1>0. Active' = Active /\ Conns' = Conns
  BY DEF Active, Conns
<1>1. conn' \in [Callers -> Conns'] /\ status' \in [Callers -> Codes]
  BY <1>0 DEF ConnInv
<1>2. /\ conn'[c] = k /\ step'[c] = s /\ status'[c] = x
      /\ \A d \in Callers : d # c => conn'[d] = conn[d] /\ step'[d] = step[d] /\ status'[d] = status[d]
  BY DEF ConnInv, LimiterTypeOK
<1>3. /\ \A m, n : Coupled(m, n)' <=> Coupled(m, n)
      /\ \A y : CodeExplained(y)' <=> CodeExplained(y)
  BY <1>0 DEF Coupled, CodeExplained
<1>4. ASSUME NEW d \in Callers
      PROVE  Coupled(conn[d], step[d])' /\ CodeExplained(status[d])'
  <2>1. CASE d = c
    BY <1>2, <1>3, <2>1
  <2>2. CASE d # c
    BY <1>2, <1>3, <2>2 DEF ConnInv
  <2> QED
    BY <2>1, <2>2
<1> QED
  BY <1>1, <1>4 DEF ConnInv

\* Steps that touch no connection and no permit keep it.
LEMMA ConnKept ==
  ASSUME ConnInv, UNCHANGED <<limiterVars, conn, status, config>>
  PROVE  ConnInv'
<1>0. Active' = Active /\ Conns' = Conns /\ step' = step
  BY DEF Active, Conns, limiterVars
<1>1. /\ \A m, n : Coupled(m, n)' <=> Coupled(m, n)
      /\ \A y : CodeExplained(y)' <=> CodeExplained(y)
  BY <1>0 DEF Coupled, CodeExplained
<1>2. ASSUME NEW d \in Callers
      PROVE  Coupled(conn[d], step[d])' /\ CodeExplained(status[d])'
  BY <1>0, <1>1 DEF ConnInv
<1> QED
  BY <1>0, <1>2 DEF ConnInv

\* A tenant that is found is an active one of the name the request goes by.
LEMMA TenantNamed ==
  ASSUME NEW r, TenantForRequest(r) # 0
  PROVE  /\ TenantForRequest(r) \in Active
         /\ Some(ActiveHost(TenantForRequest(r))) = ResolveRequestHost(r)
BY DEF TenantForRequest

\* A request that is answered leaves its slot free, one that is routed waits for a
\* permit.
LEMMA RequestStep ==
  ASSUME MainInv, ConnInv, LimiterTypeOK, NEW c \in Callers, NEW r \in Requests, Request(c, r)
  PROVE  ConnInv' /\ UNCHANGED <<limiterVars, mainVars, dataVars>>
<1>1. /\ UNCHANGED <<limiterVars, mainVars, dataVars>> /\ conn[c] = NoConn /\ phase = "serve"
  BY DEF Request, Serving
<1>2. /\ config' = config /\ step' = step /\ step[c] = "idle"
      /\ step' = [step EXCEPT ![c] = "idle"] /\ ConfigAccepted(config)
  BY <1>1 DEF mainVars, limiterVars, ConnInv, Coupled, NoConn, LimiterTypeOK, MainInv, Started
<1>3. NoConn \in Conns /\ Coupled(NoConn, "idle")
  BY DEF NoConn, Conns, Stages, Coupled, Holding
<1>4. ASSUME NEW x \in Codes \ {500}, Answered(c, x)
      PROVE  ConnInv'
  <2>1. CodeExplained(x)
    BY DEF CodeExplained
  <2> QED
    BY <1>2, <1>3, <1>4, <2>1, ConnStep DEF Answered
<1>5. CASE TenantForRequest(r) = 0
  <2>1. Answered(c, ResolutionStatus(r)) /\ ResolutionStatus(r) \in Codes \ {500}
    BY <1>5 DEF Request, ResolutionStatus, Codes
  <2> QED
    BY <1>1, <1>4, <2>1
<1>6. CASE TenantForRequest(r) # 0 /\ ~r.upgrade
  <2>1. Answered(c, InfoStatus(r)) /\ InfoStatus(r) \in Codes \ {500}
    BY <1>6 DEF Request, InfoStatus, Codes
  <2> QED
    BY <1>1, <1>4, <2>1
<1>7. CASE TenantForRequest(r) # 0 /\ ~(~r.upgrade)
  <2> DEFINE k == [stage |-> "permit", tenant |-> TenantForRequest(r)]
  <2>1. conn' = [conn EXCEPT ![c] = k] /\ status' = status
    BY <1>7 DEF Request
  <2>2. k \in Conns /\ Coupled(k, "idle")
    BY <1>2, <1>7, TenantNamed DEF Conns, Stages, Coupled, Holding
  <2>3. status' = [status EXCEPT ![c] = status[c]] /\ status[c] \in Codes /\ CodeExplained(status[c])
    BY <2>1 DEF ConnInv
  <2> HIDE DEF k
  <2>4. ConnInv'
    BY <1>2, <2>1, <2>2, <2>3, ConnStep
  <2> QED
    BY <1>1, <2>4
<1> QED
  BY <1>5, <1>6, <1>7

\* The steps that take, use and return a permit.
LEMMA HandlerConn ==
  ASSUME MainInv, ConnInv, LimiterTypeOK, NEW c \in Callers,
         HandlerStep(c) \/ EndSession(c)
  PROVE  /\ ConnInv' /\ UNCHANGED <<mainVars, dataVars>>
         /\ \/ Load(c) \/ Exchange(c) \/ GiveUp(c) \/ Refused(c) \/ Release(c)
            \/ UNCHANGED limiterVars
<1>0. /\ UNCHANGED <<mainVars, dataVars>>
      /\ \/ Load(c) \/ Exchange(c) \/ GiveUp(c) \/ Refused(c) \/ Release(c)
         \/ UNCHANGED limiterVars
  BY DEF HandlerStep, Handle, TakePermit, TooMany, OpenSession, Upgrade, EndSession
<1>1. config' = config
  BY <1>0 DEF mainVars
<1>2. /\ conn[c] \in Conns /\ status[c] \in Codes /\ Coupled(conn[c], step[c])
      /\ CodeExplained(status[c])
      /\ step[c] \in Steps
  BY DEF ConnInv, LimiterTypeOK
<1>3. NoConn \in Conns /\ Coupled(NoConn, "idle")
  BY DEF NoConn, Conns, Stages, Coupled, Holding
<1>4. /\ UNCHANGED status => status' = [status EXCEPT ![c] = status[c]]
      /\ UNCHANGED step => step' = [step EXCEPT ![c] = step[c]]
      /\ UNCHANGED conn => conn' = [conn EXCEPT ![c] = conn[c]]
  BY DEF ConnInv, LimiterTypeOK
<1>5. ASSUME NEW s \in {"session", "upgrade", "run"}, conn[c].stage # "free"
      PROVE  /\ [conn[c] EXCEPT !.stage = s] \in Conns
             /\ Coupled([conn[c] EXCEPT !.stage = s], "held")
  <2>1. s \in Stages
    BY DEF Stages
  <2>2. PICK k \in Conns : k = conn[c]
    BY <1>2
  <2>3. [k EXCEPT !.stage = s] \in Conns
    BY <2>1, StageSet
  <2>4. [k EXCEPT !.stage = s].stage = s /\ [k EXCEPT !.stage = s].tenant = k.tenant
    BY DEF Conns
  <2>5. PICK m : m = [k EXCEPT !.stage = s]
    OBVIOUS
  <2>6. Coupled(m, "held")
    BY <1>2, <1>5, <2>2, <2>4, <2>5 DEF Coupled, Holding
  <2> QED
    BY <2>2, <2>3, <2>5, <2>6
<1>6. CASE TakePermit(c)
  <2>1. conn[c].stage = "permit" /\ UNCHANGED status /\ (Load(c) \/ Exchange(c) \/ GiveUp(c))
    BY <1>6 DEF TakePermit
  <2>2. PICK s \in Steps : step' = [step EXCEPT ![c] = s]
    BY <1>2, <1>4, <2>1 DEF Load, Exchange, GiveUp, Steps
  <2>3. step'[c] = s
    BY <2>2 DEF LimiterTypeOK
  <2>4. CASE s = "held"
    <3>1. conn' = [conn EXCEPT ![c] = [conn[c] EXCEPT !.stage = "session"]]
      BY <1>6, <2>3, <2>4 DEF TakePermit
    <3>2. [conn[c] EXCEPT !.stage = "session"] \in Conns /\ Coupled([conn[c] EXCEPT !.stage = "session"], "held")
      BY <1>5, <2>1
    <3>3. PICK k \in Conns : k = [conn[c] EXCEPT !.stage = "session"]
      BY <3>2
    <3>4. /\ conn' = [conn EXCEPT ![c] = k] /\ Coupled(k, "held")
          /\ step' = [step EXCEPT ![c] = "held"] /\ status' = [status EXCEPT ![c] = status[c]]
      BY <1>4, <2>1, <2>2, <2>4, <3>1, <3>2, <3>3
    <3>5. ConnInv'
      BY <1>1, <1>2, <3>4, ConnStep
    <3> QED
      BY <1>0, <3>5
  <2>5. CASE s # "held"
    <3>1. UNCHANGED conn
      BY <1>6, <2>3, <2>5 DEF TakePermit
    <3>2. Coupled(conn[c], s)
      BY <1>2, <2>1, <2>5 DEF Coupled, Holding
    <3>3. ConnInv'
      BY <1>1, <1>2, <1>4, <2>1, <2>2, <3>1, <3>2, ConnStep
    <3> QED
      BY <1>0, <3>3
  <2> QED
    BY <2>4, <2>5
<1>7. CASE TooMany(c)
  <2>1. /\ conn' = [conn EXCEPT ![c] = NoConn] /\ status' = [status EXCEPT ![c] = 429]
        /\ step' = [step EXCEPT ![c] = "idle"]
    BY <1>7 DEF TooMany, Answered, Refused
  <2>2. 429 \in Codes /\ CodeExplained(429)
    BY DEF Codes, CodeExplained
  <2> QED
    BY <1>0, <1>1, <1>3, <2>1, <2>2, ConnStep
<1>8. CASE OpenSession(c)
  <2>1. conn[c].stage = "session"
    BY <1>8 DEF OpenSession
  <2>2. conn[c].tenant \in Active /\ ConfigAccepted(config) /\ step[c] = "held"
    BY <1>2, <2>1 DEF Coupled, Holding
  <2>3. CASE AuthStateValid(config.tenants[conn[c].tenant])
    <3>1. /\ conn' = [conn EXCEPT ![c] = [conn[c] EXCEPT !.stage = "upgrade"]]
          /\ status' = [status EXCEPT ![c] = 101] /\ UNCHANGED step
      BY <1>8, <2>3 DEF OpenSession, limiterVars
    <3>2. [conn[c] EXCEPT !.stage = "upgrade"] \in Conns /\ Coupled([conn[c] EXCEPT !.stage = "upgrade"], "held")
      BY <1>5, <2>1
    <3>3. PICK k \in Conns : k = [conn[c] EXCEPT !.stage = "upgrade"]
      BY <3>2
    <3>4. 101 \in Codes /\ CodeExplained(101)
      BY DEF Codes, CodeExplained
    <3>5. /\ conn' = [conn EXCEPT ![c] = k] /\ Coupled(k, "held")
          /\ step' = [step EXCEPT ![c] = "held"] /\ status' = [status EXCEPT ![c] = 101]
      BY <1>4, <2>2, <3>1, <3>2, <3>3
    <3>6. ConnInv'
      BY <1>1, <3>4, <3>5, ConnStep
    <3> QED
      BY <1>0, <3>6
  <2>4. CASE ~AuthStateValid(config.tenants[conn[c].tenant])
    <3>1. /\ conn' = [conn EXCEPT ![c] = NoConn]
          /\ status' = [status EXCEPT ![c] = 500] /\ step' = [step EXCEPT ![c] = "idle"]
      BY <1>8, <2>4 DEF OpenSession, Release, Answered
    <3>2. conn[c].tenant \in Tenants
      BY <2>2, ConfigFacts
    <3>3. config.tenants[conn[c].tenant].auth.created_at_skew_seconds > 0
      BY <2>2, <3>2 DEF ConfigAccepted, TenantValid, Tenants
    <3>4. config.tenants[conn[c].tenant].auth.challenge_ttl_seconds = 0
      BY <2>4, <3>2, <3>3, ConfigFacts DEF AuthStateValid
    <3>5. 500 \in Codes /\ CodeExplained(500)
      BY <2>2, <3>4 DEF Codes, CodeExplained
    <3> QED
      BY <1>0, <1>1, <1>3, <3>1, <3>5, ConnStep
  <2> QED
    BY <2>3, <2>4
<1>9. CASE Upgrade(c)
  <2>1. conn[c].stage = "upgrade" /\ UNCHANGED status
    BY <1>9 DEF Upgrade
  <2>2. step[c] = "held"
    BY <1>2, <2>1 DEF Coupled, Holding
  <2>3. CASE conn' = [conn EXCEPT ![c].stage = "run"] /\ UNCHANGED limiterVars
    <3>1. /\ conn' = [conn EXCEPT ![c] = [conn[c] EXCEPT !.stage = "run"]] /\ UNCHANGED step
      BY <2>3 DEF limiterVars
    <3>2. [conn[c] EXCEPT !.stage = "run"] \in Conns /\ Coupled([conn[c] EXCEPT !.stage = "run"], "held")
      BY <1>5, <2>1
    <3>3. PICK k \in Conns : k = [conn[c] EXCEPT !.stage = "run"]
      BY <3>2
    <3>4. /\ conn' = [conn EXCEPT ![c] = k] /\ Coupled(k, "held")
          /\ step' = [step EXCEPT ![c] = "held"] /\ status' = [status EXCEPT ![c] = status[c]]
      BY <1>4, <2>1, <2>2, <3>1, <3>2, <3>3
    <3>5. ConnInv'
      BY <1>1, <1>2, <3>4, ConnStep
    <3> QED
      BY <1>0, <3>5
  <2>4. CASE conn' = [conn EXCEPT ![c] = NoConn] /\ Release(c)
    BY <1>0, <1>1, <1>2, <1>3, <1>4, <2>1, <2>4, ConnStep DEF Release
  <2> QED
    BY <1>9, <2>3, <2>4 DEF Upgrade
<1>10. CASE EndSession(c)
  <2>1. /\ conn' = [conn EXCEPT ![c] = NoConn] /\ step' = [step EXCEPT ![c] = "idle"]
        /\ UNCHANGED status
    BY <1>10 DEF EndSession, Release
  <2> QED
    BY <1>0, <1>1, <1>2, <1>3, <1>4, <2>1, ConnStep
<1> QED
  BY <1>6, <1>7, <1>8, <1>9, <1>10 DEF HandlerStep, Handle

-----------------------------------------------------------------------------
(* The invariant of the host *)

HostInd == LimiterInv /\ MainInv /\ DataInv /\ ConnInv

\* A process that has just been started has nothing.
LEMMA InitHost == HostInit => HostInd
<1> SUFFICES ASSUME HostInit PROVE HostInd
  OBVIOUS
<1>1. LimiterInv
  BY InitInv DEF HostInit
<1>2. MainInv
  BY DEF HostInit, MainInv, Phases, Started
<1>3. DataInv
  BY DEF HostInit, DataInv
<1>4. NoConn \in Conns /\ Coupled(NoConn, "idle") /\ CodeExplained(0) /\ 0 \in Codes
  BY DEF NoConn, Conns, Stages, Coupled, Holding, CodeExplained, Codes
<1>5. /\ conn = [c \in Callers |-> NoConn] /\ status = [c \in Callers |-> 0]
      /\ step = [c \in Callers |-> "idle"]
  BY DEF HostInit, LimiterInit
<1>6. ConnInv
  BY <1>4, <1>5 DEF ConnInv
<1> QED
  BY <1>1, <1>2, <1>3, <1>6 DEF HostInd

\* The main task and the data do not depend on connections.
LEMMA MainKept ==
  ASSUME MainInv, DataInv, UNCHANGED <<mainVars, dataVars>>
  PROVE  MainInv' /\ DataInv'
<1>1. UNCHANGED <<config, phase, opened, bound, shutdown, owed, flushed, stored, synced>>
  BY DEF mainVars, dataVars
<1>2. Active' = Active /\ Tenants' = Tenants
  BY <1>1 DEF Active, Tenants
<1> QED
  BY <1>1, <1>2 DEF MainInv, DataInv

\* Every step keeps the invariant and is, to the limiter, one of its steps or none.
LEMMA NextHost ==
  ASSUME HostInd, [HostNext]_hostVars
  PROVE  HostInd' /\ [LimiterNext]_limiterVars
<1>1. LimiterInv /\ LimiterTypeOK /\ MainInv /\ DataInv /\ ConnInv
  BY DEF HostInd, LimiterInv
<1>2. ASSUME [LimiterNext]_limiterVars, MainInv', DataInv', ConnInv'
      PROVE  HostInd' /\ [LimiterNext]_limiterVars
  BY <1>1, <1>2, NextStep DEF HostInd
<1>3. CASE UNCHANGED hostVars
  <2>1. UNCHANGED <<limiterVars, mainVars, dataVars>> /\ UNCHANGED <<limiterVars, conn, status, config>>
    BY <1>3 DEF hostVars, connVars, mainVars
  <2>2. MainInv' /\ DataInv' /\ ConnInv'
    BY <1>1, <2>1, MainKept, ConnKept
  <2> QED
    BY <1>2, <2>1, <2>2
<1>4. CASE Main
  <2>1. UNCHANGED limiterVars /\ UNCHANGED <<limiterVars, conn, status, config>>
    BY <1>4, MainFrame DEF connVars
  <2>2. MainInv' /\ DataInv' /\ ConnInv'
    BY <1>1, <1>4, <2>1, MainStep, MainData, ConnKept
  <2> QED
    BY <1>2, <2>1, <2>2
<1>5. CASE RequestShutdown
  <2>1. MainInv' /\ DataInv' /\ UNCHANGED <<limiterVars, connVars, config, dataVars>>
    BY <1>1, <1>5, ShutdownStep
  <2>2. UNCHANGED limiterVars /\ UNCHANGED <<limiterVars, conn, status, config>>
    BY <2>1 DEF connVars
  <2>3. ConnInv'
    BY <1>1, <2>2, ConnKept
  <2> QED
    BY <1>2, <2>1, <2>2, <2>3
<1>6. ASSUME NEW c \in Callers, NEW r \in Requests, Request(c, r)
      PROVE  HostInd' /\ [LimiterNext]_limiterVars
  <2>1. ConnInv' /\ UNCHANGED <<limiterVars, mainVars, dataVars>>
    BY <1>1, <1>6, RequestStep
  <2>2. MainInv' /\ DataInv'
    BY <1>1, <2>1, MainKept
  <2> QED
    BY <1>2, <2>1, <2>2
<1>7. ASSUME NEW c \in Callers, HandlerStep(c) \/ EndSession(c)
      PROVE  HostInd' /\ [LimiterNext]_limiterVars
  <2>1. /\ ConnInv' /\ UNCHANGED <<mainVars, dataVars>>
        /\ \/ Load(c) \/ Exchange(c) \/ GiveUp(c) \/ Refused(c) \/ Release(c)
           \/ UNCHANGED limiterVars
    BY <1>1, <1>7, HandlerConn
  <2>2. MainInv' /\ DataInv'
    BY <1>1, <2>1, MainKept
  <2>3. [LimiterNext]_limiterVars
    BY <2>1 DEF LimiterNext
  <2> QED
    BY <1>2, <2>1, <2>2, <2>3
<1>8. ASSUME NEW c \in Callers, StoreEvent(c)
      PROVE  HostInd' /\ [LimiterNext]_limiterVars
  <2>1. conn[c].stage = "run" /\ Coupled(conn[c], step[c])
    BY <1>1, <1>8 DEF StoreEvent, ConnInv
  <2>2. conn[c].tenant \in Tenants
    BY <1>1, <2>1, ConfigFacts DEF Coupled
  <2>3. DataInv' /\ UNCHANGED <<limiterVars, mainVars, connVars>>
    BY <1>1, <1>8, <2>2, StoreData
  <2>4. UNCHANGED <<limiterVars, conn, status, config>>
    BY <2>3 DEF connVars, mainVars
  <2>5. ConnInv'
    BY <1>1, <2>4, ConnKept
  <2>6. UNCHANGED <<config, phase, opened, bound, shutdown, flushed>> /\ Active' = Active
    BY <2>3 DEF mainVars, Active
  <2>7. MainInv'
    BY <1>1, <2>6 DEF MainInv
  <2> QED
    BY <1>2, <2>3, <2>5, <2>7
<1> QED
  BY <1>3, <1>4, <1>5, <1>6, <1>7, <1>8 DEF HostNext, PeerGone, SessionSeesShutdown

\* The invariant holds always.
LEMMA HostInductive == HostSpec => []HostInd
<1>1. HostInit => HostInd
  BY InitHost
<1>2. HostInd /\ [HostNext]_hostVars => HostInd'
  BY NextHost
<1> QED
  BY <1>1, <1>2, PTL DEF HostSpec

-----------------------------------------------------------------------------
(* What the host promises *)

\* The host's state is well typed in every run: only active tenants are opened, bound
\* and flushed, connections belong to them, and no more is on disk than was stored
\* (TangleHostRuntime, tangle_root).
THEOREM HostTypeCorrect == HostSpec => []HostTypeOK
<1>1. HostInd => HostTypeOK
  <2> SUFFICES ASSUME HostInd PROVE HostTypeOK
    OBVIOUS
  <2>1. LimiterTypeOK /\ MainInv /\ DataInv /\ ConnInv
    BY DEF HostInd, LimiterInv
  <2>2. conn \in [Callers -> [stage : Stages, tenant : Active \union {0}]]
    BY <2>1 DEF ConnInv, Conns
  <2>3. status \in [Callers -> {0, 101, 200, 400, 404, 429, 500}]
    BY <2>1 DEF ConnInv, Codes
  <2>4. \A t \in Tenants : synced[t] <= stored[t]
    BY <2>1 DEF DataInv
  <2>5. phase \in Phases /\ opened \subseteq Active /\ bound \subseteq Active /\ shutdown \in BOOLEAN
        /\ flushed \subseteq Active
    BY <2>1 DEF MainInv
  <2> QED
    BY <2>1, <2>2, <2>3, <2>4, <2>5 DEF HostTypeOK
<1> QED
  BY <1>1, HostInductive, PTL

\* The permits out are those of the connections whose task is alive, whatever error or
\* end a handler or a session meets, and no more than the configured limit
\* (tangle_root, RelayResourcePermit::drop).
THEOREM PermitsAreTasks == HostSpec => []PermitsAreConnections
<1>1. HostInd => PermitsAreConnections
  <2> SUFFICES ASSUME HostInd PROVE PermitsAreConnections
    OBVIOUS
  <2>1. LimiterInv /\ MainInv /\ ConnInv
    BY DEF HostInd
  <2> DEFINE held == {c \in Callers : conn[c].stage \in {"session", "upgrade", "run"}}
  <2>2. \A c \in Callers : conn[c].stage \in {"session", "upgrade", "run"} <=> step[c] = "held"
    BY <2>1 DEF ConnInv, Coupled, Holding
  <2>3. held = Holders
    BY <2>2 DEF Holders
  <2>4. active = Cardinality(held) /\ active <= Limit /\ active \in Nat
    <3>1. active = Cardinality(Holders) /\ active <= Limit /\ active \in Nat
      BY <2>1 DEF LimiterInv, CounterIsHolders, LimiterTypeOK
    <3> QED
      BY <2>3, <3>1, Zenon
  <2>5. TenantSessions \subseteq Holders
    BY <2>3 DEF TenantSessions
  <2>6. Cardinality(TenantSessions) <= Cardinality(Holders)
    BY <2>5, HoldersCount, FS_Subset
  <2>7. active <= config.host.limits.max_total_connections
    <3>1. CASE ConfigAccepted(config)
      BY <2>1, <2>4, <3>1, ConfigFacts
    <3>2. CASE ~ConfigAccepted(config)
      <4>1. \A c \in Callers : conn[c].stage = "free"
        BY <2>1, <3>2 DEF ConnInv, Coupled
      <4>2. held = {}
        BY <4>1
      <4>3. active = 0
        BY <2>4, <4>2, FS_EmptySet
      <4> QED
        BY <2>1, <4>3, ConfigFacts
    <3> QED
      BY <3>1, <3>2
  <2>8. HostMetrics.sessions = Cardinality(TenantSessions) /\ HostMetrics.connections = active
        /\ HostMetrics.limit = config.host.limits.max_total_connections
    BY DEF HostMetrics
  <2> QED
    BY <2>3, <2>4, <2>6, <2>7, <2>8 DEF PermitsAreConnections
<1> QED
  BY <1>1, HostInductive, PTL

\* A host that reports that it has stopped has every event that was stored when the
\* shutdown was requested on disk (TangleHostRuntime::shutdown).
THEOREM StopFlushes == HostSpec => []FlushedAtStop
<1>1. HostInd => FlushedAtStop
  BY DEF HostInd, MainInv, DataInv, FlushedAtStop
<1> QED
  BY <1>1, HostInductive, PTL

\* In the host as in isolation, the limiter's permits are a pool's: the steps of the
\* handlers, of the sessions and of the main task are its steps or invisible to it.
THEOREM HostUsesPool == HostSpec => ImplementsPool
<1>1. HostInit => Pool!Init
  BY InitInv DEF HostInit
<1>2. HostInd /\ [HostNext]_hostVars => [Pool!Next]_(Pool!poolVars)
  BY NextHost, NextStep DEF HostInd
<1> QED
  BY <1>1, <1>2, HostInductive, PTL DEF HostSpec, ImplementsPool, Pool!Spec

\* What an accepted configuration promises of two active tenants.
LEMMA TenantsDiffer ==
  ASSUME MainInv, ConfigAccepted(config), NEW i \in Active, NEW j \in Active
  PROVE  /\ ActiveHost(i) = ActiveHost(j) => i = j
         /\ config.tenants[i].groups.relay_secret # None
              => (config.tenants[i].groups.relay_secret = config.tenants[j].groups.relay_secret => i = j)
<1>1. i \in Tenants /\ j \in Tenants
  BY ConfigFacts
<1>2. /\ CanonicalHost(config.tenants[i].host) # None
      /\ CanonicalHost(config.tenants[j].host) # None
  BY <1>1 DEF ConfigAccepted, TenantValid, Tenants
<1>3. \A h : CanonicalHost(h) # None => CanonicalHost(h) = Some(CanonicalHost(h)[1])
  BY DEF CanonicalHost, Some, None
<1>4. ActiveHost(i) = ActiveHost(j)
        => CanonicalHost(config.tenants[i].host) = CanonicalHost(config.tenants[j].host)
  BY <1>2, <1>3 DEF ActiveHost
<1>5. CanonicalHost(config.tenants[i].host) = CanonicalHost(config.tenants[j].host) => i = j
  <2> DEFINE s == [k \in DOMAIN config.tenants |-> CanonicalHost(config.tenants[k].host)]
  <2>1. Distinct(s)
    BY DEF ConfigAccepted, TenantSetValid
  <2>2. i \in DOMAIN s /\ j \in DOMAIN s
    BY <1>1 DEF Tenants
  <2>3. s[i] = s[j] => i = j
    BY <2>1, <2>2 DEF Distinct
  <2> QED
    BY <1>1, <2>3 DEF Tenants
<1>6. /\ config.tenants[i].groups.relay_secret # None
      /\ config.tenants[i].groups.relay_secret = config.tenants[j].groups.relay_secret
      => i = j
  BY <1>1 DEF ConfigAccepted, TenantSetValid, RelaySelfPubkeysDistinct, Tenants
<1> QED
  BY <1>4, <1>5, <1>6

\* A host that answers ready serves every active tenant under a name, limits and a key of
\* its own, and turns no connection away with an internal error but for the challenge
\* lifetime that only the session checks (load_tangle_host_runtime_config,
\* TenantRegistry::open, is_ready, tangle_root).
THEOREM ReadyMeansServing == HostSpec => []ReadyServes
<1>1. HostInd => ReadyServes
  <2> SUFFICES ASSUME HostInd PROVE ReadyServes
    OBVIOUS
  <2>1. MainInv /\ ConnInv
    BY DEF HostInd
  <2>2. phase # "panicked"
    BY <2>1 DEF MainInv
  <2>3. \A c \in Callers :
          status[c] = 500 => \E i \in Active : config.tenants[i].auth.challenge_ttl_seconds = 0
    BY <2>1 DEF ConnInv, CodeExplained
  <2>4. ASSUME ReadyStatus = 200
        PROVE  /\ \A i, j \in Active : ActiveHost(i) = ActiveHost(j) => i = j
               /\ \A i \in Active :
                    /\ config.tenants[i].limits.broadcast_channel_capacity > 0
                    /\ config.tenants[i].limits.per_connection_outbound_queue > 0
                    /\ LET doc == InfoDocument(config.tenants[i])
                       IN  /\ doc.limitation.default_limit <= doc.limitation.max_query_complexity
                           /\ 29 \in doc.supported_nips =>
                                /\ doc.relay_self # None
                                /\ \A j \in Active \ {i} :
                                     InfoDocument(config.tenants[j]).relay_self # doc.relay_self
               /\ \A item \in Inventory : item.active <=> item.ready
    <3>1. Active # {} /\ \A i \in Active : i \in opened /\ i \in bound
      BY <2>4 DEF ReadyStatus, HostReady, RegistryReady, ActiveTenantsReady, TenantReady
    <3>2. ConfigAccepted(config)
      BY <2>1, <3>1 DEF MainInv
    <3>3. \A i, j \in Active : ActiveHost(i) = ActiveHost(j) => i = j
      BY <2>1, <3>2, TenantsDiffer
    <3>4. ASSUME NEW i \in Active
          PROVE  /\ config.tenants[i].limits.broadcast_channel_capacity > 0
                 /\ config.tenants[i].limits.per_connection_outbound_queue > 0
                 /\ config.tenants[i].limits.default_limit <= config.tenants[i].limits.max_query_complexity
      <4>1. RuntimeLimitsValid(config.tenants[i].limits)
        BY <2>1, <3>1 DEF MainInv, TenantOpens
      <4> QED
        BY <4>1 DEF RuntimeLimitsValid, RequirePositive, BaseRelayLimitsValid
    <3>5. ASSUME NEW i \in Active, 29 \in SupportedNips(config.tenants[i].groups.enabled)
          PROVE  /\ config.tenants[i].groups.relay_secret # None
                 /\ \A j \in Active \ {i} :
                      config.tenants[j].groups.relay_secret # config.tenants[i].groups.relay_secret
      <4>1. config.tenants[i].groups.enabled
        BY <3>5 DEF SupportedNips
      <4>2. GroupsValid(config.tenants[i].groups)
        BY <2>1, <3>2, ConfigFacts DEF ConfigAccepted, TenantValid, Tenants
      <4>3. config.tenants[i].groups.relay_secret # None
        BY <4>1, <4>2 DEF GroupsValid
      <4> QED
        BY <2>1, <3>2, <4>3, TenantsDiffer
    <3>6. \A i \in Active :
            /\ InfoDocument(config.tenants[i]).limitation = config.tenants[i].limits
            /\ InfoDocument(config.tenants[i]).relay_self = config.tenants[i].groups.relay_secret
            /\ InfoDocument(config.tenants[i]).supported_nips
                 = SupportedNips(config.tenants[i].groups.enabled)
      BY DEF InfoDocument
    <3>7. \A i \in Tenants : InventoryItem(i).active <=> InventoryItem(i).ready
      BY <3>1 DEF InventoryItem, TenantReady
    <3>8. \A item \in Inventory : item.active <=> item.ready
      BY <3>7 DEF Inventory
    <3>9. ASSUME NEW i \in Active
          PROVE  LET doc == InfoDocument(config.tenants[i])
                 IN  /\ doc.limitation.default_limit <= doc.limitation.max_query_complexity
                     /\ 29 \in doc.supported_nips =>
                          /\ doc.relay_self # None
                          /\ \A j \in Active \ {i} :
                               InfoDocument(config.tenants[j]).relay_self # doc.relay_self
      BY <3>4, <3>5, <3>6
    <3> QED
      BY <3>3, <3>4, <3>8, <3>9
  <2> QED
    BY <2>2, <2>3, <2>4 DEF ReadyServes
<1> QED
  BY <1>1, HostInductive, PTL

\* A connection goes only to an active tenant its request names, by the client's own Host
\* header unless a trusted proxy forwarded it (resolve_request_host, tenant_for_request).
THEOREM RoutedToNamed == HostSpec => RoutedByName
<1>1. ASSUME HostInd, [HostNext]_hostVars, NEW c \in Callers, NEW r \in Requests,
             conn[c] = NoConn, conn'[c] # NoConn, Request(c, r)
      PROVE  ClientNames(r, conn'[c].tenant)
  <2> DEFINE t == TenantForRequest(r)
  <2>1. conn \in [Callers -> Conns]
    BY <1>1 DEF HostInd, ConnInv
  <2>2. t # 0
    BY <1>1, <2>1 DEF Request, Answered
  <2>3. ~(~r.upgrade)
    BY <1>1, <2>1, <2>2 DEF Request, Answered
  <2>4. conn' = [conn EXCEPT ![c] = [stage |-> "permit", tenant |-> t]]
    BY <1>1, <2>2, <2>3 DEF Request
  <2>5. conn'[c].tenant = t
    BY <2>1, <2>4
  <2>6. Some(ActiveHost(t)) = ResolveRequestHost(r)
    BY <2>2, TenantNamed
  <2>7. HostHeader(r) # None /\ CanonicalHost(Trim(Head(HostHeader(r)))) = Some(ActiveHost(t))
    BY <2>6 DEF ResolveRequestHost, Some, None
  <2>8. ClientNames(r, t)
    <3> HIDE DEF t
    <3> QED BY <2>7 DEF HostHeader, ForwardedHost, TrustedPeer, ClientNames
  <2> QED
    BY <2>5, <2>8
<1>2. HostInd /\ [HostNext]_hostVars =>
        [\A c \in Callers :
           conn[c] = NoConn /\ conn'[c] # NoConn
             => \A r \in Requests : Request(c, r) => ClientNames(r, conn'[c].tenant)]_hostVars
  BY <1>1
<1> QED
  BY <1>2, HostInductive, PTL DEF HostSpec, RoutedByName
=============================================================================
