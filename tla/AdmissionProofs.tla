-------------------------- MODULE AdmissionProofs --------------------------
(***************************************************************************)
(* Who a connection is, what may be stored, what an answer means and how   *)
(* the counters add up, for every set of connections, messages, events and *)
(* limits and every interleaving of the handlers; before that, the bound   *)
(* on bursts for every rule, set of keys and behaviour of the clock.       *)
(***************************************************************************)
EXTENDS Admission, FiniteSetTheorems, TLAPS

-----------------------------------------------------------------------------
(* The limiter. *)

\* The entry of a key describes the window its last hit belongs to.
EntryOf(k) ==
  LET n == Len(allowed[k]) IN
  IF n = 0 THEN entries[k] = NoEntry
  ELSE /\ entries[k].hits = n - allowed[k][n].first + 1
       /\ entries[k].reset_at = allowed[k][allowed[k][n].first].at + RuleOf[k].window_seconds

\* A window holds at most max_hits hits.
Windows(k) ==
  \A t \in 1..Len(allowed[k]) :
    t - RuleOf[k].max_hits < allowed[k][t].first /\ allowed[k][t].first \in 1..t

\* A window opens once the window of the hit before it is over.
Spacing(k) ==
  \A t \in 1..Len(allowed[k]) :
    allowed[k][t].first > 1 =>
      allowed[k][allowed[k][t].first].at >=
        allowed[k][allowed[k][allowed[k][t].first - 1].first].at + RuleOf[k].window_seconds

LimiterInv ==
  /\ LimiterTypeOK
  /\ \A k \in Keys : EntryOf(k) /\ Windows(k) /\ Spacing(k)

\* Before the first hit nothing is known of a key.
LEMMA InitInv == LimiterInit => LimiterInv
<1> SUFFICES ASSUME LimiterInit PROVE LimiterInv
  OBVIOUS
<1>1. LimiterTypeOK
  BY DEF LimiterInit, LimiterTypeOK, NoEntry, Entries
<1>2. \A k \in Keys : Len(allowed[k]) = 0 /\ entries[k] = NoEntry
  BY DEF LimiterInit
<1> QED
  BY <1>1, <1>2 DEF LimiterInv, EntryOf, Windows, Spacing

\* The rule of a key is positive.
LEMMA RuleType ==
  ASSUME NEW k \in Keys
  PROVE  RuleOf[k].max_hits \in Nat \ {0} /\ RuleOf[k].window_seconds \in Nat \ {0}
BY RuleAssumption

\* Arithmetic of windows: a window with room has room for the next hit ...
LEMMA LastOfWindow ==
  ASSUME NEW n \in Nat, NEW f \in 1..n, NEW max \in Nat \ {0}, n - f + 1 < max
  PROVE  f \in 1..(n + 1) /\ f > n + 1 - max
OBVIOUS

\* ... the window of the last of 2 * max hits opened after the first max of them ...
LEMMA LaterWindow ==
  ASSUME NEW i \in Nat \ {0}, NEW max \in Nat \ {0}, NEW len \in Nat, NEW q \in Int,
         i + 2 * max - 1 <= len, q <= i + 2 * max - 1, (i + 2 * max - 1) - max < q
  PROVE  q >= i + max /\ q - 1 \in 1..len /\ q > 1
OBVIOUS

\* ... and the one before it no earlier than the first.
LEMMA EarlierWindow ==
  ASSUME NEW i \in Nat \ {0}, NEW max \in Nat \ {0}, NEW q \in Int, NEW p \in Int,
         q >= i + max, q <= i + 2 * max - 1, p <= q - 1, q - 1 - max < p
  PROVE  p \in i..(i + 2 * max - 1) /\ q \in i..(i + 2 * max - 1) /\ p < q
OBVIOUS

\* record keeps the invariant, whatever time it is given.
LEMMA HitInv ==
  ASSUME LimiterInv, NEW k \in Keys, NEW now \in Nat, Hit(k, now)
  PROVE  LimiterInv'
<1> DEFINE n == Len(allowed[k])
           max == RuleOf[k].max_hits
           window == RuleOf[k].window_seconds
           open == now >= entries[k].reset_at
           hit == [at |-> now, first |-> Opener(k, now)]
<1>0. LimiterTypeOK /\ EntryOf(k) /\ Windows(k) /\ Spacing(k)
  BY DEF LimiterInv
<1>1. entries[k] \in Entries /\ allowed[k] \in Seq(Hits) /\ n \in Nat
  BY <1>0 DEF LimiterTypeOK
<1>2. max \in Nat \ {0} /\ window \in Nat \ {0}
  BY RuleType
<1>3. open => hit = [at |-> now, first |-> n + 1]
  BY DEF Opener, Refresh
<1>4. ~open => /\ n > 0
               /\ allowed[k][n] \in Hits
               /\ entries[k].hits = n - allowed[k][n].first + 1
               /\ entries[k].hits < max
               /\ allowed[k][n].first \in 1..n
  <2> SUFFICES ASSUME ~open
               PROVE  /\ n > 0
                      /\ allowed[k][n] \in Hits
                      /\ entries[k].hits = n - allowed[k][n].first + 1
                      /\ entries[k].hits < max
                      /\ allowed[k][n].first \in 1..n
    OBVIOUS
  <2>1. n > 0
    BY <1>0, <1>1 DEF EntryOf, NoEntry
  <2>2. n \in 1..n /\ allowed[k][n] \in Hits
    BY <2>1, <1>1
  <2>3. entries[k].hits < max
    BY DEF Hit, Allows, Refresh
  <2> QED
    BY <2>1, <2>2, <2>3, <1>0 DEF EntryOf, Windows
<1>5. ~open => hit = [at |-> now, first |-> allowed[k][n].first]
  <2> SUFFICES ASSUME ~open PROVE hit = [at |-> now, first |-> allowed[k][n].first]
    OBVIOUS
  <2>1. Refresh(k, now).hits # 0
    BY <1>4, <1>1 DEF Refresh
  <2> QED
    BY <2>1 DEF Opener
<1>6. hit \in Hits /\ hit.first \in 1..(n + 1) /\ hit.first > n + 1 - max /\ hit.at = now
  <2>1. CASE open
    BY <2>1, <1>3, <1>1, <1>2 DEF Hits
  <2>2. CASE ~open
    <3>1. hit.at = now /\ hit.first = allowed[k][n].first
      BY <2>2, <1>5
    <3>2. allowed[k][n].first \in 1..n /\ n - allowed[k][n].first + 1 < max
      BY <2>2, <1>4
    <3>3. allowed[k][n].first \in 1..(n + 1) /\ allowed[k][n].first > n + 1 - max
      BY <3>2, <1>1, <1>2, LastOfWindow
    <3>4. hit \in Hits
      BY <2>2, <1>5, <3>3, <1>1 DEF Hits
    <3> QED
      BY <3>1, <3>3, <3>4
  <2> QED
    BY <2>1, <2>2
<1>7. /\ allowed' = [allowed EXCEPT ![k] = Append(allowed[k], hit)]
      /\ entries' = [entries EXCEPT ![k] = [reset_at |-> Refresh(k, now).reset_at,
                                            hits |-> Refresh(k, now).hits + 1]]
  BY DEF Hit
<1>8. /\ allowed'[k] \in Seq(Hits)
      /\ Len(allowed'[k]) = n + 1
      /\ allowed'[k][n + 1] = hit
      /\ \A t \in 1..n : allowed'[k][t] = allowed[k][t]
  BY <1>7, <1>6, <1>1, <1>0 DEF LimiterTypeOK
<1>9. Refresh(k, now) \in Entries
  BY <1>1, <1>2 DEF Refresh, ResetAt, Entries
<1>10. LimiterTypeOK'
  BY <1>0, <1>7, <1>8, <1>9, <1>6, <1>1 DEF LimiterTypeOK, Entries
<1>11. \A t \in 1..n : allowed[k][t].first \in 1..t /\ allowed[k][t] \in Hits
  BY <1>0, <1>1 DEF Windows
<1>12. Windows(k)'
  <2> SUFFICES ASSUME NEW t \in 1..(n + 1)
               PROVE  t - max < allowed'[k][t].first /\ allowed'[k][t].first \in 1..t
    BY <1>8 DEF Windows
  <2>1. CASE t = n + 1
    BY <2>1, <1>8, <1>6, <1>2, <1>1
  <2>2. CASE t \in 1..n
    BY <2>2, <1>8, <1>0 DEF Windows
  <2> QED
    BY <2>1, <2>2, <1>1
<1>13. EntryOf(k)'
  <2>1. entries'[k].hits = Refresh(k, now).hits + 1 /\ entries'[k].reset_at = Refresh(k, now).reset_at
    BY <1>7, <1>0 DEF LimiterTypeOK
  <2>2. CASE open
    <3>1. Refresh(k, now) = [reset_at |-> now + window, hits |-> 0]
      BY <2>2 DEF Refresh, ResetAt
    <3>2. allowed'[k][n + 1].first = n + 1 /\ allowed'[k][n + 1].at = now
      BY <2>2, <1>3, <1>8
    <3> QED
      BY <2>1, <3>1, <3>2, <1>8, <1>1, <1>2 DEF EntryOf
  <2>3. CASE ~open
    <3>1. Refresh(k, now) = entries[k]
      BY <2>3 DEF Refresh
    <3>2. allowed'[k][n + 1].first = allowed[k][n].first
      BY <2>3, <1>5, <1>8
    <3>3. allowed'[k][allowed[k][n].first] = allowed[k][allowed[k][n].first]
      BY <2>3, <1>4, <1>8
    <3>4. entries[k].reset_at = allowed[k][allowed[k][n].first].at + window
      BY <2>3, <1>4, <1>0 DEF EntryOf
    <3>5. entries[k].hits = n - allowed[k][n].first + 1 /\ allowed[k][n].first \in Nat
      BY <2>3, <1>4, <1>1
    <3>6. entries'[k].hits = (n + 1) - allowed'[k][n + 1].first + 1
      BY <2>1, <3>1, <3>2, <3>5, <1>1
    <3>7. entries'[k].reset_at = allowed'[k][allowed'[k][n + 1].first].at + window
      BY <2>1, <3>1, <3>2, <3>3, <3>4
    <3>8. Len(allowed'[k]) = n + 1 /\ n + 1 # 0
      BY <1>8, <1>1
    <3> QED
      BY <3>6, <3>7, <3>8 DEF EntryOf
  <2> QED
    BY <2>2, <2>3
<1>14. Spacing(k)'
  <2> SUFFICES ASSUME NEW t \in 1..(n + 1), allowed'[k][t].first > 1
               PROVE  allowed'[k][allowed'[k][t].first].at >=
                        allowed'[k][allowed'[k][allowed'[k][t].first - 1].first].at + window
    BY <1>8 DEF Spacing
  <2>1. CASE t \in 1..n
    <3> DEFINE f == allowed[k][t].first
    <3>1. allowed'[k][t].first = f /\ f \in 1..t
      BY <2>1, <1>8, <1>11
    <3>2. f \in 1..n /\ f - 1 \in 1..n
      BY <3>1, <2>1, <1>1
    <3>3. allowed[k][f - 1].first \in 1..n
      BY <3>2, <1>11, <1>1
    <3>4. allowed[k][f].at >= allowed[k][allowed[k][f - 1].first].at + window
      BY <2>1, <3>1, <1>0 DEF Spacing
    <3> QED
      BY <3>1, <3>2, <3>3, <3>4, <1>8
  <2>2. CASE t = n + 1 /\ ~open
    <3> DEFINE f == allowed[k][n].first
    <3>1. allowed'[k][t].first = f /\ f \in 1..n /\ f > 1
      BY <2>2, <1>8, <1>5, <1>4
    <3>2. n \in 1..n /\ f - 1 \in 1..n
      BY <3>1, <1>1
    <3>3. allowed[k][f - 1].first \in 1..n
      BY <3>2, <3>1, <1>11, <1>1
    <3>4. allowed[k][f].at >= allowed[k][allowed[k][f - 1].first].at + window
      BY <3>1, <3>2, <1>0 DEF Spacing
    <3> QED
      BY <3>1, <3>2, <3>3, <3>4, <1>8
  <2>3. CASE t = n + 1 /\ open
    <3>1. allowed'[k][t].first = n + 1 /\ allowed'[k][n + 1].at = now
      BY <2>3, <1>8, <1>3
    <3>2. n > 0 /\ n \in 1..n
      BY <3>1, <1>1
    <3>3. allowed[k][n].first \in 1..n
      BY <3>2, <1>11
    <3>4. entries[k].reset_at = allowed[k][allowed[k][n].first].at + window
      BY <3>2, <1>0 DEF EntryOf
    <3>5. now >= allowed[k][allowed[k][n].first].at + window
      BY <3>4, <2>3
    <3>6. allowed'[k][t].first - 1 = n /\ t = n + 1
      BY <3>1, <2>3, <1>1
    <3>7. allowed'[k][n].first = allowed[k][n].first
      BY <3>2, <1>8
    <3>8. allowed'[k][allowed[k][n].first].at = allowed[k][allowed[k][n].first].at
      BY <3>3, <1>8
    <3> QED
      BY <3>1, <3>5, <3>6, <3>7, <3>8
  <2> QED
    BY <2>1, <2>2, <2>3, <1>1
<1>15. ASSUME NEW j \in Keys, j # k
       PROVE  EntryOf(j)' /\ Windows(j)' /\ Spacing(j)'
  <2>1. entries'[j] = entries[j] /\ allowed'[j] = allowed[j]
    BY <1>15, <1>7, <1>0 DEF LimiterTypeOK
  <2>2. EntryOf(j) /\ Windows(j) /\ Spacing(j)
    BY DEF LimiterInv
  <2> QED
    BY <2>1, <2>2 DEF EntryOf, Windows, Spacing
<1> QED
  BY <1>10, <1>12, <1>13, <1>14, <1>15 DEF LimiterInv

\* A rejected hit finds its window open and full, and changes nothing.
LEMMA RejectInv ==
  ASSUME LimiterInv, NEW k \in Keys, NEW now \in Nat, Reject(k, now)
  PROVE  LimiterInv'
<1>1. RuleOf[k].max_hits \in Nat \ {0}
  BY RuleType
<1>2. entries \in [Keys -> Entries]
  BY DEF LimiterInv, LimiterTypeOK
<1>3. Refresh(k, now) = entries[k]
  BY <1>1 DEF Reject, Allows, Refresh
<1>4. entries' = entries /\ allowed' = allowed
  BY <1>2, <1>3 DEF Reject
<1> QED
  BY <1>4 DEF LimiterInv, LimiterTypeOK, EntryOf, Windows, Spacing

\* The invariant bounds bursts: the window of the last of 2 * max_hits hits opened
\* among the later half of them, and the window before that one among all of them.
LEMMA InvBounds == LimiterInv => BurstBound
<1> SUFFICES ASSUME LimiterInv, NEW k \in Keys, NEW i \in 1..Len(allowed[k]),
                    i + 2 * RuleOf[k].max_hits - 1 <= Len(allowed[k])
             PROVE  \E p, q \in i..(i + 2 * RuleOf[k].max_hits - 1) :
                      p < q /\ allowed[k][q].at >= allowed[k][p].at + RuleOf[k].window_seconds
  BY DEF BurstBound
<1> DEFINE max == RuleOf[k].max_hits
           last == i + 2 * max - 1
           q == allowed[k][last].first
           p == allowed[k][q - 1].first
<1>1. max \in Nat \ {0} /\ allowed[k] \in Seq(Hits)
  BY RuleType DEF LimiterInv, LimiterTypeOK
<1>2. last \in 1..Len(allowed[k]) /\ i \in Nat /\ Len(allowed[k]) \in Nat
  BY <1>1
<1>3. Windows(k) /\ Spacing(k)
  BY DEF LimiterInv
<1>4. q \in 1..last /\ last - max < q
  BY <1>2, <1>3 DEF Windows
<1> HIDE DEF q
<1>5. q >= i + max /\ q - 1 \in 1..Len(allowed[k]) /\ q > 1
  <2>1. i \in Nat \ {0} /\ q \in Int /\ q <= i + 2 * max - 1 /\ (i + 2 * max - 1) - max < q
    BY <1>1, <1>2, <1>4
  <2>2. i + 2 * max - 1 <= Len(allowed[k])
    OBVIOUS
  <2> HIDE DEF max
  <2> QED
    BY ONLY <1>1, <1>2, <2>1, <2>2, LaterWindow
<1>6. p \in 1..(q - 1) /\ q - 1 - max < p
  BY <1>5, <1>3 DEF Windows
<1>8. allowed[k][q].at >= allowed[k][p].at + RuleOf[k].window_seconds
  BY <1>2, <1>5, <1>3 DEF Spacing, q
<1> HIDE DEF p
<1>7. p \in i..last /\ q \in i..last /\ p < q
  <2>1. i \in Nat \ {0} /\ q \in Int /\ p \in Int
    BY <1>2, <1>4, <1>6
  <2>2. q >= i + max /\ q <= i + 2 * max - 1 /\ p <= q - 1 /\ q - 1 - max < p
    BY <1>1, <1>2, <1>4, <1>5, <1>6
  <2> HIDE DEF max
  <2> QED
    BY ONLY <1>1, <2>1, <2>2, EarlierWindow DEF last
<1> QED
  BY <1>7, <1>8

\* Every step keeps the invariant.
LEMMA LimiterKept == LimiterInv /\ [LimiterNext]_limiterVars => LimiterInv'
<1> SUFFICES ASSUME LimiterInv, [LimiterNext]_limiterVars PROVE LimiterInv'
  OBVIOUS
<1>1. CASE UNCHANGED limiterVars
  BY <1>1 DEF limiterVars, LimiterInv, LimiterTypeOK, EntryOf, Windows, Spacing
<1>2. ASSUME NEW k \in Keys, NEW now \in Readings, Record(k, now) PROVE LimiterInv'
  <2>1. now \in Nat
    BY RuleAssumption
  <2> QED
    BY <2>1, <1>2, HitInv, RejectInv DEF Record
<1> QED
  BY <1>1, <1>2 DEF LimiterNext

\* TangleRateLimiter keeps its counters well typed and never lets a key through more
\* often than twice its rule within a window, for all rules, keys and clocks.
THEOREM LimiterBound == LimiterSpec => [](LimiterTypeOK /\ BurstBound)
<1>1. LimiterInit => LimiterInv
  BY InitInv
<1>2. LimiterInv /\ [LimiterNext]_limiterVars => LimiterInv'
  BY LimiterKept
<1>3. LimiterInv => LimiterTypeOK /\ BurstBound
  BY InvBounds DEF LimiterInv
<1> QED
  BY <1>1, <1>2, <1>3, PTL DEF LimiterSpec

-----------------------------------------------------------------------------
(* The invariant of the connections. *)

\* A function over the connections.
PerConnection(f) == f = [c \in Connections |-> f[c]]

\* A step of handling belongs to one type of message.
Fits(m, then) ==
  /\ then \in {"admit", "store", "authenticate", "refuse", "query"}
  /\ then \in {"admit", "store"} => m.type = "EVENT"
  /\ then \in {"authenticate", "refuse"} => m.type = "AUTH"
  /\ then = "query" => m.type \in {"REQ", "COUNT"}

\* An event that was looked up is charged for, belongs to no group and, if it is
\* protected, to a key of the connection.
Clear(c, e) ==
  ClassifyGroupEvent(e) = NonGroup /\ (IsProtected(e) => e.pubkey \in authed[c])

WorkOk(c, x) ==
  x # None =>
    \E m \in Inputs, n \in Readings : \E charges, then :
      /\ x = Working(m, n, charges, then) /\ Fits(m, then)
      /\ then = "store" => charges = <<>> /\ Clear(c, m.event)

WorkInv ==
  /\ PerConnection(work) /\ PerConnection(authed) /\ PerConnection(conn)
  /\ \A c \in Connections : WorkOk(c, work[c])

LogEntries ==
  {InitialLog[i] : i \in DOMAIN InitialLog}
  \union [event : {m.event : m \in {x \in Inputs : x.type = "EVENT"}}, by : Connections]

StoreInv ==
  /\ log \in Seq(LogEntries)
  /\ NoBorrowedIdentity /\ OnlyAuthorsStore /\ AcceptedIsStored

\* An EVENT or an AUTH that is yet to be counted.
EventOpen(x) == x # None /\ x[1].msg.type = "EVENT" /\ x[1].then \in {"admit", "store"}
AuthOpen(x) == x # None /\ x[1].msg.type = "AUTH" /\ x[1].then \in {"authenticate"}
EventWork == {c \in Connections : EventOpen(work[c])}
AuthWork == {c \in Connections : AuthOpen(work[c])}
OpenConns == {c \in Connections : conn[c] = "open"}

MetricsInv ==
  /\ metrics \in [MetricNames -> Nat] /\ noticed \in Nat
  /\ metrics["event_messages"] = metrics["event_admissions"] + metrics["event_rejections"] + noticed
                                 + Cardinality(EventWork)
  /\ metrics["auth_messages"] = metrics["auth_successes"] + metrics["auth_failures"]
                                + Cardinality(AuthWork)
  /\ metrics["active_sessions"] = Cardinality(OpenConns)
  /\ metrics["group_write_denials"] <= metrics["event_rejections"]
  /\ metrics["stored_event_offsets"] <= Len(log) - Len(InitialLog)

IndInv == WorkInv /\ StoreInv /\ MetricsInv

-----------------------------------------------------------------------------
(* Sets of connections and their numbers *)

\* One connection more or less, or none.
LEMMA CountChange ==
  ASSUME NEW S, NEW T, S \subseteq Connections, T \subseteq Connections, NEW c \in Connections,
         \A d \in Connections : d # c => (d \in S <=> d \in T)
  PROVE  /\ Cardinality(S) \in Nat /\ Cardinality(T) \in Nat
         /\ (c \in S <=> c \in T) => Cardinality(T) = Cardinality(S)
         /\ c \notin S /\ c \in T => Cardinality(T) = Cardinality(S) + 1
         /\ c \in S /\ c \notin T => Cardinality(S) = Cardinality(T) + 1
<1>1. IsFiniteSet(S) /\ IsFiniteSet(T)
  BY AdmissionAssumption, FS_Subset
<1>2. Cardinality(S) \in Nat /\ Cardinality(T) \in Nat
  BY <1>1, FS_CardinalityType
<1>3. ASSUME c \in S <=> c \in T PROVE Cardinality(T) = Cardinality(S)
  <2>1. S = T
    BY <1>3
  <2> QED
    BY <2>1
<1>4. ASSUME c \notin S, c \in T PROVE Cardinality(T) = Cardinality(S) + 1
  <2>1. T = S \union {c}
    BY <1>4
  <2> QED
    BY <1>1, <1>4, <2>1, FS_AddElement
<1>5. ASSUME c \in S, c \notin T PROVE Cardinality(S) = Cardinality(T) + 1
  <2>1. S = T \union {c}
    BY <1>5
  <2> QED
    BY <1>1, <1>5, <2>1, FS_AddElement
<1> QED
  BY <1>2, <1>3, <1>4, <1>5

\* One connection's value changes.
LEMMA Updated ==
  ASSUME NEW f, NEW g, NEW c \in Connections, NEW x, PerConnection(f), g = [f EXCEPT ![c] = x]
  PROVE  PerConnection(g) /\ g[c] = x /\ \A d \in Connections : d # c => g[d] = f[d]
BY DEF PerConnection

\* A value that is written again.
LEMMA Rewritten ==
  ASSUME NEW f, NEW c \in Connections, PerConnection(f)
  PROVE  f = [f EXCEPT ![c] = f[c]]
BY DEF PerConnection

-----------------------------------------------------------------------------
(* What a step must show to keep each part *)

\* The message in hand and its parts.
LEMMA WorkParts ==
  ASSUME WorkInv, NEW c \in Connections, work[c] # None
  PROVE  \E m \in Inputs, n \in Readings : \E charges, then :
           /\ work[c] = Working(m, n, charges, then) /\ Fits(m, then)
           /\ then = "store" => charges = <<>> /\ Clear(c, m.event)
           /\ work[c][1].msg = m /\ work[c][1].now = n
           /\ work[c][1].charges = charges /\ work[c][1].then = then
<1>1a. PICK m \in Inputs, n \in Readings : \E charges, then :
          /\ work[c] = Working(m, n, charges, then) /\ Fits(m, then)
          /\ then = "store" => charges = <<>> /\ Clear(c, m.event)
  BY DEF WorkInv, WorkOk
<1>1. PICK charges, then :
        /\ work[c] = Working(m, n, charges, then) /\ Fits(m, then)
        /\ then = "store" => charges = <<>> /\ Clear(c, m.event)
  BY <1>1a
<1>2. /\ Working(m, n, charges, then)[1].msg = m /\ Working(m, n, charges, then)[1].now = n
      /\ Working(m, n, charges, then)[1].charges = charges
      /\ Working(m, n, charges, then)[1].then = then
  BY DEF Working, Some
<1> QED
  BY <1>1, <1>2

\* The work of one connection changes, and no connection loses a key.
LEMMA WorkStep ==
  ASSUME WorkInv, NEW c \in Connections, NEW x, work' = [work EXCEPT ![c] = x], WorkOk(c, x),
         UNCHANGED conn, PerConnection(authed'),
         \A d \in Connections : authed[d] \subseteq authed'[d]
  PROVE  WorkInv'
<1>0. PerConnection(work)
  BY DEF WorkInv
<1>1. /\ PerConnection(work') /\ work'[c] = x
      /\ \A d \in Connections : d # c => work'[d] = work[d]
  BY <1>0 DEF PerConnection
<1>2. ASSUME NEW d \in Connections, NEW y, WorkOk(d, y) PROVE WorkOk(d, y)'
  <2>1. \A e : Clear(d, e) => Clear(d, e)'
    BY DEF Clear
  <2> QED
    BY <1>2, <2>1 DEF WorkOk
<1>3. \A d \in Connections : WorkOk(d, work[d])'
  BY <1>1, <1>2 DEF WorkInv
<1>4. PerConnection(conn)'
  BY DEF WorkInv, PerConnection
<1>5. PerConnection(work)' /\ PerConnection(authed)'
  BY <1>1 DEF PerConnection
<1> QED
  BY <1>3, <1>4, <1>5 DEF WorkInv

\* A step that stores nothing and accepts nothing.
LEMMA StoreKept ==
  ASSUME StoreInv, UNCHANGED <<authed, log, accepted>>
  PROVE  StoreInv'
<1>1. \A e : Stored(e)' <=> Stored(e)
  BY DEF Stored
<1> QED
  BY <1>1 DEF StoreInv, NoBorrowedIdentity, OnlyAuthorsStore, AcceptedIsStored

\* What is counted in a step that turns the work y of a connection into x, answers n
\* events with an error and stores k: each sum changes by the same on both sides.
Balanced(names, x, y, n, k) ==
  LET B(name) == IF name \in names THEN 1 ELSE 0
      E(z) == IF EventOpen(z) THEN 1 ELSE 0
      A(z) == IF AuthOpen(z) THEN 1 ELSE 0
  IN  /\ n \in 0..1 /\ k \in 0..1
      /\ B("event_messages") + E(y) = B("event_admissions") + B("event_rejections") + n + E(x)
      /\ B("auth_messages") + A(y) = B("auth_successes") + B("auth_failures") + A(x)
      /\ "active_sessions" \notin names
      /\ "group_write_denials" \in names => "event_rejections" \in names
      /\ B("stored_event_offsets") <= k

\* Counters that are bumped.
LEMMA BumpFacts ==
  ASSUME NEW names, Bump(names), metrics \in [MetricNames -> Nat]
  PROVE  /\ metrics' \in [MetricNames -> Nat]
         /\ \A n \in MetricNames : metrics'[n] = metrics[n] + (IF n \in names THEN 1 ELSE 0)
BY DEF Bump, Counted

\* A balanced step keeps the sums.
LEMMA MetricsStep ==
  ASSUME MetricsInv, WorkInv, StoreInv, NEW c \in Connections, NEW x, NEW names, NEW n, NEW k,
         work' = [work EXCEPT ![c] = x], Bump(names), UNCHANGED conn,
         noticed' = noticed + n, Len(log') = Len(log) + k,
         Balanced(names, x, work[c], n, k)
  PROVE  MetricsInv'
<1>0. PerConnection(work) /\ metrics \in [MetricNames -> Nat]
  BY DEF WorkInv, MetricsInv
<1>1. work'[c] = x /\ \A d \in Connections : d # c => work'[d] = work[d]
  BY <1>0 DEF PerConnection
<1> DEFINE B(m) == IF m \in names THEN 1 ELSE 0
           E(z) == IF EventOpen(z) THEN 1 ELSE 0
           A(z) == IF AuthOpen(z) THEN 1 ELSE 0
<1>2. /\ metrics' \in [MetricNames -> Nat]
      /\ \A m \in MetricNames : metrics[m] \in Nat /\ B(m) \in 0..1 /\ metrics'[m] = metrics[m] + B(m)
  BY <1>0, BumpFacts
<1>3. /\ EventWork \subseteq Connections /\ EventWork' \subseteq Connections
      /\ AuthWork \subseteq Connections /\ AuthWork' \subseteq Connections
      /\ \A d \in Connections : d # c => (d \in EventWork <=> d \in EventWork') /\ (d \in AuthWork <=> d \in AuthWork')
      /\ c \in EventWork <=> EventOpen(work[c])
      /\ c \in EventWork' <=> EventOpen(x)
      /\ c \in AuthWork <=> AuthOpen(work[c])
      /\ c \in AuthWork' <=> AuthOpen(x)
  BY <1>1 DEF EventWork, AuthWork, EventOpen, AuthOpen
<1>4. PICK a, b, p, q :
        a = Cardinality(EventWork) /\ b = Cardinality(EventWork') /\ p = Cardinality(AuthWork) /\ q = Cardinality(AuthWork')
  OBVIOUS
<1>5. /\ a \in Nat /\ b \in Nat /\ b + E(work[c]) = a + E(x)
      /\ E(work[c]) \in 0..1 /\ E(x) \in 0..1
  <2>1. /\ a \in Nat /\ b \in Nat
        /\ (EventOpen(work[c]) <=> EventOpen(x)) => b = a
        /\ ~EventOpen(work[c]) /\ EventOpen(x) => b = a + 1
        /\ EventOpen(work[c]) /\ ~EventOpen(x) => a = b + 1
    BY <1>3, <1>4, CountChange
  <2> QED
    BY <2>1
<1>6. /\ p \in Nat /\ q \in Nat /\ q + A(work[c]) = p + A(x)
      /\ A(work[c]) \in 0..1 /\ A(x) \in 0..1
  <2>1. /\ p \in Nat /\ q \in Nat
        /\ (AuthOpen(work[c]) <=> AuthOpen(x)) => q = p
        /\ ~AuthOpen(work[c]) /\ AuthOpen(x) => q = p + 1
        /\ AuthOpen(work[c]) /\ ~AuthOpen(x) => p = q + 1
    BY <1>3, <1>4, CountChange
  <2> QED
    BY <2>1
<1>7. OpenConns' = OpenConns
  BY DEF OpenConns
<1>8. /\ \A m \in {"event_messages", "event_admissions", "event_rejections", "auth_messages",
                   "auth_successes", "auth_failures", "active_sessions", "group_write_denials",
                   "stored_event_offsets"} : m \in MetricNames
  BY DEF MetricNames
<1>9. n \in 0..1 /\ k \in 0..1 /\ Len(log) \in Nat /\ Len(InitialLog) \in Nat /\ noticed \in Nat
  BY InitialLogAssumption DEF Balanced, StoreInv, MetricsInv
<1>10. noticed' \in Nat
  BY <1>9
<1>11. /\ B("event_messages") + E(work[c]) = B("event_admissions") + B("event_rejections") + n + E(x)
       /\ B("auth_messages") + A(work[c]) = B("auth_successes") + B("auth_failures") + A(x)
       /\ B("active_sessions") = 0
       /\ B("group_write_denials") <= B("event_rejections")
       /\ B("stored_event_offsets") <= k
  BY DEF Balanced
<1> HIDE DEF B, E, A
<1>12. metrics'["event_messages"]
         = metrics'["event_admissions"] + metrics'["event_rejections"] + noticed' + b
  <2>1. /\ metrics'["event_messages"] = metrics["event_messages"] + B("event_messages")
        /\ metrics'["event_admissions"] = metrics["event_admissions"] + B("event_admissions")
        /\ metrics'["event_rejections"] = metrics["event_rejections"] + B("event_rejections")
        /\ metrics["event_messages"] \in Nat /\ B("event_messages") \in 0..1
        /\ metrics["event_admissions"] \in Nat /\ B("event_admissions") \in 0..1
        /\ metrics["event_rejections"] \in Nat /\ B("event_rejections") \in 0..1
    BY <1>2, <1>8
  <2>2. metrics["event_messages"] = metrics["event_admissions"] + metrics["event_rejections"] + noticed + a
    BY <1>4 DEF MetricsInv
  <2>3. PICK m, s, f, u, i, j, l, y, z :
          /\ m = metrics["event_messages"] /\ s = metrics["event_admissions"]
          /\ f = metrics["event_rejections"] /\ u = noticed
          /\ i = B("event_messages") /\ j = B("event_admissions") /\ l = B("event_rejections")
          /\ y = E(work[c]) /\ z = E(x)
    OBVIOUS
  <2>4. /\ m \in Nat /\ s \in Nat /\ f \in Nat /\ u \in Nat /\ a \in Nat /\ b \in Nat
        /\ i \in 0..1 /\ j \in 0..1 /\ l \in 0..1 /\ y \in 0..1 /\ z \in 0..1 /\ n \in 0..1
        /\ m = s + f + u + a /\ b + y = a + z /\ i + y = j + l + n + z
    BY <1>5, <1>9, <1>11, <2>1, <2>2, <2>3
  <2>5. m + i = (s + j) + (f + l) + (u + n) + b
    BY <2>4
  <2> QED
    BY <2>1, <2>3, <2>5
<1>13. metrics'["auth_messages"] = metrics'["auth_successes"] + metrics'["auth_failures"] + q
  <2>1. /\ metrics'["auth_messages"] = metrics["auth_messages"] + B("auth_messages")
        /\ metrics'["auth_successes"] = metrics["auth_successes"] + B("auth_successes")
        /\ metrics'["auth_failures"] = metrics["auth_failures"] + B("auth_failures")
        /\ metrics["auth_messages"] \in Nat /\ B("auth_messages") \in 0..1
        /\ metrics["auth_successes"] \in Nat /\ B("auth_successes") \in 0..1
        /\ metrics["auth_failures"] \in Nat /\ B("auth_failures") \in 0..1
    BY <1>2, <1>8
  <2>2. metrics["auth_messages"] = metrics["auth_successes"] + metrics["auth_failures"] + p
    BY <1>4 DEF MetricsInv
  <2>3. PICK m, s, f, i, j, l, y, z :
          /\ m = metrics["auth_messages"] /\ s = metrics["auth_successes"]
          /\ f = metrics["auth_failures"]
          /\ i = B("auth_messages") /\ j = B("auth_successes") /\ l = B("auth_failures")
          /\ y = A(work[c]) /\ z = A(x)
    OBVIOUS
  <2>4. /\ m \in Nat /\ s \in Nat /\ f \in Nat /\ p \in Nat /\ q \in Nat
        /\ i \in 0..1 /\ j \in 0..1 /\ l \in 0..1 /\ y \in 0..1 /\ z \in 0..1
        /\ m = s + f + p /\ q + y = p + z /\ i + y = j + l + z
    BY <1>6, <1>11, <2>1, <2>2, <2>3
  <2>5. m + i = (s + j) + (f + l) + q
    BY <2>4
  <2> QED
    BY <2>1, <2>3, <2>5
<1>14. metrics'["active_sessions"] = Cardinality(OpenConns')
  BY <1>2, <1>7, <1>8, <1>11 DEF MetricsInv
<1>15. metrics'["group_write_denials"] <= metrics'["event_rejections"]
  <2>1. /\ metrics'["group_write_denials"] = metrics["group_write_denials"] + B("group_write_denials")
        /\ metrics'["event_rejections"] = metrics["event_rejections"] + B("event_rejections")
        /\ metrics["group_write_denials"] \in Nat /\ B("group_write_denials") \in 0..1
        /\ metrics["event_rejections"] \in Nat /\ B("event_rejections") \in 0..1
    BY <1>2, <1>8
  <2> QED
    BY <1>11, <2>1 DEF MetricsInv
<1>16. metrics'["stored_event_offsets"] <= Len(log') - Len(InitialLog)
  <2>1. /\ metrics'["stored_event_offsets"] = metrics["stored_event_offsets"] + B("stored_event_offsets")
        /\ metrics["stored_event_offsets"] \in Nat /\ B("stored_event_offsets") \in 0..1
    BY <1>2, <1>8
  <2> QED
    BY <1>9, <1>11, <2>1 DEF MetricsInv
<1> QED
  BY <1>2, <1>4, <1>10, <1>12, <1>13, <1>14, <1>15, <1>16 DEF MetricsInv

\* A step that only handles: no key, no event and no connection changes.
LEMMA QuietStep ==
  ASSUME IndInv, NEW c \in Connections, NEW x, NEW names, NEW n,
         work' = [work EXCEPT ![c] = x], WorkOk(c, x), Bump(names),
         UNCHANGED <<conn, authed, log, accepted>>, noticed' = noticed + n,
         Balanced(names, x, work[c], n, 0)
  PROVE  IndInv'
<1>1. WorkInv /\ StoreInv /\ MetricsInv
  BY DEF IndInv
<1>2. PerConnection(authed') /\ \A d \in Connections : authed[d] \subseteq authed'[d]
  BY <1>1 DEF WorkInv, PerConnection
<1>3. WorkInv'
  BY <1>1, <1>2, WorkStep
<1>4. StoreInv'
  BY <1>1, StoreKept
<1>5. Len(log') = Len(log) + 0
  BY <1>1 DEF StoreInv
<1>6. MetricsInv'
  BY <1>1, <1>5, MetricsStep
<1> QED
  BY <1>3, <1>4, <1>6 DEF IndInv

\* No work is no open event.
LEMMA NoneClosed == ~EventOpen(None) /\ ~AuthOpen(None) /\ \A c : WorkOk(c, None)
BY DEF EventOpen, AuthOpen, WorkOk

\* What is open is told by the type and the step.
LEMMA WorkingOpen ==
  ASSUME NEW m, NEW n, NEW charges, NEW then
  PROVE  /\ Working(m, n, charges, then) # None
         /\ EventOpen(Working(m, n, charges, then)) <=> m.type = "EVENT" /\ then \in {"admit", "store"}
         /\ AuthOpen(Working(m, n, charges, then)) <=> m.type = "AUTH" /\ then = "authenticate"
BY DEF Working, Some, None, EventOpen, AuthOpen

\* A message that is handled in steps.
LEMMA BeginOk ==
  ASSUME NEW c \in Connections, NEW m \in Inputs, NEW n \in Readings, NEW charges, NEW then,
         Fits(m, then), then # "store"
  PROVE  WorkOk(c, Working(m, n, charges, then))
BY DEF WorkOk

\* Messages change nothing but the work and the counters.
LEMMA MessageFrame ==
  ASSUME IndInv, NEW c \in Connections, Message(c)
  PROVE  /\ UNCHANGED <<conn, authed, log, accepted>> /\ noticed' = noticed + 0 /\ work[c] = None
         /\ UNCHANGED limiterVars
BY DEF Message, IndInv, MetricsInv

\* A message is received.
LEMMA ReceiveStep ==
  ASSUME IndInv, NEW c \in Connections, Receive(c)
  PROVE  IndInv' /\ UNCHANGED limiterVars
<1>1. PICK m \in Inputs, now \in Readings :
        \/ ReceiveEvent(c, m, now) \/ ReceiveAuth(c, m, now)
        \/ ReceiveReq(c, m, now) \/ ReceiveCount(c, m, now) \/ ReceiveOther(c, m)
  BY DEF Receive
<1>2. Message(c)
  BY <1>1 DEF ReceiveEvent, ReceiveAuth, ReceiveReq, ReceiveCount, ReceiveOther
<1>3. /\ UNCHANGED <<conn, authed, log, accepted>> /\ noticed' = noticed + 0 /\ work[c] = None
      /\ UNCHANGED limiterVars
  BY <1>2, MessageFrame
<1>4. PerConnection(work)
  BY DEF IndInv, WorkInv
<1> DEFINE base == {"client_messages"} \union KindCounter(m.type)
<1>5. ASSUME NEW charges, NEW then, Begin(c, m, now, charges, then), Fits(m, then), then # "store",
             Balanced(base, Working(m, now, charges, then), None, 0, 0)
      PROVE  IndInv'
  <2>1. /\ work' = [work EXCEPT ![c] = Working(m, now, charges, then)] /\ Bump(base)
    BY <1>5 DEF Begin
  <2>2. WorkOk(c, Working(m, now, charges, then))
    BY <1>5, BeginOk
  <2>3. PICK x, names : x = Working(m, now, charges, then) /\ names = base
    OBVIOUS
  <2> HIDE DEF base
  <2>4. work' = [work EXCEPT ![c] = x] /\ Bump(names) /\ WorkOk(c, x) /\ Balanced(names, x, work[c], 0, 0)
    BY <1>3, <1>5, <2>1, <2>2, <2>3
  <2> QED
    BY <1>3, <2>4, QuietStep
<1>6. ASSUME NEW names, AnswerAtOnce(m, names), Balanced(base \union names, None, None, 0, 0)
      PROVE  IndInv'
  <2>1. work' = [work EXCEPT ![c] = None] /\ Bump(base \union names)
    BY <1>3, <1>4, <1>6, Rewritten DEF AnswerAtOnce
  <2>2. PICK all, x : all = base \union names /\ x = None
    OBVIOUS
  <2> HIDE DEF base
  <2>3. work' = [work EXCEPT ![c] = x] /\ Bump(all) /\ WorkOk(c, x) /\ Balanced(all, x, work[c], 0, 0)
    BY <1>3, <1>6, <2>1, <2>2, NoneClosed
  <2> QED
    BY <1>3, <2>3, QuietStep
<1>7. CASE ReceiveEvent(c, m, now)
  <2> DEFINE charges == EventCharges(c, m.event) \o GroupWriteCharges(c, m.event)
  <2>1. m.type = "EVENT" /\ Begin(c, m, now, charges, "admit")
    BY <1>7 DEF ReceiveEvent
  <2> HIDE DEF charges
  <2>2. base = {"client_messages", "event_messages"}
    BY <2>1 DEF KindCounter
  <2>3. Fits(m, "admit") /\ Balanced(base, Working(m, now, charges, "admit"), None, 0, 0)
    BY <2>1, <2>2, NoneClosed, WorkingOpen DEF Fits, Balanced
  <2> QED
    BY <1>3, <1>5, <2>1, <2>3
<1>8. CASE ReceiveAuth(c, m, now)
  <2>1. m.type = "AUTH"
    BY <1>8 DEF ReceiveAuth
  <2>2. base = {"client_messages", "auth_messages"}
    BY <2>1 DEF KindCounter
  <2>3. CASE ValidatePocketEventShape(m.event)
    <3> DEFINE charges == AuthAttemptCharges(c, m.event)
    <3>1. Begin(c, m, now, charges, "authenticate")
      BY <1>8, <2>3 DEF ReceiveAuth
    <3> HIDE DEF charges
    <3>2. Fits(m, "authenticate") /\ Balanced(base, Working(m, now, charges, "authenticate"), None, 0, 0)
      BY <2>1, <2>2, NoneClosed, WorkingOpen DEF Fits, Balanced
    <3> QED
      BY <1>3, <1>5, <3>1, <3>2
  <2>4. CASE ~ValidatePocketEventShape(m.event)
    <3>1. AnswerAtOnce(m, {"auth_failures"})
      BY <1>8, <2>4 DEF ReceiveAuth
    <3>2. Balanced(base \union {"auth_failures"}, None, None, 0, 0)
      BY <2>2, NoneClosed DEF Balanced
    <3> QED
      BY <1>3, <1>6, <3>1, <3>2
  <2> QED
    BY <2>3, <2>4
<1>9. ASSUME m.type \in {"REQ", "COUNT", "CLOSE", "NEG-OPEN", "NEG-MSG", "NEG-CLOSE"}
      PROVE  /\ \A charges : Balanced(base, Working(m, now, charges, "query"), None, 0, 0)
             /\ Balanced(base \union {}, None, None, 0, 0)
             /\ Balanced(base \union {"count_refusals", "broad_query_rejections"}, None, None, 0, 0)
             /\ m.type \in {"REQ", "COUNT"} => Fits(m, "query")
  <2>1. base \subseteq {"client_messages", "req_messages", "count_messages", "close_messages"}
    BY <1>9 DEF KindCounter
  <2>2. \A charges : /\ ~EventOpen(Working(m, now, charges, "query"))
                     /\ ~AuthOpen(Working(m, now, charges, "query"))
    BY WorkingOpen
  <2> HIDE DEF base
  <2>3. \A charges : Balanced(base, Working(m, now, charges, "query"), None, 0, 0)
    BY <2>1, <2>2, NoneClosed DEF Balanced
  <2>4. /\ Balanced(base \union {}, None, None, 0, 0)
        /\ Balanced(base \union {"count_refusals", "broad_query_rejections"}, None, None, 0, 0)
    BY <2>1, NoneClosed DEF Balanced
  <2>5. m.type \in {"REQ", "COUNT"} => Fits(m, "query")
    BY DEF Fits
  <2> QED
    BY <2>3, <2>4, <2>5
<1> HIDE DEF base
<1>10. CASE ReceiveReq(c, m, now)
  <2> DEFINE charges == QueryCharges(c, "req", m.filters, QueryBroad(m.filters))
  <2>1. m.type = "REQ" /\ (Begin(c, m, now, charges, "query") \/ AnswerAtOnce(m, {}))
    BY <1>10 DEF ReceiveReq
  <2> HIDE DEF charges
  <2> QED
    BY <1>3, <1>5, <1>6, <1>9, <2>1
<1>11. CASE ReceiveCount(c, m, now)
  <2> DEFINE charges == QueryCharges(c, "count", m.filters, FALSE)
  <2>1. /\ m.type = "COUNT"
        /\ \/ Begin(c, m, now, charges, "query") \/ AnswerAtOnce(m, {})
           \/ AnswerAtOnce(m, {"count_refusals", "broad_query_rejections"})
    BY <1>11 DEF ReceiveCount
  <2> HIDE DEF charges
  <2> QED
    BY <1>3, <1>5, <1>6, <1>9, <2>1
<1>12. CASE ReceiveOther(c, m)
  <2>1. m.type \in {"CLOSE", "NEG-OPEN", "NEG-MSG", "NEG-CLOSE"} /\ AnswerAtOnce(m, {})
    BY <1>12 DEF ReceiveOther
  <2> QED
    BY <1>3, <1>6, <1>9, <2>1
<1> QED
  BY <1>1, <1>7, <1>8, <1>10, <1>11, <1>12

-----------------------------------------------------------------------------
(* Handling a message *)

\* A key that is not a rule's has no entry to change.
LEMMA LimiterStep ==
  ASSUME LimiterTypeOK, NEW k, NEW now \in Readings, Hit(k, now) \/ Reject(k, now)
  PROVE  [LimiterNext]_limiterVars
<1>1. CASE k \in Keys
  BY <1>1 DEF LimiterNext, Record
<1>2. CASE k \notin Keys
  BY <1>2 DEF LimiterTypeOK, Hit, Reject, limiterVars
<1> QED
  BY <1>1, <1>2

\* An answer ends the work and changes the counters and nothing else.
LEMMA AnswerStep ==
  ASSUME IndInv, NEW c \in Connections, NEW names, NEW n, Answer(c, names),
         UNCHANGED <<conn, authed, log, accepted>>, noticed' = noticed + n,
         Balanced(names, None, work[c], n, 0)
  PROVE  IndInv'
<1>1. work' = [work EXCEPT ![c] = None] /\ Bump(names) /\ WorkOk(c, None)
  BY NoneClosed DEF Answer
<1>2. PICK x : x = None
  OBVIOUS
<1>3. work' = [work EXCEPT ![c] = x] /\ Bump(names) /\ WorkOk(c, x) /\ Balanced(names, x, work[c], n, 0)
  BY <1>1, <1>2
<1> QED
  BY <1>3, QuietStep

\* Nothing is counted.
LEMMA NothingCounted == ASSUME IndInv, UNCHANGED metrics PROVE Bump({})
BY DEF IndInv, MetricsInv, Bump, Counted

\* The next key has room.
LEMMA ChargeStep ==
  ASSUME IndInv, LimiterTypeOK, NEW c \in Connections, Charge(c)
  PROVE  IndInv' /\ [LimiterNext]_limiterVars
<1>1. /\ work[c] # None /\ work[c][1].charges # <<>> /\ Hit(work[c][1].charges[1], work[c][1].now)
      /\ work' = [work EXCEPT ![c][1].charges = Tail(@)] /\ UNCHANGED <<serverVars, metrics>>
  BY DEF Charge
<1>2. WorkInv /\ PerConnection(work)
  BY DEF IndInv, WorkInv
<1>3a. PICK m \in Inputs, n \in Readings : \E charges, then :
          /\ work[c] = Working(m, n, charges, then) /\ Fits(m, then)
          /\ then = "store" => charges = <<>> /\ Clear(c, m.event)
          /\ work[c][1].msg = m /\ work[c][1].now = n
          /\ work[c][1].charges = charges /\ work[c][1].then = then
  BY <1>1, <1>2, WorkParts
<1>3. PICK charges, then :
        /\ work[c] = Working(m, n, charges, then) /\ Fits(m, then)
        /\ then = "store" => charges = <<>> /\ Clear(c, m.event)
        /\ work[c][1].msg = m /\ work[c][1].now = n
        /\ work[c][1].charges = charges /\ work[c][1].then = then
  BY <1>3a
<1>4. PICK rest : rest = Tail(charges)
  OBVIOUS
<1>5. PICK x : x = Working(m, n, rest, then)
  OBVIOUS
<1>6. [Working(m, n, charges, then) EXCEPT ![1].charges = rest] = Working(m, n, rest, then)
  BY DEF Working, Some
<1>7. work' = [work EXCEPT ![c] = [work[c] EXCEPT ![1].charges = Tail(charges)]]
  BY <1>1, <1>3
<1>8. work' = [work EXCEPT ![c] = x]
  BY <1>3, <1>4, <1>5, <1>6, <1>7
<1>9. then # "store" /\ WorkOk(c, x)
  BY <1>1, <1>3, <1>5, BeginOk
<1>10. Balanced({}, x, work[c], 0, 0)
  BY <1>3, <1>5, WorkingOpen DEF Balanced
<1>11. /\ UNCHANGED <<conn, authed, log, accepted>> /\ noticed' = noticed + 0 /\ Bump({})
  BY <1>1, NothingCounted DEF serverVars, IndInv, MetricsInv
<1>12. IndInv'
  BY <1>8, <1>9, <1>10, <1>11, QuietStep
<1>13. [LimiterNext]_limiterVars
  BY <1>1, <1>3, LimiterStep
<1> QED
  BY <1>12, <1>13

\* A message over its limit is refused and counted once.
LEMMA LimitedStep ==
  ASSUME IndInv, LimiterTypeOK, NEW c \in Connections, Limited(c)
  PROVE  IndInv' /\ [LimiterNext]_limiterVars
<1>1. /\ work[c] # None /\ work[c][1].charges # <<>> /\ Reject(work[c][1].charges[1], work[c][1].now)
      /\ Answer(c, LimitMetrics(work[c][1])) /\ UNCHANGED serverVars
  BY DEF Limited
<1>2. WorkInv
  BY DEF IndInv
<1>3a. PICK m \in Inputs, n \in Readings : \E charges, then :
          /\ work[c] = Working(m, n, charges, then) /\ Fits(m, then)
          /\ then = "store" => charges = <<>> /\ Clear(c, m.event)
          /\ work[c][1].msg = m /\ work[c][1].now = n
          /\ work[c][1].charges = charges /\ work[c][1].then = then
  BY <1>1, <1>2, WorkParts
<1>3. PICK charges, then :
        /\ work[c] = Working(m, n, charges, then) /\ Fits(m, then)
        /\ then = "store" => charges = <<>> /\ Clear(c, m.event)
        /\ work[c][1].msg = m /\ work[c][1].now = n
        /\ work[c][1].charges = charges /\ work[c][1].then = then
  BY <1>3a
<1>4. PICK names : names = LimitMetrics(work[c][1])
  OBVIOUS
<1>5. then # "store"
  BY <1>1, <1>3
<1>6. ASSUME then = "admit" PROVE Balanced(names, None, work[c], 0, 0)
  <2>1. names = {"rate_limit_rejections"} \union RejectionMetrics(m.event)
    BY <1>3, <1>4, <1>6 DEF LimitMetrics
  <2>2. EventOpen(work[c]) /\ ~AuthOpen(work[c])
    BY <1>3, <1>6, WorkingOpen DEF Fits
  <2> QED
    BY <2>1, <2>2, NoneClosed DEF Balanced, RejectionMetrics
<1>7. ASSUME then = "authenticate" PROVE Balanced(names, None, work[c], 0, 0)
  <2>1. names = {"rate_limit_rejections", "auth_failures"}
    BY <1>3, <1>4, <1>7 DEF LimitMetrics
  <2>2. ~EventOpen(work[c]) /\ AuthOpen(work[c])
    BY <1>3, <1>7, WorkingOpen DEF Fits
  <2> QED
    BY <2>1, <2>2, NoneClosed DEF Balanced
<1>8. ASSUME then \in {"refuse", "query"} PROVE Balanced(names, None, work[c], 0, 0)
  <2>1. names \subseteq {"rate_limit_rejections", "broad_query_rejections"}
    BY <1>3, <1>4, <1>8 DEF LimitMetrics
  <2>2. ~EventOpen(work[c]) /\ ~AuthOpen(work[c])
    BY <1>3, <1>8, WorkingOpen
  <2> QED
    BY <2>1, <2>2, NoneClosed DEF Balanced
<1>9. Balanced(names, None, work[c], 0, 0)
  BY <1>3, <1>5, <1>6, <1>7, <1>8 DEF Fits
<1>10. /\ UNCHANGED <<conn, authed, log, accepted>> /\ noticed' = noticed + 0 /\ Answer(c, names)
  BY <1>1, <1>4 DEF serverVars, IndInv, MetricsInv
<1>11. IndInv'
  BY <1>9, <1>10, AnswerStep
<1>12. [LimiterNext]_limiterVars
  BY <1>1, <1>3, LimiterStep
<1> QED
  BY <1>11, <1>12

\* The message at a step of its handling.
LEMMA HandlingParts ==
  ASSUME IndInv, NEW c \in Connections, NEW s, Handling(c, s)
  PROVE  \E m \in Inputs, n \in Readings :
           /\ work[c] = Working(m, n, <<>>, s) /\ Fits(m, s)
           /\ s = "store" => Clear(c, m.event)
           /\ work[c][1].msg = m /\ work[c][1].now = n
           /\ EventOpen(work[c]) <=> s \in {"admit", "store"}
           /\ AuthOpen(work[c]) <=> s = "authenticate"
<1>1. work[c] # None /\ work[c][1].charges = <<>> /\ work[c][1].then = s /\ WorkInv
  BY DEF Handling, IndInv
<1>2a. PICK m \in Inputs, n \in Readings : \E charges, then :
          /\ work[c] = Working(m, n, charges, then) /\ Fits(m, then)
          /\ then = "store" => charges = <<>> /\ Clear(c, m.event)
          /\ work[c][1].msg = m /\ work[c][1].now = n
          /\ work[c][1].charges = charges /\ work[c][1].then = then
  BY <1>1, WorkParts
<1>2. PICK charges, then :
        /\ work[c] = Working(m, n, charges, then) /\ Fits(m, then)
        /\ then = "store" => charges = <<>> /\ Clear(c, m.event)
        /\ work[c][1].msg = m /\ work[c][1].now = n
        /\ work[c][1].charges = charges /\ work[c][1].then = then
  BY <1>2a
<1>3. charges = <<>> /\ then = s
  BY <1>1, <1>2
<1>4. /\ EventOpen(work[c]) <=> s \in {"admit", "store"}
      /\ AuthOpen(work[c]) <=> s = "authenticate"
  BY <1>2, <1>3, WorkingOpen DEF Fits
<1> QED
  BY <1>2, <1>3, <1>4

\* Answers that change no key and no event.
LEMMA PlainAnswers ==
  ASSUME IndInv, NEW c \in Connections,
         AnswerQuery(c) \/ AuthRefused(c) \/ RejectEvent(c)
  PROVE  IndInv' /\ UNCHANGED limiterVars
<1>1. /\ UNCHANGED <<limiterVars, conn, authed, log, accepted>> /\ noticed' = noticed + 0
  BY DEF AnswerQuery, AuthRefused, RejectEvent, serverVars, IndInv, MetricsInv
<1>2. CASE AnswerQuery(c) \/ AuthRefused(c)
  <2>1. PICK s \in {"query", "refuse"} : Handling(c, s) /\ Answer(c, {})
    BY <1>2 DEF AnswerQuery, AuthRefused
  <2>2. ~EventOpen(work[c]) /\ ~AuthOpen(work[c])
    BY <2>1, HandlingParts
  <2>3. Balanced({}, None, work[c], 0, 0)
    BY <2>2, NoneClosed DEF Balanced
  <2> QED
    BY <1>1, <2>1, <2>3, AnswerStep
<1>3. CASE RejectEvent(c)
  <2>1. Handling(c, "admit") /\ Answer(c, RejectionMetrics(work[c][1].msg.event))
    BY <1>3 DEF RejectEvent
  <2>2. EventOpen(work[c]) /\ ~AuthOpen(work[c])
    BY <2>1, HandlingParts
  <2>3. PICK names : names = RejectionMetrics(work[c][1].msg.event)
    OBVIOUS
  <2>4. Balanced(names, None, work[c], 0, 0)
    BY <2>2, <2>3, NoneClosed DEF Balanced, RejectionMetrics
  <2> QED
    BY <1>1, <2>1, <2>3, <2>4, AnswerStep
<1> QED
  BY <1>2, <1>3

\* A failed AUTH is counted and goes on to the limits of failures.
LEMMA AuthFailsStep ==
  ASSUME IndInv, NEW c \in Connections, AuthFails(c)
  PROVE  IndInv' /\ UNCHANGED limiterVars
<1>1. Handling(c, "authenticate") /\ Bump({"auth_failures"}) /\ UNCHANGED <<limiterVars, serverVars>>
  BY DEF AuthFails
<1>2. PICK m \in Inputs, n \in Readings :
        /\ Fits(m, "authenticate") /\ work[c][1].msg = m /\ work[c][1].now = n
        /\ ~EventOpen(work[c]) /\ AuthOpen(work[c])
  BY <1>1, HandlingParts
<1>3. PICK charges, x : charges = AuthFailureCharges(c, m.event) /\ x = Working(m, n, charges, "refuse")
  OBVIOUS
<1>4. work' = [work EXCEPT ![c] = x]
  BY <1>2, <1>3 DEF AuthFails
<1>5. Fits(m, "refuse") /\ WorkOk(c, x)
  <2>1. Fits(m, "refuse")
    BY <1>2 DEF Fits
  <2> QED
    BY <1>3, <2>1, BeginOk
<1>6. ~EventOpen(x) /\ ~AuthOpen(x)
  BY <1>3, WorkingOpen
<1>7. Balanced({"auth_failures"}, x, work[c], 0, 0)
  BY <1>2, <1>6 DEF Balanced
<1>8. /\ UNCHANGED <<conn, authed, log, accepted>> /\ noticed' = noticed + 0
  BY <1>1 DEF serverVars, IndInv, MetricsInv
<1> QED
  BY <1>1, <1>4, <1>5, <1>7, <1>8, QuietStep

\* A connection gains the key that signed the answer to its challenge.
LEMMA AuthenticateStep ==
  ASSUME IndInv, NEW c \in Connections, Authenticate(c)
  PROVE  IndInv' /\ UNCHANGED limiterVars
<1>1. /\ Handling(c, "authenticate")
      /\ UNCHANGED <<limiterVars, conn, challenge, log, accepted, noticed, messages, faults>>
  BY DEF Authenticate
<1>2. PICK m \in Inputs, n \in Readings :
        /\ work[c][1].msg = m /\ work[c][1].now = n /\ ~EventOpen(work[c]) /\ AuthOpen(work[c])
  BY <1>1, HandlingParts
<1>3. /\ Authenticates(c, m.event, n) /\ Answer(c, {"auth_successes"})
      /\ authed' = [authed EXCEPT ![c] = authed[c] \union {m.event.pubkey}]
  BY <1>2 DEF Authenticate
<1>4. m.event.pubkey \in KeysOf[c]
  BY <1>3, SignerAssumption DEF Authenticates, Verifies
<1>5. WorkInv /\ StoreInv /\ MetricsInv /\ PerConnection(authed)
  BY DEF IndInv, WorkInv
<1>6. /\ PerConnection(authed') /\ authed'[c] = authed[c] \union {m.event.pubkey}
      /\ \A d \in Connections : d # c => authed'[d] = authed[d]
  BY <1>3, <1>5 DEF PerConnection
<1>7. PICK x : x = None
  OBVIOUS
<1>8. /\ work' = [work EXCEPT ![c] = x] /\ Bump({"auth_successes"}) /\ WorkOk(c, x)
      /\ Balanced({"auth_successes"}, x, work[c], 0, 0)
  BY <1>2, <1>3, <1>7, NoneClosed DEF Answer, Balanced
<1>9. \A d \in Connections : authed[d] \subseteq authed'[d]
  BY <1>6
<1>10. WorkInv'
  BY <1>1, <1>5, <1>6, <1>8, <1>9, WorkStep
<1>11. StoreInv'
  <2>1. NoBorrowedIdentity'
    BY <1>4, <1>5, <1>6 DEF StoreInv, NoBorrowedIdentity
  <2>2. \A e : Stored(e)' <=> Stored(e)
    BY <1>1 DEF Stored
  <2> QED
    BY <1>1, <1>5, <2>1, <2>2 DEF StoreInv, OnlyAuthorsStore, AcceptedIsStored
<1>12. noticed' = noticed + 0 /\ Len(log') = Len(log) + 0
  BY <1>1, <1>5 DEF StoreInv, MetricsInv
<1>13. MetricsInv'
  BY <1>1, <1>5, <1>8, <1>12, MetricsStep
<1> QED
  BY <1>1, <1>10, <1>11, <1>13 DEF IndInv

\* The events of the messages in hand may be stored.
LEMMA EntryType ==
  ASSUME NEW c \in Connections, NEW m \in Inputs, m.type = "EVENT"
  PROVE  [event |-> m.event, by |-> c] \in LogEntries
BY DEF LogEntries

\* An event that is stored already, or is not to be stored, is accepted.
LEMMA AcceptStep ==
  ASSUME IndInv, NEW c \in Connections, NEW e, AcceptUnstored(c, e), EventOpen(work[c]),
         ~AuthOpen(work[c]), Stored(e) \/ KindClass(e.kind) = "ephemeral"
  PROVE  IndInv' /\ UNCHANGED limiterVars
<1>1. /\ accepted' = accepted \union {e} /\ Answer(c, {"event_admissions"})
      /\ UNCHANGED <<limiterVars, conn, challenge, authed, log, noticed, messages, faults>>
  BY DEF AcceptUnstored
<1>2. WorkInv /\ StoreInv /\ MetricsInv
  BY DEF IndInv
<1>3. PICK x : x = None
  OBVIOUS
<1>4. /\ work' = [work EXCEPT ![c] = x] /\ Bump({"event_admissions"}) /\ WorkOk(c, x)
      /\ Balanced({"event_admissions"}, x, work[c], 0, 0)
  BY <1>1, <1>3, NoneClosed DEF Answer, Balanced
<1>5. PerConnection(authed') /\ \A d \in Connections : authed[d] \subseteq authed'[d]
  BY <1>1, <1>2 DEF WorkInv, PerConnection
<1>6. WorkInv'
  BY <1>1, <1>2, <1>4, <1>5, WorkStep
<1>7. \A f : Stored(f)' <=> Stored(f)
  BY <1>1 DEF Stored
<1>8. AcceptedIsStored'
  BY <1>1, <1>2, <1>7 DEF StoreInv, AcceptedIsStored
<1>9. StoreInv'
  BY <1>1, <1>2, <1>8 DEF StoreInv, NoBorrowedIdentity, OnlyAuthorsStore
<1>10. noticed' = noticed + 0 /\ Len(log') = Len(log) + 0
  BY <1>1, <1>2 DEF StoreInv, MetricsInv
<1>11. MetricsInv'
  BY <1>1, <1>2, <1>4, <1>10, MetricsStep
<1> QED
  BY <1>1, <1>6, <1>9, <1>11 DEF IndInv

\* An event that is not stored yet and may be is appended.
LEMMA AppendStep ==
  ASSUME IndInv, NEW c \in Connections, NEW m \in Inputs, m.type = "EVENT",
         AppendEvent(c, m.event) \/ AppendFails(c, m.event), ~Stored(m.event),
         EventOpen(work[c]), ~AuthOpen(work[c]),
         IsProtected(m.event) \/ ClassifyGroupEvent(m.event) # NonGroup => m.event.pubkey \in authed[c]
  PROVE  IndInv' /\ UNCHANGED limiterVars
<1> DEFINE r == [event |-> m.event, by |-> c]
<1>1. /\ log' = Append(log, r) /\ UNCHANGED <<limiterVars, conn, authed>>
      /\ accepted' \in {accepted, accepted \union {m.event}}
  BY DEF AppendEvent, AppendFails
<1>2. WorkInv /\ StoreInv /\ MetricsInv
  BY DEF IndInv
<1>3. PICK names :
        /\ Answer(c, names)
        /\ \/ noticed' = noticed + 0 /\ Balanced(names, None, work[c], 0, 1)
           \/ noticed' = noticed + 1 /\ Balanced(names, None, work[c], 1, 1)
  <2>1. PICK s, f : s = {"stored_event_offsets", "event_admissions"} /\ f = {}
    OBVIOUS
  <2>2. Balanced(s, None, work[c], 0, 1) /\ Balanced(f, None, work[c], 1, 1)
    BY <2>1, NoneClosed DEF Balanced
  <2>3. CASE AppendEvent(c, m.event)
    BY <1>2, <2>1, <2>2, <2>3 DEF AppendEvent, MetricsInv
  <2>4. CASE AppendFails(c, m.event)
    BY <2>1, <2>2, <2>4 DEF AppendFails
  <2> QED
    BY <2>3, <2>4
<1>4. PICK x : x = None
  OBVIOUS
<1>5. /\ work' = [work EXCEPT ![c] = x] /\ Bump(names) /\ WorkOk(c, x)
      /\ \/ noticed' = noticed + 0 /\ Balanced(names, x, work[c], 0, 1)
         \/ noticed' = noticed + 1 /\ Balanced(names, x, work[c], 1, 1)
  BY <1>3, <1>4, NoneClosed DEF Answer
<1>6. PerConnection(authed') /\ \A d \in Connections : authed[d] \subseteq authed'[d]
  BY <1>1, <1>2 DEF WorkInv, PerConnection
<1>7. WorkInv'
  BY <1>1, <1>2, <1>5, <1>6, WorkStep
<1>8. r \in LogEntries /\ log \in Seq(LogEntries)
  BY <1>2, EntryType DEF StoreInv
<1>9. /\ log' \in Seq(LogEntries) /\ Len(log') = Len(log) + 1 /\ DOMAIN log = 1..Len(log)
      /\ DOMAIN log' = 1..(Len(log) + 1) /\ Len(log) \in Nat
      /\ log'[Len(log) + 1] = r /\ \A i \in DOMAIN log : log'[i] = log[i]
  <2> HIDE DEF r
  <2> QED BY <1>1, <1>8
<1>10. \A i \in DOMAIN log' : i \in DOMAIN log \/ i = Len(log) + 1
  BY <1>9
<1>11. DOMAIN log \subseteq DOMAIN log' /\ Len(log) + 1 \in DOMAIN log'
  BY <1>9
<1>12. r.event = m.event /\ r.by = c
  OBVIOUS
<1> HIDE DEF r
<1>13. \A e : Stored(e) => Stored(e)'
  BY <1>9, <1>11 DEF Stored
<1>14. Stored(m.event)'
  BY <1>9, <1>11, <1>12 DEF Stored
<1>15. NoBorrowedIdentity'
  BY <1>1, <1>2 DEF StoreInv, NoBorrowedIdentity
<1>16. OnlyAuthorsStore'
  <2>1. \A i \in DOMAIN log :
          IsProtected(log'[i].event) \/ ClassifyGroupEvent(log'[i].event) # NonGroup
            => log'[i].event.pubkey \in KeysOf[log'[i].by]
    BY <1>2, <1>9 DEF StoreInv, OnlyAuthorsStore
  <2>2. IsProtected(m.event) \/ ClassifyGroupEvent(m.event) # NonGroup => m.event.pubkey \in KeysOf[c]
    BY <1>2 DEF StoreInv, NoBorrowedIdentity
  <2> QED
    BY <1>9, <1>10, <1>12, <2>1, <2>2 DEF OnlyAuthorsStore
<1>17. AcceptedIsStored'
  <2>1. \A e \in accepted' : Stored(e)' \/ KindClass(e.kind) = "ephemeral"
    BY <1>1, <1>2, <1>13, <1>14 DEF StoreInv, AcceptedIsStored
  <2>2. \A i \in DOMAIN log : log[i].event.id # m.event.id
    BY DEF Stored
  <2>3. \A i, j \in DOMAIN log : log'[i].event.id = log'[j].event.id => i = j
    BY <1>2, <1>9 DEF StoreInv, AcceptedIsStored
  <2>4. \A i, j \in DOMAIN log' : log'[i].event.id = log'[j].event.id => i = j
    BY <1>9, <1>10, <1>12, <2>2, <2>3
  <2> QED
    BY <2>1, <2>4 DEF AcceptedIsStored
<1>18. StoreInv'
  BY <1>9, <1>15, <1>16, <1>17 DEF StoreInv
<1>19. MetricsInv'
  BY <1>1, <1>2, <1>5, <1>9, MetricsStep
<1> QED
  BY <1>1, <1>7, <1>18, <1>19 DEF IndInv

\* Events of groups, ephemeral events, and those that are looked up and stored.
LEMMA EventSteps ==
  ASSUME IndInv, NEW c \in Connections,
         GroupEvent(c) \/ EphemeralEvent(c) \/ LookUp(c) \/ StoreEvent(c)
  PROVE  IndInv' /\ UNCHANGED limiterVars
<1>1. PICK s \in {"admit", "store"} :
        /\ Handling(c, s)
        /\ s = "admit" => GroupEvent(c) \/ EphemeralEvent(c) \/ LookUp(c)
        /\ s = "store" => StoreEvent(c)
  BY DEF GroupEvent, EphemeralEvent, LookUp, StoreEvent
<1>2. PICK m \in Inputs, n \in Readings :
        /\ work[c] = Working(m, n, <<>>, s) /\ Fits(m, s) /\ (s = "store" => Clear(c, m.event))
        /\ work[c][1].msg = m /\ EventOpen(work[c]) /\ ~AuthOpen(work[c])
  BY <1>1, HandlingParts
<1>3. PICK e : e = m.event
  OBVIOUS
<1>4. m.type = "EVENT" /\ work[c][1].msg.event = e
  BY <1>1, <1>2, <1>3 DEF Fits
<1>5. ASSUME UNCHANGED <<limiterVars, serverVars>>, Answer(c, RejectionMetrics(e))
      PROVE  IndInv' /\ UNCHANGED limiterVars
  <2>1. PICK names : names = RejectionMetrics(e)
    OBVIOUS
  <2>2. Balanced(names, None, work[c], 0, 0)
    BY <1>2, <2>1, NoneClosed DEF Balanced, RejectionMetrics
  <2>3. UNCHANGED <<conn, authed, log, accepted>> /\ noticed' = noticed + 0 /\ Answer(c, names)
    BY <1>5, <2>1 DEF serverVars, IndInv, MetricsInv
  <2> QED
    BY <1>5, <2>2, <2>3, AnswerStep
<1>6. CASE GroupEvent(c)
  <2>1. /\ ~Rejected(c, e) /\ ClassifyGroupEvent(e) # NonGroup
        /\ \/ Answer(c, RejectionMetrics(e)) /\ UNCHANGED <<limiterVars, serverVars>>
           \/ e.pubkey \in authed[c] /\ Stored(e) /\ AcceptUnstored(c, e)
           \/ e.pubkey \in authed[c] /\ ~Stored(e) /\ (AppendEvent(c, e) \/ AppendFails(c, e))
    BY <1>4, <1>6 DEF GroupEvent
  <2> QED
    BY <1>2, <1>3, <1>4, <1>5, <2>1, AcceptStep, AppendStep
<1>7. CASE EphemeralEvent(c)
  <2>1. KindClass(e.kind) = "ephemeral" /\ AcceptUnstored(c, e)
    BY <1>4, <1>7 DEF EphemeralEvent
  <2> QED
    BY <1>2, <2>1, AcceptStep
<1>8. CASE LookUp(c) /\ s = "admit"
  <2>1. /\ ~Rejected(c, e) /\ ClassifyGroupEvent(e) = NonGroup
        /\ \/ Stored(e) /\ AcceptUnstored(c, e)
           \/ /\ work' = [work EXCEPT ![c][1].then = "store"]
              /\ UNCHANGED <<limiterVars, serverVars, metrics>>
    BY <1>4, <1>8 DEF LookUp
  <2>2. CASE Stored(e) /\ AcceptUnstored(c, e)
    BY <1>2, <2>2, AcceptStep
  <2>3. CASE /\ work' = [work EXCEPT ![c][1].then = "store"]
             /\ UNCHANGED <<limiterVars, serverVars, metrics>>
    <3>1. PICK x : x = Working(m, n, <<>>, "store")
      OBVIOUS
    <3>2. [Working(m, n, <<>>, "admit") EXCEPT ![1].then = "store"] = Working(m, n, <<>>, "store")
      BY DEF Working, Some
    <3>3. work' = [work EXCEPT ![c] = x]
      BY <1>2, <1>8, <2>3, <3>1, <3>2
    <3>4. Clear(c, m.event)
      BY <1>3, <2>1 DEF Clear, Rejected
    <3>5. WorkOk(c, x)
      <4>1. Fits(m, "store")
        BY <1>4 DEF Fits
      <4> QED
        BY <3>1, <3>4, <4>1 DEF WorkOk
    <3>6. EventOpen(x) /\ ~AuthOpen(x)
      BY <1>4, <3>1, WorkingOpen
    <3>7. Balanced({}, x, work[c], 0, 0)
      BY <1>2, <3>6 DEF Balanced
    <3>8. UNCHANGED <<conn, authed, log, accepted>> /\ noticed' = noticed + 0 /\ Bump({})
      BY <2>3, NothingCounted DEF serverVars, IndInv, MetricsInv
    <3> QED
      BY <2>3, <3>3, <3>5, <3>7, <3>8, QuietStep
  <2> QED
    BY <2>1, <2>2, <2>3
<1>9. CASE StoreEvent(c) /\ s = "store"
  <2>1. \/ ~Stored(e) /\ (AppendEvent(c, e) \/ AppendFails(c, e))
        \/ /\ noticed' = noticed + 1 /\ Answer(c, {})
           /\ UNCHANGED <<limiterVars, conn, challenge, authed, log, accepted, messages, faults>>
    BY <1>4, <1>9 DEF StoreEvent
  <2>2. CASE ~Stored(e) /\ (AppendEvent(c, e) \/ AppendFails(c, e))
    <3>1. IsProtected(m.event) \/ ClassifyGroupEvent(m.event) # NonGroup => m.event.pubkey \in authed[c]
      BY <1>2, <1>9 DEF Clear
    <3> QED
      BY <1>2, <1>3, <1>4, <2>2, <3>1, AppendStep
  <2>3. CASE /\ noticed' = noticed + 1 /\ Answer(c, {})
             /\ UNCHANGED <<limiterVars, conn, challenge, authed, log, accepted, messages, faults>>
    <3>1. Balanced({}, None, work[c], 1, 0)
      BY <1>2, NoneClosed DEF Balanced
    <3> QED
      BY <2>3, <3>1, AnswerStep
  <2> QED
    BY <2>1, <2>2, <2>3
<1> QED
  BY <1>1, <1>6, <1>7, <1>8, <1>9

-----------------------------------------------------------------------------
(* Connections, and the whole *)

\* A connection is opened or closed.
LEMMA ConnectionStep ==
  ASSUME IndInv, NEW c \in Connections, NEW now, Connect(c, now) \/ Disconnect(c)
  PROVE  IndInv' /\ UNCHANGED limiterVars
<1>1. WorkInv /\ StoreInv /\ MetricsInv /\ PerConnection(conn) /\ PerConnection(authed)
  BY DEF IndInv, WorkInv
<1>2. UNCHANGED <<limiterVars, work, log, accepted, noticed>>
  BY DEF Connect, Disconnect
<1>3. PICK to \in {"open", "closed"} :
        /\ conn' = [conn EXCEPT ![c] = to]
        /\ to = "open" => conn[c] # "open" /\ Bump({"active_sessions", "total_sessions"}) /\ authed' = authed
        /\ to = "closed" => conn[c] = "open" /\ work[c] = None /\ SessionClosed /\ authed' = [authed EXCEPT ![c] = {}]
  BY DEF Connect, Disconnect
<1>4. /\ conn'[c] = to /\ PerConnection(conn')
      /\ \A d \in Connections : d # c => conn'[d] = conn[d]
  BY <1>1, <1>3 DEF PerConnection
<1>5. /\ PerConnection(authed') /\ authed'[c] \in {authed[c], {}}
      /\ \A d \in Connections : d # c => authed'[d] = authed[d]
      /\ work[c] # None => authed'[c] = authed[c]
  <2>1. CASE to = "open"
    BY <1>1, <1>3, <2>1 DEF PerConnection
  <2>2. CASE to = "closed"
    BY <1>1, <1>3, <2>2 DEF PerConnection
  <2> QED
    BY <2>1, <2>2
<1>6. WorkInv'
  <2>1. ASSUME NEW d \in Connections PROVE WorkOk(d, work[d])'
    <3>1. WorkOk(d, work[d])
      BY <1>1 DEF WorkInv
    <3>2. CASE work[d] = None
      BY <1>2, <3>2 DEF WorkOk
    <3>3. CASE work[d] # None
      <4>1. authed'[d] = authed[d]
        BY <1>5, <3>3
      <4>2. \A e : Clear(d, e)' <=> Clear(d, e)
        BY <4>1 DEF Clear
      <4>3. PICK x : x = work[d]
        OBVIOUS
      <4>4. WorkOk(d, x) => WorkOk(d, x)'
        BY <4>2 DEF WorkOk
      <4> QED
        BY <1>2, <3>1, <4>3, <4>4
    <3> QED
      BY <3>2, <3>3
  <2>2. PerConnection(work)' /\ PerConnection(conn)' /\ PerConnection(authed)'
    BY <1>1, <1>2, <1>4, <1>5 DEF WorkInv, PerConnection
  <2> QED
    BY <2>1, <2>2 DEF WorkInv
<1>7. StoreInv'
  <2>1. NoBorrowedIdentity'
    BY <1>1, <1>5 DEF StoreInv, NoBorrowedIdentity
  <2>2. \A e : Stored(e)' <=> Stored(e)
    BY <1>2 DEF Stored
  <2> QED
    BY <1>1, <1>2, <2>1, <2>2 DEF StoreInv, OnlyAuthorsStore, AcceptedIsStored
<1>8. MetricsInv'
  <2>1. /\ OpenConns \subseteq Connections /\ OpenConns' \subseteq Connections
        /\ \A d \in Connections : d # c => (d \in OpenConns <=> d \in OpenConns')
        /\ c \in OpenConns <=> conn[c] = "open"
        /\ c \in OpenConns' <=> to = "open"
    BY <1>4 DEF OpenConns
  <2>2. PICK p, q : p = Cardinality(OpenConns) /\ q = Cardinality(OpenConns')
    OBVIOUS
  <2>3. /\ p \in Nat /\ q \in Nat
        /\ conn[c] # "open" /\ to = "open" => q = p + 1
        /\ conn[c] = "open" /\ to # "open" => p = q + 1
    BY <2>1, <2>2, CountChange
  <2>4. metrics \in [MetricNames -> Nat] /\ metrics["active_sessions"] = p /\ "active_sessions" \in MetricNames
    BY <1>1, <2>2 DEF MetricsInv, MetricNames
  <2>5. /\ metrics' \in [MetricNames -> Nat] /\ metrics'["active_sessions"] = q
        /\ \A n \in MetricNames \ {"active_sessions", "total_sessions"} : metrics'[n] = metrics[n]
    <3>1. CASE to = "open"
      <4>1. Bump({"active_sessions", "total_sessions"}) /\ q = p + 1
        BY <1>3, <2>3, <3>1
      <4> QED
        BY <2>4, <4>1, BumpFacts
    <3>2. CASE to = "closed"
      <4>1. SessionClosed /\ p = q + 1
        BY <1>3, <2>3, <3>2
      <4>2. PICK left : left = IF metrics["active_sessions"] = 0 THEN 0 ELSE metrics["active_sessions"] - 1
        OBVIOUS
      <4>3. left = q
        BY <2>3, <2>4, <4>1, <4>2
      <4>4. metrics' = [metrics EXCEPT !["active_sessions"] = left]
        BY <4>1, <4>2 DEF SessionClosed
      <4> QED
        BY <2>3, <2>4, <4>3, <4>4
    <3> QED
      BY <3>1, <3>2
  <2>6. EventWork' = EventWork /\ AuthWork' = AuthWork
    BY <1>2 DEF EventWork, AuthWork, EventOpen, AuthOpen
  <2>7. \A n \in {"event_messages", "event_admissions", "event_rejections", "auth_messages",
                  "auth_successes", "auth_failures", "group_write_denials", "stored_event_offsets"} :
          metrics'[n] = metrics[n]
    BY <2>5 DEF MetricNames
  <2> QED
    BY <1>1, <1>2, <2>2, <2>5, <2>6, <2>7 DEF MetricsInv
<1> QED
  BY <1>2, <1>6, <1>7, <1>8 DEF IndInv

\* Every step keeps the invariant and is, to the rate limiter, one of its steps or none.
LEMMA NextInd ==
  ASSUME IndInv, LimiterTypeOK, [Next]_vars
  PROVE  IndInv' /\ [LimiterNext]_limiterVars
<1>1. CASE UNCHANGED vars
  <2>1. UNCHANGED <<limiterVars, conn, authed, work, log, accepted, metrics, noticed>>
    BY <1>1 DEF vars, serverVars
  <2>2. WorkInv'
    <3>1. \A d, x : WorkOk(d, x)' <=> WorkOk(d, x)
      BY <2>1 DEF WorkOk, Clear
    <3> QED
      BY <2>1, <3>1 DEF IndInv, WorkInv, PerConnection
  <2>3. StoreInv'
    BY <2>1, StoreKept DEF IndInv
  <2>4. MetricsInv'
    BY <2>1 DEF IndInv, MetricsInv, EventWork, AuthWork, OpenConns, EventOpen, AuthOpen
  <2> QED
    BY <2>1, <2>2, <2>3, <2>4 DEF IndInv
<1>2. ASSUME NEW c \in Connections, NEW now \in Readings, Connect(c, now) PROVE IndInv' /\ [LimiterNext]_limiterVars
  BY <1>2, ConnectionStep
<1>3. ASSUME NEW c \in Connections, Disconnect(c) PROVE IndInv' /\ [LimiterNext]_limiterVars
  BY <1>3, ConnectionStep
<1>4. ASSUME NEW c \in Connections, Receive(c) PROVE IndInv' /\ [LimiterNext]_limiterVars
  BY <1>4, ReceiveStep
<1>5. ASSUME NEW c \in Connections, Handle(c) PROVE IndInv' /\ [LimiterNext]_limiterVars
  <2>1. CASE Charge(c)
    BY <2>1, ChargeStep
  <2>2. CASE Limited(c)
    BY <2>2, LimitedStep
  <2>3. CASE AnswerQuery(c) \/ AuthRefused(c) \/ RejectEvent(c)
    BY <2>3, PlainAnswers
  <2>4. CASE Authenticate(c)
    BY <2>4, AuthenticateStep
  <2>5. CASE AuthFails(c)
    BY <2>5, AuthFailsStep
  <2>6. CASE GroupEvent(c) \/ EphemeralEvent(c) \/ LookUp(c) \/ StoreEvent(c)
    BY <2>6, EventSteps
  <2> QED
    BY <1>5, <2>1, <2>2, <2>3, <2>4, <2>5, <2>6 DEF Handle
<1> QED
  BY <1>1, <1>2, <1>3, <1>4, <1>5 DEF Next

\* A relay that has just started.
LEMMA InitInd == Init => IndInv
<1> SUFFICES ASSUME Init PROVE IndInv
  OBVIOUS
<1>1. /\ work = [c \in Connections |-> None] /\ authed = [c \in Connections |-> {}]
      /\ conn = [c \in Connections |-> "new"] /\ log = InitialLog /\ accepted = {}
      /\ metrics = NoMetrics /\ noticed = 0
  BY DEF Init
<1>2. WorkInv
  BY <1>1, NoneClosed DEF WorkInv, PerConnection
<1>3. log \in Seq(LogEntries)
  <2> DEFINE first == {InitialLog[i] : i \in DOMAIN InitialLog}
  <2>1. log \in Seq(first) /\ first \subseteq LogEntries
    BY <1>1, InitialLogAssumption DEF LogEntries
  <2> HIDE DEF first
  <2> QED
    BY <2>1
<1>4. NoBorrowedIdentity /\ OnlyAuthorsStore /\ AcceptedIsStored
  BY <1>1, InitialLogAssumption DEF NoBorrowedIdentity, OnlyAuthorsStore, AcceptedIsStored
<1>5. EventWork = {} /\ AuthWork = {} /\ OpenConns = {}
  BY <1>1, NoneClosed DEF EventWork, AuthWork, OpenConns
<1>6. Cardinality({}) = 0
  BY FS_EmptySet
<1>7. metrics \in [MetricNames -> Nat] /\ \A n \in MetricNames : metrics[n] = 0
  BY <1>1 DEF NoMetrics
<1>8. \A n \in {"event_messages", "event_admissions", "event_rejections", "auth_messages",
                "auth_successes", "auth_failures", "active_sessions", "group_write_denials",
                "stored_event_offsets"} : metrics[n] = 0
  BY <1>7 DEF MetricNames
<1>9. Len(log) - Len(InitialLog) = 0
  BY <1>1, InitialLogAssumption
<1>10. MetricsInv
  BY <1>1, <1>5, <1>6, <1>7, <1>8, <1>9 DEF MetricsInv
<1> QED
  BY <1>2, <1>3, <1>4, <1>10 DEF IndInv, StoreInv

\* The invariant holds always.
LEMMA Inductive == Spec => [](IndInv /\ LimiterInv)
<1>1. Init => IndInv /\ LimiterInv
  BY InitInd, InitInv DEF Init
<1>2. IndInv /\ LimiterInv /\ [Next]_vars => IndInv' /\ LimiterInv'
  <2> SUFFICES ASSUME IndInv, LimiterInv, [Next]_vars PROVE IndInv' /\ LimiterInv'
    OBVIOUS
  <2>1. LimiterTypeOK
    BY DEF LimiterInv
  <2>2. IndInv' /\ [LimiterNext]_limiterVars
    BY <2>1, NextInd
  <2> QED
    BY <2>2, LimiterKept
<1> QED
  BY <1>1, <1>2, PTL DEF Spec

-----------------------------------------------------------------------------
(* What the runtime promises *)

\* The rate limiter's steps are taken as the limiter alone would take them, so that among
\* any 2 * max_hits hits in a row that a key is let through, one comes a whole window
\* after another, whatever connections share the key (TangleRateLimiter::record,
\* rate_limit_ok_pocket, rate_limit_closed).
THEOREM AdmissionKeepsLimits == Spec => []BurstBound
<1>1. LimiterInv => BurstBound
  BY InvBounds
<1> QED
  BY <1>1, Inductive, PTL

\* A connection has only the keys of its own client, although either client may replay
\* the events that authenticate the other (authenticate_pocket).
THEOREM IdentityIsOwn == Spec => []NoBorrowedIdentity
<1>1. IndInv => NoBorrowedIdentity
  BY DEF IndInv, StoreInv
<1> QED
  BY <1>1, Inductive, PTL

\* Protected events and events of groups are stored only when their author sent them, also
\* when other connections act between the check and the store (admit_event, store_event).
THEOREM AuthorsStore == Spec => []OnlyAuthorsStore
<1>1. IndInv => OnlyAuthorsStore
  BY DEF IndInv, StoreInv
<1> QED
  BY <1>1, Inductive, PTL

\* An event whose sender was told OK is stored, unless it is ephemeral, and none is stored
\* twice, however many connections send it at once (handle_pocket_event, store_event).
THEOREM AcceptedMeansStored == Spec => []AcceptedIsStored
<1>1. IndInv => AcceptedIsStored
  BY DEF IndInv, StoreInv
<1> QED
  BY <1>1, Inductive, PTL

\* The counters agree with each other and with the state at every moment
\* (TangleRuntimeMetrics, record_event_metrics).
THEOREM CountersAddUp == Spec => []MetricsAddUp
<1>1. IndInv => MetricsAddUp
  <2> SUFFICES ASSUME IndInv PROVE MetricsAddUp
    OBVIOUS
  <2>1. MetricsInv
    BY DEF IndInv
  <2>2. /\ EventWork = {c \in Connections :
                          work[c] # None /\ work[c][1].msg.type = "EVENT" /\ work[c][1].then \in {"admit", "store"}}
        /\ AuthWork = {c \in Connections :
                         work[c] # None /\ work[c][1].msg.type = "AUTH" /\ work[c][1].then \in {"authenticate"}}
        /\ OpenConns = {c \in Connections : conn[c] = "open"}
    BY DEF EventWork, AuthWork, OpenConns, EventOpen, AuthOpen
  <2> QED
    BY <2>1, <2>2 DEF MetricsInv, MetricsAddUp
<1> QED
  BY <1>1, Inductive, PTL
=============================================================================
