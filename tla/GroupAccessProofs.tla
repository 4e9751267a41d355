------------------------- MODULE GroupAccessProofs -------------------------
(***************************************************************************)
(* Who may read and write follows the log: the members, the tombstone and  *)
(* the deletions in memory account for every event in the store, in        *)
(* whatever order events arrive and are replayed, through crashes, failed  *)
(* writes and restarts, as long as the projection table is not interrupted *)
(* while it is rewritten under an older checkpoint.  An event whose storing*)
(* was answered with the error of a sync is missed until the next restart; *)
(* it stands after the checkpoint, so the restart replays it.              *)
(*                                                                         *)
(* The inductive invariant says of the rows what it says of the projection *)
(* in memory, as far as the checkpoint vouches for them; without it a      *)
(* restart could load rows that lost an event the checkpoint skips.        *)
(*                                                                         *)
(* The last part is about any projection: what it keeps of a log's events, *)
(* that a projection which accounts for all of them is the only one, and   *)
(* that Rebuild gives one.                                                 *)
(***************************************************************************)
EXTENDS GroupServiceProofs, FiniteSetTheorems, WellFoundedInduction

-----------------------------------------------------------------------------
(* What a projection accounts for *)

\* Every member of p is as an event of l at one of the offsets S left it.
MembersFrom(l, p, S) ==
  \A u \in Users :
    \/ p.members[u] = NoMember
    \/ \E i \in S :
         /\ IsMemberEvent(l[i]) /\ l[i].user = u
         /\ p.members[u] = MemberOf(l[i], TupleOf(l[i], i))

\* p accounts for the events of l at the offsets S: each is in it or superseded.
Covers(l, p, S) ==
  \A i \in S :
    /\ IsMemberEvent(l[i]) => TupleLE(TupleOf(l[i], i), p.members[l[i].user].last)
    /\ l[i].kind = "delete_group" => TupleLE(TupleOf(l[i], i), p.tomb)
    /\ l[i].kind = "delete_event" => l[i].ref \in p.dels

\* What stands at a position of the log.
LEMMA LogFacts ==
  ASSUME NEW l \in Seq(Events), NEW i \in DOMAIN l
  PROVE  /\ l[i] \in Events /\ i \in Nat \ {0} /\ i <= Len(l)
         /\ TupleOf(l[i], i) \in Tuples
         /\ IsMemberEvent(l[i]) => l[i].user \in Users
  <1>1. l[i] \in Events /\ i \in Nat \ {0} /\ i <= Len(l)
    OBVIOUS
  <1> QED BY <1>1, TupleOfEvent DEF Events, IsMemberEvent

\* The empty projection has its members from any log and covers no event of it.
LEMMA EmptyFrom ==
  ASSUME NEW l, NEW K
  PROVE  MembersFrom(l, EmptyProjection, K) /\ Covers(l, EmptyProjection, {})
  BY DEF MembersFrom, Covers, EmptyProjection

\* Applying an event accounts for it and forgets none.
LEMMA ApplyCovers ==
  ASSUME NEW l \in Seq(Events), NEW p \in Projections, NEW i \in DOMAIN l,
         NEW S \in SUBSET DOMAIN l, NEW K, i \in K, MembersFrom(l, p, K),
         Covers(l, p, S)
  PROVE  /\ MembersFrom(l, Apply(p, l[i], i), K)
         /\ Covers(l, Apply(p, l[i], i), S \cup {i})
  <1> DEFINE q == Apply(p, l[i], i)
             t == TupleOf(l[i], i)
  <1>1. l[i] \in Events /\ i \in Nat \ {0} /\ t \in Tuples
    BY LogFacts
  <1>2. Applied(p, q, l[i], t)
    BY <1>1, ApplyFacts
  <1>3. /\ \A u \in Users : p.members[u].last \in Tuples /\ q.members[u].last \in Tuples
        /\ p.tomb \in Tuples /\ q.tomb \in Tuples
    BY <1>2 DEF Applied, Projections, Tombstones, Deletions, Members
  <1> HIDE DEF q, t
  <1>4. MembersFrom(l, q, K)
    BY <1>2 DEF MembersFrom, Applied, t
  <1>5. Covers(l, q, S \cup {i})
    <2> SUFFICES ASSUME NEW j \in S \cup {i}
                 PROVE  /\ IsMemberEvent(l[j]) =>
                             TupleLE(TupleOf(l[j], j), q.members[l[j].user].last)
                        /\ l[j].kind = "delete_group" => TupleLE(TupleOf(l[j], j), q.tomb)
                        /\ l[j].kind = "delete_event" => l[j].ref \in q.dels
      BY DEF Covers
    <2>1. CASE j = i
      BY <1>2, <2>1 DEF Applied, t
    <2>2. CASE j \in S
      <3>1. TupleOf(l[j], j) \in Tuples /\ (IsMemberEvent(l[j]) => l[j].user \in Users)
        BY <2>2, LogFacts
      <3>2. IsMemberEvent(l[j]) => TupleLE(TupleOf(l[j], j), q.members[l[j].user].last)
        BY <1>2, <1>3, <2>2, <3>1, TupleTransitive DEF Covers, Applied
      <3>3. l[j].kind = "delete_group" => TupleLE(TupleOf(l[j], j), q.tomb)
        BY <1>2, <1>3, <2>2, <3>1, TupleTransitive DEF Covers, Applied
      <3>4. l[j].kind = "delete_event" => l[j].ref \in q.dels
        BY <1>2, <2>2 DEF Covers, Applied
      <3> QED BY <3>2, <3>3, <3>4
    <2> QED BY <2>1, <2>2
  <1> QED BY <1>4, <1>5 DEF q

\* A longer log changes nothing for the offsets it had.
LEMMA AppendCovers ==
  ASSUME NEW l \in Seq(Events), NEW e \in Events, NEW p,
         NEW S \in SUBSET DOMAIN l
  PROVE  /\ MembersFrom(l, p, S) => MembersFrom(Append(l, e), p, S)
         /\ Covers(l, p, S) => Covers(Append(l, e), p, S)
  <1>1. \A i \in DOMAIN l : i \in DOMAIN Append(l, e) /\ Append(l, e)[i] = l[i]
    BY AppendType
  <1>2. MembersFrom(l, p, S) => MembersFrom(Append(l, e), p, S)
    <2> HIDE DEF IsMemberEvent
    <2> QED BY <1>1 DEF MembersFrom
  <1>3. Covers(l, p, S) => Covers(Append(l, e), p, S)
    BY <1>1 DEF Covers
  <1> QED BY <1>2, <1>3

\* More offsets to come from.
LEMMA MembersMore ==
  ASSUME NEW l, NEW p, NEW S, NEW T, S \subseteq T, MembersFrom(l, p, S)
  PROVE  MembersFrom(l, p, T)
  <1> HIDE DEF IsMemberEvent
  <1> QED BY DEF MembersFrom

\* Storing an event and applying it.
LEMMA StoreCovers ==
  ASSUME NEW l \in Seq(Events), NEW e \in Events, NEW p \in Projections,
         NEW K \in SUBSET DOMAIN l, MembersFrom(l, p, K), Covers(l, p, K)
  PROVE  /\ MembersFrom(Append(l, e), Apply(p, e, Len(l) + 1), K \cup {Len(l) + 1})
         /\ Covers(Append(l, e), Apply(p, e, Len(l) + 1), K \cup {Len(l) + 1})
  <1> DEFINE m == Append(l, e)
             n == Len(l) + 1
  <1>1. m \in Seq(Events) /\ n \in DOMAIN m /\ m[n] = e
        /\ DOMAIN m = DOMAIN l \cup {n} /\ DOMAIN l \in SUBSET DOMAIN m
    <2>1. /\ DOMAIN l = 1..Len(l) /\ Len(l) \in Nat /\ DOMAIN m = 1..(Len(l) + 1)
          /\ m \in Seq(Events) /\ m[n] = e
      BY AppendType
    <2> QED BY <2>1
  <1>2. MembersFrom(m, p, K) /\ Covers(m, p, K)
    BY AppendCovers
  <1> HIDE DEF m, n
  <1>4. MembersFrom(m, p, K \cup {n}) /\ K \in SUBSET DOMAIN m /\ n \in K \cup {n}
    BY <1>1, <1>2, MembersMore
  <1>3. /\ MembersFrom(m, Apply(p, m[n], n), K \cup {n})
        /\ Covers(m, Apply(p, m[n], n), K \cup {n})
    BY <1>1, <1>2, <1>4, ApplyCovers
  <1> QED BY <1>1, <1>3 DEF m, n

\* Putting a row of a projection that accounts for more loses nothing.
LEMMA RowCovers ==
  ASSUME NEW l \in Seq(Events), NEW r \in Projections, NEW p \in Projections,
         NEW k \in RowKeys(p), NEW S \in SUBSET DOMAIN l, NEW K,
         MembersFrom(l, r, K), MembersFrom(l, p, K)
  PROVE  /\ MembersFrom(l, WithRow(r, p, k), K)
         /\ Covers(l, r, S) /\ Covers(l, p, S) => Covers(l, WithRow(r, p, k), S)
  <1> DEFINE q == WithRow(r, p, k)
  <1>1. /\ \A u \in Users : q.members[u] \in {p.members[u], r.members[u]}
        /\ q.tomb \in {p.tomb, r.tomb}
        /\ r.dels \subseteq q.dels
    <2> HIDE DEF q
    <2>1. \A u \in Users : q.members[u] =
            IF k[1] = "member" /\ k[2] = u THEN p.members[u] ELSE r.members[u]
      BY WithRowFacts DEF q
    <2>2. q.tomb = IF k[1] = "tombstone" THEN p.tomb ELSE r.tomb
      BY WithRowFacts DEF q
    <2>3. q.dels = IF k[1] = "deletion" THEN r.dels \cup {k[2]} ELSE r.dels
      BY WithRowFacts DEF q
    <2> QED BY <2>1, <2>2, <2>3
  <1> HIDE DEF q
  <1>2. MembersFrom(l, q, K)
    BY <1>1 DEF MembersFrom
  <1>3. ASSUME Covers(l, r, S), Covers(l, p, S) PROVE Covers(l, q, S)
    <2>1. \A i \in S : IsMemberEvent(l[i]) => l[i].user \in Users
      BY LogFacts
    <2> QED BY <1>1, <1>3, <2>1 DEF Covers
  <1> QED BY <1>2, <1>3 DEF q

-----------------------------------------------------------------------------
(* The inductive invariant *)

\* Offsets the checkpoint vouches for.
Checkpointed == {i \in DOMAIN log : i <= ckpt}

\* Rewriting the table: the rows already put are those of the projection.
RowsWritten ==
  /\ \A u \in Users :
       proj.members[u].status # "none" /\ <<"member", u>> \notin rowsLeft
         => rows.members[u] = proj.members[u]
  /\ proj.tomb # NoTuple /\ <<"tombstone">> \notin rowsLeft => rows.tomb = proj.tomb
  /\ \A k \in proj.dels : <<"deletion", k>> \notin rowsLeft => k \in rows.dels

RowsCover ==
  /\ MembersFrom(log, rows, Known)
  /\ ckpt # NoCheckpoint => ckpt <= Len(log)
  /\ ckpt # NoCheckpoint /\ pc \notin {"clear", "checkpoint"}
       => Covers(log, rows, Checkpointed)
  /\ pc = "checkpoint" => RowsWritten

ProjectionCovers ==
  /\ MembersFrom(log, proj, Known)
  /\ pc \notin {"down", "replay"} => Covers(log, proj, Known)
  /\ pc = "replay" => Covers(log, proj, DOMAIN log \ todo)
  /\ \A i \in missed : ckpt < i
  /\ pc \in {"down", "replay", "clear", "checkpoint"} => missed = {}

AccessInv == TypeInv /\ RowsCover /\ ProjectionCovers

\* The invariant holds initially.
LEMMA InitAccessInv == Init => RowsCover /\ ProjectionCovers
  BY EmptyFrom DEF Init, RowsCover, ProjectionCovers, Known

\* Steps that leave the log, the rows and the projection alone.
LEMMA KeepAccess ==
  ASSUME RowsCover, ProjectionCovers,
         UNCHANGED <<log, rows, ckpt, proj, missed>>,
         pc \notin {"down", "replay", "clear", "checkpoint"},
         pc' \notin {"down", "replay", "clear", "checkpoint"}
  PROVE  RowsCover' /\ ProjectionCovers'
  BY DEF RowsCover, ProjectionCovers, Checkpointed, Known

\* What the proofs below use of the invariant.
LEMMA AccessTypes ==
  ASSUME TypeInv
  PROVE  /\ log \in Seq(Events) /\ rows \in Projections /\ proj \in Projections
         /\ ckpt \in Nat \cup {NoCheckpoint} /\ Len(log) \in Nat
         /\ todo \subseteq DOMAIN log /\ rowsLeft \subseteq RowKeys(proj)
         /\ DOMAIN log = 1..Len(log)
         /\ Known \in SUBSET DOMAIN log /\ missed \subseteq DOMAIN log
  BY DEF TypeInv, TypeOK, Known

LEMMA AccessFacts ==
  ASSUME AccessInv
  PROVE  /\ RowsCover /\ ProjectionCovers /\ TypeInv
         /\ MembersFrom(log, rows, Known) /\ MembersFrom(log, rows, DOMAIN log)
         /\ MembersFrom(log, proj, Known) /\ MembersFrom(log, proj, DOMAIN log)
         /\ Checkpointed \in SUBSET Known
         /\ pc \in {"down", "replay", "clear", "checkpoint"} => Known = DOMAIN log
  <1>1. RowsCover /\ ProjectionCovers /\ TypeInv
    BY DEF AccessInv
  <1>2. MembersFrom(log, rows, Known) /\ MembersFrom(log, proj, Known)
    BY <1>1 DEF RowsCover, ProjectionCovers
  <1>3. Known \subseteq DOMAIN log
    BY DEF Known
  <1>4. MembersFrom(log, rows, DOMAIN log) /\ MembersFrom(log, proj, DOMAIN log)
    BY <1>2, <1>3, MembersMore
  <1>5. Checkpointed \in SUBSET Known
    <2>1. ckpt \in Int /\ DOMAIN log \subseteq Int /\ \A i \in missed : ckpt < i
      BY <1>1, AccessTypes DEF ProjectionCovers, NoCheckpoint
    <2> QED BY <2>1 DEF Checkpointed, Known
  <1>6. pc \in {"down", "replay", "clear", "checkpoint"} => Known = DOMAIN log
    BY <1>1 DEF ProjectionCovers, Known
  <1> QED BY <1>1, <1>2, <1>4, <1>5, <1>6

\* The process ends, with rows and a checkpoint that vouches for no more than they
\* account for.
LEMMA EndAccess ==
  ASSUME GoDown, UNCHANGED log, MembersFrom(log, rows', DOMAIN log),
         ckpt' # NoCheckpoint => ckpt' <= Len(log) /\ Covers(log, rows', Checkpointed')
  PROVE  RowsCover' /\ ProjectionCovers'
  <1>1. pc' = "down" /\ proj' = EmptyProjection /\ missed' = {} /\ Known' = DOMAIN log
    BY DEF GoDown, Known
  <1>2. RowsCover'
    BY <1>1 DEF RowsCover
  <1>3. ProjectionCovers'
    BY <1>1, EmptyFrom DEF ProjectionCovers
  <1> QED BY <1>2, <1>3

\* Nothing was written of the rows and the checkpoint.
LEMMA EndUnwritten ==
  ASSUME AccessInv, GoDown, UNCHANGED <<log, rows, ckpt>>,
         pc \in {"clear", "checkpoint"} => ckpt = NoCheckpoint
  PROVE  RowsCover' /\ ProjectionCovers'
  <1>1. RowsCover /\ MembersFrom(log, rows, DOMAIN log)
    BY AccessFacts
  <1>2. ckpt # NoCheckpoint => ckpt <= Len(log) /\ Covers(log, rows, Checkpointed)
    BY <1>1 DEF RowsCover
  <1>3. Checkpointed' = Checkpointed
    BY DEF Checkpointed
  <1> QED BY <1>1, <1>2, <1>3, EndAccess

-----------------------------------------------------------------------------
(* Every step preserves it *)

\* An event more in the log: the rows account for what they did.
LEMMA AppendRows ==
  ASSUME AccessInv, NEW e \in Events, log' = Append(log, e), UNCHANGED <<rows, ckpt>>,
         pc \notin {"down", "replay", "clear", "checkpoint"},
         pc' \notin {"down", "replay", "clear", "checkpoint"},
         Known \subseteq Known'
  PROVE  RowsCover'
  <1>1. /\ log \in Seq(Events) /\ Len(log) \in Nat /\ ckpt \in Nat \cup {NoCheckpoint}
        /\ Known \in SUBSET DOMAIN log /\ RowsCover
    BY AccessFacts, AccessTypes
  <1>4. Len(log') = Len(log) + 1
    BY <1>1
  <1>5. ASSUME ckpt # NoCheckpoint
        PROVE  Checkpointed' = Checkpointed /\ Covers(log', rows, Checkpointed)
    <2>1. ckpt <= Len(log) /\ ckpt \in Nat /\ Covers(log, rows, Checkpointed)
      BY <1>1, <1>5 DEF RowsCover
    <2>2. DOMAIN log = 1..Len(log) /\ DOMAIN log' = 1..(Len(log) + 1)
      BY <1>1, AppendType
    <2>3. Checkpointed' = Checkpointed
      BY <1>1, <2>1, <2>2 DEF Checkpointed
    <2>4. Checkpointed \in SUBSET DOMAIN log
      BY DEF Checkpointed
    <2>5. Covers(log', rows, Checkpointed)
      BY <1>1, <2>1, <2>4, AppendCovers
    <2> QED BY <2>3, <2>5
  <1>6. MembersFrom(log', rows, Known)
    BY <1>1, AccessFacts, AppendCovers
  <1>7. MembersFrom(log', rows, Known')
    BY <1>6, MembersMore
  <1> QED BY <1>1, <1>4, <1>5, <1>7 DEF RowsCover

\* A client's event, or a generated one, is stored and applied.
LEMMA StoreAccess ==
  ASSUME AccessInv, NEW e \in Events,
         pc \notin {"down", "replay", "clear", "checkpoint"},
         pc' \notin {"down", "replay", "clear", "checkpoint"},
         log' = Append(log, e), proj' = Apply(proj, e, Len(log) + 1),
         UNCHANGED <<rows, ckpt, missed>>
  PROVE  RowsCover' /\ ProjectionCovers'
  <1>1. /\ log \in Seq(Events) /\ proj \in Projections /\ Len(log) \in Nat
        /\ Known \in SUBSET DOMAIN log /\ missed \subseteq DOMAIN log
        /\ ProjectionCovers /\ MembersFrom(log, proj, Known)
    BY AccessFacts, AccessTypes
  <1>2. Known' = Known \cup {Len(log) + 1}
    <2>1. DOMAIN log' = DOMAIN log \cup {Len(log) + 1} /\ Len(log) + 1 \notin DOMAIN log
      <3>1. DOMAIN log = 1..Len(log) /\ DOMAIN log' = 1..(Len(log) + 1)
        BY <1>1, AppendType
      <3> QED BY <1>1, <3>1
    <2> QED BY <1>1, <2>1 DEF Known
  <1>3. Covers(log, proj, Known)
    BY <1>1 DEF ProjectionCovers
  <1>4. MembersFrom(log', proj', Known') /\ Covers(log', proj', Known')
    BY <1>1, <1>2, <1>3, StoreCovers
  <1>5. ProjectionCovers'
    BY <1>1, <1>4 DEF ProjectionCovers
  <1>6. RowsCover'
    BY <1>2, AppendRows
  <1> QED BY <1>5, <1>6

\* It is stored, the sync fails, and it is not applied.
LEMMA MissAccess ==
  ASSUME AccessInv, NEW e \in Events,
         pc \notin {"down", "replay", "clear", "checkpoint"},
         pc' \notin {"down", "replay", "clear", "checkpoint"},
         log' = Append(log, e), missed' = missed \cup {Len(log) + 1},
         UNCHANGED <<rows, ckpt, proj>>
  PROVE  RowsCover' /\ ProjectionCovers'
  <1>1. /\ log \in Seq(Events) /\ Len(log) \in Nat /\ ckpt \in Nat \cup {NoCheckpoint}
        /\ Known \in SUBSET DOMAIN log /\ missed \subseteq DOMAIN log
        /\ ProjectionCovers /\ MembersFrom(log, proj, Known) /\ RowsCover
    BY AccessFacts, AccessTypes
  <1>2. Known' = Known
    <2>1. DOMAIN log' = DOMAIN log \cup {Len(log) + 1} /\ Len(log) + 1 \notin DOMAIN log
      <3>1. DOMAIN log = 1..Len(log) /\ DOMAIN log' = 1..(Len(log) + 1)
        BY <1>1, AppendType
      <3> QED BY <1>1, <3>1
    <2> QED BY <1>1, <2>1 DEF Known
  <1>3. Covers(log, proj, Known)
    BY <1>1 DEF ProjectionCovers
  <1>4. MembersFrom(log', proj, Known) /\ Covers(log', proj, Known)
    BY <1>1, <1>3, AppendCovers
  <1>5. \A i \in missed' : ckpt < i
    <2>1. ckpt < Len(log) + 1
      BY <1>1 DEF RowsCover, NoCheckpoint
    <2> QED BY <1>1, <2>1 DEF ProjectionCovers
  <1>6. ProjectionCovers'
    BY <1>2, <1>4, <1>5 DEF ProjectionCovers
  <1>7. RowsCover'
    BY <1>2, AppendRows
  <1> QED BY <1>6, <1>7

\* An event of a client is stored and projected at once, or its sync fails, or it is
\* there already.
LEMMA SubmitAccess ==
  ASSUME AccessInv, NEW e \in ClientEvents, pc = "idle",
         Submit(e) \/ SubmitFails(e) \/ Duplicate(e)
  PROVE  RowsCover' /\ ProjectionCovers'
  <1>0. e \in Events
    BY DEF ClientEvents
  <1>1. CASE Submit(e)
    BY <1>0, <1>1, StoreAccess DEF Submit, history
  <1>2. CASE SubmitFails(e)
    BY <1>0, <1>2, MissAccess DEF SubmitFails
  <1>3. CASE Duplicate(e)
    BY <1>3, KeepAccess DEF Duplicate, store, AccessInv
  <1> QED BY <1>1, <1>2, <1>3

\* A row put is a row of the projection.
LEMMA OneRowAccess ==
  ASSUME AccessInv, NEW k \in rowsLeft, rows' = WithRow(rows, proj, k),
         pc \in {"records", "mark", "checkpoint"}
  PROVE  /\ MembersFrom(log, rows', Known) /\ MembersFrom(log, rows', DOMAIN log)
         /\ Covers(log, rows, Checkpointed) => Covers(log, rows', Checkpointed)
  <1>1. /\ log \in Seq(Events) /\ rows \in Projections /\ proj \in Projections
        /\ k \in RowKeys(proj) /\ Known \in SUBSET DOMAIN log /\ ProjectionCovers
        /\ MembersFrom(log, rows, Known) /\ MembersFrom(log, proj, Known)
        /\ Checkpointed \in SUBSET Known
    BY AccessTypes, AccessFacts
  <1>2. Covers(log, proj, Checkpointed) /\ Checkpointed \in SUBSET DOMAIN log
    BY <1>1 DEF Covers, ProjectionCovers
  <1>3. /\ MembersFrom(log, rows', Known)
        /\ Covers(log, rows, Checkpointed) => Covers(log, rows', Checkpointed)
    BY <1>1, <1>2, RowCovers
  <1>4. MembersFrom(log, rows', DOMAIN log)
    BY <1>1, <1>3, MembersMore
  <1> QED BY <1>3, <1>4

LEMMA PutRowAccess ==
  ASSUME AccessInv, PutRow
  PROVE  RowsCover' /\ ProjectionCovers'
  <1>0. RowsCover /\ ProjectionCovers /\ TypeInv
    BY DEF AccessInv
  <1>1. /\ log \in Seq(Events) /\ rows \in Projections /\ proj \in Projections
        /\ rowsLeft \subseteq RowKeys(proj)
    BY <1>0, AccessTypes
  <1> PICK k \in rowsLeft : rows' = WithRow(rows, proj, k) /\ rowsLeft' = rowsLeft \ {k}
    BY DEF PutRow
  <1>2. k \in RowKeys(proj) /\ UNCHANGED <<log, ckpt, proj, pc, todo, missed>>
        /\ pc \in {"records", "mark", "checkpoint"}
    BY <1>1 DEF PutRow, history
  <1>3. ProjectionCovers'
    BY <1>0, <1>2 DEF ProjectionCovers, Known
  <1>6. /\ MembersFrom(log, rows', Known)
        /\ Covers(log, rows, Checkpointed) => Covers(log, rows', Checkpointed)
    BY <1>2, OneRowAccess
  <1>7. pc = "checkpoint" => RowsWritten'
    <2>0. SUFFICES ASSUME pc = "checkpoint" PROVE RowsWritten'
      OBVIOUS
    <2>1. RowsWritten
      BY <1>0, <2>0 DEF RowsCover
    <2> DEFINE q == WithRow(rows, proj, k)
    <2>8. /\ q \in Projections
          /\ \A u \in Users : q.members[u] =
               IF k[1] = "member" /\ k[2] = u THEN proj.members[u] ELSE rows.members[u]
          /\ q.tomb = IF k[1] = "tombstone" THEN proj.tomb ELSE rows.tomb
          /\ q.dels = IF k[1] = "deletion" THEN rows.dels \cup {k[2]} ELSE rows.dels
      <3> HIDE DEF q
      <3> QED BY <1>1, <1>2, WithRowFacts DEF q
    <2> HIDE DEF q
    <2>9. rows' = q
      BY DEF q
    <2>2. \A u \in Users : rows'.members[u] =
            IF k[1] = "member" /\ k[2] = u THEN proj.members[u] ELSE rows.members[u]
      BY <2>8, <2>9
    <2>3. rows'.tomb = IF k[1] = "tombstone" THEN proj.tomb ELSE rows.tomb
      BY <2>8, <2>9
    <2>4. rows'.dels = IF k[1] = "deletion" THEN rows.dels \cup {k[2]} ELSE rows.dels
      BY <2>8, <2>9
    <2>5. \A u \in Users :
            proj.members[u].status # "none" /\ <<"member", u>> \notin rowsLeft \ {k}
              => rows'.members[u] = proj.members[u]
      <3> SUFFICES ASSUME NEW u \in Users, proj.members[u].status # "none",
                          <<"member", u>> \notin rowsLeft \/ <<"member", u>> = k
                   PROVE  rows'.members[u] = proj.members[u]
        OBVIOUS
      <3>1. CASE <<"member", u>> \notin rowsLeft
        BY <2>1, <2>2, <3>1 DEF RowsWritten
      <3>2. CASE <<"member", u>> = k
        <4>1. k[1] = "member" /\ k[2] = u
          BY <3>2
        <4> QED BY <2>2, <4>1
      <3> QED BY <3>1, <3>2
    <2>6. proj.tomb # NoTuple /\ <<"tombstone">> \notin rowsLeft \ {k}
            => rows'.tomb = proj.tomb
      <3> SUFFICES ASSUME proj.tomb # NoTuple,
                          <<"tombstone">> \notin rowsLeft \/ <<"tombstone">> = k
                   PROVE  rows'.tomb = proj.tomb
        OBVIOUS
      <3>1. CASE <<"tombstone">> \notin rowsLeft
        BY <2>1, <2>3, <3>1 DEF RowsWritten
      <3>2. CASE <<"tombstone">> = k
        <4>1. k[1] = "tombstone"
          BY <3>2
        <4> QED BY <2>3, <4>1
      <3> QED BY <3>1, <3>2
    <2>7. \A d \in proj.dels : <<"deletion", d>> \notin rowsLeft \ {k} => d \in rows'.dels
      <3> SUFFICES ASSUME NEW d \in proj.dels,
                          <<"deletion", d>> \notin rowsLeft \/ <<"deletion", d>> = k
                   PROVE  d \in rows'.dels
        OBVIOUS
      <3>1. CASE <<"deletion", d>> \notin rowsLeft
        BY <2>1, <2>4, <3>1 DEF RowsWritten
      <3>2. CASE <<"deletion", d>> = k
        <4>1. k[1] = "deletion" /\ k[2] = d
          BY <3>2
        <4> QED BY <2>4, <4>1
      <3> QED BY <3>1, <3>2
    <2> QED BY <1>2, <2>5, <2>6, <2>7 DEF RowsWritten
  <1>8. RowsCover'
    BY <1>0, <1>2, <1>6, <1>7 DEF RowsCover, Checkpointed, Known
  <1> QED BY <1>3, <1>8

\* An operation or the opening ends with an error.
LEMMA ErrorAccess ==
  ASSUME AccessInv, NEW o, ReturnError(o), UNCHANGED <<log, ckpt>>,
         MembersFrom(log, rows', Known), MembersFrom(log, rows', DOMAIN log),
         Covers(log, rows, Checkpointed) => Covers(log, rows', Checkpointed),
         pc \notin {"down", "replay"},
         pc \in {"clear", "checkpoint"} => ckpt = NoCheckpoint
  PROVE  RowsCover' /\ ProjectionCovers'
  <1>0. RowsCover /\ ProjectionCovers
    BY DEF AccessInv
  <1>3. Checkpointed' = Checkpointed
    BY DEF Checkpointed
  <1>4. ckpt # NoCheckpoint => ckpt <= Len(log) /\ Covers(log, rows', Checkpointed)
    BY <1>0 DEF RowsCover
  <1>1. CASE opening
    BY <1>1, <1>3, <1>4, EndAccess DEF ReturnError
  <1>2. CASE ~opening
    <2>1. pc' = "idle" /\ UNCHANGED <<proj, missed>> /\ Known' = Known
      BY <1>2 DEF ReturnError, Known
    <2>2. RowsCover'
      BY <1>3, <1>4, <2>1 DEF RowsCover
    <2>3. ProjectionCovers'
      BY <1>0, <2>1 DEF ProjectionCovers
    <2> QED BY <2>2, <2>3
  <1> QED BY <1>1, <1>2

LEMMA ErrorUnwritten ==
  ASSUME AccessInv, NEW o, ReturnError(o), UNCHANGED <<log, rows, ckpt>>,
         pc \notin {"down", "replay", "clear", "checkpoint"}
  PROVE  RowsCover' /\ ProjectionCovers'
  BY AccessFacts, ErrorAccess

\* The steps of an operation.
LEMMA ServeAccess ==
  ASSUME AccessInv, Serve
  PROVE  RowsCover' /\ ProjectionCovers'
  <1>0. RowsCover /\ ProjectionCovers /\ TypeInv
    BY DEF AccessInv
  <1>1. CASE PutRow
    BY <1>1, PutRowAccess
  <1>2. CASE MergeRecord
    BY <1>0, <1>2, KeepAccess DEF MergeRecord, history
  <1>3. CASE MergeRecordClashes
    <2>1. CASE opening
      BY <1>0, <1>3, <2>1, KeepAccess DEF MergeRecordClashes, store
    <2>2. CASE ~opening
      BY <1>3, <2>2, ErrorUnwritten DEF MergeRecordClashes, store
    <2> QED BY <2>1, <2>2
  <1>4. CASE RecordsMerged
    <2>1. pc' \in {"derive", "materialize"} /\ pc = "records"
      BY <1>4 DEF RecordsMerged
    <2> QED BY <1>0, <1>4, <2>1, KeepAccess DEF RecordsMerged, store, history
  <1>5. CASE StoreGenerated
    <2> PICK k \in DOMAIN outbox :
          IF AlreadyStored(outbox[k].payload)
          THEN UNCHANGED <<log, proj, rowsLeft>>
          ELSE /\ log' = Append(log, outbox[k].payload)
               /\ proj' = Apply(proj, outbox[k].payload, Len(log) + 1)
               /\ rowsLeft' = RowKeys(proj')
      BY <1>5 DEF StoreGenerated
    <2>1. outbox[k].payload \in Events
      BY <1>0 DEF TypeInv, TypeOK, Records, Payloads
    <2>2. pc = "materialize" /\ pc' = "mark" /\ UNCHANGED <<rows, ckpt, missed>>
      BY <1>5 DEF StoreGenerated, history
    <2>3. CASE AlreadyStored(outbox[k].payload)
      BY <1>0, <2>2, <2>3, KeepAccess
    <2>4. CASE ~AlreadyStored(outbox[k].payload)
      BY <2>1, <2>2, <2>4, StoreAccess
    <2> QED BY <2>3, <2>4
  <1>6. CASE MarkStored
    BY <1>0, <1>6, KeepAccess DEF MarkStored, history
  <1>7. CASE MarkFailed
    BY <1>7, ErrorUnwritten DEF MarkFailed
  <1>8. CASE Finish
    BY <1>0, <1>8, KeepAccess DEF Finish, store
  <1> QED BY <1>1, <1>2, <1>3, <1>4, <1>5, <1>6, <1>7, <1>8 DEF Serve

\* The table is emptied: what is left of it still comes from the log.
LEMMA ClearRowAccess ==
  ASSUME AccessInv, ClearRow
  PROVE  RowsCover' /\ ProjectionCovers'
  <1>0. /\ RowsCover /\ ProjectionCovers /\ rows \in Projections
        /\ MembersFrom(log, rows, Known)
    BY AccessTypes, AccessFacts DEF AccessInv
  <1>1. /\ pc = "clear" /\ UNCHANGED <<log, ckpt, proj, pc, missed>>
        /\ \A u \in Users : rows'.members[u] \in {NoMember, rows.members[u]}
    BY <1>0, WithoutRowFacts DEF ClearRow, history
  <1>2. MembersFrom(log, rows', Known)
    BY <1>0, <1>1 DEF MembersFrom
  <1> QED BY <1>0, <1>1, <1>2 DEF RowsCover, ProjectionCovers, Known

\* The table is full again: its rows account for the whole log.
LEMMA AllRowsPut ==
  ASSUME AccessInv, pc = "checkpoint", rowsLeft = {}
  PROVE  Covers(log, rows, DOMAIN log)
  <1>0. /\ RowsCover /\ ProjectionCovers /\ TypeInv
        /\ log \in Seq(Events) /\ Len(log) \in Nat /\ proj \in Projections
        /\ Known = DOMAIN log /\ MembersFrom(log, proj, DOMAIN log)
    BY AccessTypes, AccessFacts
  <1>1. rowsLeft = {}
    OBVIOUS
  <1>2. RowsWritten /\ Covers(log, proj, DOMAIN log) /\ MembersFrom(log, proj, DOMAIN log)
    BY <1>0 DEF RowsCover, ProjectionCovers
  <1>3. \A i \in DOMAIN log :
          /\ TupleOf(log[i], i) \in Tuples
          /\ ~TupleLE(TupleOf(log[i], i), NoTuple)
          /\ IsMemberEvent(log[i]) => log[i].user \in Users
    BY <1>0, LogFacts, TupleOfEvent
  <1>4. Covers(log, rows, DOMAIN log)
    <2> SUFFICES ASSUME NEW i \in DOMAIN log
                 PROVE  /\ IsMemberEvent(log[i]) =>
                             TupleLE(TupleOf(log[i], i), rows.members[log[i].user].last)
                        /\ log[i].kind = "delete_group" =>
                             TupleLE(TupleOf(log[i], i), rows.tomb)
                        /\ log[i].kind = "delete_event" => log[i].ref \in rows.dels
      BY DEF Covers
    <2>1. ASSUME IsMemberEvent(log[i])
          PROVE  TupleLE(TupleOf(log[i], i), rows.members[log[i].user].last)
      <3> DEFINE u == log[i].user
      <3>1. u \in Users /\ TupleLE(TupleOf(log[i], i), proj.members[u].last)
        BY <1>2, <1>3, <2>1 DEF Covers
      <3>2. proj.members[u] # NoMember
        BY <1>3, <3>1 DEF NoMember
      <3>3. proj.members[u].status # "none"
        <4> PICK j \in DOMAIN log : proj.members[u] = MemberOf(log[j], TupleOf(log[j], j))
          BY <1>2, <3>1, <3>2 DEF MembersFrom
        <4> QED BY DEF MemberOf
      <3>4. rows.members[u] = proj.members[u]
        BY <1>1, <1>2, <3>1, <3>3 DEF RowsWritten
      <3> QED BY <3>1, <3>4
    <2>2. ASSUME log[i].kind = "delete_group"
          PROVE  TupleLE(TupleOf(log[i], i), rows.tomb)
      <3>1. TupleLE(TupleOf(log[i], i), proj.tomb)
        BY <1>2, <2>2 DEF Covers
      <3>2. proj.tomb # NoTuple
        BY <1>3, <3>1
      <3> QED BY <1>1, <1>2, <3>1, <3>2 DEF RowsWritten
    <2>3. ASSUME log[i].kind = "delete_event" PROVE log[i].ref \in rows.dels
      BY <1>1, <1>2, <2>3 DEF Covers, RowsWritten
    <2> QED BY <2>1, <2>2, <2>3
  <1> QED BY <1>4

LEMMA PutCheckpointAccess ==
  ASSUME AccessInv, PutCheckpoint
  PROVE  RowsCover' /\ ProjectionCovers'
  <1>0. /\ RowsCover /\ ProjectionCovers /\ DOMAIN log = 1..Len(log) /\ Len(log) \in Nat
    BY AccessTypes, AccessFacts
  <1>1. /\ pc = "checkpoint" /\ rowsLeft = {} /\ ckpt' = Len(log) /\ pc' = "derive"
        /\ UNCHANGED <<log, rows, proj, missed>>
    BY DEF PutCheckpoint, StartDeriving, history
  <1>2. Covers(log, rows, DOMAIN log)
    BY <1>1, AllRowsPut
  <1>3. missed = {} /\ Covers(log, proj, Known)
    BY <1>0, <1>1 DEF ProjectionCovers
  <1>5. Checkpointed' = DOMAIN log
    BY <1>0, <1>1 DEF Checkpointed
  <1>6. RowsCover'
    BY <1>0, <1>1, <1>2, <1>5 DEF RowsCover, Known
  <1>7. ProjectionCovers'
    BY <1>0, <1>1, <1>3 DEF ProjectionCovers, Known
  <1> QED BY <1>6, <1>7

\* Opening: a projection is loaded that accounts for what need not be replayed.
LEMMA OpenAccess ==
  ASSUME AccessInv, Open
  PROVE  RowsCover' /\ ProjectionCovers'
  <1>0. /\ RowsCover /\ ProjectionCovers
        /\ ckpt \in Nat \cup {NoCheckpoint} /\ DOMAIN log = 1..Len(log) /\ Len(log) \in Nat
        /\ MembersFrom(log, rows, DOMAIN log)
    BY AccessTypes, AccessFacts DEF AccessInv
  <1>1. /\ pc = "down" /\ pc' \in {"derive", "replay"} /\ UNCHANGED <<log, rows, ckpt, missed>>
        /\ missed = {} /\ Known' = DOMAIN log
    BY <1>0 DEF Open, RequiresRebuild, StartDeriving, store, history, ProjectionCovers, Known
  <1>2. RowsCover'
    BY <1>0, <1>1 DEF RowsCover, Checkpointed
  <1>3. CASE ckpt = NoCheckpoint
    <2>1. pc' = "replay" /\ proj' = EmptyProjection /\ DOMAIN log' \ todo' = {}
      BY <1>1, <1>3 DEF Open, RequiresRebuild
    <2>2. MembersFrom(log', proj', Known') /\ Covers(log', proj', {})
      BY <2>1, EmptyFrom
    <2> QED BY <1>1, <1>2, <2>1, <2>2 DEF ProjectionCovers
  <1>4. CASE ckpt # NoCheckpoint
    <2>1. proj' = rows /\ Covers(log, rows, Checkpointed)
      BY <1>0, <1>1, <1>4 DEF Open, RequiresRebuild, RowsCover
    <2>2. CASE Len(log) <= ckpt
      <3>1. pc' = "derive"
        BY <1>4, <2>2 DEF Open, RequiresRebuild, StartDeriving
      <3>2. Checkpointed = DOMAIN log
        BY <1>0, <1>4, <2>2 DEF Checkpointed, NoCheckpoint
      <3> QED BY <1>0, <1>1, <1>2, <2>1, <3>1, <3>2 DEF ProjectionCovers
    <2>3. CASE ~(Len(log) <= ckpt)
      <3>1. pc' = "replay" /\ todo' = {i \in DOMAIN log : i > ckpt}
        BY <1>4, <2>3 DEF Open, RequiresRebuild
      <3>2. DOMAIN log \ todo' = Checkpointed
        BY <1>0, <1>4, <3>1 DEF Checkpointed, NoCheckpoint
      <3> QED BY <1>0, <1>1, <1>2, <2>1, <3>1, <3>2 DEF ProjectionCovers
    <2> QED BY <2>2, <2>3
  <1> QED BY <1>3, <1>4

\* Replaying: one event more is accounted for.
LEMMA ReplayAccess ==
  ASSUME AccessInv, ReplayEvent
  PROVE  RowsCover' /\ ProjectionCovers'
  <1>0. /\ RowsCover /\ ProjectionCovers
        /\ log \in Seq(Events) /\ proj \in Projections /\ todo \subseteq DOMAIN log
        /\ MembersFrom(log, proj, DOMAIN log)
    BY AccessTypes, AccessFacts
  <1>1. /\ pc = "replay" /\ UNCHANGED <<log, rows, ckpt, pc, missed>>
        /\ missed = {} /\ Known = DOMAIN log /\ Known' = DOMAIN log
    BY <1>0 DEF ReplayEvent, store, history, ProjectionCovers, Known
  <1> PICK i \in todo : proj' = Apply(proj, log[i], i) /\ todo' = todo \ {i}
    BY DEF ReplayEvent
  <1> DEFINE S == DOMAIN log \ todo
  <1>2. i \in DOMAIN log /\ S \in SUBSET DOMAIN log /\ S \cup {i} = DOMAIN log \ todo'
    BY <1>0
  <1>3. Covers(log, proj, S)
    BY <1>0, <1>1 DEF ProjectionCovers
  <1> HIDE DEF S
  <1>4. MembersFrom(log, proj', DOMAIN log) /\ Covers(log, proj', S \cup {i})
    BY <1>0, <1>2, <1>3, ApplyCovers
  <1>5. RowsCover'
    BY <1>0, <1>1 DEF RowsCover, Checkpointed
  <1> QED BY <1>1, <1>2, <1>4, <1>5 DEF ProjectionCovers

\* The steps of an opening.
LEMMA RecoverAccess ==
  ASSUME AccessInv, Recover
  PROVE  RowsCover' /\ ProjectionCovers'
  <1>0. RowsCover /\ ProjectionCovers /\ rowsLeft \subseteq RowKeys(proj)
    BY AccessTypes DEF AccessInv
  <1>1. CASE StartClearing
    <2>1. /\ pc = "replay" /\ todo = {} /\ pc' = "clear"
          /\ UNCHANGED <<log, rows, ckpt, proj, missed>>
      BY <1>1 DEF StartClearing, store, history
    <2>2. missed = {} /\ Covers(log, proj, DOMAIN log)
      BY <1>0, <2>1 DEF ProjectionCovers
    <2> QED BY <1>0, <2>1, <2>2 DEF RowsCover, ProjectionCovers, Checkpointed, Known
  <1>2. CASE TableCleared
    <2>1. /\ pc = "clear" /\ pc' = "checkpoint" /\ rowsLeft' = RowKeys(proj)
          /\ UNCHANGED <<log, rows, ckpt, proj, missed>>
      BY <1>2 DEF TableCleared, store, history
    <2>2. /\ \A u \in Users : proj.members[u].status # "none"
                              => <<"member", u>> \in RowKeys(proj)
          /\ proj.tomb # NoTuple => <<"tombstone">> \in RowKeys(proj)
          /\ \A k \in proj.dels : <<"deletion", k>> \in RowKeys(proj)
      BY DEF RowKeys
    <2>3. RowsWritten'
      <3> HIDE DEF RowKeys
      <3> QED BY <2>1, <2>2 DEF RowsWritten
    <2> QED BY <1>0, <2>1, <2>3 DEF RowsCover, ProjectionCovers, Checkpointed, Known
  <1>3. CASE DeriveEvent
    <2>1. /\ pc = "derive" /\ pc' \in {"derive", "broken", "records"}
          /\ UNCHANGED <<log, rows, ckpt, proj, missed>>
      BY <1>3 DEF DeriveEvent, store, history
    <2> QED BY <1>0, <2>1, KeepAccess
  <1>4. CASE RecordsDerived
    BY <1>0, <1>4, KeepAccess DEF RecordsDerived, store, history
  <1> QED BY <1>1, <1>2, <1>3, <1>4, OpenAccess, ReplayAccess, ClearRowAccess,
             PutCheckpointAccess DEF Recover

\* Without interruptions of a rewrite under an older checkpoint, writes fail and
\* the process ends at such a moment only if no checkpoint vouches for the rows.
LEMMA InterruptedAccess ==
  ASSUME ~SnapshotInterrupted, MayBeInterrupted
  PROVE  pc \in {"clear", "checkpoint"} => ckpt = NoCheckpoint
  BY DEF MayBeInterrupted, RewritingUnderCheckpoint

\* A row or the checkpoint could not be written while the table was rewritten, or was
\* written and could not be synced.
LEMMA RewriteFailsAccess ==
  ASSUME AccessInv, RewriteFails, pc \in {"clear", "checkpoint"} => ckpt = NoCheckpoint
  PROVE  RowsCover' /\ ProjectionCovers'
  <1>0. /\ rows \in Projections /\ MembersFrom(log, rows, DOMAIN log)
        /\ DOMAIN log = 1..Len(log) /\ Len(log) \in Nat
    BY AccessTypes, AccessFacts
  <1>1. GoDown /\ UNCHANGED log /\ pc \in {"clear", "checkpoint"} /\ ckpt = NoCheckpoint
    BY DEF RewriteFails
  <1>2. CASE pc = "clear"
    <2>1. UNCHANGED ckpt /\ (UNCHANGED rows \/ \E k \in RowKeys(rows) : rows' = WithoutRow(rows, k))
      BY <1>2 DEF RewriteFails
    <2>2. MembersFrom(log, rows', DOMAIN log)
      <3>1. CASE UNCHANGED rows
        BY <1>0, <3>1
      <3>2. ASSUME NEW k \in RowKeys(rows), rows' = WithoutRow(rows, k)
            PROVE  MembersFrom(log, rows', DOMAIN log)
        <4>1. \A u \in Users : rows'.members[u] \in {NoMember, rows.members[u]}
          BY <1>0, <3>2, WithoutRowFacts
        <4> QED BY <1>0, <4>1 DEF MembersFrom
      <3> QED BY <2>1, <3>1, <3>2
    <2> QED BY <1>1, <2>1, <2>2, EndAccess
  <1>3. CASE pc = "checkpoint"
    <2>1. rowsLeft = {} /\ UNCHANGED rows /\ (UNCHANGED ckpt \/ ckpt' = Len(log))
      BY <1>3 DEF RewriteFails
    <2>2. Covers(log, rows, DOMAIN log)
      BY <1>3, <2>1, AllRowsPut
    <2>3. ckpt' = Len(log) => Checkpointed' = DOMAIN log
      BY <1>0, <1>1 DEF Checkpointed
    <2> QED BY <1>0, <1>1, <2>1, <2>2, <2>3, EndAccess
  <1> QED BY <1>1, <1>2, <1>3

\* Failed writes, with and without effect.
LEMMA FailAccess ==
  ASSUME AccessInv, ~SnapshotInterrupted, Fail
  PROVE  RowsCover' /\ ProjectionCovers'
  <1>0. RowsCover /\ ProjectionCovers /\ TypeInv
    BY DEF AccessInv
  <1>1. Fault => (pc \in {"clear", "checkpoint"} => ckpt = NoCheckpoint)
    BY InterruptedAccess DEF Fault
  <1>2. CASE PutRowFails
    <2>1. /\ pc \in {"records", "mark", "checkpoint"} /\ UNCHANGED <<log, ckpt>> /\ Fault
          /\ UNCHANGED rows \/ \E k \in rowsLeft : rows' = WithRow(rows, proj, k)
      BY <1>2 DEF PutRowFails
    <2>2. /\ MembersFrom(log, rows', Known) /\ MembersFrom(log, rows', DOMAIN log)
          /\ Covers(log, rows, Checkpointed) => Covers(log, rows', Checkpointed)
      <3>1. CASE UNCHANGED rows
        BY <3>1, AccessFacts
      <3>2. ASSUME NEW k \in rowsLeft, rows' = WithRow(rows, proj, k)
            PROVE  /\ MembersFrom(log, rows', Known) /\ MembersFrom(log, rows', DOMAIN log)
                   /\ Covers(log, rows, Checkpointed) => Covers(log, rows', Checkpointed)
        BY <2>1, <3>2, OneRowAccess
      <3> QED BY <2>1, <3>1, <3>2
    <2>3. CASE pc = "mark"
      <3>1. pc' = "mark_failed" /\ UNCHANGED <<proj, missed>>
        BY <1>2, <2>3 DEF PutRowFails
      <3>2. Known' = Known /\ Checkpointed' = Checkpointed
        BY <2>1, <3>1 DEF Known, Checkpointed
      <3>3. RowsCover'
        BY <1>0, <2>1, <2>2, <2>3, <3>1, <3>2 DEF RowsCover
      <3>4. ProjectionCovers'
        BY <1>0, <2>1, <2>3, <3>1, <3>2 DEF ProjectionCovers
      <3> QED BY <3>3, <3>4
    <2>4. CASE pc # "mark"
      <3>1. ReturnError(outbox)
        BY <1>2, <2>4 DEF PutRowFails
      <3> QED BY <1>1, <2>1, <2>2, <3>1, ErrorAccess
    <2> QED BY <2>3, <2>4
  <1>3. CASE MergeRecordFails
    BY <1>3, ErrorUnwritten DEF MergeRecordFails
  <1>4. CASE StoreGeneratedFails
    <2> PICK k \in DOMAIN outbox :
          \/ UNCHANGED <<log, missed>>
          \/ /\ log' = Append(log, outbox[k].payload)
             /\ missed' = missed \cup {Len(log) + 1}
      BY <1>4 DEF StoreGeneratedFails
    <2>1. /\ pc = "materialize" /\ pc' = "mark_failed" /\ UNCHANGED <<rows, ckpt, proj>>
      BY <1>4 DEF StoreGeneratedFails
    <2>2. outbox[k].payload \in Events
      BY <1>0 DEF TypeInv, TypeOK, Records, Payloads
    <2>3. CASE UNCHANGED <<log, missed>>
      BY <1>0, <2>1, <2>3, KeepAccess
    <2>4. CASE log' = Append(log, outbox[k].payload) /\ missed' = missed \cup {Len(log) + 1}
      BY <2>1, <2>2, <2>4, MissAccess
    <2> QED BY <2>3, <2>4
  <1>5. CASE MarkStoredFails
    BY <1>5, ErrorUnwritten DEF MarkStoredFails
  <1>6. CASE RewriteFails
    BY <1>1, <1>6, RewriteFailsAccess DEF RewriteFails
  <1> QED BY <1>2, <1>3, <1>4, <1>5, <1>6 DEF Fail

\* The end of the process, a clean stop and an upgrade.
LEMMA EnvironmentAccess ==
  ASSUME AccessInv, ~SnapshotInterrupted, Crash \/ Shutdown \/ Upgrade
  PROVE  RowsCover' /\ ProjectionCovers'
  <1>0. RowsCover /\ ProjectionCovers
    BY DEF AccessInv
  <1>1. CASE Crash
    BY <1>0, <1>1, InterruptedAccess, EndUnwritten DEF Crash, store
  <1>2. CASE Shutdown
    BY <1>0, <1>2, EndUnwritten DEF Shutdown, store
  <1>3. CASE Upgrade
    <2>1. /\ pc = "down" /\ ckpt' = NoCheckpoint
          /\ UNCHANGED <<log, rows, proj, pc, missed>>
      BY <1>3 DEF Upgrade, history
    <2> QED BY <1>0, <2>1 DEF RowsCover, ProjectionCovers, Known
  <1> QED BY <1>1, <1>2, <1>3

\* A step that changes nothing.
LEMMA StutterAccess ==
  ASSUME AccessInv, UNCHANGED vars
  PROVE  RowsCover' /\ ProjectionCovers'
  BY DEF AccessInv, vars, store, control, history, RowsCover, ProjectionCovers, RowsWritten,
         Checkpointed, Known

\* The invariant is inductive.
LEMMA NextAccessInv ==
  ASSUME AccessInv, ~SnapshotInterrupted, [Next]_vars
  PROVE  AccessInv'
  <1>1. TypeInv'
    BY NextTypeInv DEF AccessInv
  <1>2. RowsCover' /\ ProjectionCovers'
    <2>1. CASE Clients
      <3>1. pc = "idle" /\ TypeInv
        BY <2>1 DEF Clients, AccessInv
      <3> PICK e \in ClientEvents : Submit(e) \/ SubmitFails(e) \/ Duplicate(e)
        BY <2>1, <3>1, ClientsSubmit
      <3> QED BY <3>1, SubmitAccess
    <2> QED BY <2>1, ServeAccess, RecoverAccess, FailAccess, EnvironmentAccess,
               StutterAccess DEF Next
  <1> QED BY <1>1, <1>2 DEF AccessInv

-----------------------------------------------------------------------------
(* Theorems *)

\* The events of the log are above NoTuple.
LEMMA AboveNoTuple ==
  ASSUME TypeInv, NEW i \in DOMAIN log
  PROVE  ~TupleLE(TupleOf(log[i], i), NoTuple)
  BY AccessTypes, LogFacts, TupleOfEvent

\* It implies that members are the latest,
LEMMA MembersFromInv == AccessInv => MembersAreLatest
  <1> SUFFICES ASSUME AccessInv, Projected PROVE
        \A u \in Users :
          \/ MemberEvents(u) = {} /\ proj.members[u] = NoMember
          \/ \E i \in MemberEvents(u) :
               /\ proj.members[u] = MemberOf(log[i], TupleOf(log[i], i))
               /\ \A j \in MemberEvents(u) :
                    TupleLE(TupleOf(log[j], j), TupleOf(log[i], i))
    BY DEF MembersAreLatest
  <1>1. MembersFrom(log, proj, Known) /\ Covers(log, proj, Known) /\ TypeInv
    BY DEF AccessInv, ProjectionCovers, Projected
  <1> TAKE u \in Users
  <1>2. \A j \in MemberEvents(u) :
          /\ j \in DOMAIN log /\ IsMemberEvent(log[j]) /\ log[j].user = u
          /\ TupleLE(TupleOf(log[j], j), proj.members[u].last)
    BY <1>1 DEF MemberEvents, IsMemberEvent, Covers, Known
  <1>3. CASE proj.members[u] = NoMember
    <2>1. MemberEvents(u) = {}
      BY <1>1, <1>2, <1>3, AboveNoTuple DEF NoMember
    <2> QED BY <1>3, <2>1
  <1>4. CASE proj.members[u] # NoMember
    <2> PICK i \in Known :
          /\ IsMemberEvent(log[i]) /\ log[i].user = u
          /\ proj.members[u] = MemberOf(log[i], TupleOf(log[i], i))
      BY <1>1, <1>4 DEF MembersFrom
    <2>1. i \in MemberEvents(u)
      BY DEF MemberEvents, IsMemberEvent
    <2>2. proj.members[u].last = TupleOf(log[i], i)
      BY DEF MemberOf
    <2> QED BY <1>2, <2>1, <2>2
  <1> QED BY <1>3, <1>4

\* Once the service has its projection, each member is what the last put-user or
\* remove-user event it knows of in tuple order says, however events arrived and
\* whatever crashed or failed: put_member, the projection rows, the checkpoint and the
\* replay after it lose none, and what a failed sync kept from memory is back after
\* the next restart.
THEOREM MembersLatest ==
  ASSUME ~SnapshotInterrupted PROVE Spec => []MembersAreLatest
  <1>1. Init => AccessInv
    BY InitTypeInv, InitAccessInv DEF AccessInv
  <1>2. AccessInv /\ [Next]_vars => AccessInv'
    BY NextAccessInv
  <1> QED BY <1>1, <1>2, MembersFromInv, PTL DEF Spec

\* A deleted group has its tombstone as soon as the projection is there.
LEMMA DeletedHasTombstone ==
  ASSUME AccessInv, Projected, NEW i \in Known, log[i].kind = "delete_group"
  PROVE  HasTombstone(proj)
  <1>1. TypeInv /\ TupleLE(TupleOf(log[i], i), proj.tomb) /\ i \in DOMAIN log
    BY DEF AccessInv, ProjectionCovers, Projected, Covers, Known
  <1> QED BY <1>1, AboveNoTuple DEF HasTombstone

\* and that what is deleted is hidden.
LEMMA ReadersFromInv == AccessInv => DeletedStaysHidden
  <1> SUFFICES ASSUME AccessInv, pc = "idle", NEW i \in Known, NEW j \in DOMAIN log
               PROVE  /\ log[i].kind = "delete_group" /\ Visible(proj, log[j], Users)
                           => log[j].kind = "delete_group"
                      /\ log[i].kind = "delete_event" /\ log[i].ref = Key(log[j])
                           => ~Visible(proj, log[j], Users)
    BY DEF DeletedStaysHidden
  <1>1. ASSUME log[i].kind = "delete_group", Visible(proj, log[j], Users)
        PROVE  log[j].kind = "delete_group"
    <2>1. HasTombstone(proj)
      BY <1>1, DeletedHasTombstone DEF Projected
    <2> QED BY <1>1, <2>1 DEF Visible, ScreenSnapshot, ScreenNormal
  <1>2. ASSUME log[i].kind = "delete_event", log[i].ref = Key(log[j])
        PROVE  ~Visible(proj, log[j], Users)
    <2>1. log[i].ref \in proj.dels
      BY <1>2 DEF AccessInv, ProjectionCovers, Covers
    <2> QED BY <1>2, <2>1 DEF Visible
  <1> QED BY <1>1, <1>2

\* Readers never see a deleted group's events or a deleted event again, also
\* after a restart from any checkpoint.
THEOREM DeletedHidden ==
  ASSUME ~SnapshotInterrupted PROVE Spec => []DeletedStaysHidden
  <1>1. Init => AccessInv
    BY InitTypeInv, InitAccessInv DEF AccessInv
  <1>2. AccessInv /\ [Next]_vars => AccessInv'
    BY NextAccessInv
  <1> QED BY <1>1, <1>2, ReadersFromInv, PTL DEF Spec

\* One event more: it is the relay's, or no group is known to be deleted.
LEMMA AppendFinal ==
  ASSUME TypeInv, NEW e \in Events, log' = Append(log, e),
         e.by = Relay \/ \A i \in Known : log[i].kind # "delete_group"
  PROVE  \A j \in DOMAIN log' \ DOMAIN log :
           log'[j].by # Relay => \A i \in Known : log[i].kind # "delete_group"
  <1>1. /\ DOMAIN log' = DOMAIN log \cup {Len(log) + 1}
        /\ log'[Len(log) + 1] = e
    <2>1. log \in Seq(Events)
      BY AccessTypes
    <2> QED BY <2>1
  <1> QED BY <1>1

\* Once it knows of a tombstone CheckEvent refuses every event of a client.
LEMMA NextFinal ==
  ASSUME AccessInv, [Next]_vars
  PROVE  \A j \in DOMAIN log' \ DOMAIN log :
           log'[j].by # Relay => \A i \in Known : log[i].kind # "delete_group"
  <1> DEFINE Final == \A j \in DOMAIN log' \ DOMAIN log :
                        log'[j].by # Relay => \A i \in Known : log[i].kind # "delete_group"
  <1>0. TypeInv
    BY DEF AccessInv
  <1>3. UNCHANGED log => Final
    OBVIOUS
  <1>1. CASE Clients
    <2>1. pc = "idle"
      BY <1>1 DEF Clients
    <2> PICK e \in ClientEvents : Submit(e) \/ SubmitFails(e) \/ Duplicate(e)
      BY <1>0, <1>1, <2>1, ClientsSubmit
    <2>2. CASE Submit(e) \/ SubmitFails(e)
      <3>2. log' = Append(log, e) /\ CheckEvent(proj, IndexedKeys, e) /\ e \in Events
        BY <2>2 DEF Submit, SubmitFails, Fresh, ClientEvents
      <3>3. ~HasTombstone(proj)
        BY <3>2 DEF CheckEvent, CheckCreateGroup, CheckModeration, CheckNormal, IsActive
      <3>4. \A i \in Known : log[i].kind # "delete_group"
        BY <2>1, <3>3, DeletedHasTombstone DEF Projected
      <3> QED BY <1>0, <3>2, <3>4, AppendFinal
    <2>3. CASE Duplicate(e)
      BY <1>3, <2>3 DEF Duplicate, store
    <2> QED BY <2>2, <2>3
  <1>2. CASE StoreGenerated \/ StoreGeneratedFails
    <2> PICK k \in DOMAIN outbox :
          log' = log \/ log' = Append(log, outbox[k].payload)
      BY <1>2 DEF StoreGenerated, StoreGeneratedFails
    <2>1. outbox[k].payload \in Events /\ outbox[k].payload.by = Relay
      BY <1>0 DEF TypeInv, TypeOK, Records, Payloads
    <2>2. CASE log' = log
      BY <1>3, <2>2
    <2>3. CASE log' = Append(log, outbox[k].payload)
      BY <1>0, <2>1, <2>3, AppendFinal
    <2> QED BY <2>2, <2>3
  <1>4. Serve /\ ~StoreGenerated => UNCHANGED log
    BY DEF Serve, PutRow, MergeRecord, MergeRecordClashes, RecordsMerged, MarkStored,
           MarkFailed, Finish, store
  <1>5. Recover => UNCHANGED log
    BY DEF Recover, Open, RequiresRebuild, ReplayEvent, StartClearing, ClearRow, TableCleared,
           PutCheckpoint, DeriveEvent, RecordsDerived, store
  <1>6. Fail /\ ~StoreGeneratedFails => UNCHANGED log
    BY DEF Fail, PutRowFails, MergeRecordFails, MarkStoredFails, RewriteFails, store
  <1>7. Crash \/ Shutdown \/ Upgrade \/ UNCHANGED vars => UNCHANGED log
    BY DEF Crash, Shutdown, Upgrade, store, vars
  <1> HIDE DEF Final
  <1>8. Final
    BY <1>1, <1>2, <1>3, <1>4, <1>5, <1>6, <1>7 DEF Next, Final
  <1> QED BY <1>8 DEF Final

\* No client's event is stored once the service knows of a delete-group event, whatever
\* restarts lie between: check_event always finds the tombstone.
THEOREM TombstoneFinal ==
  ASSUME ~SnapshotInterrupted PROVE Spec => NoWriteAfterTombstone
  <1>1. Init => AccessInv
    BY InitTypeInv, InitAccessInv DEF AccessInv
  <1>2. AccessInv /\ [Next]_vars => AccessInv'
    BY NextAccessInv
  <1>3. AccessInv /\ [Next]_vars
          => [\A j \in DOMAIN log' \ DOMAIN log :
                log'[j].by # Relay => \A i \in Known : log[i].kind # "delete_group"]_vars
    BY NextFinal
  <1> QED BY <1>1, <1>2, <1>3, PTL DEF Spec, NoWriteAfterTombstone

-----------------------------------------------------------------------------
(* The projection of a log, in whatever order it was computed.  The group's  *)
(* record depends on the order of events only before its create-group event, *)
(* which is the first of the log and starts the record anew.                 *)

At(l, i) == TupleOf(l[i], i)

MetadataKinds == {"create", "edit", "metadata"}

\* A group is created once, by the first event, and edited and deleted in later
\* seconds.
Opened(l) ==
  \A i \in DOMAIN l :
    IF i = 1 THEN l[1].kind = "create"
    ELSE /\ l[i].kind # "create"
         /\ l[i].kind \in {"edit", "delete_group"} => l[1].at < l[i].at

\* The group record g is as events of l left it: the first created it, another or the
\* same gave it its metadata, and it is deleted if one says so.
GroupFrom(l, g) ==
  /\ 1 \in DOMAIN l
  /\ g.life # "none" /\ g.created = At(l, 1)
  /\ \E i \in DOMAIN l :
       /\ l[i].kind \in MetadataKinds /\ TupleLE(At(l, 1), At(l, i))
       /\ g.edited = At(l, i) /\ g.meta = l[i].meta
  /\ \/ g.life = "active" /\ g.deleted = NoTuple
     \/ /\ g.life = "deleted"
        /\ \E i \in DOMAIN l : l[i].kind = "delete_group" /\ g.deleted = At(l, i)

\* It accounts for the events of l at the offsets S.
GroupCovers(l, g, S) ==
  \A i \in S :
    /\ l[i].kind \in MetadataKinds => TupleLE(At(l, i), g.edited)
    /\ l[i].kind = "delete_group" => TupleLE(At(l, i), g.deleted)

\* Before the first event is applied the record does not matter, as long as applying
\* it will start the record anew.
GroupUpTo(l, g, S) ==
  IF 1 \in S THEN GroupFrom(l, g) /\ GroupCovers(l, g, S)
  ELSE IF 1 \in DOMAIN l
  THEN TupleLE(g.created, At(l, 1)) /\ \A i \in S : TupleLE(At(l, i), At(l, 1))
  ELSE g = NoGroup

\* The tombstone and the deletions of p are those of events of l.
DeletesFrom(l, p) ==
  /\ \/ p.tomb = NoTuple
     \/ \E i \in DOMAIN l : l[i].kind = "delete_group" /\ p.tomb = At(l, i)
  /\ \A d \in p.dels : \E i \in DOMAIN l : l[i].kind = "delete_event" /\ d = l[i].ref

\* Applying an event, by the parts of the projection.
LEMMA ApplyParts ==
  ASSUME NEW p \in Projections, NEW e \in Events, NEW i \in Nat \ {0}
  PROVE  LET t == TupleOf(e, i)
             q == Apply(p, e, i)
         IN  /\ q.group =
                  CASE e.kind = "create" ->
                         IF TupleLE(p.group.created, t) THEN NewGroup(e.meta, t) ELSE p.group
                    [] e.kind = "edit" ->
                         IF p.group.life = "none" THEN p.group
                         ELSE UpdateMetadata(p.group, e.meta, t)
                    [] e.kind = "metadata" ->
                         IF p.group.life = "none" THEN NewGroup(e.meta, t)
                         ELSE UpdateMetadata(p.group, e.meta, t)
                    [] e.kind = "delete_group" ->
                         IF p.group.life = "none" THEN p.group ELSE MarkDeleted(p.group, t)
                    [] OTHER -> p.group
             /\ q.tomb = IF e.kind = "delete_group" /\ TupleLE(p.tomb, t) THEN t ELSE p.tomb
             /\ q.dels = IF e.kind = "delete_event" THEN p.dels \cup {e.ref} ELSE p.dels
  <1> DEFINE t == TupleOf(e, i)
             q == Apply(p, e, i)
  <1>1. \A g : /\ [p EXCEPT !.group = g].group = g
               /\ [p EXCEPT !.group = g].tomb = p.tomb
               /\ [p EXCEPT !.group = g].dels = p.dels
               /\ \A s : /\ [[p EXCEPT !.group = g] EXCEPT !.tomb = s].group = g
                         /\ [[p EXCEPT !.group = g] EXCEPT !.tomb = s].tomb = s
                         /\ [[p EXCEPT !.group = g] EXCEPT !.tomb = s].dels = p.dels
    BY DEF Projections
  <1>2. \A s : /\ [p EXCEPT !.tomb = s].group = p.group
               /\ [p EXCEPT !.tomb = s].tomb = s
               /\ [p EXCEPT !.tomb = s].dels = p.dels
    BY DEF Projections
  <1>3. CASE e.kind = "create"
    <2>1. q = ApplyCreate(p, e, t)
      BY <1>3 DEF Apply
    <2> HIDE DEF q, t
    <2>2. /\ q.group = IF TupleLE(p.group.created, t) THEN NewGroup(e.meta, t) ELSE p.group
          /\ q.tomb = p.tomb /\ q.dels = p.dels
      BY <1>1, <2>1 DEF ApplyCreate
    <2> QED BY <1>3, <2>2 DEF q, t
  <1>4. CASE e.kind = "edit"
    <2>1. q = ApplyEdit(p, e, t)
      BY <1>4 DEF Apply
    <2> HIDE DEF q, t
    <2>2. /\ q.group = IF p.group.life = "none" THEN p.group
                       ELSE UpdateMetadata(p.group, e.meta, t)
          /\ q.tomb = p.tomb /\ q.dels = p.dels
      BY <1>1, <2>1 DEF ApplyEdit
    <2> QED BY <1>4, <2>2 DEF q, t
  <1>5. CASE e.kind = "metadata"
    <2>1. q = ApplyMetadataSnapshot(p, e, t)
      BY <1>5 DEF Apply
    <2> HIDE DEF q, t
    <2>2. /\ q.group = IF p.group.life = "none" THEN NewGroup(e.meta, t)
                       ELSE UpdateMetadata(p.group, e.meta, t)
          /\ q.tomb = p.tomb /\ q.dels = p.dels
      BY <1>1, <2>1 DEF ApplyMetadataSnapshot
    <2> QED BY <1>5, <2>2 DEF q, t
  <1>6. CASE e.kind = "delete_group"
    <2>1. q = ApplyDeleteGroup(p, t)
      BY <1>6 DEF Apply
    <2> HIDE DEF q, t
    <2>2. /\ q.group = IF p.group.life = "none" THEN p.group ELSE MarkDeleted(p.group, t)
          /\ q.tomb = IF TupleLE(p.tomb, t) THEN t ELSE p.tomb
          /\ q.dels = p.dels
      BY <1>1, <1>2, <2>1 DEF ApplyDeleteGroup, PutTombstone
    <2> QED BY <1>6, <2>2 DEF q, t
  <1>7. CASE IsMemberEvent(e)
    <2>1. q = PutMember(p, e.user, MemberOf(e, t))
      BY <1>7 DEF Apply, ApplyMemberStatus, IsMemberEvent
    <2> HIDE DEF q, t
    <2>2. q.group = p.group /\ q.tomb = p.tomb /\ q.dels = p.dels
      BY <2>1 DEF PutMember, Projections
    <2> QED BY <1>7, <2>2 DEF q, t, IsMemberEvent
  <1>8. CASE e.kind = "delete_event"
    <2>1. q = [p EXCEPT !.dels = p.dels \cup {e.ref}]
      BY <1>8 DEF Apply, ApplyDeleteEvent
    <2> HIDE DEF q, t
    <2>2. q.group = p.group /\ q.tomb = p.tomb /\ q.dels = p.dels \cup {e.ref}
      BY <2>1 DEF Projections
    <2> QED BY <1>8, <2>2 DEF q, t
  <1>9. CASE e.kind \notin {"create", "edit", "metadata", "put", "remove",
                            "delete_event", "delete_group"}
    <2>1. q = p
      BY <1>9 DEF Apply
    <2> HIDE DEF q, t
    <2> QED BY <1>9, <2>1 DEF q, t
  <1> QED BY <1>3, <1>4, <1>5, <1>6, <1>7, <1>8, <1>9 DEF IsMemberEvent

\* Applying an event keeps the deletions those of the log.
LEMMA ApplyDeletesFrom ==
  ASSUME NEW l \in Seq(Events), NEW p \in Projections, NEW i \in DOMAIN l, DeletesFrom(l, p)
  PROVE  DeletesFrom(l, Apply(p, l[i], i))
  <1> DEFINE q == Apply(p, l[i], i)
  <1>0. l[i] \in Events /\ i \in Nat \ {0}
    BY LogFacts
  <1>1. /\ q.tomb = p.tomb \/ (l[i].kind = "delete_group" /\ q.tomb = At(l, i))
        /\ q.dels = p.dels \/ (l[i].kind = "delete_event" /\ q.dels = p.dels \cup {l[i].ref})
    BY <1>0, ApplyParts DEF At
  <1> HIDE DEF q
  <1>2. DeletesFrom(l, q)
    BY <1>1 DEF DeletesFrom
  <1> QED BY <1>2 DEF q

\* Applying an event accounts for it in the group record.
LEMMA ApplyGroupUpTo ==
  ASSUME NEW l \in Seq(Events), Opened(l), NEW p \in Projections, NEW i \in DOMAIN l,
         NEW S \in SUBSET DOMAIN l, i \notin S, GroupUpTo(l, p.group, S),
         1 \notin S => TupleLE(At(l, i), At(l, 1))
  PROVE  GroupUpTo(l, Apply(p, l[i], i).group, S \cup {i})
  <1> DEFINE e == l[i]
             t == At(l, i)
             g == p.group
             h == Apply(p, e, i).group
  <1>0. /\ e \in Events /\ i \in Nat \ {0} /\ t \in Tuples /\ g \in Groups
        /\ 1 \in DOMAIN l /\ At(l, 1) \in Tuples
        /\ g.created \in Tuples /\ g.edited \in Tuples /\ g.deleted \in Tuples
    <2>1. e \in Events /\ i \in Nat \ {0} /\ t \in Tuples /\ 1 \in DOMAIN l
      BY LogFacts DEF At
    <2>2. At(l, 1) \in Tuples
      BY <2>1, LogFacts DEF At
    <2> QED BY <2>1, <2>2 DEF Projections, Groups
  <1>1. h = CASE e.kind = "create" -> IF TupleLE(g.created, t) THEN NewGroup(e.meta, t) ELSE g
              [] e.kind = "edit" ->
                   IF g.life = "none" THEN g ELSE UpdateMetadata(g, e.meta, t)
              [] e.kind = "metadata" ->
                   IF g.life = "none" THEN NewGroup(e.meta, t)
                   ELSE UpdateMetadata(g, e.meta, t)
              [] e.kind = "delete_group" ->
                   IF g.life = "none" THEN g ELSE MarkDeleted(g, t)
              [] OTHER -> g
    BY <1>0, ApplyParts DEF At
  <1>2. \A j \in DOMAIN l : At(l, j) \in Tuples /\ ~TupleLE(At(l, j), NoTuple)
    BY LogFacts, TupleOfEvent DEF At
  <1>3. \A j \in DOMAIN l :
          l[j].kind = "delete_group" \/ (j # 1 /\ l[j].kind = "edit") =>
            ~TupleLE(At(l, j), At(l, 1))
    <2> TAKE j \in DOMAIN l
    <2> HAVE l[j].kind = "delete_group" \/ (j # 1 /\ l[j].kind = "edit")
    <2>1. l[1].at < l[j].at
      BY <1>0 DEF Opened
    <2>2. l[1].at \in Nat /\ l[j].at \in Nat
      BY <1>0, LogFacts DEF Events
    <2> QED BY <2>1, <2>2 DEF At, TupleOf, TupleLE
  <1>4. /\ \A m : /\ NewGroup(m, t).life = "active" /\ NewGroup(m, t).meta = m
                 /\ NewGroup(m, t).created = t /\ NewGroup(m, t).edited = t
                 /\ NewGroup(m, t).deleted = NoTuple
        /\ \A m : LET x == UpdateMetadata(g, m, t) IN
             IF TupleLE(g.edited, t)
             THEN /\ x.life = g.life /\ x.meta = m /\ x.created = g.created
                  /\ x.edited = t /\ x.deleted = g.deleted
             ELSE x = g
        /\ LET x == MarkDeleted(g, t) IN
             IF TupleLE(g.deleted, t)
             THEN /\ x.life = "deleted" /\ x.meta = g.meta /\ x.created = g.created
                  /\ x.edited = g.edited /\ x.deleted = t
             ELSE x = g
    <2> HIDE DEF e, t, g, h
    <2> QED BY <1>0 DEF NewGroup, UpdateMetadata, MarkDeleted, Groups
  <1>5. CASE i = 1
    <2>1. e.kind = "create" /\ TupleLE(g.created, t) /\ \A j \in S : TupleLE(At(l, j), t)
      BY <1>0, <1>5 DEF Opened, GroupUpTo
    <2>2. h = NewGroup(e.meta, t)
      BY <1>1, <2>1
    <2>3. GroupFrom(l, h)
      BY <1>0, <1>4, <1>5, <2>1, <2>2, TupleReflexive DEF GroupFrom, MetadataKinds
    <2>4. GroupCovers(l, h, S \cup {1})
      BY <1>0, <1>3, <1>4, <1>5, <2>1, <2>2, TupleReflexive DEF GroupCovers
    <2> QED BY <1>5, <2>3, <2>4 DEF GroupUpTo
  <1>6. CASE i # 1 /\ 1 \notin S
    <2>1. /\ TupleLE(g.created, At(l, 1)) /\ TupleLE(t, At(l, 1))
          /\ \A j \in S : TupleLE(At(l, j), At(l, 1))
      BY <1>0, <1>6 DEF GroupUpTo
    <2>2. e.kind \notin {"create", "edit", "delete_group"}
      BY <1>3, <1>6, <2>1 DEF Opened
    <2>3. h.created \in {g.created, t}
      <3> HIDE DEF e, t, g, h
      <3>1. h \in {g, NewGroup(e.meta, t), UpdateMetadata(g, e.meta, t)}
        BY <1>1, <2>2
      <3> QED BY <1>4, <3>1
    <2> QED BY <1>0, <1>6, <2>1, <2>3 DEF GroupUpTo
  <1>7. CASE i # 1 /\ 1 \in S
    <2>1. GroupFrom(l, g) /\ GroupCovers(l, g, S) /\ g.life # "none" /\ e.kind # "create"
      BY <1>7 DEF GroupUpTo, GroupFrom, Opened
    <2>2. CASE e.kind \in {"edit", "metadata"} /\ TupleLE(g.edited, t)
      <3>1. /\ h.life = g.life /\ h.created = g.created /\ h.deleted = g.deleted
            /\ h.meta = e.meta /\ h.edited = t
        <4> HIDE DEF e, t, g, h
        <4>1. h = UpdateMetadata(g, e.meta, t)
          BY <1>1, <2>1, <2>2
        <4> QED BY <1>4, <2>2, <4>1
      <3>2. TupleLE(At(l, 1), t)
        BY <1>0, <1>2, <2>1, <2>2, TupleTransitive DEF GroupFrom
      <3>3. GroupFrom(l, h)
        BY <2>1, <2>2, <3>1, <3>2 DEF GroupFrom, MetadataKinds
      <3>4. \A j \in S : l[j].kind \in MetadataKinds => TupleLE(At(l, j), t)
        BY <1>0, <1>2, <2>1, <2>2, TupleTransitive DEF GroupCovers
      <3>5. GroupCovers(l, h, S \cup {i})
        BY <1>0, <2>1, <2>2, <3>1, <3>4, TupleReflexive DEF GroupCovers
      <3> QED BY <1>7, <3>3, <3>5 DEF GroupUpTo
    <2>3. CASE e.kind \in {"edit", "metadata"} /\ ~TupleLE(g.edited, t)
      <3>1. h = g
        BY <1>1, <1>4, <2>1, <2>3
      <3>2. GroupCovers(l, h, S \cup {i})
        BY <1>0, <2>1, <2>3, <3>1, TupleTotal DEF GroupCovers
      <3> QED BY <1>7, <2>1, <3>1, <3>2 DEF GroupUpTo
    <2>4. CASE e.kind = "delete_group" /\ TupleLE(g.deleted, t)
      <3>1. /\ h.life = "deleted" /\ h.created = g.created /\ h.deleted = t
            /\ h.meta = g.meta /\ h.edited = g.edited
        BY <1>1, <1>4, <2>1, <2>4
      <3>2. GroupFrom(l, h)
        BY <2>1, <2>4, <3>1 DEF GroupFrom
      <3>3. \A j \in S : l[j].kind = "delete_group" => TupleLE(At(l, j), t)
        BY <1>0, <1>2, <2>1, <2>4, TupleTransitive DEF GroupCovers
      <3>4. GroupCovers(l, h, S \cup {i})
        BY <1>0, <2>1, <2>4, <3>1, <3>3, TupleReflexive DEF GroupCovers, MetadataKinds
      <3> QED BY <1>7, <3>2, <3>4 DEF GroupUpTo
    <2>5. CASE e.kind = "delete_group" /\ ~TupleLE(g.deleted, t)
      <3>1. h = g
        BY <1>1, <1>4, <2>1, <2>5
      <3>2. GroupCovers(l, h, S \cup {i})
        BY <1>0, <2>1, <2>5, <3>1, TupleTotal DEF GroupCovers, MetadataKinds
      <3> QED BY <1>7, <2>1, <3>1, <3>2 DEF GroupUpTo
    <2>6. CASE e.kind \notin {"create", "edit", "metadata", "delete_group"}
      <3>1. h = g
        BY <1>1, <2>6
      <3>2. GroupCovers(l, h, S \cup {i})
        BY <2>1, <2>6, <3>1 DEF GroupCovers, MetadataKinds
      <3> QED BY <1>7, <2>1, <3>1, <3>2 DEF GroupUpTo
    <2> QED BY <2>1, <2>2, <2>3, <2>4, <2>5, <2>6
  <1> QED BY <1>5, <1>6, <1>7

\* p is a projection of the events of l at the offsets S, perhaps with some of the
\* others.
Sums(l, p, S) ==
  /\ p \in Projections
  /\ MembersFrom(l, p, DOMAIN l) /\ Covers(l, p, S)
  /\ DeletesFrom(l, p)
  /\ GroupUpTo(l, p.group, S)

\* TupleLE is antisymmetric.
LEMMA TupleAntisymmetric ==
  ASSUME NEW s \in Tuples, NEW t \in Tuples, TupleLE(s, t), TupleLE(t, s)
  PROVE  s = t
  <1>1. s[1] = t[1] /\ s[2] = t[2] /\ s[3] = t[3]
    BY DEF Tuples, TupleLE
  <1> QED BY <1>1 DEF Tuples

\* Two events of the log are never equal in tuple order.
LEMMA AtInjective ==
  ASSUME NEW l \in Seq(Events), NEW i \in DOMAIN l, NEW j \in DOMAIN l,
         TupleLE(At(l, i), At(l, j)), TupleLE(At(l, j), At(l, i))
  PROVE  i = j
  <1>1. At(l, i) = At(l, j)
    BY LogFacts, TupleAntisymmetric DEF At
  <1> QED BY <1>1 DEF At, TupleOf

\* One event is applied.
LEMMA ApplySums ==
  ASSUME NEW l \in Seq(Events), Opened(l), NEW S \in SUBSET DOMAIN l,
         NEW i \in DOMAIN l, i \notin S, NEW p, Sums(l, p, S),
         1 \notin S => TupleLE(At(l, i), At(l, 1))
  PROVE  Sums(l, Apply(p, l[i], i), S \cup {i})
  <1>1. l[i] \in Events /\ i \in Nat \ {0} /\ p \in Projections
    BY LogFacts DEF Sums
  <1>2. Apply(p, l[i], i) \in Projections
    BY <1>1, ApplyFacts DEF Applied
  <1> QED BY <1>1, <1>2, ApplyCovers, ApplyDeletesFrom, ApplyGroupUpTo DEF Sums

\* The empty projection is one of no event.
LEMMA EmptySums ==
  ASSUME NEW l \in Seq(Events) PROVE Sums(l, EmptyProjection, {})
  <1>1. /\ EmptyProjection.tomb = NoTuple /\ EmptyProjection.dels = {}
        /\ EmptyProjection.group = NoGroup /\ NoGroup.created = NoTuple
    BY DEF EmptyProjection, NoGroup
  <1>2. 1 \in DOMAIN l => TupleLE(NoTuple, At(l, 1))
    <2> HAVE 1 \in DOMAIN l
    <2>1. At(l, 1) \in Tuples
      BY LogFacts DEF At
    <2> QED BY <2>1 DEF Tuples, TupleLE, NoTuple
  <1> QED BY <1>1, <1>2, EmptyFrom, EmptyProjectionType DEF Sums, DeletesFrom, GroupUpTo

\* All the events of a log have one projection.
LEMMA SumsUnique ==
  ASSUME NEW l \in Seq(Events), NEW p, NEW q, Sums(l, p, DOMAIN l), Sums(l, q, DOMAIN l)
  PROVE  p = q
  <1>0. p \in Projections /\ q \in Projections
    BY DEF Sums
  <1>1. \A i \in DOMAIN l : At(l, i) \in Tuples /\ ~TupleLE(At(l, i), NoTuple)
    BY LogFacts, TupleOfEvent DEF At
  <1>2. ASSUME NEW r, NEW s, Sums(l, r, DOMAIN l), Sums(l, s, DOMAIN l), NEW u \in Users,
               r.members[u] # NoMember
        PROVE  /\ s.members[u] # NoMember
               /\ TupleLE(r.members[u].last, s.members[u].last)
    <2> PICK i \in DOMAIN l : /\ IsMemberEvent(l[i]) /\ l[i].user = u
                              /\ r.members[u] = MemberOf(l[i], TupleOf(l[i], i))
      BY <1>2 DEF Sums, MembersFrom
    <2>1. r.members[u].last = At(l, i)
      BY DEF MemberOf, At
    <2>2. TupleLE(At(l, i), s.members[u].last)
      BY <1>2 DEF Sums, Covers, At
    <2>3. s.members[u] # NoMember
      BY <1>1, <2>2 DEF NoMember
    <2> QED BY <2>1, <2>2, <2>3
  <1>3. \A u \in Users : p.members[u] = q.members[u]
    <2> TAKE u \in Users
    <2>1. CASE p.members[u] = NoMember /\ q.members[u] = NoMember
      BY <2>1
    <2>2. CASE p.members[u] # NoMember \/ q.members[u] # NoMember
      <3>1. /\ p.members[u] # NoMember /\ q.members[u] # NoMember
            /\ TupleLE(p.members[u].last, q.members[u].last)
            /\ TupleLE(q.members[u].last, p.members[u].last)
        BY <1>2, <2>2
      <3> PICK i \in DOMAIN l : p.members[u] = MemberOf(l[i], TupleOf(l[i], i))
        BY <3>1 DEF Sums, MembersFrom
      <3> PICK j \in DOMAIN l : q.members[u] = MemberOf(l[j], TupleOf(l[j], j))
        BY <3>1 DEF Sums, MembersFrom
      <3>2. p.members[u].last = At(l, i) /\ q.members[u].last = At(l, j)
        BY DEF MemberOf, At
      <3>3. i = j
        BY <3>1, <3>2, AtInjective
      <3> QED BY <3>3
    <2> QED BY <2>1, <2>2
  <1>4. p.tomb = q.tomb
    <2>1. ASSUME NEW r, NEW s, Sums(l, r, DOMAIN l), Sums(l, s, DOMAIN l), r.tomb # NoTuple
          PROVE  s.tomb # NoTuple /\ TupleLE(r.tomb, s.tomb)
      <3> PICK i \in DOMAIN l : l[i].kind = "delete_group" /\ r.tomb = At(l, i)
        BY <2>1 DEF Sums, DeletesFrom
      <3>1. TupleLE(At(l, i), s.tomb)
        BY <2>1 DEF Sums, Covers, At
      <3> QED BY <1>1, <3>1
    <2>2. p.tomb \in Tuples /\ q.tomb \in Tuples
      BY <1>0 DEF Projections, Tombstones
    <2> QED BY <2>1, <2>2, TupleAntisymmetric
  <1>5. p.dels = q.dels
    <2>1. ASSUME NEW r, NEW s, Sums(l, r, DOMAIN l), Sums(l, s, DOMAIN l)
          PROVE  r.dels \subseteq s.dels
      BY <2>1 DEF Sums, DeletesFrom, Covers
    <2>2. p.dels \subseteq q.dels /\ q.dels \subseteq p.dels
      BY <2>1
    <2> QED BY <2>2
  <1>6. p.group = q.group
    <2>0. p.group \in Groups /\ q.group \in Groups
      BY <1>0 DEF Projections
    <2>1. CASE 1 \notin DOMAIN l
      BY <2>1 DEF Sums, GroupUpTo
    <2>2. CASE 1 \in DOMAIN l
      <3> DEFINE g == p.group
                 h == q.group
      <3>1. /\ GroupFrom(l, g) /\ GroupCovers(l, g, DOMAIN l)
            /\ GroupFrom(l, h) /\ GroupCovers(l, h, DOMAIN l)
        BY <2>2 DEF Sums, GroupUpTo
      <3> HIDE DEF g, h
      <3>2. g.created = h.created
        BY <3>1 DEF GroupFrom
      <3>3. g.edited = h.edited /\ g.meta = h.meta
        <4> PICK i \in DOMAIN l : /\ l[i].kind \in MetadataKinds
                                  /\ g.edited = At(l, i) /\ g.meta = l[i].meta
          BY <3>1 DEF GroupFrom
        <4> PICK j \in DOMAIN l : /\ l[j].kind \in MetadataKinds
                                  /\ h.edited = At(l, j) /\ h.meta = l[j].meta
          BY <3>1 DEF GroupFrom
        <4>1. TupleLE(At(l, i), At(l, j)) /\ TupleLE(At(l, j), At(l, i))
          BY <3>1 DEF GroupCovers
        <4>2. i = j
          BY <4>1, AtInjective
        <4> QED BY <4>2
      <3>4. ASSUME NEW r, NEW s, GroupFrom(l, r), GroupCovers(l, s, DOMAIN l),
                   r.life = "deleted"
            PROVE  s.deleted # NoTuple /\ TupleLE(r.deleted, s.deleted)
        <4> PICK i \in DOMAIN l : l[i].kind = "delete_group" /\ r.deleted = At(l, i)
          BY <3>4 DEF GroupFrom
        <4>1. TupleLE(At(l, i), s.deleted)
          BY <3>4 DEF GroupCovers
        <4> QED BY <1>1, <4>1
      <3>5. g.life \in {"active", "deleted"} /\ h.life \in {"active", "deleted"}
        BY <3>1 DEF GroupFrom
      <3>6. g.deleted \in Tuples /\ h.deleted \in Tuples
        BY <2>0 DEF Groups, g, h
      <3>7. g.life = h.life /\ g.deleted = h.deleted
        <4>1. CASE g.life = "deleted" \/ h.life = "deleted"
          <5>1. g.life = "deleted" /\ h.life = "deleted"
            BY <3>1, <3>4, <3>5, <4>1 DEF GroupFrom
          <5>2. TupleLE(g.deleted, h.deleted) /\ TupleLE(h.deleted, g.deleted)
            BY <3>1, <3>4, <5>1
          <5> QED BY <3>6, <5>1, <5>2, TupleAntisymmetric
        <4>2. CASE g.life = "active" /\ h.life = "active"
          BY <3>1, <4>2 DEF GroupFrom
        <4> QED BY <3>5, <4>1, <4>2
      <3>8. g \in Groups /\ h \in Groups
        BY <2>0 DEF g, h
      <3>9. g = h
        BY <3>2, <3>3, <3>7, <3>8 DEF Groups
      <3> QED BY <3>9 DEF g, h
    <2> QED BY <2>1, <2>2
  <1>7. p.members = q.members
    <2>1. p.members \in [Users -> Members] /\ q.members \in [Users -> Members]
      BY <1>0 DEF Projections
    <2> QED BY <1>3, <2>1
  <1> QED BY <1>0, <1>4, <1>5, <1>6, <1>7 DEF Projections

\* A longer log changes nothing for the events it had.
LEMMA AppendGroup ==
  ASSUME NEW l \in Seq(Events), NEW e \in Events, NEW S \in SUBSET DOMAIN l
  PROVE  /\ \A g : GroupFrom(l, g) => GroupFrom(Append(l, e), g)
         /\ \A g : GroupCovers(l, g, S) => GroupCovers(Append(l, e), g, S)
         /\ \A p : DeletesFrom(l, p) => DeletesFrom(Append(l, e), p)
         /\ l # <<>> => \A g : GroupUpTo(l, g, S) => GroupUpTo(Append(l, e), g, S)
  <1> DEFINE m == Append(l, e)
  <1>1. \A i \in DOMAIN l : i \in DOMAIN m /\ m[i] = l[i]
    BY AppendType
  <1> HIDE DEF m
  <1>2. \A i \in DOMAIN l : At(m, i) = At(l, i)
    BY <1>1 DEF At
  <1>3. ASSUME NEW g, GroupFrom(l, g) PROVE GroupFrom(m, g)
    <2>1. /\ 1 \in DOMAIN m /\ At(m, 1) = At(l, 1)
          /\ g.life # "none" /\ g.created = At(m, 1)
      BY <1>1, <1>2, <1>3 DEF GroupFrom
    <2>2. \E i \in DOMAIN m :
            /\ m[i].kind \in MetadataKinds /\ TupleLE(At(m, 1), At(m, i))
            /\ g.edited = At(m, i) /\ g.meta = m[i].meta
      BY <1>1, <1>2, <1>3, <2>1 DEF GroupFrom
    <2>3. \/ g.life = "active" /\ g.deleted = NoTuple
          \/ /\ g.life = "deleted"
             /\ \E i \in DOMAIN m : m[i].kind = "delete_group" /\ g.deleted = At(m, i)
      BY <1>1, <1>2, <1>3 DEF GroupFrom
    <2> QED BY <2>1, <2>2, <2>3 DEF GroupFrom
  <1>4. ASSUME NEW g, GroupCovers(l, g, S) PROVE GroupCovers(m, g, S)
    BY <1>1, <1>2, <1>4 DEF GroupCovers
  <1>5. ASSUME NEW p, DeletesFrom(l, p) PROVE DeletesFrom(m, p)
    <2>1. \/ p.tomb = NoTuple
          \/ \E i \in DOMAIN m : m[i].kind = "delete_group" /\ p.tomb = At(m, i)
      BY <1>1, <1>2, <1>5 DEF DeletesFrom
    <2>2. \A d \in p.dels : \E i \in DOMAIN m : m[i].kind = "delete_event" /\ d = m[i].ref
      BY <1>1, <1>5 DEF DeletesFrom
    <2> QED BY <2>1, <2>2 DEF DeletesFrom
  <1>6. ASSUME l # <<>>, NEW g, GroupUpTo(l, g, S) PROVE GroupUpTo(m, g, S)
    <2>1. 1 \in DOMAIN l
      BY <1>6
    <2>2. 1 \in DOMAIN m /\ At(m, 1) = At(l, 1) /\ \A i \in S : At(m, i) = At(l, i)
      BY <1>1, <1>2, <2>1
    <2> QED BY <1>3, <1>4, <1>6, <2>1, <2>2 DEF GroupUpTo
  <1> QED BY <1>3, <1>4, <1>5, <1>6 DEF m

\* NoTuple is below the tuple of the first event.
LEMMA NoTupleBelow ==
  ASSUME NEW l \in Seq(Events), 1 \in DOMAIN l PROVE TupleLE(NoTuple, At(l, 1))
  <1>1. At(l, 1) \in Tuples
    BY LogFacts DEF At
  <1> QED BY <1>1 DEF Tuples, TupleLE, NoTuple

\* Storing an event and applying it.
LEMMA AppendSums ==
  ASSUME NEW l \in Seq(Events), NEW e \in Events, Opened(Append(l, e)), NEW p,
         Sums(l, p, DOMAIN l)
  PROVE  Sums(Append(l, e), Apply(p, e, Len(l) + 1), DOMAIN Append(l, e))
  <1> DEFINE m == Append(l, e)
             n == Len(l) + 1
  <1>1. m \in Seq(Events) /\ n \in DOMAIN m /\ m[n] = e
        /\ DOMAIN m = DOMAIN l \cup {n} /\ DOMAIN l \in SUBSET DOMAIN m
        /\ n \notin DOMAIN l /\ 1 \in DOMAIN m /\ (l = <<>> => n = 1 /\ DOMAIN l = {})
        /\ (l # <<>> => 1 \in DOMAIN l)
    <2>1. /\ DOMAIN l = 1..Len(l) /\ Len(l) \in Nat /\ DOMAIN m = 1..(Len(l) + 1)
          /\ m \in Seq(Events) /\ m[n] = e
      BY AppendType
    <2> QED BY <2>1
  <1>2. /\ MembersFrom(m, p, DOMAIN m) /\ Covers(m, p, DOMAIN l) /\ DeletesFrom(m, p)
        /\ p \in Projections
    <2>1. /\ MembersFrom(m, p, DOMAIN l) /\ Covers(m, p, DOMAIN l) /\ DeletesFrom(m, p)
          /\ p \in Projections
      BY AppendCovers, AppendGroup DEF Sums
    <2> HIDE DEF m
    <2> QED BY <1>1, <2>1, MembersMore
  <1>3. l # <<>> => GroupUpTo(m, p.group, DOMAIN l)
    BY AppendGroup DEF Sums
  <1>4. Opened(m)
    OBVIOUS
  <1>5. l = <<>> => GroupUpTo(m, p.group, {})
    <2> HAVE l = <<>>
    <2>1. p.group = NoGroup
      BY <1>1 DEF Sums, GroupUpTo
    <2>2. TupleLE(NoTuple, At(m, 1)) /\ NoGroup.created = NoTuple
      BY <1>1, NoTupleBelow DEF NoGroup
    <2> HIDE DEF m
    <2> QED BY <1>1, <2>1, <2>2 DEF GroupUpTo
  <1> HIDE DEF m, n
  <1>6. Sums(m, p, DOMAIN l)
    BY <1>1, <1>2, <1>3, <1>5 DEF Sums
  <1>7. 1 \notin DOMAIN l => TupleLE(At(m, n), At(m, 1))
    <2>1. At(m, n) \in Tuples
      BY <1>1, LogFacts DEF At
    <2> QED BY <1>1, <2>1, TupleReflexive
  <1>8. Sums(m, Apply(p, m[n], n), DOMAIN l \cup {n})
    BY <1>1, <1>4, <1>6, <1>7, ApplySums
  <1> QED BY <1>1, <1>8 DEF m, n

-----------------------------------------------------------------------------
(* Rebuilding is a projection of all the events of the log *)

LessNat == {p \in Nat \X Nat : p[1] < p[2]}

\* A set of numbers that is not empty has a least element.
LEMMA LeastNumber ==
  ASSUME NEW T \in SUBSET Nat, T # {}
  PROVE  \E x \in T : \A y \in T : x <= y
  <1>1. IsWellFoundedOn(LessNat, Nat)
    <2>1. OpToRel(<, Nat) = LessNat
      BY Zenon DEF OpToRel, LessNat
    <2> QED BY <2>1, NatLessThanWellFounded, Zenon
  <1>2. PICK x \in T : \A y \in T : ~(<<y, x>> \in LessNat)
    BY <1>1, WFMin
  <1>3. \A a, b \in Nat : <<b, a>> \notin LessNat => a <= b
    BY DEF LessNat
  <1>4. \A y \in T : x <= y
    BY <1>2, <1>3
  <1> QED BY <1>4

\* The position of an event in tuple order.
UpTo(l, i) == {j \in DOMAIN l : TupleLE(At(l, j), At(l, i))}
Rank(l, i) == Cardinality(UpTo(l, i))

\* Positions are in tuple order.
LEMMA RankOrder ==
  ASSUME NEW l \in Seq(Events), NEW i \in DOMAIN l, NEW j \in DOMAIN l
  PROVE  /\ Rank(l, i) \in 1..Len(l)
         /\ Rank(l, i) <= Rank(l, j) => TupleLE(At(l, i), At(l, j))
         /\ Rank(l, i) = Rank(l, j) => i = j
  <1>0. \A k \in DOMAIN l : At(l, k) \in Tuples
    BY LogFacts DEF At
  <1>1. IsFiniteSet(DOMAIN l) /\ Cardinality(DOMAIN l) = Len(l) /\ Len(l) \in Nat
    <2>1. DOMAIN l = 1..Len(l) /\ Len(l) \in Nat
      OBVIOUS
    <2>2. IsFiniteSet(1..Len(l)) /\ Cardinality(1..Len(l)) = IF 1 > Len(l) THEN 0 ELSE Len(l) - 1 + 1
      BY <2>1, FS_Interval
    <2> QED BY <2>1, <2>2
  <1>2. \A k \in DOMAIN l : /\ UpTo(l, k) \in SUBSET DOMAIN l /\ k \in UpTo(l, k)
                            /\ IsFiniteSet(UpTo(l, k)) /\ Rank(l, k) \in 1..Len(l)
    <2> TAKE k \in DOMAIN l
    <2>1. UpTo(l, k) \in SUBSET DOMAIN l /\ k \in UpTo(l, k)
      BY <1>0, TupleReflexive DEF UpTo
    <2>2. /\ IsFiniteSet(UpTo(l, k)) /\ Rank(l, k) <= Len(l)
      BY <1>1, <2>1, FS_Subset DEF Rank
    <2>3. Rank(l, k) \in Nat
      BY <2>2, FS_CardinalityType DEF Rank
    <2>4. Rank(l, k) # 0
      BY <2>1, <2>2, FS_EmptySet DEF Rank
    <2> QED BY <1>1, <2>1, <2>2, <2>3, <2>4
  <1>3. ASSUME NEW a \in DOMAIN l, NEW b \in DOMAIN l, ~TupleLE(At(l, a), At(l, b))
        PROVE  Rank(l, b) < Rank(l, a)
    <2>1. TupleLE(At(l, b), At(l, a))
      BY <1>0, <1>3, TupleTotal
    <2>2. UpTo(l, b) \in SUBSET UpTo(l, a)
      BY <1>0, <2>1, TupleTransitive DEF UpTo
    <2>3. a \in UpTo(l, a) /\ a \notin UpTo(l, b)
      BY <1>2, <1>3 DEF UpTo
    <2>4. /\ Rank(l, b) <= Rank(l, a)
          /\ Rank(l, a) = Rank(l, b) => UpTo(l, a) = UpTo(l, b)
      BY <1>2, <2>2, FS_Subset DEF Rank
    <2> QED BY <1>2, <2>3, <2>4
  <1>4. \A a, b \in DOMAIN l : Rank(l, a) <= Rank(l, b) => TupleLE(At(l, a), At(l, b))
    BY <1>2, <1>3
  <1>5. Rank(l, i) = Rank(l, j) => i = j
    BY <1>2, <1>4, AtInjective
  <1> QED BY <1>2, <1>4, <1>5

\* Every position is taken, and by one event only.
LEMMA RankTaken ==
  ASSUME NEW l \in Seq(Events), NEW n \in 1..Len(l)
  PROVE  NthOffset(l, n) \in DOMAIN l /\ Rank(l, NthOffset(l, n)) = n
  <1> DEFINE rank == [i \in DOMAIN l |-> Rank(l, i)]
  <1>1. IsFiniteSet(DOMAIN l) /\ DOMAIN l = 1..Len(l) /\ Len(l) \in Nat
    <2>1. DOMAIN l = 1..Len(l) /\ Len(l) \in Nat
      OBVIOUS
    <2> QED BY <2>1, FS_Interval
  <1>2. rank \in Injection(DOMAIN l, 1..Len(l))
    BY RankOrder DEF Injection, IsInjective
  <1>3. rank \in Surjection(DOMAIN l, 1..Len(l))
    <2> HIDE DEF rank
    <2> QED BY <1>1, <1>2, FS_Injection
  <1>4. PICK i \in DOMAIN l : Rank(l, i) = n
    BY <1>3 DEF Surjection
  <1>5. NthOffset(l, n) = CHOOSE k \in DOMAIN l : Rank(l, k) = n
    BY DEF NthOffset, Rank, UpTo, At
  <1> QED BY <1>4, <1>5

\* f applies the events of l one by one in tuple order.
InSteps(l, f, m) ==
  f = [n \in 0..m |-> IF n = 0 THEN EmptyProjection
                      ELSE Apply(f[n - 1], l[NthOffset(l, n)], NthOffset(l, n))]

\* Rebuilding does so.
LEMMA RebuildSteps ==
  ASSUME NEW l \in Seq(Events)
  PROVE  \E f : InSteps(l, f, Len(l)) /\ Rebuild(l) = f[Len(l)]
  <1> DEFINE T == {m \in 0..Len(l) : ~ \E f : InSteps(l, f, m)}
  <1>0. Len(l) \in Nat
    OBVIOUS
  <1>1. T = {}
    <2> SUFFICES ASSUME T # {} PROVE FALSE
      OBVIOUS
    <2>1. PICK m \in T : \A k \in T : m <= k
      <3>1. T \in SUBSET Nat
        BY <1>0
      <3> HIDE DEF T
      <3> QED BY <3>1, LeastNumber
    <2>2. m \in Nat
      BY <1>0
    <2>3. CASE m = 0
      <3> DEFINE f == [n \in 0..0 |-> EmptyProjection]
      <3>1. InSteps(l, f, 0)
        BY DEF InSteps
      <3> QED BY <2>3, <3>1
    <2>4. CASE m # 0
      <3>1. m - 1 \in 0..Len(l) /\ ~(m <= m - 1)
        BY <1>0, <2>2, <2>4
      <3>2. m - 1 \notin T
        BY <2>1, <3>1
      <3> PICK f : InSteps(l, f, m - 1)
        BY <3>1, <3>2
      <3> DEFINE g == [n \in 0..m |->
                         IF n = m THEN Apply(f[m - 1], l[NthOffset(l, m)], NthOffset(l, m))
                         ELSE f[n]]
      <3>3. ASSUME NEW n \in 0..m
            PROVE  g[n] = IF n = 0 THEN EmptyProjection
                          ELSE Apply(g[n - 1], l[NthOffset(l, n)], NthOffset(l, n))
        <4>1. CASE n = m
          <5>1. g[m - 1] = f[m - 1]
            BY <2>2, <2>4
          <5> QED BY <2>2, <2>4, <4>1, <5>1
        <4>2. CASE n # m /\ n # 0
          <5>1. n \in 0..(m - 1) /\ n - 1 \in 0..m /\ n - 1 # m
            BY <2>2, <4>2
          <5>2. g[n] = f[n] /\ g[n - 1] = f[n - 1]
            BY <4>2, <5>1
          <5> HIDE DEF g
          <5>3. f[n] = Apply(f[n - 1], l[NthOffset(l, n)], NthOffset(l, n))
            BY <4>2, <5>1 DEF InSteps
          <5> QED BY <4>2, <5>2, <5>3
        <4>3. CASE n = 0
          <5>1. 0 \in 0..(m - 1)
            BY <2>2, <2>4
          <5>2. f[0] = EmptyProjection
            BY <5>1 DEF InSteps
          <5> QED BY <2>4, <4>3, <5>2
        <4> QED BY <4>1, <4>2, <4>3
      <3>4. g = [n \in 0..m |-> g[n]]
        OBVIOUS
      <3> HIDE DEF g
      <3>5. InSteps(l, g, m)
        BY <3>3, <3>4 DEF InSteps
      <3> QED BY <3>5
    <2> QED BY <2>3, <2>4
  <1>2. \E f : InSteps(l, f, Len(l))
    BY <1>0, <1>1
  <1> DEFINE step == CHOOSE f : InSteps(l, f, Len(l))
  <1>3. InSteps(l, step, Len(l))
    BY <1>2
  <1>4. Rebuild(l) = step[Len(l)]
    BY DEF Rebuild, InSteps
  <1> QED BY <1>3, <1>4

\* The events up to a position.
Done(l, n) == {i \in DOMAIN l : Rank(l, i) <= n}

LEMMA RebuildSums ==
  ASSUME NEW l \in Seq(Events), Opened(l)
  PROVE  Sums(l, Rebuild(l), DOMAIN l)
  <1> PICK f : InSteps(l, f, Len(l)) /\ Rebuild(l) = f[Len(l)]
    BY RebuildSteps
  <1> DEFINE T == {n \in 0..Len(l) : ~Sums(l, f[n], Done(l, n))}
  <1>0. Len(l) \in Nat /\ \A i \in DOMAIN l : Rank(l, i) \in 1..Len(l)
    BY RankOrder
  <1>1. T = {}
    <2> SUFFICES ASSUME T # {} PROVE FALSE
      OBVIOUS
    <2>1. PICK n \in T : \A k \in T : n <= k
      <3>1. T \in SUBSET Nat
        BY <1>0
      <3> HIDE DEF T
      <3> QED BY <3>1, LeastNumber
    <2>2. n \in 0..Len(l) /\ n \in Nat /\ ~Sums(l, f[n], Done(l, n))
      BY <1>0
    <2>3. CASE n = 0
      <3>1. Done(l, 0) = {}
        BY <1>0 DEF Done
      <3>2. f[0] = EmptyProjection
        BY <1>0 DEF InSteps
      <3> QED BY <2>2, <2>3, <3>1, <3>2, EmptySums
    <2>4. CASE n # 0
      <3> DEFINE i == NthOffset(l, n)
                 S == Done(l, n - 1)
      <3>1. n \in 1..Len(l) /\ n - 1 \in 0..Len(l) /\ ~(n <= n - 1)
        BY <1>0, <2>2, <2>4
      <3>2. Sums(l, f[n - 1], S)
        BY <2>1, <3>1
      <3>3. i \in DOMAIN l /\ Rank(l, i) = n
        BY <3>1, RankTaken
      <3>4. f[n] = Apply(f[n - 1], l[i], i)
        BY <2>2, <2>4 DEF InSteps
      <3> HIDE DEF i
      <3>5. S \in SUBSET DOMAIN l /\ i \notin S /\ Done(l, n) = S \cup {i}
        <4>1. \A j \in DOMAIN l : Rank(l, j) = n => j = i
          BY <3>3, RankOrder
        <4>2. \A j \in DOMAIN l : Rank(l, j) <= n <=> Rank(l, j) <= n - 1 \/ j = i
          BY <1>0, <2>2, <3>3, <4>1
        <4>3. ~(n <= n - 1)
          BY <3>1
        <4> QED BY <3>3, <4>2, <4>3 DEF Done
      <3>6. 1 \notin S => TupleLE(At(l, i), At(l, 1))
        <4> HAVE 1 \notin S
        <4>1. 1 \in DOMAIN l
          BY <3>3
        <4>2. ~(Rank(l, 1) <= n - 1)
          BY <4>1 DEF Done
        <4>3. Rank(l, i) <= Rank(l, 1)
          BY <1>0, <2>2, <3>3, <4>1, <4>2
        <4> QED BY <3>3, <4>1, <4>3, RankOrder
      <3> HIDE DEF S
      <3>7. Sums(l, f[n], S \cup {i})
        BY <3>2, <3>3, <3>4, <3>5, <3>6, ApplySums
      <3> QED BY <2>2, <3>5, <3>7
    <2> QED BY <2>3, <2>4
  <1>2. Done(l, Len(l)) = DOMAIN l
    <2>1. \A i \in DOMAIN l : Rank(l, i) <= Len(l)
      BY <1>0
    <2> QED BY <2>1, Zenon DEF Done
  <1>3. Len(l) \in 0..Len(l) /\ Len(l) \notin T
    BY <1>0, <1>1
  <1>4. Sums(l, f[Len(l)], Done(l, Len(l)))
    BY <1>3
  <1> QED BY <1>2, <1>4

\* A projection of all the events of the log is the one rebuilding computes.
LEMMA SumsRebuild ==
  ASSUME NEW l \in Seq(Events), Opened(l), NEW p, Sums(l, p, DOMAIN l)
  PROVE  p = Rebuild(l)
  BY RebuildSums, SumsUnique
=============================================================================
