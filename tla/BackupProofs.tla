---------------------------- MODULE BackupProofs ----------------------------
(***************************************************************************)
(* What the copies of a tenant's store hold, proved of Backup for every    *)
(* set of events, processes and tenants, every policy and any number of    *)
(* writes, commands and faults.                                            *)
(***************************************************************************)
EXTENDS Backup, TLAPS

-----------------------------------------------------------------------------
(* Types *)

Option(S) == {None} \cup {Some(x) : x \in S}
Lines == [offset : Nat, event : Events]
Stores == [map : Seq(Events), indexed : SUBSET Nat]
Manifests == {Manifest(u, l) : u \in Urls, l \in Seq(Lines)}
Backups == [lines : Seq(Lines), manifest : Option(Manifests)]
Written == Events \cup {Hole}
Exports == [lines : Option(Seq(Written)), manifest : Option([count : Nat, sha : Seq(Written)])]
Sums == Option(Seq(Events)) \X Option(SUBSET Nat)
Bundles == [map : Option(Seq(Events)), indexed : Option(SUBSET Nat), checksums : Option(Sums),
            manifest : Option([source : Tenants, sums : Option(Sums)])]
Targets == [map : Option(Seq(Events)), indexed : Option(SUBSET Nat), reported : Option(Tenants)]

CreateJobs == [cmd : {"create"}, step : {"scan", "lines", "publish"}, url : Urls,
               left : Seq(Lines), stage : Backups]
RestoreJobs == [cmd : {"restore"}, step : {"lines"}, read : Nat, verified : Nat, stage : Stores]
BackupJobs == [cmd : {"backup"}, step : {"map", "index", "checksums", "manifest"}]
UnpackJobs == [cmd : {"unpack"}, step : {"map", "index", "scan"}, tenant : Tenants]
ExportJobs == [cmd : {"export"}, step : {"scan", "create", "lines"}, events : Seq(Events),
               written : Nat]
Jobs == {Idle} \cup CreateJobs \cup RestoreJobs \cup BackupJobs \cup UnpackJobs \cup ExportJobs

FilesTyped ==
  /\ portable \in Option(Backups)
  /\ restored \in Option(Stores)
  /\ bundle \in Bundles
  /\ target \in Targets
  /\ exported \in Exports

\* What a command has written or found is there for its next step.
Present ==
  /\ \A p \in Procs :
       /\ job[p].cmd = "restore" => portable # None
       /\ job[p].cmd = "export" /\ job[p].step = "lines" => exported.lines # None
       /\ job[p].cmd = "backup" /\ job[p].step # "map" => bundle.map # None
       /\ job[p].cmd = "backup" /\ job[p].step \in {"checksums", "manifest"} =>
            bundle.indexed # None
  /\ bundle.manifest # None => bundle.map # None /\ bundle.indexed # None

TypeInv == source \in Stores /\ FilesTyped /\ job \in [Procs -> Jobs] /\ Present

\* An option holds something or nothing.
LEMMA OptionFacts ==
  ASSUME NEW S
  PROVE  /\ None \in Option(S)
         /\ \A x \in S : Some(x) \in Option(S) /\ Some(x) # None /\ Some(x)[1] = x
         /\ \A o \in Option(S) : o # None => o[1] \in S /\ o = Some(o[1])
BY DEF Option, None, Some

\* What an option holds.
LEMMA SomeFacts ==
  ASSUME NEW x
  PROVE  Some(x) # None /\ Some(x)[1] = x
BY DEF None, Some

\* A command's name tells the shape of its job.
LEMMA JobKinds ==
  ASSUME NEW j \in Jobs
  PROVE  /\ j.cmd = "idle" <=> j = Idle
         /\ j.cmd = "create" <=> j \in CreateJobs
         /\ j.cmd = "restore" <=> j \in RestoreJobs
         /\ j.cmd = "backup" <=> j \in BackupJobs
         /\ j.cmd = "unpack" <=> j \in UnpackJobs
         /\ j.cmd = "export" <=> j \in ExportJobs
         /\ j.cmd \in {"idle", "create", "restore", "backup", "unpack", "export"}
<1>1. Idle.cmd = "idle"
  BY DEF Idle
<1>2. /\ \A i \in CreateJobs : i.cmd = "create"
      /\ \A i \in RestoreJobs : i.cmd = "restore"
      /\ \A i \in BackupJobs : i.cmd = "backup"
      /\ \A i \in UnpackJobs : i.cmd = "unpack"
      /\ \A i \in ExportJobs : i.cmd = "export"
  BY DEF CreateJobs, RestoreJobs, BackupJobs, UnpackJobs, ExportJobs
<1> QED
  BY <1>1, <1>2 DEF Jobs

\* A creation's next job: it has scanned,
LEMMA CreateScanned ==
  ASSUME NEW j \in CreateJobs, NEW l \in Seq(Lines)
  PROVE  /\ [j EXCEPT !.step = "lines", !.left = l] \in CreateJobs
         /\ [j EXCEPT !.step = "lines", !.left = l].left = l
         /\ [j EXCEPT !.step = "lines", !.left = l].stage = j.stage
         /\ [j EXCEPT !.step = "lines", !.left = l].step = "lines"
BY DEF CreateJobs

\* has written a line,
LEMMA CreateWritten ==
  ASSUME NEW j \in CreateJobs, NEW l \in Seq(Lines), NEW x \in Seq(Lines)
  PROVE  /\ [j EXCEPT !.left = l, !.stage.lines = x] \in CreateJobs
         /\ [j EXCEPT !.left = l, !.stage.lines = x].left = l
         /\ [j EXCEPT !.left = l, !.stage.lines = x].stage.lines = x
         /\ [j EXCEPT !.left = l, !.stage.lines = x].step = j.step
<1>1. j.stage \in Backups /\ [j.stage EXCEPT !.lines = x] \in Backups
  BY DEF CreateJobs, Backups
<1>2. [j EXCEPT !.left = l, !.stage.lines = x] \in CreateJobs
  BY <1>1 DEF CreateJobs
<1> QED
  BY <1>1, <1>2 DEF CreateJobs, Backups

\* or has written its manifest.
LEMMA CreateSealed ==
  ASSUME NEW j \in CreateJobs, NEW m \in Option(Manifests)
  PROVE  /\ [j EXCEPT !.step = "publish", !.stage.manifest = m] \in CreateJobs
         /\ [j EXCEPT !.step = "publish", !.stage.manifest = m].left = j.left
         /\ [j EXCEPT !.step = "publish", !.stage.manifest = m].stage.lines = j.stage.lines
         /\ [j EXCEPT !.step = "publish", !.stage.manifest = m].step = "publish"
<1>1. j.stage \in Backups /\ [j.stage EXCEPT !.manifest = m] \in Backups
  BY DEF CreateJobs, Backups
<1>2. [j EXCEPT !.step = "publish", !.stage.manifest = m] \in CreateJobs
  BY <1>1 DEF CreateJobs
<1> QED
  BY <1>1, <1>2 DEF CreateJobs, Backups

\* The next jobs of the other commands.
LEMMA RestoreJob ==
  ASSUME NEW j \in RestoreJobs, NEW n \in Nat, NEW st \in Stores
  PROVE  /\ [j EXCEPT !.read = n, !.stage = st] \in RestoreJobs
         /\ [j EXCEPT !.read = n, !.stage = st].read = n
         /\ [j EXCEPT !.read = n, !.stage = st].stage = st
         /\ [j EXCEPT !.read = n, !.stage = st].verified = j.verified
BY DEF RestoreJobs

\* The next file of a directory backup is a step of the same job.
LEMMA BackupJob ==
  ASSUME NEW j \in BackupJobs, NEW s \in {"map", "index", "checksums", "manifest"}
  PROVE  [j EXCEPT !.step = s] \in BackupJobs /\ [j EXCEPT !.step = s].step = s
BY DEF BackupJobs

\* The next step of unpacking a backup is a step of the same job.
LEMMA UnpackJob ==
  ASSUME NEW j \in UnpackJobs, NEW s \in {"map", "index", "scan"}
  PROVE  /\ [j EXCEPT !.step = s] \in UnpackJobs /\ [j EXCEPT !.step = s].step = s
         /\ [j EXCEPT !.step = s].tenant = j.tenant
BY DEF UnpackJobs

\* An export's next job: it has scanned the store,
LEMMA ExportScanned ==
  ASSUME NEW j \in ExportJobs, NEW l \in Seq(Events)
  PROVE  /\ [j EXCEPT !.step = "create", !.events = l] \in ExportJobs
         /\ [j EXCEPT !.step = "create", !.events = l].step = "create"
         /\ [j EXCEPT !.step = "create", !.events = l].events = l
         /\ [j EXCEPT !.step = "create", !.events = l].written = j.written
BY DEF ExportJobs

\* made its file
LEMMA ExportCreated ==
  ASSUME NEW j \in ExportJobs
  PROVE  /\ [j EXCEPT !.step = "lines"] \in ExportJobs /\ [j EXCEPT !.step = "lines"].step = "lines"
         /\ [j EXCEPT !.step = "lines"].events = j.events
         /\ [j EXCEPT !.step = "lines"].written = j.written
BY DEF ExportJobs

\* or written an event.
LEMMA ExportWritten ==
  ASSUME NEW j \in ExportJobs, NEW n \in Nat
  PROVE  /\ [j EXCEPT !.written = n] \in ExportJobs /\ [j EXCEPT !.written = n].written = n
         /\ [j EXCEPT !.written = n].step = j.step /\ [j EXCEPT !.written = n].events = j.events
BY DEF ExportJobs

-----------------------------------------------------------------------------
(* The steps of the commands *)

RelayStep == RelayAppend \/ RelayIndex \/ RelayCrash
CreateStep(p) ==
  BeginCreate(p) \/ CreateScan(p) \/ CreateLine(p) \/ CreateManifest(p) \/ Publish(p)
RestoreStep(p) == BeginRestore(p) \/ RestoreLine(p) \/ RestorePublish(p)
EndStep(p) == Refuse(p) \/ Fail(p)
BackupStep(p) ==
  BeginBackup(p) \/ CopyMap(p) \/ CopyIndex(p) \/ WriteChecksums(p) \/ WriteManifest(p)
UnpackStep(p) == BeginUnpack(p) \/ UnpackMap(p) \/ UnpackIndex(p) \/ UnpackScan(p)
ExportStep(p) ==
  BeginExport(p) \/ ExportScan(p) \/ ExportCreate(p) \/ ExportLine(p) \/ ExportManifest(p)
DamageStep == LosePortableTail \/ AlterPortable \/ DamageBundle

\* Every step is one of these.
LEMMA StepCases ==
  ASSUME Next
  PROVE  \/ RelayStep \/ DamageStep
         \/ \E p \in Procs : \/ CreateStep(p) \/ RestoreStep(p) \/ EndStep(p)
                             \/ BackupStep(p) \/ UnpackStep(p) \/ ExportStep(p)
BY DEF Next, Portable, InPlace, RelayStep, DamageStep, CreateStep, RestoreStep, EndStep, BackupStep,
       UnpackStep, ExportStep

\* The store after the relay has appended or indexed an event.
LEMMA StoreTypes ==
  ASSUME NEW st \in Stores
  PROVE  /\ EmptyStore \in Stores
         /\ \A e \in Events : /\ Appended(st, e) \in Stores
                              /\ Appended(st, e).map = Append(st.map, e)
                              /\ Appended(st, e).indexed = st.indexed
         /\ Indexed(st) \in Stores /\ Indexed(st).map = st.map
         /\ Scan(st) \in Seq(Lines) /\ Len(Scan(st)) = Len(st.map)
         /\ \A i \in 1..Len(st.map) : Scan(st)[i] = [offset |-> i, event |-> st.map[i]]
<1>1. EmptyStore \in Stores
  BY DEF EmptyStore, Stores
<1>2. \A e \in Events : /\ Appended(st, e) \in Stores
                        /\ Appended(st, e).map = Append(st.map, e)
                        /\ Appended(st, e).indexed = st.indexed
  <2> SUFFICES ASSUME NEW e \in Events
               PROVE  /\ [st EXCEPT !.map = Append(@, e)] \in Stores
                      /\ [st EXCEPT !.map = Append(@, e)].map = Append(st.map, e)
                      /\ [st EXCEPT !.map = Append(@, e)].indexed = st.indexed
    BY DEF Appended
  <2>1. Append(st.map, e) \in Seq(Events)
    BY DEF Stores
  <2> QED
    BY <2>1 DEF Stores
<1>3. Indexed(st) \in Stores /\ Indexed(st).map = st.map
  <2> DEFINE x == {i \in st.indexed : <<st.map[Len(st.map)], st.map[i]>> \notin Replaces}
                    \cup {Len(st.map)}
  <2>1. x \in SUBSET Nat
    BY DEF Stores
  <2>2. Indexed(st) = [st EXCEPT !.indexed = x]
    BY DEF Indexed
  <2> HIDE DEF x
  <2> QED
    BY <2>1, <2>2 DEF Stores
<1>4. /\ Scan(st) \in Seq(Lines) /\ Len(Scan(st)) = Len(st.map)
      /\ \A i \in 1..Len(st.map) : Scan(st)[i] = [offset |-> i, event |-> st.map[i]]
  <2>1. st.map \in Seq(Events) /\ DOMAIN st.map = 1..Len(st.map) /\ Len(st.map) \in Nat
    BY DEF Stores
  <2>2. \A i \in 1..Len(st.map) : [offset |-> i, event |-> st.map[i]] \in Lines
    BY <2>1 DEF Lines
  <2> QED
    BY <2>1, <2>2 DEF Scan
<1> QED
  BY <1>1, <1>2, <1>3, <1>4

\* The relay writes to its store only.
LEMMA RelayType ==
  ASSUME TypeInv, RelayStep
  PROVE  TypeInv' /\ UNCHANGED <<files, job, damaged>>
<1>1. source' \in Stores
  <2>1. CASE RelayAppend
    BY <2>1, StoreTypes DEF RelayAppend, TypeInv
  <2>2. CASE RelayIndex
    BY <2>2, StoreTypes DEF RelayIndex, TypeInv
  <2>3. CASE RelayCrash
    BY <2>3 DEF RelayCrash, TypeInv
  <2> QED BY <2>1, <2>2, <2>3 DEF RelayStep
<1>2. UNCHANGED <<files, job, damaged>>
  BY DEF RelayStep, RelayAppend, RelayIndex, RelayCrash
<1> QED
  BY <1>1, <1>2 DEF TypeInv, FilesTyped, Present, files

\* A command's step gives one process a job.
LEMMA JobStep ==
  ASSUME TypeInv, NEW p \in Procs, NEW j \in Jobs, job' = [job EXCEPT ![p] = j]
  PROVE  job' \in [Procs -> Jobs] /\ job'[p] = j /\ \A q \in Procs : q # p => job'[q] = job[q]
BY DEF TypeInv

\* No command takes a file away.
NothingLost ==
  /\ portable # None => portable' # None
  /\ exported.lines # None => exported'.lines # None
  /\ bundle.map # None => bundle'.map # None
  /\ bundle.indexed # None => bundle'.indexed # None

\* What the other processes have written is still there.
LEMMA PresentKept ==
  ASSUME TypeInv, NEW p \in Procs, NothingLost, \A q \in Procs : q # p => job'[q] = job[q],
         bundle'.manifest # None => bundle'.map # None /\ bundle'.indexed # None,
         job'[p].cmd = "restore" => portable' # None,
         job'[p].cmd = "export" /\ job'[p].step = "lines" => exported'.lines # None,
         job'[p].cmd = "backup" /\ job'[p].step # "map" => bundle'.map # None,
         job'[p].cmd = "backup" /\ job'[p].step \in {"checksums", "manifest"} => bundle'.indexed # None
  PROVE  Present'
BY DEF TypeInv, Present, NothingLost

\* What a creation writes.
LEMMA CreateType ==
  ASSUME TypeInv, NEW p \in Procs, CreateStep(p)
  PROVE  /\ TypeInv'
         /\ Quiet /\ UNCHANGED <<restored, bundle, target, exported, damaged>>
         /\ job'[p].cmd \in {"create", "idle"} /\ \A q \in Procs : q # p => job'[q] = job[q]
<1>0. Quiet /\ UNCHANGED <<restored, bundle, target, exported, damaged>>
  BY DEF CreateStep, BeginCreate, CreateScan, CreateLine, CreateManifest, Publish, files
<1>1. source \in Stores /\ portable \in Option(Backups) /\ job[p] \in Jobs /\ Idle \in Jobs
  BY DEF TypeInv, FilesTyped, Jobs
<1> SUFFICES /\ portable' \in Option(Backups) /\ (portable # None => portable' # None)
             /\ \E j \in CreateJobs \cup {Idle} : job' = [job EXCEPT ![p] = j]
  <2>1. CreateJobs \cup {Idle} \subseteq Jobs /\ \A j \in CreateJobs \cup {Idle} : j.cmd \in {"create", "idle"}
    BY DEF Jobs, CreateJobs, Idle
  <2>2. /\ job' \in [Procs -> Jobs] /\ job'[p].cmd \in {"create", "idle"}
        /\ \A q \in Procs : q # p => job'[q] = job[q]
    BY <2>1, JobStep
  <2>3. Present'
    BY <1>0, <2>2, PresentKept DEF NothingLost, TypeInv, Present
  <2> QED
    BY <1>0, <2>2, <2>3 DEF TypeInv, FilesTyped, Quiet
<1>2. CASE BeginCreate(p)
  <2>1. PICK url \in Urls :
          Begin(p, [cmd |-> "create", step |-> "scan", url |-> url, left |-> <<>>,
                    stage |-> [lines |-> <<>>, manifest |-> None]])
    BY <1>2 DEF BeginCreate
  <2>2. [lines |-> <<>>, manifest |-> None] \in Backups
    BY OptionFacts DEF Backups
  <2>3. [cmd |-> "create", step |-> "scan", url |-> url, left |-> <<>>,
         stage |-> [lines |-> <<>>, manifest |-> None]] \in CreateJobs
    BY <2>2 DEF CreateJobs
  <2> QED
    BY <1>1, <1>2, <2>1, <2>3 DEF BeginCreate, Begin, files
<1>3. CASE CreateScan(p)
  <2>1. job[p] \in CreateJobs /\ Scan(source) \in Seq(Lines)
    BY <1>1, <1>3, JobKinds, StoreTypes DEF CreateScan, Doing
  <2>2. [job[p] EXCEPT !.step = "lines", !.left = Scan(source)] \in CreateJobs
    BY <2>1, CreateScanned
  <2> QED
    BY <1>1, <1>3, <2>2 DEF CreateScan, Step, files
<1>4. CASE CreateLine(p)
  <2>1. job[p] \in CreateJobs /\ job[p].left # <<>>
    BY <1>1, <1>4, JobKinds DEF CreateLine, Doing
  <2>2. job[p].left \in Seq(Lines) /\ job[p].stage.lines \in Seq(Lines)
    BY <2>1 DEF CreateJobs, Backups
  <2>3. Tail(job[p].left) \in Seq(Lines) /\ Append(job[p].stage.lines, Head(job[p].left)) \in Seq(Lines)
    BY <2>1, <2>2
  <2>4. [job[p] EXCEPT !.left = Tail(@), !.stage.lines = Append(@, Head(job[p].left))] \in CreateJobs
    BY <2>1, <2>3, CreateWritten
  <2> QED
    BY <1>1, <1>4, <2>4 DEF CreateLine, Step, files
<1>5. CASE CreateManifest(p)
  <2>1. job[p] \in CreateJobs
    BY <1>1, <1>5, JobKinds DEF CreateManifest, Doing
  <2>2. job[p].url \in Urls /\ job[p].stage.lines \in Seq(Lines)
    BY <2>1 DEF CreateJobs, Backups
  <2>3. Some(Manifest(job[p].url, job[p].stage.lines)) \in Option(Manifests)
    BY <2>2, OptionFacts DEF Manifests
  <2>4. [job[p] EXCEPT !.step = "publish",
           !.stage.manifest = Some(Manifest(job[p].url, job[p].stage.lines))] \in CreateJobs
    BY <2>1, <2>2, <2>3, CreateSealed
  <2> QED
    BY <1>1, <1>5, <2>4 DEF CreateManifest, Step, files
<1>6. CASE Publish(p)
  <2>1. job[p] \in CreateJobs
    BY <1>1, <1>6, JobKinds DEF Publish, Doing
  <2>2. job[p].stage \in Backups
    BY <2>1 DEF CreateJobs
  <2>3. Some(job[p].stage) \in Option(Backups)
    BY <2>2, OptionFacts
  <2> QED
    BY <1>6, <2>3 DEF Publish, Step
<1> QED
  BY <1>2, <1>3, <1>4, <1>5, <1>6 DEF CreateStep

\* What a restore writes.
LEMMA RestoreType ==
  ASSUME TypeInv, NEW p \in Procs, RestoreStep(p)
  PROVE  /\ TypeInv'
         /\ Quiet /\ UNCHANGED <<portable, bundle, target, exported, damaged>>
         /\ job'[p].cmd \in {"restore", "idle"} /\ \A q \in Procs : q # p => job'[q] = job[q]
<1>0. Quiet /\ UNCHANGED <<portable, bundle, target, exported, damaged>>
  BY DEF RestoreStep, BeginRestore, RestoreLine, RestorePublish, files
<1>1. /\ source \in Stores /\ restored \in Option(Stores) /\ portable \in Option(Backups)
      /\ job[p] \in Jobs /\ Idle \in Jobs
  BY DEF TypeInv, FilesTyped, Jobs
<1>5. portable # None
  BY JobKinds DEF TypeInv, Present, RestoreStep, BeginRestore, RestoreLine, RestorePublish, Doing
<1> SUFFICES /\ restored' \in Option(Stores)
             /\ \E j \in RestoreJobs \cup {Idle} : job' = [job EXCEPT ![p] = j]
  <2>1. RestoreJobs \cup {Idle} \subseteq Jobs /\ \A j \in RestoreJobs \cup {Idle} : j.cmd \in {"restore", "idle"}
    BY DEF Jobs, RestoreJobs, Idle
  <2>2. /\ job' \in [Procs -> Jobs] /\ job'[p].cmd \in {"restore", "idle"}
        /\ \A q \in Procs : q # p => job'[q] = job[q]
    BY <2>1, JobStep
  <2>3. Present'
    BY <1>0, <1>5, <2>2, PresentKept DEF NothingLost, TypeInv, Present
  <2> QED
    BY <1>0, <2>2, <2>3 DEF TypeInv, FilesTyped, Quiet
<1>2. CASE BeginRestore(p)
  <2> DEFINE j == [cmd |-> "restore", step |-> "lines", read |-> 0,
                   verified |-> portable[1].manifest[1].count, stage |-> EmptyStore]
  <2>1. portable # None /\ portable[1].manifest # None /\ Begin(p, j)
    BY <1>2 DEF BeginRestore, Verifies
  <2>2. portable[1].manifest[1] \in Manifests
    BY <1>1, <2>1, OptionFacts DEF Backups
  <2>3. portable[1].manifest[1].count \in Nat
    BY <2>2 DEF Manifests, Manifest
  <2>4. EmptyStore \in Stores
    BY <1>1, StoreTypes
  <2>5. j \in RestoreJobs
    BY <2>3, <2>4 DEF RestoreJobs
  <2> QED
    BY <1>1, <1>2, <2>1, <2>5 DEF BeginRestore, Begin, files
<1>3. CASE RestoreLine(p)
  <2> DEFINE st == Indexed(Appended(job[p].stage, NextEvent(p)))
  <2>1. job[p] \in RestoreJobs /\ MoreLines(p)
    BY <1>1, <1>3, JobKinds DEF RestoreLine, Doing
  <2>2. job[p].read \in Nat /\ job[p].stage \in Stores
    BY <2>1 DEF RestoreJobs
  <2>3. NextEvent(p) \in Events
    <3>1. portable[1].lines \in Seq(Lines)
      BY <1>1, <1>5, OptionFacts DEF Backups
    <3>2. portable[1].lines[job[p].read + 1] \in Lines
      BY <2>1, <2>2, <3>1 DEF MoreLines
    <3> QED
      BY <3>2 DEF NextEvent, Lines
  <2>4. st \in Stores
    BY <2>2, <2>3, StoreTypes
  <2> HIDE DEF st
  <2>6. job[p].read + 1 \in Nat
    BY <2>2
  <2>5. [job[p] EXCEPT !.read = job[p].read + 1, !.stage = st] \in RestoreJobs
    BY <2>1, <2>6, <2>4, RestoreJob
  <2> QED
    BY <1>1, <1>3, <2>5 DEF RestoreLine, Step, st, files
<1>4. CASE RestorePublish(p)
  <2>1. job[p] \in RestoreJobs
    BY <1>1, <1>4, JobKinds DEF RestorePublish, Doing
  <2>2. job[p].stage \in Stores
    BY <2>1 DEF RestoreJobs
  <2> QED
    BY <1>4, <2>2, OptionFacts DEF RestorePublish, Step
<1> QED
  BY <1>2, <1>3, <1>4 DEF RestoreStep

\* A command that is refused or fails writes nothing more.
LEMMA EndType ==
  ASSUME TypeInv, NEW p \in Procs, EndStep(p)
  PROVE  /\ TypeInv' /\ Quiet /\ UNCHANGED <<files, damaged>>
         /\ job'[p] = Idle /\ \A q \in Procs : q # p => job'[q] = job[q]
<1>1. Quiet /\ UNCHANGED <<files, damaged>> /\ job' = [job EXCEPT ![p] = Idle]
  BY DEF EndStep, Refuse, Fail, Step
<1>2. Idle \in Jobs /\ Idle.cmd = "idle"
  BY DEF Jobs, Idle
<1>3. /\ job' \in [Procs -> Jobs] /\ job'[p] = Idle
      /\ \A q \in Procs : q # p => job'[q] = job[q]
  BY <1>1, <1>2, JobStep
<1>4. Present'
  BY <1>1, <1>2, <1>3, PresentKept DEF NothingLost, TypeInv, Present, files
<1> QED
  BY <1>1, <1>3, <1>4 DEF TypeInv, FilesTyped, Quiet, files

\* A part of a bundle is written and the others stay.
LEMMA BundleMap ==
  ASSUME NEW b \in Bundles, NEW v \in Option(Seq(Events))
  PROVE  /\ [b EXCEPT !.map = v] \in Bundles /\ [b EXCEPT !.map = v].map = v
         /\ [b EXCEPT !.map = v].indexed = b.indexed
         /\ [b EXCEPT !.map = v].checksums = b.checksums
         /\ [b EXCEPT !.map = v].manifest = b.manifest
BY DEF Bundles

\* So for its index,
LEMMA BundleIndexed ==
  ASSUME NEW b \in Bundles, NEW v \in Option(SUBSET Nat)
  PROVE  /\ [b EXCEPT !.indexed = v] \in Bundles /\ [b EXCEPT !.indexed = v].indexed = v
         /\ [b EXCEPT !.indexed = v].map = b.map
         /\ [b EXCEPT !.indexed = v].checksums = b.checksums
         /\ [b EXCEPT !.indexed = v].manifest = b.manifest
BY DEF Bundles

\* its checksums,
LEMMA BundleChecksums ==
  ASSUME NEW b \in Bundles, NEW v \in Option(Sums)
  PROVE  /\ [b EXCEPT !.checksums = v] \in Bundles /\ [b EXCEPT !.checksums = v].checksums = v
         /\ [b EXCEPT !.checksums = v].map = b.map
         /\ [b EXCEPT !.checksums = v].indexed = b.indexed
         /\ [b EXCEPT !.checksums = v].manifest = b.manifest
BY DEF Bundles

\* and its manifest;
LEMMA BundleManifest ==
  ASSUME NEW b \in Bundles, NEW v \in Option([source : Tenants, sums : Option(Sums)])
  PROVE  /\ [b EXCEPT !.manifest = v] \in Bundles /\ [b EXCEPT !.manifest = v].manifest = v
         /\ [b EXCEPT !.manifest = v].map = b.map
         /\ [b EXCEPT !.manifest = v].indexed = b.indexed
         /\ [b EXCEPT !.manifest = v].checksums = b.checksums
BY DEF Bundles

\* and for the parts of a target.
LEMMA TargetMap ==
  ASSUME NEW b \in Targets, NEW v \in Option(Seq(Events))
  PROVE  /\ [b EXCEPT !.map = v] \in Targets /\ [b EXCEPT !.map = v].map = v
         /\ [b EXCEPT !.map = v].indexed = b.indexed
         /\ [b EXCEPT !.map = v].reported = b.reported
BY DEF Targets

\* A target's index is written.
LEMMA TargetIndexed ==
  ASSUME NEW b \in Targets, NEW v \in Option(SUBSET Nat)
  PROVE  /\ [b EXCEPT !.indexed = v] \in Targets /\ [b EXCEPT !.indexed = v].indexed = v
         /\ [b EXCEPT !.indexed = v].map = b.map
         /\ [b EXCEPT !.indexed = v].reported = b.reported
BY DEF Targets

\* A target is reported.
LEMMA TargetReported ==
  ASSUME NEW b \in Targets, NEW v \in Option(Tenants)
  PROVE  /\ [b EXCEPT !.reported = v] \in Targets /\ [b EXCEPT !.reported = v].reported = v
         /\ [b EXCEPT !.reported = v].map = b.map
         /\ [b EXCEPT !.reported = v].indexed = b.indexed
BY DEF Targets

\* What a directory backup writes.
LEMMA BackupType ==
  ASSUME TypeInv, NEW p \in Procs, BackupStep(p)
  PROVE  /\ TypeInv'
         /\ Quiet /\ UNCHANGED <<portable, restored, target, exported>> /\ damaged \subseteq damaged'
         /\ job'[p].cmd \in {"backup", "idle"} /\ \A q \in Procs : q # p => job'[q] = job[q]
<1>0. Quiet /\ UNCHANGED <<portable, restored, target, exported>> /\ damaged \subseteq damaged'
  BY DEF BackupStep, BeginBackup, CopyMap, CopyIndex, WriteChecksums, WriteManifest, files
<1>1. /\ source \in Stores /\ bundle \in Bundles
      /\ job[p] \in Jobs /\ Idle \in Jobs /\ Idle.cmd = "idle"
  BY DEF TypeInv, FilesTyped, Jobs, Idle
<1>2. /\ Some(source.map) \in Option(Seq(Events)) /\ Some(source.map) # None
      /\ Some(source.indexed) \in Option(SUBSET Nat) /\ Some(source.indexed) # None
      /\ Some(Checksums(bundle)) \in Option(Sums)
      /\ BackupManifest(bundle) \in Option([source : Tenants, sums : Option(Sums)])
  <2>1. Checksums(bundle) \in Sums
    BY <1>1 DEF Bundles, Checksums, Sums
  <2>2. [source |-> Tenant, sums |-> bundle.checksums] \in [source : Tenants, sums : Option(Sums)]
    BY <1>1, BackupAssumption DEF Bundles
  <2>3. source.map \in Seq(Events) /\ source.indexed \in SUBSET Nat
    BY <1>1 DEF Stores
  <2> QED
    BY <2>1, <2>2, <2>3, OptionFacts DEF BackupManifest
<1> DEFINE Good(j) ==
      /\ j \in BackupJobs \cup {Idle}
      /\ bundle' \in Bundles
      /\ bundle.map # None => bundle'.map # None
      /\ bundle.indexed # None => bundle'.indexed # None
      /\ bundle'.manifest # None => bundle'.map # None /\ bundle'.indexed # None
      /\ job' = [job EXCEPT ![p] = j]
      /\ j # Idle /\ j.step # "map" => bundle'.map # None
      /\ j # Idle /\ j.step \in {"checksums", "manifest"} => bundle'.indexed # None
<1> SUFFICES \E j : Good(j)
  <2>1. PICK j : Good(j)
    OBVIOUS
  <2>2. j \in Jobs /\ j.cmd \in {"backup", "idle"} /\ (j.cmd = "backup" => j # Idle)
    BY <2>1 DEF Jobs, BackupJobs, Idle
  <2>3. job' \in [Procs -> Jobs] /\ job'[p] = j /\ \A q \in Procs : q # p => job'[q] = job[q]
    BY <2>1, <2>2, JobStep
  <2>4. Present'
    BY <1>0, <2>1, <2>2, <2>3, PresentKept DEF NothingLost
  <2> QED
    BY <1>0, <2>1, <2>2, <2>3, <2>4 DEF TypeInv, FilesTyped, Quiet
<1>3. CASE BeginBackup(p)
  <2>1. [cmd |-> "backup", step |-> "map"] \in BackupJobs
    BY DEF BackupJobs
  <2>2. UNCHANGED bundle /\ job' = [job EXCEPT ![p] = [cmd |-> "backup", step |-> "map"]]
    BY <1>3 DEF BeginBackup, Begin, files
  <2>3. Good([cmd |-> "backup", step |-> "map"])
    BY <1>1, <2>1, <2>2 DEF TypeInv, Present
  <2> QED BY <2>3
<1>4. CASE CopyMap(p)
  <2>1. job[p] \in BackupJobs
    BY <1>1, <1>4, JobKinds DEF CopyMap, Doing
  <2>2. [job[p] EXCEPT !.step = "index"] \in BackupJobs /\ [job[p] EXCEPT !.step = "index"].step = "index"
    BY <2>1, BackupJob
  <2>3. /\ bundle' = [bundle EXCEPT !.map = Some(source.map)]
        /\ job' = [job EXCEPT ![p] = [job[p] EXCEPT !.step = "index"]]
    BY <1>4 DEF CopyMap, Step
  <2>4. /\ bundle' \in Bundles /\ bundle'.map # None /\ bundle'.indexed = bundle.indexed
        /\ bundle'.manifest = bundle.manifest
    BY <1>1, <1>2, <2>3, BundleMap
  <2>5. Good([job[p] EXCEPT !.step = "index"])
    BY <2>2, <2>3, <2>4 DEF TypeInv, Present
  <2> QED BY <2>5
<1>5. CASE CopyIndex(p)
  <2>1. job[p] \in BackupJobs /\ bundle.map # None
    BY <1>1, <1>5, JobKinds DEF CopyIndex, Doing, TypeInv, Present
  <2>2. [job[p] EXCEPT !.step = "checksums"] \in BackupJobs
    BY <2>1, BackupJob
  <2>3. /\ bundle' = [bundle EXCEPT !.indexed = Some(source.indexed)]
        /\ job' = [job EXCEPT ![p] = [job[p] EXCEPT !.step = "checksums"]]
    BY <1>5 DEF CopyIndex, Step
  <2>4. bundle' \in Bundles /\ bundle'.map # None /\ bundle'.indexed # None
    BY <1>1, <1>2, <2>1, <2>3, BundleIndexed
  <2>5. Good([job[p] EXCEPT !.step = "checksums"])
    BY <2>2, <2>3, <2>4
  <2> QED BY <2>5
<1>6. CASE WriteChecksums(p)
  <2>1. job[p] \in BackupJobs /\ bundle.map # None /\ bundle.indexed # None
    BY <1>1, <1>6, JobKinds DEF WriteChecksums, Doing, TypeInv, Present
  <2>2. [job[p] EXCEPT !.step = "manifest"] \in BackupJobs
    BY <2>1, BackupJob
  <2>3. /\ bundle' = [bundle EXCEPT !.checksums = Some(Checksums(bundle))]
        /\ job' = [job EXCEPT ![p] = [job[p] EXCEPT !.step = "manifest"]]
    BY <1>6 DEF WriteChecksums, Step
  <2>4. bundle' \in Bundles /\ bundle'.map # None /\ bundle'.indexed # None
    BY <1>1, <1>2, <2>1, <2>3, BundleChecksums
  <2>5. Good([job[p] EXCEPT !.step = "manifest"])
    BY <2>2, <2>3, <2>4
  <2> QED BY <2>5
<1>7. CASE WriteManifest(p)
  <2>1. job[p] \in BackupJobs /\ bundle.map # None /\ bundle.indexed # None
    BY <1>1, <1>7, JobKinds DEF WriteManifest, Doing, TypeInv, Present
  <2>2. /\ bundle' = [bundle EXCEPT !.manifest = BackupManifest(bundle)]
        /\ job' = [job EXCEPT ![p] = Idle]
    BY <1>7 DEF WriteManifest, Step
  <2>3. bundle' \in Bundles /\ bundle'.map # None /\ bundle'.indexed # None
    BY <1>1, <1>2, <2>1, <2>2, BundleManifest
  <2>4. Good(Idle)
    BY <2>2, <2>3
  <2> QED BY <2>4
<1> QED
  BY <1>3, <1>4, <1>5, <1>6, <1>7 DEF BackupStep

\* What a directory restore writes.
LEMMA UnpackType ==
  ASSUME TypeInv, NEW p \in Procs, UnpackStep(p)
  PROVE  /\ TypeInv'
         /\ Quiet /\ UNCHANGED <<portable, restored, bundle, exported>> /\ damaged \subseteq damaged'
         /\ job'[p].cmd \in {"unpack", "idle"} /\ \A q \in Procs : q # p => job'[q] = job[q]
<1>0. Quiet /\ UNCHANGED <<portable, restored, bundle, exported>> /\ damaged \subseteq damaged'
  BY DEF UnpackStep, BeginUnpack, UnpackMap, UnpackIndex, UnpackScan, files
<1>1. /\ bundle \in Bundles /\ target \in Targets
      /\ job[p] \in Jobs /\ Idle \in Jobs /\ Idle.cmd = "idle"
  BY DEF TypeInv, FilesTyped, Jobs, Idle
<1>2. bundle.map \in Option(Seq(Events)) /\ bundle.indexed \in Option(SUBSET Nat)
  BY <1>1 DEF Bundles
<1> SUFFICES target' \in Targets /\ \E j \in UnpackJobs \cup {Idle} : job' = [job EXCEPT ![p] = j]
  <2>1. UnpackJobs \cup {Idle} \subseteq Jobs /\ \A j \in UnpackJobs \cup {Idle} : j.cmd \in {"unpack", "idle"}
    BY DEF Jobs, UnpackJobs, Idle
  <2>2. /\ job' \in [Procs -> Jobs] /\ job'[p].cmd \in {"unpack", "idle"}
        /\ \A q \in Procs : q # p => job'[q] = job[q]
    BY <2>1, JobStep
  <2>3. Present'
    BY <1>0, <2>2, PresentKept DEF NothingLost, TypeInv, Present
  <2> QED
    BY <1>0, <2>2, <2>3 DEF TypeInv, FilesTyped, Quiet
<1>3. CASE BeginUnpack(p)
  <2>1. PICK t \in Tenants : Begin(p, [cmd |-> "unpack", step |-> "map", tenant |-> t])
    BY <1>3 DEF BeginUnpack
  <2>2. [cmd |-> "unpack", step |-> "map", tenant |-> t] \in UnpackJobs
    BY DEF UnpackJobs
  <2> QED
    BY <1>1, <1>3, <2>1, <2>2 DEF BeginUnpack, Begin, files
<1>4. CASE UnpackMap(p)
  <2>1. job[p] \in UnpackJobs
    BY <1>1, <1>4, JobKinds DEF UnpackMap, Doing
  <2>2. [job[p] EXCEPT !.step = "index"] \in UnpackJobs
    BY <2>1, UnpackJob
  <2>3. target' \in Targets
    BY <1>1, <1>2, <1>4, TargetMap DEF UnpackMap
  <2> QED
    BY <1>4, <2>2, <2>3 DEF UnpackMap, Step
<1>5. CASE UnpackIndex(p)
  <2>1. job[p] \in UnpackJobs
    BY <1>1, <1>5, JobKinds DEF UnpackIndex, Doing
  <2>2. [job[p] EXCEPT !.step = "scan"] \in UnpackJobs
    BY <2>1, UnpackJob
  <2>3. target' \in Targets
    BY <1>1, <1>2, <1>5, TargetIndexed DEF UnpackIndex
  <2> QED
    BY <1>5, <2>2, <2>3 DEF UnpackIndex, Step
<1>6. CASE UnpackScan(p)
  <2>1. job[p] \in UnpackJobs
    BY <1>1, <1>6, JobKinds DEF UnpackScan, Doing
  <2>2. Some(job[p].tenant) \in Option(Tenants)
    BY <2>1, OptionFacts DEF UnpackJobs
  <2>3. target' \in Targets
    BY <1>1, <2>2, <1>6, TargetReported DEF UnpackScan
  <2> QED
    BY <1>6, <2>3 DEF UnpackScan, Step
<1> QED
  BY <1>3, <1>4, <1>5, <1>6 DEF UnpackStep

\* The parts of an export.
LEMMA ExportLines ==
  ASSUME NEW x \in Exports, NEW l \in Seq(Written)
  PROVE  /\ [x EXCEPT !.lines = Some(l)] \in Exports
         /\ [x EXCEPT !.lines = Some(l)].lines = Some(l)
         /\ [x EXCEPT !.lines = Some(l)].manifest = x.manifest
<1>1. Some(l) \in Option(Seq(Written))
  BY OptionFacts
<1> QED
  BY <1>1 DEF Exports

\* A line is added to an export.
LEMMA ExportMore ==
  ASSUME NEW x \in Exports, x.lines # None, NEW l \in Seq(Written)
  PROVE  /\ [x EXCEPT !.lines[1] = l] \in Exports
         /\ [x EXCEPT !.lines[1] = l].lines # None
         /\ [x EXCEPT !.lines[1] = l].lines[1] = l
         /\ [x EXCEPT !.lines[1] = l].manifest = x.manifest
<1>1. PICK k \in Seq(Written) : x.lines = Some(k)
  BY OptionFacts DEF Exports
<1>2. [x.lines EXCEPT ![1] = l] = Some(l)
  BY <1>1 DEF Some
<1>3. [x EXCEPT !.lines[1] = l] = [x EXCEPT !.lines = [x.lines EXCEPT ![1] = l]]
  OBVIOUS
<1> QED
  <2>1. [x EXCEPT !.lines[1] = l] = [x EXCEPT !.lines = Some(l)]
    BY <1>2, <1>3
  <2>2. Some(l) # None /\ Some(l)[1] = l
    BY SomeFacts
  <2>3. /\ [x EXCEPT !.lines = Some(l)] \in Exports
        /\ [x EXCEPT !.lines = Some(l)].lines = Some(l)
        /\ [x EXCEPT !.lines = Some(l)].manifest = x.manifest
    BY ExportLines
  <2> QED
    BY <2>1, <2>2, <2>3

\* An export gets its manifest.
LEMMA ExportDone ==
  ASSUME NEW x \in Exports, NEW n \in Nat, NEW l \in Seq(Written)
  PROVE  /\ [x EXCEPT !.manifest = ExportDigest(n, l)] \in Exports
         /\ [x EXCEPT !.manifest = ExportDigest(n, l)].lines = x.lines
         /\ [x EXCEPT !.manifest = ExportDigest(n, l)].manifest # None
         /\ [x EXCEPT !.manifest = ExportDigest(n, l)].manifest[1] = [count |-> n, sha |-> l]
<1>1. [count |-> n, sha |-> l] \in [count : Nat, sha : Seq(Written)]
  OBVIOUS
<1>2. /\ ExportDigest(n, l) \in Option([count : Nat, sha : Seq(Written)])
      /\ ExportDigest(n, l) # None
      /\ ExportDigest(n, l)[1] = [count |-> n, sha |-> l]
  BY <1>1, OptionFacts DEF ExportDigest
<1> QED
  BY <1>2 DEF Exports

\* A write at a position fills the file up to it with holes; at the end of the
\* file it appends.
LEMMA WriteAtFacts ==
  ASSUME NEW l \in Seq(Written), NEW n \in Nat \ {0}, NEW e \in Events
  PROVE  /\ WriteAt(l, n, e) \in Seq(Written)
         /\ Len(l) = n - 1 => /\ Len(WriteAt(l, n, e)) = n
                             /\ WriteAt(l, n, e)[n] = e
                             /\ \A i \in 1..(n - 1) : WriteAt(l, n, e)[i] = l[i]
<1>1. Len(l) \in Nat /\ DOMAIN l = 1..Len(l) /\ \A i \in 1..Len(l) : l[i] \in Written
  OBVIOUS
<1>2. PICK m \in Nat : DOMAIN l \cup 1..n = 1..m /\ m >= n /\ (Len(l) = n - 1 => m = n)
  <2>1. CASE Len(l) > n
    BY <1>1, <2>1
  <2>2. CASE Len(l) <= n
    BY <1>1, <2>2
  <2> QED
    BY <1>1, <2>1, <2>2
<1>3. e \in Written /\ Hole \in Written
  BY DEF Written
<1> DEFINE f(i) == IF i = n THEN e ELSE IF i \in DOMAIN l THEN l[i] ELSE Hole
<1>4. WriteAt(l, n, e) = [i \in 1..m |-> f(i)]
  BY <1>2 DEF WriteAt
<1>5. \A i \in 1..m : f(i) \in Written
  BY <1>1, <1>3
<1>6. f(n) = e /\ (Len(l) = n - 1 => \A i \in 1..(n - 1) : f(i) = l[i])
  BY <1>1
<1> HIDE DEF f
<1>7. WriteAt(l, n, e) \in Seq(Written) /\ Len(WriteAt(l, n, e)) = m
  BY <1>4, <1>5
<1>8. \A i \in 1..m : WriteAt(l, n, e)[i] = f(i)
  BY <1>4
<1>9. n \in 1..m /\ \A i \in 1..(n - 1) : i \in 1..m
  BY <1>2
<1> QED
  BY <1>2, <1>6, <1>7, <1>8, <1>9

\* What an export writes.
LEMMA ExportType ==
  ASSUME TypeInv, NEW p \in Procs, ExportStep(p)
  PROVE  /\ TypeInv'
         /\ Quiet /\ UNCHANGED <<portable, restored, bundle, target>> /\ damaged \subseteq damaged'
         /\ job'[p].cmd \in {"export", "idle"} /\ \A q \in Procs : q # p => job'[q] = job[q]
<1>0. Quiet /\ UNCHANGED <<portable, restored, bundle, target>> /\ damaged \subseteq damaged'
  BY DEF ExportStep, BeginExport, ExportScan, ExportCreate, ExportLine, ExportManifest, files
<1>1. /\ source \in Stores /\ source.map \in Seq(Events) /\ exported \in Exports
      /\ job[p] \in Jobs /\ Idle \in Jobs /\ Idle.cmd = "idle"
  BY DEF TypeInv, FilesTyped, Jobs, Idle, Stores
<1> DEFINE Good(j) ==
      /\ j \in ExportJobs \cup {Idle} /\ job' = [job EXCEPT ![p] = j]
      /\ exported' \in Exports
      /\ exported.lines # None => exported'.lines # None
      /\ j # Idle /\ j.step = "lines" => exported'.lines # None
<1> SUFFICES \E j : Good(j)
  <2>1. PICK j : Good(j)
    OBVIOUS
  <2>2. j \in Jobs /\ j.cmd \in {"export", "idle"} /\ (j.cmd = "export" => j # Idle)
    BY <2>1 DEF Jobs, ExportJobs, Idle
  <2>3. job' \in [Procs -> Jobs] /\ job'[p] = j /\ \A q \in Procs : q # p => job'[q] = job[q]
    BY <2>1, <2>2, JobStep
  <2>4. Present'
    BY <1>0, <2>1, <2>2, <2>3, PresentKept DEF NothingLost, TypeInv, Present
  <2> QED
    BY <1>0, <2>1, <2>2, <2>3, <2>4 DEF TypeInv, FilesTyped, Quiet
<1>2. CASE BeginExport(p)
  <2> DEFINE j == [cmd |-> "export", step |-> "scan", events |-> <<>>, written |-> 0]
  <2>1. j \in ExportJobs /\ j.step = "scan"
    BY DEF ExportJobs
  <2>2. UNCHANGED exported /\ job' = [job EXCEPT ![p] = j]
    BY <1>2 DEF BeginExport, Begin, files
  <2> HIDE DEF j
  <2>3. Good(j)
    BY <1>1, <2>1, <2>2
  <2> QED BY <2>3
<1>3. CASE ExportScan(p)
  <2>1. job[p] \in ExportJobs
    BY <1>1, <1>3, JobKinds DEF ExportScan, Doing
  <2>2. PICK j : j = [job[p] EXCEPT !.step = "create", !.events = source.map]
    OBVIOUS
  <2>3. j \in ExportJobs /\ j.step = "create"
    BY <1>1, <2>1, <2>2, ExportScanned
  <2>4. UNCHANGED exported /\ job' = [job EXCEPT ![p] = j]
    BY <1>3, <2>2 DEF ExportScan, Step, files
  <2>5. Good(j)
    BY <1>1, <2>3, <2>4
  <2> QED BY <2>5
<1>4. CASE ExportCreate(p)
  <2>1. job[p] \in ExportJobs
    BY <1>1, <1>4, JobKinds DEF ExportCreate, Doing
  <2>2. PICK j : j = [job[p] EXCEPT !.step = "lines"]
    OBVIOUS
  <2>3. j \in ExportJobs
    BY <2>1, <2>2, ExportCreated
  <2>4. <<>> \in Seq(Written)
    OBVIOUS
  <2>5. exported' = [exported EXCEPT !.lines = Some(<<>>)] /\ job' = [job EXCEPT ![p] = j]
    BY <1>4, <2>2 DEF ExportCreate, Step
  <2>6. exported' \in Exports /\ exported'.lines # None
    BY <1>1, <2>4, <2>5, ExportLines, SomeFacts
  <2>7. Good(j)
    BY <2>3, <2>5, <2>6
  <2> QED BY <2>7
<1>5. CASE ExportLine(p)
  <2>1. job[p] \in ExportJobs /\ exported.lines # None /\ job[p].written < Len(job[p].events)
    BY <1>1, <1>5, JobKinds DEF ExportLine, Doing, TypeInv, Present
  <2>2. PICK n : n = job[p].written + 1
    OBVIOUS
  <2>3. job[p].events \in Seq(Events) /\ job[p].written \in Nat
    BY <2>1 DEF ExportJobs
  <2>4. n \in Nat \ {0} /\ job[p].events[n] \in Events
    BY <2>1, <2>2, <2>3
  <2>5. exported.lines[1] \in Seq(Written)
    BY <1>1, <2>1, OptionFacts DEF Exports
  <2>6. PICK l : l = WriteAt(exported.lines[1], n, job[p].events[n])
    OBVIOUS
  <2>7. l \in Seq(Written)
    BY <2>4, <2>5, <2>6, WriteAtFacts
  <2>8. PICK j : j = [job[p] EXCEPT !.written = n]
    OBVIOUS
  <2>9. j \in ExportJobs
    BY <2>1, <2>4, <2>8, ExportWritten
  <2>10. exported' = [exported EXCEPT !.lines[1] = l] /\ job' = [job EXCEPT ![p] = j]
    BY <1>5, <2>2, <2>6, <2>8 DEF ExportLine, Step
  <2>11. exported' \in Exports /\ exported'.lines # None
    BY <1>1, <2>1, <2>7, <2>10, ExportMore
  <2>12. Good(j)
    BY <2>9, <2>10, <2>11
  <2> QED BY <2>12
<1>6. CASE ExportManifest(p)
  <2>1. job[p] \in ExportJobs /\ exported.lines # None
    BY <1>1, <1>6, JobKinds DEF ExportManifest, Doing, TypeInv, Present
  <2>2. exported.lines[1] \in Seq(Written)
    BY <1>1, <2>1, OptionFacts DEF Exports
  <2>3. Len(job[p].events) \in Nat
    BY <2>1 DEF ExportJobs
  <2>4. /\ exported' = [exported EXCEPT !.manifest = ExportDigest(Len(job[p].events), exported.lines[1])]
        /\ job' = [job EXCEPT ![p] = Idle]
    BY <1>6 DEF ExportManifest, Step
  <2>5. exported' \in Exports /\ exported'.lines # None
    BY <1>1, <2>1, <2>2, <2>3, <2>4, ExportDone
  <2>6. Good(Idle)
    BY <2>4, <2>5
  <2> QED BY <2>6
<1> QED
  BY <1>2, <1>3, <1>4, <1>5, <1>6 DEF ExportStep

\* The lines of a backup change on the disk.
LEMMA DamagedLines ==
  ASSUME NEW o \in Option(Backups), o # None, NEW l \in Seq(Lines)
  PROVE  /\ [o EXCEPT ![1].lines = l] \in Option(Backups)
         /\ [o EXCEPT ![1].lines = l] # None
         /\ [o EXCEPT ![1].lines = l][1].lines = l
         /\ [o EXCEPT ![1].lines = l][1].manifest = o[1].manifest
<1>1. PICK b \in Backups : o = Some(b) /\ o[1] = b
  BY OptionFacts
<1>2. [b EXCEPT !.lines = l] \in Backups /\ [b EXCEPT !.lines = l].lines = l
      /\ [b EXCEPT !.lines = l].manifest = b.manifest
  BY DEF Backups
<1>3. [o EXCEPT ![1].lines = l] = Some([b EXCEPT !.lines = l])
  BY <1>1 DEF Some
<1>4. Some([b EXCEPT !.lines = l]) \in Option(Backups)
  BY <1>2 DEF Option
<1> QED
  BY <1>1, <1>2, <1>3, <1>4, SomeFacts

\* The map of a bundle changes on the disk,
LEMMA DamagedMap ==
  ASSUME NEW b \in Bundles, b.map # None, NEW l \in Seq(Events)
  PROVE  /\ [b EXCEPT !.map[1] = l] \in Bundles
         /\ [b EXCEPT !.map[1] = l].map # None
         /\ [b EXCEPT !.map[1] = l].indexed = b.indexed
         /\ [b EXCEPT !.map[1] = l].checksums = b.checksums
         /\ [b EXCEPT !.map[1] = l].manifest = b.manifest
<1>1. PICK k \in Seq(Events) : b.map = Some(k)
  BY OptionFacts DEF Bundles
<1>2. [b.map EXCEPT ![1] = l] = Some(l)
  BY <1>1 DEF Some
<1>3. [b EXCEPT !.map[1] = l] = [b EXCEPT !.map = [b.map EXCEPT ![1] = l]]
  OBVIOUS
<1>4. Some(l) \in Option(Seq(Events))
  BY OptionFacts
<1> QED
  BY <1>2, <1>3, <1>4, BundleMap, SomeFacts

\* or its index.
LEMMA DamagedIndex ==
  ASSUME NEW b \in Bundles, b.indexed # None
  PROVE  /\ [b EXCEPT !.indexed[1] = {}] \in Bundles
         /\ [b EXCEPT !.indexed[1] = {}].indexed # None
         /\ [b EXCEPT !.indexed[1] = {}].map = b.map
         /\ [b EXCEPT !.indexed[1] = {}].checksums = b.checksums
         /\ [b EXCEPT !.indexed[1] = {}].manifest = b.manifest
<1>1. PICK k \in SUBSET Nat : b.indexed = Some(k)
  BY OptionFacts DEF Bundles
<1>2. [b.indexed EXCEPT ![1] = {}] = Some({})
  BY <1>1 DEF Some
<1>3. [b EXCEPT !.indexed[1] = {}] = [b EXCEPT !.indexed = [b.indexed EXCEPT ![1] = {}]]
  OBVIOUS
<1>4. {} \in SUBSET Nat
  OBVIOUS
<1>5. Some({}) \in Option(SUBSET Nat)
  BY <1>4, OptionFacts
<1> QED
  <2>1. [b EXCEPT !.indexed[1] = {}] = [b EXCEPT !.indexed = Some({})]
    BY <1>2, <1>3
  <2>2. Some({}) # None
    BY SomeFacts
  <2>3. PICK x \in Option(SUBSET Nat) : x = Some({})
    BY <1>5
  <2>4. /\ [b EXCEPT !.indexed = x] \in Bundles
        /\ [b EXCEPT !.indexed = x].indexed = x
        /\ [b EXCEPT !.indexed = x].map = b.map
        /\ [b EXCEPT !.indexed = x].checksums = b.checksums
        /\ [b EXCEPT !.indexed = x].manifest = b.manifest
    BY BundleIndexed
  <2> QED
    BY <2>1, <2>2, <2>3, <2>4

\* Damage leaves sequences of lines or events, the manifests and the jobs.
LEMMA DamageType ==
  ASSUME TypeInv, DamageStep
  PROVE  /\ TypeInv' /\ Quiet /\ UNCHANGED <<restored, target, exported, job>>
         /\ damaged \subseteq damaged'
         /\ \/ /\ UNCHANGED bundle /\ "portable" \in damaged' /\ portable # None
               /\ portable' # None /\ portable'[1].manifest = portable[1].manifest
               /\ Alone("restore") \/ portable'[1].lines = Front(portable[1].lines)
            \/ /\ UNCHANGED portable
               /\ Alone("backup") /\ Alone("unpack")
               /\ bundle.manifest # None /\ bundle'.manifest = bundle.manifest
               /\ bundle'.checksums = bundle.checksums
<1>1. /\ Quiet /\ UNCHANGED <<restored, target, exported, job>> /\ damaged \subseteq damaged'
  BY DEF DamageStep, LosePortableTail, AlterPortable, DamageBundle
<1>2. portable \in Option(Backups) /\ bundle \in Bundles
  BY DEF TypeInv, FilesTyped
<1>3. CASE LosePortableTail
  <2>1. portable # None /\ portable[1].lines # <<>> /\ UNCHANGED bundle /\ "portable" \in damaged'
        /\ portable' = [portable EXCEPT ![1].lines = Front(portable[1].lines)]
    BY <1>3 DEF LosePortableTail
  <2>2. portable[1].lines \in Seq(Lines)
    BY <1>2, <2>1, OptionFacts DEF Backups
  <2>3. Front(portable[1].lines) \in Seq(Lines)
    BY <2>1, <2>2 DEF Front
  <2>4. /\ portable' \in Option(Backups) /\ portable' # None
        /\ portable'[1].lines = Front(portable[1].lines)
        /\ portable'[1].manifest = portable[1].manifest
    BY <1>2, <2>1, <2>3, DamagedLines
  <2>5. TypeInv'
    BY <1>1, <2>1, <2>4 DEF TypeInv, FilesTyped, Present, Quiet
  <2> QED
    BY <1>1, <2>1, <2>4, <2>5
<1>4. CASE AlterPortable
  <2>1. portable # None /\ UNCHANGED bundle /\ "portable" \in damaged' /\ Alone("restore")
    BY <1>4 DEF AlterPortable
  <2>2. PICK l \in {Reverse(portable[1].lines), portable[1].lines \o portable[1].lines} :
          portable' = [portable EXCEPT ![1].lines = l]
    BY <1>4 DEF AlterPortable
  <2>3. portable[1].lines \in Seq(Lines)
    BY <1>2, <2>1, OptionFacts DEF Backups
  <2>4. Reverse(portable[1].lines) \in Seq(Lines)
    BY <2>3 DEF Reverse
  <2>8. portable[1].lines \o portable[1].lines \in Seq(Lines)
    BY <2>3
  <2>5. l \in Seq(Lines)
    BY <2>2, <2>4, <2>8
  <2>6. /\ portable' \in Option(Backups) /\ portable' # None
        /\ portable'[1].manifest = portable[1].manifest
    BY <1>2, <2>1, <2>2, <2>5, DamagedLines
  <2>7. TypeInv'
    BY <1>1, <2>1, <2>6 DEF TypeInv, FilesTyped, Present, Quiet
  <2> QED
    BY <1>1, <2>1, <2>6, <2>7
<1>5. CASE DamageBundle
  <2>1. /\ bundle.manifest # None /\ Alone("backup") /\ Alone("unpack") /\ UNCHANGED portable
        /\ bundle.map # None /\ bundle.indexed # None
    BY <1>5 DEF DamageBundle, TypeInv, Present
  <2>2. /\ bundle' \in Bundles /\ bundle'.map # None /\ bundle'.indexed # None
        /\ bundle'.checksums = bundle.checksums /\ bundle'.manifest = bundle.manifest
    <3>1. CASE bundle.map[1] # <<>> /\ bundle' = [bundle EXCEPT !.map[1] = Front(bundle.map[1])]
      <4>1. bundle.map[1] \in Seq(Events)
        BY <1>2, <2>1, OptionFacts DEF Bundles
      <4>2. Front(bundle.map[1]) \in Seq(Events)
        BY <3>1, <4>1 DEF Front
      <4> QED
        BY <1>2, <2>1, <3>1, <4>2, DamagedMap
    <3>2. CASE bundle' = [bundle EXCEPT !.indexed[1] = {}]
      BY <1>2, <2>1, <3>2, DamagedIndex
    <3> QED
      BY <1>5, <3>1, <3>2 DEF DamageBundle
  <2>3. TypeInv'
    BY <1>1, <2>1, <2>2 DEF TypeInv, FilesTyped, Present, Quiet
  <2> QED
    BY <1>1, <2>1, <2>2, <2>3
<1> QED
  BY <1>3, <1>4, <1>5 DEF DamageStep

-----------------------------------------------------------------------------
(* The relay's log and its index *)

\* The elements of s are the first ones of t.
Pre(s, t) == Len(s) <= Len(t) /\ \A i \in 1..Len(s) : s[i] = t[i]

\* This is what IsPrefix says of sequences.
LEMMA PreIsPrefix ==
  ASSUME NEW S, NEW s \in Seq(S), NEW t \in Seq(S)
  PROVE  IsPrefix(s, t) <=> Pre(s, t)
BY DEF IsPrefix, Pre

\* A prefix of a prefix is one.
LEMMA PreTrans ==
  ASSUME NEW S, NEW s \in Seq(S), NEW t \in Seq(S), NEW u \in Seq(S), Pre(s, t), Pre(t, u)
  PROVE  Pre(s, u)
BY DEF Pre

\* Writing the first element that is left moves it from one side to the other.
LEMMA PreMove ==
  ASSUME NEW S, NEW s \in Seq(S), NEW l \in Seq(S), l # <<>>, NEW t \in Seq(S), Pre(s \o l, t)
  PROVE  Pre(Append(s, Head(l)) \o Tail(l), t)
<1>1. /\ Len(l) \in Nat \ {0} /\ Len(s) \in Nat /\ Tail(l) \in Seq(S) /\ Append(s, Head(l)) \in Seq(S)
      /\ Len(Tail(l)) = Len(l) - 1 /\ Len(Append(s, Head(l))) = Len(s) + 1
  OBVIOUS
<1>2. Len(Append(s, Head(l)) \o Tail(l)) = Len(s \o l) /\ Len(s \o l) = Len(s) + Len(l)
  BY <1>1
<1>3. ASSUME NEW i \in 1..(Len(s) + Len(l))
      PROVE  (Append(s, Head(l)) \o Tail(l))[i] = (s \o l)[i]
  <2>1. CASE i <= Len(s)
    BY <1>1, <2>1
  <2>2. CASE i = Len(s) + 1
    BY <1>1, <2>2
  <2>3. CASE i > Len(s) + 1
    BY <1>1, <2>3
  <2> QED
    BY <1>1, <2>1, <2>2, <2>3
<1> QED
  BY <1>2, <1>3 DEF Pre

\* The positions among the first n that no later one of them replaces: what
\* the index holds when no write was cut short.
Shown(m, n) == {i \in 1..n : \A j \in (i + 1)..n : <<m[j], m[i]>> \notin Replaces}

SourceInv ==
  /\ source.indexed \subseteq 1..Len(source.map)
  /\ writing \in BOOLEAN /\ orphaned \in BOOLEAN
  /\ writing => source.map # <<>>
  /\ ~orphaned =>
       source.indexed = Shown(source.map, IF writing THEN Len(source.map) - 1 ELSE Len(source.map))

\* Only the first n matter to what is shown of them.
LEMMA ShownPre ==
  ASSUME NEW s \in Seq(Events), NEW t \in Seq(Events), NEW n \in Nat,
         n <= Len(s), n <= Len(t), \A i \in 1..n : s[i] = t[i]
  PROVE  Shown(s, n) = Shown(t, n)
<1>1. ASSUME NEW i \in 1..n, NEW j \in (i + 1)..n
      PROVE  s[i] = t[i] /\ s[j] = t[j]
  OBVIOUS
<1> QED
  BY <1>1 DEF Shown

\* Indexing the last event of a store shows it and hides what it replaces.
LEMMA ShownIndexed ==
  ASSUME NEW st \in Stores, st.map # <<>>
  PROVE  /\ st.indexed = Shown(st.map, Len(st.map) - 1) =>
              Indexed(st).indexed = Shown(st.map, Len(st.map))
         /\ st.indexed \subseteq 1..Len(st.map) => Indexed(st).indexed \subseteq 1..Len(st.map)
<1> DEFINE n == Len(st.map)
<1>1. n \in Nat \ {0} /\ st.map \in Seq(Events) /\ st.indexed \in SUBSET Nat
  BY DEF Stores
<1>2. Indexed(st).indexed = {i \in st.indexed : <<st.map[n], st.map[i]>> \notin Replaces} \cup {n}
  BY DEF Indexed, Stores
<1>3. ASSUME st.indexed = Shown(st.map, n - 1)
      PROVE  Indexed(st).indexed = Shown(st.map, n)
  <2> DEFINE m == st.map
  <2> HIDE DEF n, m
  <2>1. ASSUME NEW i \in 1..(n - 1)
        PROVE  (\A j \in (i + 1)..n : <<m[j], m[i]>> \notin Replaces)
                 <=> /\ \A j \in (i + 1)..(n - 1) : <<m[j], m[i]>> \notin Replaces
                     /\ <<m[n], m[i]>> \notin Replaces
    <3>1. \A j : j \in (i + 1)..n <=> j \in (i + 1)..(n - 1) \/ j = n
      BY <1>1
    <3> QED
      BY <3>1
  <2>2. \A i : i \in 1..n <=> i \in 1..(n - 1) \/ i = n
    BY <1>1
  <2>3. (n + 1)..n = {} /\ n \notin 1..(n - 1)
    BY <1>1
  <2>4. Shown(m, n) = {i \in Shown(m, n - 1) : <<m[n], m[i]>> \notin Replaces} \cup {n}
    BY <2>1, <2>2, <2>3 DEF Shown
  <2> QED
    BY <1>2, <1>3, <2>4 DEF n, m
<1>4. ASSUME st.indexed \subseteq 1..n
      PROVE  Indexed(st).indexed \subseteq 1..n
  BY <1>1, <1>2, <1>4
<1> QED
  BY <1>3, <1>4

\* The relay's steps keep what its index holds, and its log only grows.
LEMMA SourceRelay ==
  ASSUME TypeInv, SourceInv, RelayStep
  PROVE  SourceInv' /\ Pre(source.map, source'.map)
<1>1. /\ source \in Stores /\ source.map \in Seq(Events) /\ source.indexed \in SUBSET Nat
      /\ Len(source.map) \in Nat
  BY DEF TypeInv, Stores
<1>2. CASE RelayAppend
  <2>1. PICK e \in Events : source' = Appended(source, e)
    BY <1>2 DEF RelayAppend
  <2>2. source'.map = Append(source.map, e) /\ source'.indexed = source.indexed
    BY <1>1, <2>1, StoreTypes
  <2>3. ~writing /\ writing' = TRUE /\ orphaned' = orphaned
    BY <1>2 DEF RelayAppend
  <2>4. /\ source'.map \in Seq(Events) /\ Len(source'.map) = Len(source.map) + 1
        /\ \A i \in 1..Len(source.map) : source'.map[i] = source.map[i]
        /\ source'.map # <<>>
    BY <1>1, <2>2
  <2>5. Shown(source'.map, Len(source.map)) = Shown(source.map, Len(source.map))
    BY <1>1, <2>4, ShownPre
  <2>6. Len(source'.map) - 1 = Len(source.map)
    BY <1>1, <2>4
  <2>7. ~orphaned' => source'.indexed = Shown(source'.map, Len(source'.map) - 1)
    BY <2>2, <2>3, <2>5, <2>6 DEF SourceInv
  <2>8. source'.indexed \subseteq 1..Len(source'.map)
    BY <1>1, <2>2, <2>4 DEF SourceInv
  <2> QED
    BY <1>1, <2>3, <2>4, <2>7, <2>8 DEF SourceInv, Pre
<1>3. CASE RelayIndex
  <2>1. writing /\ writing' = FALSE /\ orphaned' = orphaned /\ source' = Indexed(source)
    BY <1>3 DEF RelayIndex
  <2>2. source'.map = source.map /\ source.map # <<>>
    BY <1>1, <2>1, StoreTypes DEF SourceInv
  <2>3. source'.indexed \subseteq 1..Len(source'.map)
    BY <1>1, <2>1, <2>2, ShownIndexed DEF SourceInv
  <2>4. ~orphaned' => source'.indexed = Shown(source'.map, Len(source'.map))
    BY <1>1, <2>1, <2>2, ShownIndexed DEF SourceInv
  <2>5. Pre(source.map, source'.map)
    BY <1>1, <2>2 DEF Pre
  <2>6. writing' \in BOOLEAN /\ orphaned' \in BOOLEAN
    BY <2>1 DEF SourceInv
  <2> QED
    BY <2>1, <2>3, <2>4, <2>5, <2>6 DEF SourceInv
<1>4. CASE RelayCrash
  <2>1. writing' = FALSE /\ orphaned' = TRUE /\ source' = source
    BY <1>4 DEF RelayCrash
  <2>2. Pre(source.map, source'.map)
    BY <1>1, <2>1 DEF Pre
  <2> QED
    BY <2>1, <2>2 DEF SourceInv
<1> QED
  BY <1>2, <1>3, <1>4 DEF RelayStep

\* The jobs of a command are the ones there were before, or are gone.
Keeps(cmd) == \A q \in Procs : job'[q].cmd = cmd => job'[q] = job[q]

\* What a step of one command leaves to the others.
LEMMA Effects ==
  ASSUME TypeInv, SourceInv, Next
  PROVE  /\ TypeInv' /\ SourceInv' /\ Pre(source.map, source'.map)
         /\ RelayStep \/ Quiet
         /\ damaged \subseteq damaged'
         /\ (UNCHANGED exported /\ Keeps("export")) \/ \E p \in Procs : ExportStep(p)
         /\ (UNCHANGED restored /\ Keeps("restore")) \/ \E p \in Procs : RestoreStep(p)
         /\ Keeps("create") \/ \E p \in Procs : CreateStep(p)
         /\ Keeps("backup") \/ \E p \in Procs : BackupStep(p)
         /\ (UNCHANGED target /\ Keeps("unpack")) \/ \E p \in Procs : UnpackStep(p)
         /\ UNCHANGED portable \/ DamageStep \/ \E p \in Procs : CreateStep(p)
         /\ UNCHANGED bundle \/ DamageStep \/ \E p \in Procs : BackupStep(p)
<1>1. Quiet => SourceInv' /\ Pre(source.map, source'.map)
  BY DEF Quiet, SourceInv, TypeInv, Stores, Pre
<1>2. Idle.cmd = "idle"
  BY DEF Idle
<1>3. CASE RelayStep
  BY <1>3, RelayType, SourceRelay DEF Keeps, files
<1>4. CASE DamageStep
  BY <1>1, <1>4, DamageType DEF Keeps
<1>5. ASSUME NEW p \in Procs, CreateStep(p)
      PROVE  /\ Keeps("export") /\ Keeps("restore") /\ Keeps("backup") /\ Keeps("unpack")
             /\ UNCHANGED <<restored, bundle, target, exported, damaged>> /\ TypeInv' /\ Quiet
  BY <1>5, CreateType DEF Keeps
<1>6. ASSUME NEW p \in Procs, RestoreStep(p)
      PROVE  /\ Keeps("export") /\ Keeps("create") /\ Keeps("backup") /\ Keeps("unpack")
             /\ UNCHANGED <<portable, bundle, target, exported, damaged>> /\ TypeInv' /\ Quiet
  BY <1>6, RestoreType DEF Keeps
<1>7. ASSUME NEW p \in Procs, EndStep(p)
      PROVE  /\ Keeps("export") /\ Keeps("create") /\ Keeps("backup") /\ Keeps("unpack")
             /\ Keeps("restore")
             /\ UNCHANGED <<files, damaged>> /\ TypeInv' /\ Quiet
  BY <1>2, <1>7, EndType DEF Keeps
<1>8. ASSUME NEW p \in Procs, BackupStep(p)
      PROVE  /\ Keeps("export") /\ Keeps("create") /\ Keeps("restore") /\ Keeps("unpack")
             /\ UNCHANGED <<portable, restored, target, exported>> /\ damaged \subseteq damaged'
             /\ TypeInv' /\ Quiet
  BY <1>8, BackupType DEF Keeps
<1>9. ASSUME NEW p \in Procs, UnpackStep(p)
      PROVE  /\ Keeps("export") /\ Keeps("create") /\ Keeps("restore") /\ Keeps("backup")
             /\ UNCHANGED <<portable, restored, bundle, exported>> /\ damaged \subseteq damaged'
             /\ TypeInv' /\ Quiet
  BY <1>9, UnpackType DEF Keeps
<1>10. ASSUME NEW p \in Procs, ExportStep(p)
      PROVE  /\ Keeps("unpack") /\ Keeps("create") /\ Keeps("restore") /\ Keeps("backup")
             /\ UNCHANGED <<portable, restored, bundle, target>> /\ damaged \subseteq damaged'
             /\ TypeInv' /\ Quiet
  BY <1>10, ExportType DEF Keeps
<1> QED
  BY <1>1, <1>3, <1>4, <1>5, <1>6, <1>7, <1>8, <1>9, <1>10, StepCases DEF files

-----------------------------------------------------------------------------
(* Exports *)

\* What holds of an export while no two of them race: it works alone, and its
\* file is as long as what it has written of the scan.
ExportJobInv(p) ==
  job[p].cmd = "export" =>
    /\ exported.manifest = None
    /\ job[p].step # "scan" => Pre(job[p].events, source.map)
    /\ job[p].step = "lines" => /\ Len(exported.lines[1]) = job[p].written
                              /\ Pre(exported.lines[1], job[p].events)
    /\ job[p].step # "lines" => job[p].written = 0

ExportedInv ==
  exported.manifest # None =>
    /\ exported.lines # None
    /\ exported.manifest[1] = [count |-> Len(exported.lines[1]), sha |-> exported.lines[1]]
    /\ Pre(exported.lines[1], source.map)

OneExport == \A p, q \in Procs : job[p].cmd = "export" /\ job[q].cmd = "export" => p = q

ExportInv == OneExport /\ ExportedInv /\ \A p \in Procs : ExportJobInv(p)

\* Events are what may be written.
LEMMA EventsWritten ==
  ASSUME NEW s \in Seq(Events)
  PROVE  s \in Seq(Written)
BY DEF Written

\* A step that is no step of an export leaves it be.
LEMMA ExportKept ==
  ASSUME TypeInv, TypeInv', ExportInv, Pre(source.map, source'.map), UNCHANGED exported, Keeps("export")
  PROVE  ExportInv'
<1>0. /\ source.map \in Seq(Events) /\ source'.map \in Seq(Events) /\ exported \in Exports
      /\ source.map \in Seq(Written) /\ source'.map \in Seq(Written)
  BY EventsWritten DEF TypeInv, Stores, FilesTyped
<1>1. ASSUME NEW p \in Procs
      PROVE  ExportJobInv(p)'
  <2> SUFFICES ASSUME job'[p].cmd = "export"
               PROVE  ExportJobInv(p)'
    BY DEF ExportJobInv
  <2>1. job'[p] = job[p] /\ job[p].cmd = "export" /\ ExportJobInv(p)
    BY DEF Keeps, ExportInv
  <2>2. job[p] \in Jobs
    BY DEF TypeInv
  <2>3. job[p].events \in Seq(Events)
    BY <2>1, <2>2, JobKinds DEF ExportJobs
  <2>4. job[p].step # "scan" => Pre(job[p].events, source'.map)
    BY <1>0, <2>1, <2>3, PreTrans DEF ExportJobInv
  <2> QED
    BY <2>1, <2>4 DEF ExportJobInv
<1>2. ExportedInv'
  <2> SUFFICES ASSUME exported.manifest # None
               PROVE  Pre(exported.lines[1], source'.map)
    BY DEF ExportInv, ExportedInv
  <2>1. exported.lines[1] \in Seq(Written) /\ Pre(exported.lines[1], source.map)
    BY <1>0, OptionFacts DEF ExportInv, ExportedInv, Exports
  <2> QED
    BY <1>0, <2>1, PreTrans
<1>3. OneExport'
  BY DEF ExportInv, OneExport, Keeps
<1> QED
  BY <1>1, <1>2, <1>3 DEF ExportInv

\* An export's own steps, when it did not begin beside another.
LEMMA ExportOwn ==
  ASSUME TypeInv, SourceInv, ExportInv, NEW p \in Procs, ExportStep(p), "export" \notin damaged'
  PROVE  ExportInv' /\ (exported.manifest # None => exported' = exported)
<1>0. /\ source.map \in Seq(Events) /\ source.map \in Seq(Written)
      /\ exported \in Exports /\ job[p] \in Jobs /\ Idle \in Jobs /\ Idle.cmd = "idle"
      /\ source' = source /\ \A q \in Procs : q # p => job'[q] = job[q]
  BY ExportType, EventsWritten DEF TypeInv, Stores, FilesTyped, Quiet, Jobs, Idle
<1>1. ASSUME \A q \in Procs : q # p => job[q].cmd # "export", ExportJobInv(p)', ExportedInv'
      PROVE  ExportInv'
  <2>1. OneExport'
    BY <1>0, <1>1 DEF OneExport
  <2>2. \A q \in Procs : ExportJobInv(q)'
    BY <1>0, <1>1 DEF ExportJobInv
  <2> QED
    BY <1>1, <2>1, <2>2 DEF ExportInv
<1>2. ASSUME UNCHANGED exported
      PROVE  ExportedInv'
  BY <1>0, <1>2 DEF ExportInv, ExportedInv
<1>3. CASE BeginExport(p)
  <2> DEFINE j == [cmd |-> "export", step |-> "scan", events |-> <<>>, written |-> 0]
  <2>1. /\ exported.manifest = None /\ UNCHANGED exported /\ job' = [job EXCEPT ![p] = j]
        /\ \A q \in Procs : job[q].cmd # "export"
    BY <1>3 DEF BeginExport, Begin, Alone, Races, files
  <2>2. j \in Jobs /\ j.step = "scan" /\ j.written = 0
    BY DEF Jobs, ExportJobs
  <2> HIDE DEF j
  <2>3. job'[p] = j
    BY <2>1, <2>2, JobStep
  <2>4. ExportJobInv(p)'
    BY <2>1, <2>2, <2>3 DEF ExportJobInv
  <2> QED
    BY <1>1, <1>2, <2>1, <2>4
<1>4. ASSUME job[p].cmd = "export"
      PROVE  /\ \A q \in Procs : q # p => job[q].cmd # "export"
             /\ exported.manifest = None /\ job[p] \in ExportJobs /\ ExportJobInv(p)
             /\ job[p].events \in Seq(Events) /\ job[p].events \in Seq(Written)
             /\ job[p].written \in Nat
  <2>1. job[p] \in ExportJobs
    BY <1>0, <1>4, JobKinds
  <2>2. job[p].events \in Seq(Events) /\ job[p].written \in Nat
    BY <2>1 DEF ExportJobs
  <2> QED
    BY <1>4, <2>1, <2>2, EventsWritten DEF ExportInv, OneExport, ExportJobInv
<1>5. CASE ExportScan(p)
  <2>1. job[p].cmd = "export" /\ job[p].step = "scan" /\ UNCHANGED exported
    BY <1>5 DEF ExportScan, Doing, files
  <2>2. PICK j : j = [job[p] EXCEPT !.step = "create", !.events = source.map]
    OBVIOUS
  <2>3. j \in ExportJobs /\ j.step = "create" /\ j.events = source.map /\ j.written = job[p].written
    BY <1>0, <1>4, <2>1, <2>2, ExportScanned
  <2>4. job' = [job EXCEPT ![p] = j] /\ j \in Jobs
    BY <1>5, <2>2, <2>3 DEF ExportScan, Step, Jobs
  <2>5. job'[p] = j
    BY <2>4, JobStep
  <2>6. Pre(source.map, source.map) /\ job[p].written = 0
    BY <1>0, <1>4, <2>1 DEF Pre, ExportJobInv
  <2>7. ExportJobInv(p)'
    BY <1>0, <1>4, <2>1, <2>3, <2>5, <2>6 DEF ExportJobInv
  <2> QED
    BY <1>1, <1>2, <1>4, <2>1, <2>7
<1>6. CASE ExportCreate(p)
  <2>1. job[p].cmd = "export" /\ job[p].step = "create"
    BY <1>6 DEF ExportCreate, Doing
  <2>2. PICK j : j = [job[p] EXCEPT !.step = "lines"]
    OBVIOUS
  <2>3. /\ j \in ExportJobs /\ j.step = "lines" /\ j.events = job[p].events
        /\ j.written = job[p].written
    BY <1>4, <2>1, <2>2, ExportCreated
  <2>4. /\ exported' = [exported EXCEPT !.lines = Some(<<>>)]
        /\ job' = [job EXCEPT ![p] = j] /\ j \in Jobs
    BY <1>6, <2>2, <2>3 DEF ExportCreate, Step, Jobs
  <2>5. job'[p] = j
    BY <2>4, JobStep
  <2>6. exported'.lines = Some(<<>>) /\ exported'.manifest = None
    BY <1>0, <1>4, <2>1, <2>4, ExportLines
  <2>7. exported'.lines[1] = <<>>
    BY <2>6, SomeFacts
  <2>8. Pre(<<>>, job[p].events)
    BY <1>4, <2>1 DEF Pre
  <2>9. Pre(job[p].events, source.map) /\ job[p].written = 0
    BY <1>4, <2>1 DEF ExportJobInv
  <2>10. ExportJobInv(p)'
    BY <1>0, <2>3, <2>5, <2>6, <2>7, <2>8, <2>9 DEF ExportJobInv
  <2>11. ExportedInv'
    BY <2>6 DEF ExportedInv
  <2> QED
    BY <1>1, <1>4, <2>1, <2>10, <2>11
<1>7. CASE ExportLine(p)
  <2>1. /\ job[p].cmd = "export" /\ job[p].step = "lines" /\ exported.lines # None
        /\ job[p].written < Len(job[p].events)
    BY <1>7 DEF ExportLine, Doing, TypeInv, Present
  <2>2. PICK n : n = job[p].written + 1
    OBVIOUS
  <2>3. n \in Nat \ {0} /\ n <= Len(job[p].events) /\ n - 1 = job[p].written /\ job[p].events[n] \in Events
    BY <1>4, <2>1, <2>2
  <2>4. /\ exported.lines[1] \in Seq(Written) /\ Len(exported.lines[1]) = n - 1
        /\ Pre(exported.lines[1], job[p].events) /\ Pre(job[p].events, source.map)
    BY <1>0, <1>4, <2>1, <2>3, OptionFacts DEF Exports, ExportJobInv
  <2>5. PICK l : l = WriteAt(exported.lines[1], n, job[p].events[n])
    OBVIOUS
  <2>6. /\ l \in Seq(Written) /\ Len(l) = n /\ l[n] = job[p].events[n]
        /\ \A i \in 1..(n - 1) : l[i] = exported.lines[1][i]
    <3>1. PICK m \in Seq(Written), e \in Events : m = exported.lines[1] /\ e = job[p].events[n]
      BY <2>3, <2>4
    <3>2. /\ WriteAt(m, n, e) \in Seq(Written)
          /\ Len(m) = n - 1 => /\ Len(WriteAt(m, n, e)) = n
                              /\ WriteAt(m, n, e)[n] = e
                              /\ \A i \in 1..(n - 1) : WriteAt(m, n, e)[i] = m[i]
      BY <2>3, WriteAtFacts
    <3> QED
      BY <2>4, <2>5, <3>1, <3>2
  <2>7. Pre(l, job[p].events)
    <3>1. \A i \in 1..n : i \in 1..(n - 1) \/ i = n
      BY <2>3
    <3> QED
      BY <2>3, <2>4, <2>6, <3>1 DEF Pre
  <2>8. PICK j : j = [job[p] EXCEPT !.written = n]
    OBVIOUS
  <2>9. j \in ExportJobs /\ j.written = n /\ j.step = "lines" /\ j.events = job[p].events
    BY <1>4, <2>1, <2>3, <2>8, ExportWritten
  <2>10. /\ exported' = [exported EXCEPT !.lines[1] = l]
         /\ job' = [job EXCEPT ![p] = j] /\ j \in Jobs
    BY <1>7, <2>2, <2>5, <2>8, <2>9 DEF ExportLine, Step, Jobs
  <2>11. job'[p] = j
    BY <2>10, JobStep
  <2>12. exported'.lines[1] = l /\ exported'.manifest = None
    BY <1>0, <1>4, <2>1, <2>6, <2>10, ExportMore
  <2>13. ExportJobInv(p)'
    BY <1>0, <2>4, <2>6, <2>7, <2>9, <2>11, <2>12 DEF ExportJobInv
  <2>14. ExportedInv'
    BY <2>12 DEF ExportedInv
  <2> QED
    BY <1>1, <1>4, <2>1, <2>13, <2>14
<1>8. CASE ExportManifest(p)
  <2>1. /\ job[p].cmd = "export" /\ job[p].step = "lines" /\ exported.lines # None
        /\ job[p].written = Len(job[p].events)
    BY <1>8 DEF ExportManifest, Doing, TypeInv, Present
  <2>2. /\ exported.lines[1] \in Seq(Written) /\ Len(job[p].events) = Len(exported.lines[1])
        /\ Pre(exported.lines[1], job[p].events) /\ Pre(job[p].events, source.map)
        /\ Len(job[p].events) \in Nat
    BY <1>0, <1>4, <2>1, OptionFacts DEF Exports, ExportJobInv
  <2>3. Pre(exported.lines[1], source.map)
    BY <1>0, <1>4, <2>1, <2>2, PreTrans
  <2>4. /\ exported' = [exported EXCEPT !.manifest = ExportDigest(Len(job[p].events), exported.lines[1])]
        /\ job' = [job EXCEPT ![p] = Idle]
    BY <1>8 DEF ExportManifest, Step
  <2>5. job'[p] = Idle
    BY <1>0, <2>4, JobStep
  <2>6. /\ exported'.lines = exported.lines /\ exported'.manifest # None
        /\ exported'.manifest[1] = [count |-> Len(job[p].events), sha |-> exported.lines[1]]
    BY <1>0, <2>2, <2>4, ExportDone
  <2>7. ExportedInv'
    BY <1>0, <2>1, <2>2, <2>3, <2>6 DEF ExportedInv
  <2>8. ExportJobInv(p)'
    BY <1>0, <2>5 DEF ExportJobInv
  <2> QED
    BY <1>1, <1>4, <2>1, <2>7, <2>8
<1> QED
  BY <1>3, <1>5, <1>6, <1>7, <1>8 DEF ExportStep

-----------------------------------------------------------------------------
(* Portable backups *)

CreateInv ==
  \A p \in Procs : job[p].cmd = "create" =>
    /\ Pre(job[p].stage.lines \o job[p].left, Scan(source))
    /\ job[p].step = "scan" => job[p].stage.lines = <<>>
    /\ job[p].step = "publish" => job[p].left = <<>>

PublishedInv ==
  (portable # None /\ "portable" \notin damaged) =>
     /\ portable[1].manifest # None
     /\ Verifies(portable[1], portable[1].manifest[1].url)
     /\ Pre(portable[1].lines, Scan(source))

\* What a scan finds grows with the log.
LEMMA ScanGrows ==
  ASSUME NEW s \in Stores, NEW t \in Stores, Pre(s.map, t.map)
  PROVE  Pre(Scan(s), Scan(t)) /\ Scan(s) \in Seq(Lines) /\ Scan(t) \in Seq(Lines)
<1>1. s.map \in Seq(Events) /\ t.map \in Seq(Events)
  BY DEF Stores
<1>2. /\ Scan(s) \in Seq(Lines) /\ Scan(t) \in Seq(Lines)
      /\ Len(Scan(s)) = Len(s.map) /\ Len(Scan(t)) = Len(t.map)
      /\ \A i \in 1..Len(s.map) : Scan(s)[i] = [offset |-> i, event |-> s.map[i]]
      /\ \A i \in 1..Len(t.map) : Scan(t)[i] = [offset |-> i, event |-> t.map[i]]
  BY StoreTypes
<1>3. Len(s.map) <= Len(t.map) /\ \A i \in 1..Len(s.map) : i \in 1..Len(t.map) /\ s.map[i] = t.map[i]
  BY <1>1 DEF Pre
<1>4. Pre(Scan(s), Scan(t))
  BY <1>2, <1>3 DEF Pre
<1> QED
  BY <1>2, <1>4

\* The types of a creation's parts.
LEMMA CreateParts ==
  ASSUME NEW j \in CreateJobs
  PROVE  /\ j.left \in Seq(Lines) /\ j.stage \in Backups /\ j.stage.lines \in Seq(Lines)
         /\ j.stage.lines \o j.left \in Seq(Lines) /\ j.url \in Urls
<1>1. j.left \in Seq(Lines) /\ j.stage \in Backups /\ j.stage.lines \in Seq(Lines) /\ j.url \in Urls
  BY DEF CreateJobs, Backups
<1> QED
  BY <1>1

\* A step that is no step of a creation leaves its stage be.
LEMMA CreateKept ==
  ASSUME TypeInv, TypeInv', CreateInv, Pre(source.map, source'.map), Keeps("create")
  PROVE  CreateInv'
<1>0. source \in Stores /\ source' \in Stores
  BY DEF TypeInv
<1>1. Pre(Scan(source), Scan(source')) /\ Scan(source) \in Seq(Lines) /\ Scan(source') \in Seq(Lines)
  BY <1>0, ScanGrows
<1>2. ASSUME NEW p \in Procs, job'[p].cmd = "create"
      PROVE  job'[p] = job[p] /\ Pre(job[p].stage.lines \o job[p].left, Scan(source'))
  <2>1. job'[p] = job[p] /\ job[p].cmd = "create" /\ job[p] \in Jobs
    BY <1>2 DEF Keeps, TypeInv
  <2>2. job[p].stage.lines \o job[p].left \in Seq(Lines)
    BY <2>1, JobKinds, CreateParts
  <2>3. Pre(job[p].stage.lines \o job[p].left, Scan(source))
    BY <2>1 DEF CreateInv
  <2> QED
    BY <1>1, <2>1, <2>2, <2>3, PreTrans
<1> QED
  BY <1>2 DEF CreateInv

\* A creation's own steps.
LEMMA CreateOwn ==
  ASSUME TypeInv, CreateInv, PublishedInv, NEW p \in Procs, CreateStep(p)
  PROVE  /\ CreateInv' /\ PublishedInv'
         /\ portable # None => portable' = portable
         /\ portable' # None => \/ portable' = portable
                                \/ \E u : Verifies(portable'[1], u)
<1>0. /\ source \in Stores /\ job[p] \in Jobs /\ portable \in Option(Backups)
      /\ source' = source /\ \A q \in Procs : q # p => job'[q] = job[q]
      /\ Scan(source) \in Seq(Lines) /\ damaged' = damaged
      /\ Idle \in Jobs /\ Idle.cmd = "idle"
  BY CreateType, StoreTypes DEF TypeInv, FilesTyped, Quiet, Jobs, Idle
<1> DEFINE Good(j) ==
      j.cmd = "create" =>
        /\ Pre(j.stage.lines \o j.left, Scan(source))
        /\ j.step = "scan" => j.stage.lines = <<>>
        /\ j.step = "publish" => j.left = <<>>
<1>1. ASSUME Good(job'[p])
      PROVE  CreateInv'
  BY <1>0, <1>1 DEF CreateInv
<1> HIDE DEF Good
<1>2. ASSUME UNCHANGED portable
      PROVE  PublishedInv'
  BY <1>0, <1>2 DEF PublishedInv
<1>3. CASE BeginCreate(p)
  <2>1. PICK url \in Urls :
          job' = [job EXCEPT ![p] = [cmd |-> "create", step |-> "scan", url |-> url, left |-> <<>>,
                                     stage |-> [lines |-> <<>>, manifest |-> None]]]
    BY <1>3 DEF BeginCreate, Begin
  <2>2. [lines |-> <<>>, manifest |-> None] \in Backups
    BY OptionFacts DEF Backups
  <2>3. [cmd |-> "create", step |-> "scan", url |-> url, left |-> <<>>,
         stage |-> [lines |-> <<>>, manifest |-> None]] \in Jobs
    BY <2>2 DEF CreateJobs, Jobs
  <2>4. job'[p] = [cmd |-> "create", step |-> "scan", url |-> url, left |-> <<>>,
                   stage |-> [lines |-> <<>>, manifest |-> None]]
    BY <2>1, <2>3, JobStep
  <2>5. job'[p].stage.lines = <<>> /\ job'[p].left = <<>>
    BY <2>4
  <2>6. Pre(<<>> \o <<>>, Scan(source))
    BY <1>0 DEF Pre
  <2>7. Good(job'[p])
    BY <2>5, <2>6 DEF Good
  <2> QED
    BY <1>1, <1>2, <1>3, <2>7 DEF BeginCreate, files
<1>4. CASE CreateScan(p)
  <2> DEFINE j == [job[p] EXCEPT !.step = "lines", !.left = Scan(source)]
  <2>1. job[p] \in CreateJobs /\ job[p].step = "scan"
    BY <1>0, <1>4, JobKinds DEF CreateScan, Doing
  <2>2. /\ j \in CreateJobs /\ j.step = "lines" /\ j.left = Scan(source) /\ j.stage = job[p].stage
    BY <1>0, <2>1, CreateScanned
  <2>3. job' = [job EXCEPT ![p] = j]
    BY <1>4 DEF CreateScan, Step
  <2> HIDE DEF j
  <2>4. job'[p] = j
    BY <2>2, <2>3, JobStep DEF Jobs
  <2>5. job[p].stage.lines = <<>>
    BY <1>0, <2>1, JobKinds DEF CreateInv
  <2>6. Pre(<<>> \o Scan(source), Scan(source))
    BY <1>0 DEF Pre
  <2>7. Good(job'[p])
    BY <2>2, <2>4, <2>5, <2>6 DEF Good
  <2> QED
    BY <1>1, <1>2, <1>4, <2>7 DEF CreateScan, files
<1>5. CASE CreateLine(p)
  <2> DEFINE l == Tail(job[p].left)
             x == Append(job[p].stage.lines, Head(job[p].left))
             j == [job[p] EXCEPT !.left = l, !.stage.lines = x]
  <2>1. job[p] \in CreateJobs /\ job[p].step = "lines" /\ job[p].left # <<>> /\ job[p].cmd = "create"
    BY <1>0, <1>5, JobKinds DEF CreateLine, Doing
  <2>2. job[p].left \in Seq(Lines) /\ job[p].stage.lines \in Seq(Lines)
    BY <2>1, CreateParts
  <2>3. l \in Seq(Lines) /\ x \in Seq(Lines)
    BY <2>1, <2>2
  <2>5. job' = [job EXCEPT ![p] = j]
    BY <1>5 DEF CreateLine, Step
  <2> HIDE DEF l, x
  <2>10. PICK k \in CreateJobs : k = job[p]
    BY <2>1
  <2>11. [k EXCEPT !.left = l, !.stage.lines = x] \in CreateJobs
    BY <2>3, CreateWritten
  <2>12. /\ [k EXCEPT !.left = l, !.stage.lines = x].left = l
         /\ [k EXCEPT !.left = l, !.stage.lines = x].step = k.step
    BY DEF CreateJobs
  <2>13. [k EXCEPT !.left = l, !.stage.lines = x].stage.lines = x
    BY CreateParts DEF CreateJobs, Backups
  <2>4. j \in CreateJobs /\ j.step = "lines" /\ j.left = l /\ j.stage.lines = x
    BY <2>1, <2>10, <2>11, <2>12, <2>13
  <2> HIDE DEF j
  <2>6. job'[p] = j
    BY <2>4, <2>5, JobStep DEF Jobs
  <2>7. Pre(job[p].stage.lines \o job[p].left, Scan(source))
    BY <2>1 DEF CreateInv
  <2>8. Pre(Append(job[p].stage.lines, Head(job[p].left)) \o Tail(job[p].left), Scan(source))
    BY <1>0, <2>1, <2>2, <2>7, PreMove
  <2>9. Good(job'[p])
    BY <2>4, <2>6, <2>8 DEF Good, l, x
  <2> QED
    BY <1>1, <1>2, <1>5, <2>9 DEF CreateLine, files
<1>6. CASE CreateManifest(p)
  <2> DEFINE m == Some(Manifest(job[p].url, job[p].stage.lines))
             j == [job[p] EXCEPT !.step = "publish", !.stage.manifest = m]
  <2>1. job[p] \in CreateJobs /\ job[p].left = <<>> /\ job[p].cmd = "create"
    BY <1>0, <1>6, JobKinds DEF CreateManifest, Doing
  <2>2. job[p].url \in Urls /\ job[p].stage.lines \in Seq(Lines)
    BY <2>1, CreateParts
  <2>3. m \in Option(Manifests)
    BY <2>2, OptionFacts DEF Manifests
  <2> HIDE DEF m
  <2>4. /\ j \in CreateJobs /\ j.step = "publish" /\ j.left = job[p].left
        /\ j.stage.lines = job[p].stage.lines
    BY <2>1, <2>2, <2>3, CreateSealed
  <2>5. job' = [job EXCEPT ![p] = j]
    BY <1>6 DEF CreateManifest, Step, m
  <2> HIDE DEF j
  <2>6. job'[p] = j
    BY <2>4, <2>5, JobStep DEF Jobs
  <2>7. Pre(job[p].stage.lines \o job[p].left, Scan(source))
    BY <2>1 DEF CreateInv
  <2>9. Good(job'[p])
    BY <2>1, <2>4, <2>6, <2>7 DEF Good
  <2> QED
    BY <1>1, <1>2, <1>6, <2>9 DEF CreateManifest, files
<1>7. CASE Publish(p)
  <2>1. /\ job[p] \in CreateJobs /\ job[p].cmd = "create" /\ job[p].step = "publish"
        /\ Verifies(job[p].stage, job[p].url) /\ portable = None
        /\ portable' = Some(job[p].stage) /\ job' = [job EXCEPT ![p] = Idle]
    BY <1>0, <1>7, JobKinds DEF Publish, Doing, Step
  <2>2. job[p].stage.lines \in Seq(Lines) /\ job[p].left = <<>>
    BY <2>1, CreateParts DEF CreateInv
  <2>3. job[p].stage.lines \o <<>> = job[p].stage.lines
    BY <2>2
  <2>4. Pre(job[p].stage.lines, Scan(source))
    BY <2>1, <2>2, <2>3 DEF CreateInv
  <2>5. portable'[1] = job[p].stage
    BY <2>1, SomeFacts
  <2>6. job[p].stage.manifest # None /\ job[p].stage.manifest[1].url = job[p].url
    BY <2>1 DEF Verifies
  <2>7. PublishedInv'
    BY <1>0, <2>1, <2>4, <2>5, <2>6 DEF PublishedInv
  <2>8. job'[p] = Idle
    BY <1>0, <2>1, JobStep
  <2>9. Good(job'[p])
    BY <1>0, <2>8 DEF Good
  <2> QED
    BY <1>1, <2>1, <2>5, <2>7, <2>9
<1> QED
  BY <1>3, <1>4, <1>5, <1>6, <1>7 DEF CreateStep

\* A published backup keeps what it holds until it is damaged.
LEMMA PublishedKept ==
  ASSUME TypeInv, TypeInv', PublishedInv, Pre(source.map, source'.map), UNCHANGED portable,
         damaged \subseteq damaged'
  PROVE  PublishedInv'
<1>0. source \in Stores /\ source' \in Stores /\ portable \in Option(Backups)
  BY DEF TypeInv, FilesTyped
<1>1. Pre(Scan(source), Scan(source')) /\ Scan(source) \in Seq(Lines) /\ Scan(source') \in Seq(Lines)
  BY <1>0, ScanGrows
<1>2. ASSUME portable # None, "portable" \notin damaged
      PROVE  Pre(portable[1].lines, Scan(source'))
  <2>1. portable[1].lines \in Seq(Lines)
    BY <1>0, <1>2, OptionFacts DEF Backups
  <2> QED
    BY <1>1, <1>2, <2>1, PreTrans DEF PublishedInv
<1> QED
  BY <1>2 DEF PublishedInv

-----------------------------------------------------------------------------
(* Portable restores *)

\* The lines the published manifest was made of.
Sha == portable[1].manifest[1].sha

\* A store that was read from the first lines of the manifest, and indexed.
Copied(st, n) ==
  /\ Len(st.map) = n /\ n <= Len(Sha)
  /\ \A i \in 1..n : st.map[i] = Sha[i].event
  /\ st.indexed = Shown(st.map, n)

RestoreInv ==
  /\ portable # None => /\ portable[1].manifest # None
                        /\ portable[1].manifest[1].count = Len(Sha)
  /\ \A p \in Procs : job[p].cmd = "restore" =>
       /\ job[p].verified = Len(Sha)
       /\ Pre(portable[1].lines, Sha)
       /\ Copied(job[p].stage, job[p].read)
  /\ restored # None => portable # None /\ Copied(restored[1], Len(Sha))

\* What a published backup's manifest names are lines.
LEMMA ShaLines ==
  ASSUME TypeInv, RestoreInv, portable # None
  PROVE  Sha \in Seq(Lines) /\ portable[1].lines \in Seq(Lines)
<1>1. portable \in Option(Backups)
  BY DEF TypeInv, FilesTyped
<1>2. portable[1] \in Backups
  BY <1>1, OptionFacts
<1>3. portable[1].lines \in Seq(Lines) /\ portable[1].manifest \in Option(Manifests)
  BY <1>2 DEF Backups
<1>4. portable[1].manifest[1] \in Manifests
  BY <1>3, OptionFacts DEF RestoreInv
<1> QED
  BY <1>3, <1>4 DEF Manifests, Manifest, Sha

\* A backup that verifies has a manifest that counts its lines.
LEMMA VerifiedCount ==
  ASSUME NEW b, NEW u, Verifies(b, u)
  PROVE  /\ b.manifest # None /\ b.lines = b.manifest[1].sha
         /\ b.manifest[1].count = Len(b.manifest[1].sha)
BY DEF Verifies, Manifest

\* Steps that keep the backup, or take lines from its end, keep the restores.
LEMMA RestoreKept ==
  ASSUME TypeInv, RestoreInv, UNCHANGED restored, Keeps("restore"),
         portable # None => /\ portable' # None /\ portable'[1].manifest = portable[1].manifest,
         portable' # None => \/ portable # None
                             \/ \E u : Verifies(portable'[1], u),
         \A p \in Procs : job'[p].cmd = "restore" => Pre(portable'[1].lines, Sha)
  PROVE  RestoreInv'
<1>1. portable' # None => /\ portable'[1].manifest # None
                          /\ portable'[1].manifest[1].count = Len(portable'[1].manifest[1].sha)
  BY VerifiedCount DEF RestoreInv, Sha
<1>2. ASSUME portable # None
      PROVE  Sha' = Sha /\ \A st, n : Copied(st, n)' <=> Copied(st, n)
  BY <1>2 DEF Sha, Copied
<1>3. ASSUME NEW p \in Procs, job'[p].cmd = "restore"
      PROVE  /\ job'[p] = job[p] /\ portable # None /\ job[p].verified = Len(Sha)
             /\ Copied(job[p].stage, job[p].read)
  BY <1>3 DEF Keeps, TypeInv, Present, RestoreInv
<1>4. ASSUME NEW p \in Procs, job'[p].cmd = "restore"
      PROVE  /\ job'[p].verified = Len(Sha')
             /\ Pre(portable'[1].lines, Sha')
             /\ Copied(job[p].stage, job[p].read)'
  BY <1>2, <1>3, <1>4
<1> QED
  BY <1>1, <1>2, <1>3, <1>4 DEF RestoreInv, Sha

\* A line read into a store, and indexed, is one more line copied.
LEMMA CopiedLine ==
  ASSUME TypeInv, RestoreInv, portable # None, NEW st \in Stores, NEW n \in Nat, Copied(st, n),
         n < Len(Sha), NEW e \in Events, e = Sha[n + 1].event
  PROVE  Copied(Indexed(Appended(st, e)), n + 1)
<1> DEFINE a == Appended(st, e)
           m == Append(st.map, e)
<1>0. Sha \in Seq(Lines) /\ st.map \in Seq(Events) /\ Len(st.map) = n
  BY ShaLines DEF Stores, Copied
<1>1. a \in Stores /\ a.map = m /\ a.indexed = st.indexed
  BY StoreTypes
<1>2. /\ m \in Seq(Events) /\ Len(m) = n + 1 /\ m # <<>> /\ m[n + 1] = e
      /\ \A i \in 1..n : m[i] = st.map[i]
  BY <1>0
<1> HIDE DEF a, m
<1>3. Shown(m, n) = Shown(st.map, n)
  BY <1>0, <1>2, ShownPre
<1>4. a.indexed = Shown(a.map, Len(a.map) - 1)
  BY <1>1, <1>2, <1>3 DEF Copied
<1>5. Indexed(a).indexed = Shown(m, n + 1) /\ Indexed(a).map = m
  BY <1>1, <1>2, <1>4, ShownIndexed, StoreTypes
<1>6. \A i \in 1..(n + 1) : m[i] = Sha[i].event
  <2>1. \A i \in 1..n : m[i] = Sha[i].event
    BY <1>2 DEF Copied
  <2>2. \A i \in 1..(n + 1) : i \in 1..n \/ i = n + 1
    OBVIOUS
  <2> QED
    BY <1>2, <2>1, <2>2
<1>7. n + 1 <= Len(Sha)
  BY <1>0
<1> QED
  BY <1>2, <1>5, <1>6, <1>7 DEF Copied, a

\* A restore's own steps.
LEMMA RestoreOwn ==
  ASSUME TypeInv, RestoreInv, NEW p \in Procs, RestoreStep(p)
  PROVE  RestoreInv' /\ (restored # None => restored' = restored)
<1>0. /\ job[p] \in Jobs /\ portable' = portable /\ \A q \in Procs : q # p => job'[q] = job[q]
      /\ Idle \in Jobs /\ Idle.cmd = "idle"
  BY RestoreType DEF TypeInv, Jobs, Idle
<1>1. portable # None
  BY JobKinds DEF TypeInv, Present, RestoreStep, BeginRestore, RestoreLine, RestorePublish, Doing
<1>2. Sha \in Seq(Lines) /\ portable[1].lines \in Seq(Lines) /\ Sha' = Sha
      /\ \A st, n : Copied(st, n)' <=> Copied(st, n)
  BY <1>0, <1>1, ShaLines DEF Sha, Copied
<1> DEFINE Good(j) == j.cmd = "restore" => /\ j.verified = Len(Sha)
                                           /\ Pre(portable[1].lines, Sha)
                                           /\ Copied(j.stage, j.read)
<1>3. ASSUME Good(job'[p]), restored' # None => Copied(restored'[1], Len(Sha))
      PROVE  RestoreInv'
  <2>1. ASSUME NEW q \in Procs, job'[q].cmd = "restore"
        PROVE  /\ job'[q].verified = Len(Sha)
               /\ Pre(portable[1].lines, Sha)
               /\ Copied(job'[q].stage, job'[q].read)
    BY <1>0, <1>3, <2>1 DEF RestoreInv
  <2>2. ASSUME NEW q \in Procs, job'[q].cmd = "restore"
        PROVE  Copied(job[q].stage, job[q].read)'
    BY <1>2, <2>1, <2>2
  <2>3. restored' # None => Copied(restored[1], Len(Sha))'
    BY <1>2, <1>3
  <2> QED
    BY <1>0, <1>1, <1>2, <2>1, <2>2, <2>3 DEF RestoreInv
<1> HIDE DEF Good
<1>4. CASE BeginRestore(p)
  <2> DEFINE j == [cmd |-> "restore", step |-> "lines", read |-> 0,
                   verified |-> portable[1].manifest[1].count, stage |-> EmptyStore]
  <2>1. PICK u \in Urls : Verifies(portable[1], u) /\ Begin(p, j)
    BY <1>4 DEF BeginRestore
  <2>2. portable[1].manifest[1].count = Len(Sha) /\ portable[1].lines = Sha
    BY <1>1, <2>1, VerifiedCount DEF Sha
  <2>3. EmptyStore \in Stores /\ EmptyStore.map = <<>> /\ EmptyStore.indexed = {}
    BY StoreTypes DEF EmptyStore, TypeInv
  <2>4. Len(Sha) \in Nat
    BY <1>2
  <2>5. j \in Jobs
    BY <2>2, <2>3, <2>4 DEF RestoreJobs, Jobs
  <2>6. job' = [job EXCEPT ![p] = j]
    BY <2>1 DEF Begin
  <2>7. job'[p] = j
    BY <2>5, <2>6, JobStep
  <2>8. Copied(EmptyStore, 0) /\ Pre(portable[1].lines, Sha)
    BY <1>2, <2>2, <2>3 DEF Copied, Pre, Shown
  <2>9. job'[p].verified = Len(Sha) /\ job'[p].read = 0 /\ job'[p].stage = EmptyStore
    BY <2>2, <2>7
  <2>10. Good(job'[p])
    BY <2>8, <2>9 DEF Good
  <2>11. UNCHANGED restored
    BY <1>4 DEF BeginRestore, files
  <2> QED
    BY <1>3, <2>10, <2>11 DEF RestoreInv
<1>5. CASE RestoreLine(p)
  <2> DEFINE n == job[p].read
             st == Indexed(Appended(job[p].stage, NextEvent(p)))
             j == [job[p] EXCEPT !.read = n + 1, !.stage = st]
  <2>1. /\ job[p] \in RestoreJobs /\ job[p].cmd = "restore" /\ MoreLines(p)
        /\ job' = [job EXCEPT ![p] = j] /\ UNCHANGED restored
    BY <1>0, <1>5, JobKinds DEF RestoreLine, Doing, Step, files
  <2>2. n \in Nat /\ job[p].stage \in Stores /\ n + 1 \in Nat
    BY <2>1 DEF RestoreJobs
  <2>3. /\ n < Len(portable[1].lines) /\ portable[1].lines[n + 1] = Sha[n + 1]
        /\ n < Len(Sha) /\ portable[1].lines[n + 1] \in Lines
    <3>1. /\ portable[1].lines \in Seq(Lines) /\ Sha \in Seq(Lines)
          /\ Pre(portable[1].lines, Sha) /\ n < Len(portable[1].lines)
      BY <1>2, <2>1 DEF RestoreInv, MoreLines
    <3> HIDE DEF n
    <3>2. n + 1 \in 1..Len(portable[1].lines)
      BY <2>2, <3>1
    <3> QED
      BY <2>2, <3>1, <3>2 DEF Pre
  <2>4. NextEvent(p) \in Events /\ NextEvent(p) = Sha[n + 1].event
    BY <2>3 DEF NextEvent, Lines
  <2>5. Copied(job[p].stage, n)
    BY <2>1 DEF RestoreInv
  <2>6. Copied(st, n + 1)
    BY <1>1, <2>2, <2>3, <2>4, <2>5, CopiedLine
  <2>7. st \in Stores
    BY <2>2, <2>4, StoreTypes
  <2> HIDE DEF st, n
  <2>8. PICK k \in RestoreJobs : k = job[p]
    BY <2>1
  <2>9. [k EXCEPT !.read = n + 1, !.stage = st] \in RestoreJobs
    BY <2>2, <2>7, RestoreJob
  <2>10. /\ [k EXCEPT !.read = n + 1, !.stage = st].read = n + 1
         /\ [k EXCEPT !.read = n + 1, !.stage = st].stage = st
         /\ [k EXCEPT !.read = n + 1, !.stage = st].verified = k.verified
    BY DEF RestoreJobs
  <2>11. j \in Jobs /\ j.read = n + 1 /\ j.stage = st /\ j.verified = job[p].verified
    BY <2>8, <2>9, <2>10 DEF Jobs
  <2> HIDE DEF j
  <2>12. job'[p] = j
    BY <2>1, <2>11, JobStep
  <2>13. Good(job'[p])
    BY <2>1, <2>6, <2>11, <2>12 DEF Good, RestoreInv
  <2> QED
    BY <1>3, <2>1, <2>13 DEF RestoreInv
<1>6. CASE RestorePublish(p)
  <2>1. /\ job[p] \in RestoreJobs /\ job[p].cmd = "restore" /\ CountsAgree(p) /\ restored = None
        /\ restored' = Some(job[p].stage) /\ job' = [job EXCEPT ![p] = Idle]
    BY <1>0, <1>6, JobKinds DEF RestorePublish, Doing, Step
  <2>2. job[p].read = Len(Sha) /\ Copied(job[p].stage, job[p].read)
    BY <2>1 DEF CountsAgree, RestoreInv
  <2>3. restored'[1] = job[p].stage
    BY <2>1, SomeFacts
  <2>4. job'[p] = Idle
    BY <1>0, <2>1, JobStep
  <2>5. Good(job'[p])
    BY <1>0, <2>4 DEF Good
  <2> QED
    BY <1>3, <2>1, <2>2, <2>3, <2>5
<1> QED
  BY <1>4, <1>5, <1>6 DEF RestoreStep

\* Every step keeps what the restores hold.
LEMMA RestoreStepInv ==
  ASSUME TypeInv, SourceInv, CreateInv, PublishedInv, RestoreInv, Next
  PROVE  /\ RestoreInv' /\ (restored # None => restored' = restored)
         /\ portable # None => portable' # None /\ portable'[1].manifest = portable[1].manifest
<1>1. CASE \E p \in Procs : RestoreStep(p)
  BY <1>1, RestoreOwn, RestoreType
<1>2. CASE ~\E p \in Procs : RestoreStep(p)
  <2>1. UNCHANGED restored /\ Keeps("restore")
    BY <1>2, Effects
  <2>2. ASSUME NEW p \in Procs, job'[p].cmd = "restore"
        PROVE  job[p].cmd = "restore" /\ portable # None /\ Pre(portable[1].lines, Sha)
    BY <2>1, <2>2 DEF Keeps, RestoreInv, TypeInv, Present
  <2>3. CASE UNCHANGED portable
    BY <2>1, <2>2, <2>3, RestoreKept
  <2>4. CASE DamageStep /\ ~UNCHANGED portable
    <3>1. /\ portable # None /\ portable' # None /\ portable'[1].manifest = portable[1].manifest
          /\ Alone("restore") \/ portable'[1].lines = Front(portable[1].lines)
      BY <2>4, DamageType
    <3>2. ASSUME NEW p \in Procs, job'[p].cmd = "restore"
          PROVE  Pre(portable'[1].lines, Sha)
      <4>1. job[p].cmd = "restore" /\ Pre(portable[1].lines, Sha)
        BY <2>2, <3>2
      <4>2. portable'[1].lines = Front(portable[1].lines)
        BY <3>1, <4>1 DEF Alone
      <4>3. portable[1].lines \in Seq(Lines) /\ Sha \in Seq(Lines)
        BY <3>1, ShaLines
      <4>4. /\ TypeInv'
        BY Effects
      <4>5. portable'[1].lines \in Seq(Lines)
        BY <3>1, <4>4, OptionFacts DEF TypeInv, FilesTyped, Backups
      <4> QED
        BY <4>1, <4>2, <4>3, <4>5 DEF Pre, Front
    <3> QED
      BY <2>1, <3>1, <3>2, RestoreKept
  <2>5. CASE \E p \in Procs : CreateStep(p)
    <3>1. PICK p \in Procs : CreateStep(p)
      BY <2>5
    <3>2. /\ portable # None => portable' = portable
          /\ portable' # None => portable # None \/ \E u : Verifies(portable'[1], u)
      BY <3>1, CreateOwn
    <3> QED
      BY <2>1, <2>2, <3>2, RestoreKept
  <2> QED
    BY <2>3, <2>4, <2>5, Effects
<1> QED
  BY <1>1, <1>2

-----------------------------------------------------------------------------
(* Directory backups and their restores *)

\* A copied map is the start of the relay's log, and the copied index names its
\* events only unless the relay wrote in between.
Sound(m, x) ==
  /\ m # None /\ x # None
  /\ Pre(m[1], source.map)
  /\ "overlap" \notin damaged => x[1] \subseteq 1..Len(m[1])

BundleManifestInv ==
  bundle.manifest # None =>
    /\ bundle.manifest[1].source = Tenant
    /\ bundle.manifest[1].sums # None
    /\ Sound(bundle.manifest[1].sums[1][1], bundle.manifest[1].sums[1][2])

BackupJobInv(p) ==
  job[p].cmd = "backup" =>
    /\ bundle.manifest = None
    /\ job[p].step # "map" => bundle.map # None /\ Pre(bundle.map[1], source.map)
    /\ job[p].step \in {"checksums", "manifest"} => Sound(bundle.map, bundle.indexed)
    /\ job[p].step = "manifest" => bundle.checksums = Some(<<bundle.map, bundle.indexed>>)

UnpackJobInv(p) ==
  job[p].cmd = "unpack" =>
    /\ BundleVerifies(bundle, job[p].tenant) /\ target.reported = None
    /\ job[p].step # "map" => target.map = bundle.map
    /\ job[p].step = "scan" => target.indexed = bundle.indexed

ReportedInv ==
  target.reported # None =>
    /\ bundle.manifest # None /\ target.reported = Some(Tenant)
    /\ target.map = bundle.manifest[1].sums[1][1]
    /\ target.indexed = bundle.manifest[1].sums[1][2]

Exclusive ==
  \A p, q \in Procs : job[p].cmd \in {"backup", "unpack"} /\ job[q].cmd \in {"backup", "unpack"} => p = q

\* It holds while no two backups and no two restores race for their directory.
BundleInv ==
  /\ Exclusive /\ BundleManifestInv /\ ReportedInv
  /\ \A p \in Procs : BackupJobInv(p) /\ UnpackJobInv(p)

Unraced == damaged \cap {"backup", "unpack"} = {}

\* A backup that did not begin beside another works alone and finds no manifest.
FirstBackup ==
  \A p \in Procs : job[p].cmd = "backup" =>
    /\ bundle.manifest = None
    /\ \A q \in Procs : job[q].cmd = "backup" => q = p

\* What was sound stays so.
LEMMA SoundKept ==
  ASSUME TypeInv, TypeInv', Pre(source.map, source'.map), damaged \subseteq damaged',
         NEW m \in Option(Seq(Events)), NEW x, Sound(m, x)
  PROVE  Sound(m, x)'
<1>1. source.map \in Seq(Events) /\ source'.map \in Seq(Events)
  BY DEF TypeInv, Stores
<1>2. m[1] \in Seq(Events) /\ Pre(m[1], source.map)
  BY OptionFacts DEF Sound
<1>3. Pre(m[1], source'.map)
  BY <1>1, <1>2, PreTrans
<1> QED
  BY <1>3 DEF Sound

\* The types of what a manifest's sums hold.
LEMMA SumParts ==
  ASSUME NEW b \in Bundles
  PROVE  /\ b.map \in Option(Seq(Events)) /\ b.indexed \in Option(SUBSET Nat)
         /\ b.manifest # None /\ b.manifest[1].sums # None =>
              /\ b.manifest[1].sums[1][1] \in Option(Seq(Events))
              /\ b.manifest[1].sums[1][2] \in Option(SUBSET Nat)
<1>1. b.map \in Option(Seq(Events)) /\ b.indexed \in Option(SUBSET Nat)
      /\ b.manifest \in Option([source : Tenants, sums : Option(Sums)])
  BY DEF Bundles
<1>2. ASSUME b.manifest # None, b.manifest[1].sums # None
      PROVE  b.manifest[1].sums[1] \in Sums
  <2>1. b.manifest[1] \in [source : Tenants, sums : Option(Sums)]
    BY <1>1, <1>2, OptionFacts
  <2>2. b.manifest[1].sums \in Option(Sums)
    BY <2>1
  <2> QED
    BY <1>2, <2>2, OptionFacts
<1> QED
  BY <1>1, <1>2 DEF Sums

\* A step that keeps the manifest keeps what it names.
LEMMA ManifestKept ==
  ASSUME TypeInv, TypeInv', Pre(source.map, source'.map), damaged \subseteq damaged',
         BundleManifestInv, bundle'.manifest = bundle.manifest
  PROVE  BundleManifestInv'
<1>1. bundle \in Bundles
  BY DEF TypeInv, FilesTyped
<1>2. ASSUME bundle.manifest # None
      PROVE  Sound(bundle.manifest[1].sums[1][1], bundle.manifest[1].sums[1][2])'
  <2> DEFINE m == bundle.manifest[1].sums[1][1]
             x == bundle.manifest[1].sums[1][2]
  <2>1. m \in Option(Seq(Events)) /\ Sound(m, x)
    BY <1>1, <1>2, SumParts DEF BundleManifestInv
  <2>2. PICK m0, x0 : m0 \in Option(Seq(Events)) /\ m0 = m /\ x0 = x
    BY <2>1
  <2>3. m' = m /\ x' = x
    OBVIOUS
  <2> HIDE DEF m, x
  <2>4. Sound(m0, x0)'
    BY <2>1, <2>2, SoundKept
  <2>5. Sound(m, x)'
    BY <2>2, <2>3, <2>4
  <2> QED
    BY <2>5 DEF m, x
<1> QED
  BY <1>2 DEF BundleManifestInv

\* A step that keeps the bundle, the target and their jobs keeps the rest.
LEMMA BundleKept ==
  ASSUME TypeInv, TypeInv', BundleInv, Pre(source.map, source'.map), damaged \subseteq damaged',
         UNCHANGED <<bundle, target>>, Keeps("backup"), Keeps("unpack")
  PROVE  BundleInv'
<1>1. BundleManifestInv'
  BY ManifestKept DEF BundleInv
<1>2. Exclusive'
  BY DEF BundleInv, Exclusive, Keeps
<1>3. ReportedInv'
  BY DEF BundleInv, ReportedInv
<1>4. ASSUME NEW p \in Procs
      PROVE  UnpackJobInv(p)'
  BY DEF BundleInv, UnpackJobInv, Keeps
<1>5. ASSUME NEW p \in Procs
      PROVE  BackupJobInv(p)'
  <2> SUFFICES ASSUME job'[p].cmd = "backup"
               PROVE  BackupJobInv(p)'
    BY DEF BackupJobInv
  <2>1. job'[p] = job[p] /\ BackupJobInv(p) /\ job[p].cmd = "backup"
    BY DEF BundleInv, Keeps
  <2>2. bundle.map \in Option(Seq(Events)) /\ source.map \in Seq(Events) /\ source'.map \in Seq(Events)
    BY SumParts DEF TypeInv, FilesTyped, Stores
  <2>3. ASSUME job[p].step # "map"
        PROVE  Pre(bundle.map[1], source'.map)
    <3>1. bundle.map[1] \in Seq(Events) /\ Pre(bundle.map[1], source.map)
      BY <2>1, <2>2, <2>3, OptionFacts DEF BackupJobInv
    <3> QED
      BY <2>2, <3>1, PreTrans
  <2>4. ASSUME job[p].step \in {"checksums", "manifest"}
        PROVE  Sound(bundle.map, bundle.indexed)'
    <3>1. Sound(bundle.map, bundle.indexed)
      BY <2>1, <2>4 DEF BackupJobInv
    <3>2. PICK m0, x0 : m0 \in Option(Seq(Events)) /\ m0 = bundle.map /\ x0 = bundle.indexed
      BY <2>2
    <3>3. Sound(m0, x0)'
      BY <3>1, <3>2, SoundKept
    <3> QED
      BY <3>2, <3>3
  <2> QED
    BY <2>1, <2>3, <2>4 DEF BackupJobInv
<1> QED
  BY <1>1, <1>2, <1>3, <1>4, <1>5 DEF BundleInv

\* A directory backup's own steps.
LEMMA BackupOwn ==
  ASSUME TypeInv, SourceInv, BundleInv, NEW p \in Procs, BackupStep(p), Unraced'
  PROVE  BundleInv'
<1>0. /\ job[p] \in Jobs /\ Idle \in Jobs /\ Idle.cmd = "idle" /\ TypeInv'
      /\ source' = source /\ target' = target /\ damaged \subseteq damaged'
      /\ source.map \in Seq(Events) /\ bundle \in Bundles
      /\ job'[p].cmd \in {"backup", "idle"} /\ \A q \in Procs : q # p => job'[q] = job[q]
  BY BackupType DEF TypeInv, FilesTyped, Stores, Quiet, Jobs, Idle
<1>1. /\ Some(source.map) \in Option(Seq(Events)) /\ Some(source.map) # None /\ Some(source.map)[1] = source.map
      /\ Some(source.indexed) \in Option(SUBSET Nat) /\ Some(source.indexed) # None
      /\ Some(source.indexed)[1] = source.indexed
      /\ Some(Checksums(bundle)) \in Option(Sums)
      /\ Pre(source.map, source.map)
  <2>1. source.indexed \in SUBSET Nat /\ Checksums(bundle) \in Sums
    BY <1>0 DEF TypeInv, Stores, Bundles, Checksums, Sums
  <2>2. Pre(source.map, source.map)
    BY <1>0 DEF Pre
  <2> QED
    BY <1>0, <2>1, <2>2, OptionFacts
<1>2. ASSUME \A q \in Procs : q # p => job[q].cmd \notin {"backup", "unpack"},
             BundleManifestInv', ReportedInv', BackupJobInv(p)'
      PROVE  BundleInv'
  <2>1. Exclusive'
    BY <1>0, <1>2 DEF Exclusive
  <2>2. \A q \in Procs : BackupJobInv(q)' /\ UnpackJobInv(q)'
    BY <1>0, <1>2 DEF BackupJobInv, UnpackJobInv
  <2> QED
    BY <1>2, <2>1, <2>2 DEF BundleInv
<1>3. CASE BeginBackup(p)
  <2>1. /\ bundle = EmptyBundle /\ UNCHANGED bundle /\ Alone("backup")
        /\ job' = [job EXCEPT ![p] = [cmd |-> "backup", step |-> "map"]]
    BY <1>3 DEF BeginBackup, Begin, files, Races, Unraced
  <2>2. [cmd |-> "backup", step |-> "map"] \in Jobs
    BY DEF Jobs, BackupJobs
  <2>3. job'[p] = [cmd |-> "backup", step |-> "map"] /\ job'[p].step = "map"
    BY <2>1, <2>2, JobStep
  <2>4. bundle.manifest = None
    BY <2>1 DEF EmptyBundle
  <2>5. BackupJobInv(p)'
    BY <2>1, <2>3, <2>4 DEF BackupJobInv
  <2>6. BundleManifestInv' /\ ReportedInv'
    BY <1>0, <2>1, <2>4 DEF BundleInv, BundleManifestInv, ReportedInv
  <2>7. \A q \in Procs : job[q].cmd # "unpack"
    BY <2>4 DEF BundleInv, UnpackJobInv, BundleVerifies
  <2> QED
    BY <1>2, <2>1, <2>5, <2>6, <2>7 DEF Alone
<1>4. ASSUME job[p].cmd = "backup"
      PROVE  /\ \A q \in Procs : q # p => job[q].cmd \notin {"backup", "unpack"}
             /\ bundle.manifest = None /\ target.reported = None
  BY <1>4 DEF BundleInv, Exclusive, BackupJobInv, ReportedInv
<1>5. CASE CopyMap(p)
  <2>1. /\ job[p] \in BackupJobs /\ job[p].cmd = "backup"
        /\ bundle' = [bundle EXCEPT !.map = Some(source.map)]
        /\ job' = [job EXCEPT ![p] = [job[p] EXCEPT !.step = "index"]]
    BY <1>0, <1>5, JobKinds DEF CopyMap, Doing, Step
  <2>2. [job[p] EXCEPT !.step = "index"] \in Jobs /\ [job[p] EXCEPT !.step = "index"].step = "index"
    BY <2>1, BackupJob DEF Jobs
  <2>3. job'[p].step = "index"
    BY <2>1, <2>2, JobStep
  <2>4. bundle'.map = Some(source.map) /\ bundle'.manifest = None
    BY <1>0, <1>1, <1>4, <2>1, BundleMap
  <2>5. BackupJobInv(p)'
    BY <1>0, <1>1, <2>3, <2>4 DEF BackupJobInv
  <2>6. BundleManifestInv' /\ ReportedInv'
    BY <1>0, <1>4, <2>1, <2>4 DEF BundleManifestInv, ReportedInv
  <2> QED
    BY <1>2, <1>4, <2>1, <2>5, <2>6
<1>6. CASE CopyIndex(p)
  <2>1. /\ job[p] \in BackupJobs /\ job[p].cmd = "backup" /\ job[p].step = "index"
        /\ bundle' = [bundle EXCEPT !.indexed = Some(source.indexed)]
        /\ job' = [job EXCEPT ![p] = [job[p] EXCEPT !.step = "checksums"]]
        /\ damaged' = damaged \cup {d \in {"overlap"} : source.map # bundle.map[1]}
    BY <1>0, <1>6, JobKinds DEF CopyIndex, Doing, Step
  <2>2. [job[p] EXCEPT !.step = "checksums"] \in Jobs /\ [job[p] EXCEPT !.step = "checksums"].step = "checksums"
    BY <2>1, BackupJob DEF Jobs
  <2>3. job'[p].step = "checksums"
    BY <2>1, <2>2, JobStep
  <2>4. bundle'.map = bundle.map /\ bundle'.indexed = Some(source.indexed) /\ bundle'.manifest = None
    BY <1>0, <1>1, <1>4, <2>1, BundleIndexed
  <2>5. bundle.map # None /\ Pre(bundle.map[1], source.map)
    BY <2>1 DEF BundleInv, BackupJobInv
  <2>6. "overlap" \notin damaged' => source.indexed \subseteq 1..Len(bundle.map[1])
    BY <2>1 DEF SourceInv
  <2>7. Sound(bundle.map, bundle.indexed)'
    BY <1>0, <1>1, <2>4, <2>5, <2>6 DEF Sound
  <2>8. BackupJobInv(p)'
    BY <1>0, <2>3, <2>4, <2>5, <2>7 DEF BackupJobInv
  <2>9. BundleManifestInv' /\ ReportedInv'
    BY <1>0, <1>4, <2>1, <2>4 DEF BundleManifestInv, ReportedInv
  <2> QED
    BY <1>2, <1>4, <2>1, <2>8, <2>9
<1>7. CASE WriteChecksums(p)
  <2>1. /\ job[p] \in BackupJobs /\ job[p].cmd = "backup" /\ job[p].step = "checksums"
        /\ bundle' = [bundle EXCEPT !.checksums = Some(Checksums(bundle))]
        /\ job' = [job EXCEPT ![p] = [job[p] EXCEPT !.step = "manifest"]]
        /\ damaged' = damaged
    BY <1>0, <1>7, JobKinds DEF WriteChecksums, Doing, Step
  <2>2. [job[p] EXCEPT !.step = "manifest"] \in Jobs /\ [job[p] EXCEPT !.step = "manifest"].step = "manifest"
    BY <2>1, BackupJob DEF Jobs
  <2>3. job'[p].step = "manifest"
    BY <2>1, <2>2, JobStep
  <2>4. /\ bundle'.map = bundle.map /\ bundle'.indexed = bundle.indexed /\ bundle'.manifest = None
        /\ bundle'.checksums = Some(Checksums(bundle))
    BY <1>0, <1>1, <1>4, <2>1, BundleChecksums
  <2>5. bundle'.checksums = Some(<<bundle'.map, bundle'.indexed>>)
    BY <2>4 DEF Checksums
  <2>6. bundle.map # None /\ Pre(bundle.map[1], source.map) /\ Sound(bundle.map, bundle.indexed)
    BY <2>1 DEF BundleInv, BackupJobInv
  <2>7. Sound(bundle.map, bundle.indexed)'
    BY <1>0, <2>1, <2>4, <2>6 DEF Sound
  <2>8. BackupJobInv(p)'
    BY <1>0, <2>3, <2>4, <2>5, <2>6, <2>7 DEF BackupJobInv
  <2>9. BundleManifestInv' /\ ReportedInv'
    BY <1>0, <1>4, <2>1, <2>4 DEF BundleManifestInv, ReportedInv
  <2> QED
    BY <1>2, <1>4, <2>1, <2>8, <2>9
<1>8. CASE WriteManifest(p)
  <2> DEFINE f == [source |-> Tenant, sums |-> bundle.checksums]
  <2>1. /\ job[p] \in BackupJobs /\ job[p].cmd = "backup" /\ job[p].step = "manifest"
        /\ bundle' = [bundle EXCEPT !.manifest = Some(f)]
        /\ job' = [job EXCEPT ![p] = Idle] /\ damaged' = damaged
    BY <1>0, <1>8, JobKinds DEF WriteManifest, Doing, Step, BackupManifest
  <2>2. job'[p] = Idle
    BY <1>0, <2>1, JobStep
  <2>3. f \in [source : Tenants, sums : Option(Sums)]
    BY <1>0, BackupAssumption DEF Bundles
  <2>4. Some(f) \in Option([source : Tenants, sums : Option(Sums)]) /\ Some(f)[1] = f
    BY <2>3, OptionFacts
  <2>5. bundle'.manifest = Some(f)
    BY <1>0, <2>1, <2>4, BundleManifest
  <2>6. bundle'.manifest[1].source = Tenant /\ bundle'.manifest[1].sums = bundle.checksums
    BY <2>4, <2>5
  <2>7. bundle.checksums = Some(<<bundle.map, bundle.indexed>>) /\ Sound(bundle.map, bundle.indexed)
    BY <2>1 DEF BundleInv, BackupJobInv
  <2>8. bundle.checksums # None /\ bundle.checksums[1] = <<bundle.map, bundle.indexed>>
    BY <2>7, SomeFacts
  <2>9. bundle.checksums[1][1] = bundle.map /\ bundle.checksums[1][2] = bundle.indexed
    BY <2>8
  <2>10. PICK m0, x0 : m0 = bundle.map /\ x0 = bundle.indexed
    OBVIOUS
  <2>11. Sound(m0, x0)'
    BY <1>0, <2>1, <2>7, <2>10 DEF Sound
  <2>12. BundleManifestInv'
    BY <2>6, <2>8, <2>9, <2>10, <2>11 DEF BundleManifestInv
  <2>13. BackupJobInv(p)' /\ ReportedInv'
    BY <1>0, <1>4, <2>1, <2>2 DEF BackupJobInv, ReportedInv
  <2> QED
    BY <1>2, <1>4, <2>1, <2>12, <2>13
<1> QED
  BY <1>3, <1>5, <1>6, <1>7, <1>8 DEF BackupStep

\* A bundle that verifies holds what its manifest names.
LEMMA VerifiedParts ==
  ASSUME NEW b \in Bundles, NEW t, BundleVerifies(b, t), b.manifest[1].sums # None
  PROVE  /\ b.manifest # None /\ t = b.manifest[1].source
         /\ b.map = b.manifest[1].sums[1][1] /\ b.indexed = b.manifest[1].sums[1][2]
<1>1. <<b.map, b.indexed>> = b.manifest[1].sums[1]
  BY DEF BundleVerifies, Checksums
<1> QED
  BY <1>1 DEF BundleVerifies

\* A directory restore's own steps.
LEMMA UnpackOwn ==
  ASSUME TypeInv, SourceInv, BundleInv, NEW p \in Procs, UnpackStep(p), Unraced'
  PROVE  BundleInv'
<1>0. /\ job[p] \in Jobs /\ Idle \in Jobs /\ Idle.cmd = "idle" /\ TypeInv'
      /\ source' = source /\ damaged \subseteq damaged' /\ bundle' = bundle
      /\ bundle \in Bundles /\ target \in Targets
      /\ bundle.map \in Option(Seq(Events)) /\ bundle.indexed \in Option(SUBSET Nat)
      /\ job'[p].cmd \in {"unpack", "idle"} /\ \A q \in Procs : q # p => job'[q] = job[q]
  BY UnpackType DEF TypeInv, FilesTyped, Bundles, Quiet, Jobs, Idle
<1>1. BundleManifestInv'
  <2>1. Pre(source.map, source'.map)
    BY <1>0 DEF TypeInv, Stores, Pre
  <2> QED
    BY <1>0, <2>1, ManifestKept DEF BundleInv
<1>2. ASSUME \A q \in Procs : q # p => job[q].cmd \notin {"backup", "unpack"},
             ReportedInv', UnpackJobInv(p)'
      PROVE  BundleInv'
  <2>1. Exclusive'
    BY <1>0, <1>2 DEF Exclusive
  <2>2. \A q \in Procs : BackupJobInv(q)' /\ UnpackJobInv(q)'
    BY <1>0, <1>2 DEF BackupJobInv, UnpackJobInv
  <2> QED
    BY <1>1, <1>2, <2>1, <2>2 DEF BundleInv
<1>3. CASE BeginUnpack(p)
  <2>1. PICK t \in Tenants : /\ BundleVerifies(bundle, t)
                             /\ job' = [job EXCEPT ![p] = [cmd |-> "unpack", step |-> "map", tenant |-> t]]
    BY <1>3 DEF BeginUnpack, Begin
  <2>2. target = EmptyTarget /\ Alone("unpack") /\ target' = target
    BY <1>3 DEF BeginUnpack, files, Races, Unraced
  <2>3. [cmd |-> "unpack", step |-> "map", tenant |-> t] \in Jobs
    BY DEF Jobs, UnpackJobs
  <2>4. job'[p] = [cmd |-> "unpack", step |-> "map", tenant |-> t]
    BY <2>1, <2>3, JobStep
  <2>5. job'[p].tenant = t /\ job'[p].step = "map"
    BY <2>4
  <2>6. target.reported = None
    BY <2>2 DEF EmptyTarget
  <2>7. UnpackJobInv(p)' /\ ReportedInv'
    BY <1>0, <2>1, <2>2, <2>5, <2>6 DEF UnpackJobInv, ReportedInv
  <2>8. \A q \in Procs : job[q].cmd # "backup"
    BY <2>1 DEF BundleInv, BackupJobInv, BundleVerifies
  <2> QED
    BY <1>2, <2>2, <2>7, <2>8 DEF Alone
<1>4. ASSUME job[p].cmd = "unpack"
      PROVE  /\ \A q \in Procs : q # p => job[q].cmd \notin {"backup", "unpack"}
             /\ UnpackJobInv(p) /\ target.reported = None /\ BundleVerifies(bundle, job[p].tenant)
  BY <1>4 DEF BundleInv, Exclusive, UnpackJobInv
<1>5. CASE UnpackMap(p)
  <2>1. /\ job[p] \in UnpackJobs /\ job[p].cmd = "unpack"
        /\ target' = [target EXCEPT !.map = bundle.map]
        /\ job' = [job EXCEPT ![p] = [job[p] EXCEPT !.step = "index"]]
    BY <1>0, <1>5, JobKinds DEF UnpackMap, Doing, Step
  <2>2. /\ [job[p] EXCEPT !.step = "index"] \in Jobs /\ [job[p] EXCEPT !.step = "index"].step = "index"
        /\ [job[p] EXCEPT !.step = "index"].tenant = job[p].tenant
    BY <2>1, UnpackJob DEF Jobs
  <2>3. job'[p].step = "index" /\ job'[p].tenant = job[p].tenant
    BY <2>1, <2>2, JobStep
  <2>4. target'.map = bundle.map /\ target'.reported = None
    BY <1>0, <1>4, <2>1, TargetMap
  <2>5. UnpackJobInv(p)' /\ ReportedInv'
    BY <1>0, <1>4, <2>1, <2>3, <2>4 DEF UnpackJobInv, ReportedInv
  <2> QED
    BY <1>2, <1>4, <2>1, <2>5
<1>6. CASE UnpackIndex(p)
  <2>1. /\ job[p] \in UnpackJobs /\ job[p].cmd = "unpack" /\ job[p].step = "index"
        /\ target' = [target EXCEPT !.indexed = bundle.indexed]
        /\ job' = [job EXCEPT ![p] = [job[p] EXCEPT !.step = "scan"]]
    BY <1>0, <1>6, JobKinds DEF UnpackIndex, Doing, Step
  <2>2. /\ [job[p] EXCEPT !.step = "scan"] \in Jobs /\ [job[p] EXCEPT !.step = "scan"].step = "scan"
        /\ [job[p] EXCEPT !.step = "scan"].tenant = job[p].tenant
    BY <2>1, UnpackJob DEF Jobs
  <2>3. job'[p].step = "scan" /\ job'[p].tenant = job[p].tenant
    BY <2>1, <2>2, JobStep
  <2>4. target'.map = target.map /\ target'.indexed = bundle.indexed /\ target'.reported = None
    BY <1>0, <1>4, <2>1, TargetIndexed
  <2>5. target.map = bundle.map
    BY <1>4, <2>1 DEF UnpackJobInv
  <2>6. UnpackJobInv(p)' /\ ReportedInv'
    BY <1>0, <1>4, <2>1, <2>3, <2>4, <2>5 DEF UnpackJobInv, ReportedInv
  <2> QED
    BY <1>2, <1>4, <2>1, <2>6
<1>7. CASE UnpackScan(p)
  <2>1. /\ job[p] \in UnpackJobs /\ job[p].cmd = "unpack" /\ job[p].step = "scan"
        /\ target' = [target EXCEPT !.reported = Some(job[p].tenant)]
        /\ job' = [job EXCEPT ![p] = Idle]
    BY <1>0, <1>7, JobKinds DEF UnpackScan, Doing, Step
  <2>2. job'[p] = Idle
    BY <1>0, <2>1, JobStep
  <2>3. Some(job[p].tenant) \in Option(Tenants)
    BY <2>1, OptionFacts DEF UnpackJobs
  <2>4. /\ target'.map = target.map /\ target'.indexed = target.indexed
        /\ target'.reported = Some(job[p].tenant)
    BY <1>0, <2>1, <2>3, TargetReported
  <2>5. target.map = bundle.map /\ target.indexed = bundle.indexed
    BY <1>4, <2>1 DEF UnpackJobInv
  <2>6. bundle.manifest # None
    BY <1>4, <2>1 DEF BundleVerifies
  <2>7. bundle.manifest[1].sums # None /\ bundle.manifest[1].source = Tenant
    BY <2>6 DEF BundleInv, BundleManifestInv
  <2>8. /\ job[p].tenant = Tenant
        /\ bundle.map = bundle.manifest[1].sums[1][1] /\ bundle.indexed = bundle.manifest[1].sums[1][2]
    BY <1>0, <1>4, <2>1, <2>7, VerifiedParts
  <2>9. ReportedInv'
    BY <1>0, <2>4, <2>5, <2>6, <2>8 DEF ReportedInv
  <2>10. UnpackJobInv(p)'
    BY <1>0, <2>2 DEF UnpackJobInv
  <2> QED
    BY <1>2, <1>4, <2>1, <2>9, <2>10
<1> QED
  BY <1>3, <1>5, <1>6, <1>7 DEF UnpackStep

\* Every step that begins no race keeps a working backup the only one, and a
\* manifest that is there.
LEMMA BackupStepInv ==
  ASSUME TypeInv, SourceInv, FirstBackup, Next, "backup" \notin damaged'
  PROVE  FirstBackup' /\ (bundle.manifest # None => bundle'.manifest = bundle.manifest)
<1>1. CASE \E p \in Procs : BackupStep(p)
  <2>1. PICK p \in Procs : BackupStep(p)
    BY <1>1
  <2>2. /\ job'[p].cmd \in {"backup", "idle"} /\ \A q \in Procs : q # p => job'[q] = job[q]
        /\ job[p] \in Jobs /\ Idle \in Jobs /\ Idle.cmd = "idle" /\ bundle \in Bundles
    BY <2>1, BackupType DEF TypeInv, FilesTyped, Jobs, Idle
  <2>3. CASE BeginBackup(p)
    <3>1. bundle = EmptyBundle /\ UNCHANGED bundle /\ Alone("backup")
      BY <2>3 DEF BeginBackup, files, Races
    <3>2. bundle.manifest = None
      BY <3>1 DEF EmptyBundle
    <3> QED
      BY <2>2, <3>1, <3>2 DEF Alone, FirstBackup
  <2>4. ASSUME ~BeginBackup(p)
        PROVE  job[p].cmd = "backup"
    BY <2>1, <2>4 DEF BackupStep, CopyMap, CopyIndex, WriteChecksums, WriteManifest, Doing
  <2>5. CASE WriteManifest(p)
    <3>1. job' = [job EXCEPT ![p] = Idle] /\ job[p].cmd = "backup"
      BY <2>5 DEF WriteManifest, Step, Doing
    <3>2. job'[p] = Idle
      BY <2>2, <3>1, JobStep
    <3> QED
      BY <2>2, <3>1, <3>2 DEF FirstBackup
  <2>6. CASE ~BeginBackup(p) /\ ~WriteManifest(p)
    <3>1. bundle'.manifest = bundle.manifest
      BY <2>1, <2>2, <2>6 DEF BackupStep, CopyMap, CopyIndex, WriteChecksums, Bundles
    <3> QED
      BY <2>2, <2>4, <2>6, <3>1 DEF FirstBackup
  <2> QED
    BY <2>3, <2>5, <2>6
<1>2. CASE ~\E p \in Procs : BackupStep(p)
  <2>1. bundle'.manifest = bundle.manifest
    BY <1>2, Effects, DamageType
  <2>2. Keeps("backup")
    BY <1>2, Effects
  <2> QED
    BY <2>1, <2>2 DEF FirstBackup, Keeps
<1> QED
  BY <1>1, <1>2

\* Every step that begins no race keeps what the bundle and the target hold.
LEMMA BundleStepInv ==
  ASSUME TypeInv, SourceInv, BundleInv, Next, Unraced'
  PROVE  BundleInv'
<1>1. CASE \E p \in Procs : BackupStep(p)
  BY <1>1, BackupOwn
<1>2. CASE \E p \in Procs : UnpackStep(p)
  BY <1>2, UnpackOwn, UnpackType
<1>3. CASE ~(\E p \in Procs : BackupStep(p)) /\ ~(\E p \in Procs : UnpackStep(p))
  <2>1. /\ TypeInv' /\ Pre(source.map, source'.map) /\ damaged \subseteq damaged'
        /\ UNCHANGED target /\ Keeps("backup") /\ Keeps("unpack")
        /\ UNCHANGED bundle \/ DamageStep
    BY <1>3, Effects
  <2>2. CASE UNCHANGED bundle
    BY <2>1, <2>2, BundleKept
  <2>3. CASE DamageStep /\ ~UNCHANGED bundle
    <3>1. /\ UNCHANGED job /\ Alone("backup") /\ Alone("unpack")
          /\ bundle'.manifest = bundle.manifest
      BY <2>3, DamageType
    <3>2. BundleManifestInv'
      BY <2>1, <3>1, ManifestKept DEF BundleInv
    <3>3. ReportedInv'
      BY <2>1, <3>1 DEF BundleInv, ReportedInv
    <3>4. Exclusive' /\ \A p \in Procs : BackupJobInv(p)' /\ UnpackJobInv(p)'
      BY <3>1 DEF Alone, Exclusive, BackupJobInv, UnpackJobInv
    <3> QED
      BY <3>1, <3>2, <3>3, <3>4 DEF BundleInv
  <2> QED
    BY <2>1, <2>2, <2>3
<1> QED
  BY <1>1, <1>2, <1>3

\* Every step that begins no race keeps what the exports hold.
LEMMA ExportStepInv ==
  ASSUME TypeInv, SourceInv, ExportInv, Next, "export" \notin damaged'
  PROVE  ExportInv' /\ (exported.manifest # None => exported' = exported)
<1>1. CASE \E p \in Procs : ExportStep(p)
  BY <1>1, ExportOwn
<1>2. CASE ~\E p \in Procs : ExportStep(p)
  BY <1>2, Effects, ExportKept
<1> QED
  BY <1>1, <1>2

\* Every step keeps what the creations have staged and published.
LEMMA CreateStepInv ==
  ASSUME TypeInv, SourceInv, CreateInv, PublishedInv, Next
  PROVE  CreateInv' /\ PublishedInv'
<1>1. CASE \E p \in Procs : CreateStep(p)
  BY <1>1, CreateOwn
<1>2. CASE ~\E p \in Procs : CreateStep(p)
  <2>1. CreateInv'
    BY <1>2, Effects, CreateKept
  <2>2. CASE UNCHANGED portable
    BY <2>1, <2>2, Effects, PublishedKept
  <2>3. CASE DamageStep /\ ~UNCHANGED portable
    <3>1. "portable" \in damaged'
      BY <2>3, DamageType
    <3> QED
      BY <2>1, <3>1 DEF PublishedInv
  <2> QED
    BY <1>2, <2>2, <2>3, Effects
<1> QED
  BY <1>1, <1>2

-----------------------------------------------------------------------------
(* The theorems *)

IndInv ==
  /\ TypeInv /\ SourceInv /\ CreateInv /\ PublishedInv /\ RestoreInv
  /\ "export" \notin damaged => ExportInv
  /\ "backup" \notin damaged => FirstBackup
  /\ Unraced => BundleInv

\* Nothing is written and nobody works at the start.
LEMMA InitInd ==
  ASSUME Init
  PROVE  IndInv
<1>1. /\ source = EmptyStore /\ writing = FALSE /\ orphaned = FALSE
      /\ portable = None /\ restored = None /\ bundle = EmptyBundle /\ target = EmptyTarget
      /\ exported = [lines |-> None, manifest |-> None] /\ job = [p \in Procs |-> Idle]
  BY DEF Init
<1>2. source \in Stores /\ source.map = <<>> /\ source.indexed = {}
  BY <1>1 DEF EmptyStore, Stores
<1>3. FilesTyped
  <2>1. portable \in Option(Backups) /\ restored \in Option(Stores)
    BY <1>1, OptionFacts
  <2>2. /\ None \in Option(Seq(Events)) /\ None \in Option(SUBSET Nat) /\ None \in Option(Sums)
        /\ None \in Option([source : Tenants, sums : Option(Sums)]) /\ None \in Option(Tenants)
        /\ None \in Option([count : Nat, sha : Seq(Written)]) /\ None \in Option(Seq(Written))
    BY DEF Option
  <2>3. bundle \in Bundles
    BY <1>1, <2>2 DEF EmptyBundle, Bundles
  <2>4. target \in Targets
    BY <1>1, <2>2 DEF EmptyTarget, Targets
  <2>5. exported \in Exports
    BY <1>1, <2>2 DEF Exports
  <2> QED
    BY <2>1, <2>3, <2>4, <2>5 DEF FilesTyped
<1>4. job \in [Procs -> Jobs] /\ \A p \in Procs : job[p].cmd = "idle"
  BY <1>1 DEF Jobs, Idle
<1>5. bundle.manifest = None /\ target.reported = None /\ exported.manifest = None
  BY <1>1 DEF EmptyBundle, EmptyTarget
<1>6. TypeInv
  BY <1>2, <1>3, <1>4, <1>5 DEF TypeInv, Present
<1>7. SourceInv
  <2>1. Shown(<<>>, 0) = {} /\ Len(<<>>) = 0
    BY DEF Shown
  <2> QED
    BY <1>1, <1>2, <2>1 DEF SourceInv
<1>8. ExportInv /\ CreateInv /\ PublishedInv
  BY <1>1, <1>4, <1>5 DEF ExportInv, OneExport, ExportedInv, ExportJobInv, CreateInv, PublishedInv
<1>9. RestoreInv
  BY <1>1, <1>4 DEF RestoreInv
<1>10. BundleInv
  BY <1>4, <1>5 DEF BundleInv, Exclusive, BundleManifestInv, ReportedInv, BackupJobInv, UnpackJobInv
<1>11. FirstBackup
  BY <1>4 DEF FirstBackup
<1> QED
  BY <1>6, <1>7, <1>8, <1>9, <1>10, <1>11 DEF IndInv

\* The invariant is inductive.
LEMMA NextInd ==
  ASSUME IndInv, [Next]_vars
  PROVE  IndInv'
<1>1. CASE Next
  <2>1. TypeInv' /\ SourceInv' /\ damaged \subseteq damaged'
    BY <1>1, Effects DEF IndInv
  <2>2. CreateInv' /\ PublishedInv' /\ RestoreInv'
    BY <1>1, CreateStepInv, RestoreStepInv DEF IndInv
  <2>3. "export" \notin damaged' => ExportInv'
    BY <1>1, <2>1, ExportStepInv DEF IndInv
  <2>4. "backup" \notin damaged' => FirstBackup'
    BY <1>1, <2>1, BackupStepInv DEF IndInv
  <2>5. Unraced' => BundleInv'
    <3>1. Unraced' => Unraced
      BY <2>1 DEF Unraced
    <3> QED
      BY <1>1, <3>1, BundleStepInv DEF IndInv
  <2> QED
    BY <2>1, <2>2, <2>3, <2>4, <2>5 DEF IndInv
<1>2. CASE UNCHANGED vars
  <2>1. UNCHANGED <<source, writing, orphaned, portable, restored, bundle, target, exported, job, damaged>>
    BY <1>2 DEF vars, files
  <2>2. TypeInv' /\ SourceInv'
    BY <2>1 DEF IndInv, TypeInv, FilesTyped, Present, SourceInv
  <2>3. ("export" \notin damaged' => ExportInv') /\ CreateInv' /\ PublishedInv'
    BY <2>1 DEF IndInv, ExportInv, OneExport, ExportedInv, ExportJobInv, CreateInv, PublishedInv
  <2>4. RestoreInv'
    BY <2>1 DEF IndInv, RestoreInv, Copied, Sha
  <2>5. Unraced' => BundleInv'
    BY <2>1 DEF IndInv, Unraced, BundleInv, Exclusive, BundleManifestInv, ReportedInv, BackupJobInv,
                UnpackJobInv, Sound
  <2>6. "backup" \notin damaged' => FirstBackup'
    BY <2>1 DEF IndInv, FirstBackup
  <2> QED
    BY <2>2, <2>3, <2>4, <2>5, <2>6 DEF IndInv
<1> QED
  BY <1>1, <1>2

\* It holds in every reachable state.
LEMMA Inductive == Spec => []IndInv
<1>1. Init => IndInv
  BY InitInd
<1>2. IndInv /\ [Next]_vars => IndInv'
  BY NextInd
<1> QED
  BY <1>1, <1>2, PTL DEF Spec

\* A published portable backup verifies and is the start of the relay's log,
\* whichever commands failed, were killed or raced for the path (create_portable_relay_backup
\* and verify_portable_relay_backup), until the disk damages it.
THEOREM PublishedBackupIsWhole == Spec => []PortableIsWhole
<1>1. IndInv => PortableIsWhole
  <2> SUFFICES ASSUME IndInv, portable # None, "portable" \notin damaged
               PROVE  PortableIsWhole
    BY DEF PortableIsWhole
  <2>1. /\ portable[1].manifest # None
        /\ Verifies(portable[1], portable[1].manifest[1].url)
        /\ Pre(portable[1].lines, Scan(source))
    BY DEF IndInv, PublishedInv
  <2>2. LinesVerify(portable[1].lines)
    BY <2>1 DEF Verifies
  <2>3. portable[1].lines \in Seq(Lines) /\ Scan(source) \in Seq(Lines)
    BY ShaLines, StoreTypes DEF IndInv, TypeInv
  <2>4. IsPrefix(portable[1].lines, Scan(source))
    BY <2>1, <2>3, PreIsPrefix
  <2> QED
    BY <2>1, <2>2, <2>4 DEF PortableIsWhole
<1> QED
  BY <1>1, Inductive, PTL

\* A published restore holds the events of the verified backup in order, though
\* lines were lost while it read them, and shows readers what the relay shows
\* when it copied the whole log and no write was cut short
\* (restore_portable_relay_backup).
THEOREM RestoreIsFaithful == Spec => []RestoredIsBackup
<1>1. IndInv => RestoredIsBackup
  <2> SUFFICES ASSUME IndInv, restored # None
               PROVE  RestoredIsBackup
    BY DEF RestoredIsBackup
  <2>1. portable # None /\ Copied(restored[1], Len(Sha))
    BY DEF IndInv, RestoreInv
  <2>2. Sha \in Seq(Lines)
    BY <2>1, ShaLines DEF IndInv
  <2>3. restored[1] \in Stores
    BY OptionFacts DEF IndInv, TypeInv, FilesTyped
  <2>4. restored[1].map \in Seq(Events)
    BY <2>3 DEF Stores
  <2>5. restored[1].map = [i \in DOMAIN Sha |-> Sha[i].event]
    BY <2>1, <2>2, <2>4 DEF Copied
  <2>6. ASSUME ~orphaned, ~writing, restored[1].map = source.map
        PROVE  Current(restored[1]) = Current(source)
    <3>1. source.indexed = Shown(source.map, Len(source.map))
      BY <2>6 DEF IndInv, SourceInv
    <3>2. restored[1].indexed = Shown(restored[1].map, Len(restored[1].map))
      BY <2>1 DEF Copied
    <3> QED
      BY <2>6, <3>1, <3>2 DEF Current
  <2> QED
    BY <2>5, <2>6 DEF RestoredIsBackup, Sha
<1> QED
  BY <1>1, Inductive, PTL

\* A directory restore that reported success has this tenant's store, with an
\* index into its own map and a map that starts the relay's log, unless the
\* relay wrote while backup_tenant copied the files, or two of these commands
\* began on one directory before either had written there (restore_tenant).
THEOREM UnpackedStoreIsUsable == Spec => []UnpackedIsUsable
<1>1. IndInv => UnpackedIsUsable
  <2> SUFFICES ASSUME IndInv, target.reported # None, damaged \cap {"overlap", "backup", "unpack"} = {}
               PROVE  UnpackedIsUsable
    BY DEF UnpackedIsUsable
  <2>0. BundleInv /\ "overlap" \notin damaged
    BY DEF IndInv, Unraced
  <2>1. /\ bundle.manifest # None /\ target.reported = Some(Tenant)
        /\ target.map = bundle.manifest[1].sums[1][1]
        /\ target.indexed = bundle.manifest[1].sums[1][2]
    BY <2>0 DEF BundleInv, ReportedInv
  <2>2. Sound(target.map, target.indexed)
    BY <2>0, <2>1 DEF BundleInv, BundleManifestInv
  <2>3. target \in Targets /\ source.map \in Seq(Events)
    BY DEF IndInv, TypeInv, FilesTyped, Stores
  <2>4. target.map[1] \in Seq(Events)
    BY <2>2, <2>3, OptionFacts DEF Sound, Targets
  <2>5. target.indexed[1] \subseteq DOMAIN target.map[1]
    BY <2>0, <2>2, <2>4 DEF Sound
  <2>6. IsPrefix(target.map[1], source.map)
    BY <2>2, <2>3, <2>4, PreIsPrefix DEF Sound
  <2> QED
    BY <2>1, <2>5, <2>6 DEF UnpackedIsUsable
<1> QED
  BY <1>1, Inductive, PTL

\* An export that has its manifest is complete, counts its events and starts at
\* the first event of the log, unless two exports found the file missing at once
\* (export_tenant).
THEOREM ExportIsComplete == Spec => []ExportIsWhole
<1>1. IndInv => ExportIsWhole
  <2> SUFFICES ASSUME IndInv, exported.manifest # None, "export" \notin damaged
               PROVE  ExportIsWhole
    BY DEF ExportIsWhole
  <2>1. /\ exported.lines # None /\ Pre(exported.lines[1], source.map)
        /\ exported.manifest[1] = [count |-> Len(exported.lines[1]), sha |-> exported.lines[1]]
    BY DEF IndInv, ExportInv, ExportedInv
  <2>2. exported.lines[1] \in Seq(Written) /\ source.map \in Seq(Written)
    BY <2>1, OptionFacts, EventsWritten DEF IndInv, TypeInv, FilesTyped, Exports, Stores
  <2>3. IsPrefix(exported.lines[1], source.map)
    BY <2>1, <2>2, PreIsPrefix
  <2> QED
    BY <2>1, <2>3 DEF ExportIsWhole
<1> QED
  BY <1>1, Inductive, PTL

\* No command changes what another has finished: a published backup and a
\* published restore though several commands found the path free at once
\* (rename in create_portable_relay_backup and restore_portable_relay_backup), a
\* directory backup and an export unless a second one began before the first had
\* written anything (prepare_empty_directory, export_tenant).
THEOREM FinishedIsFinal == Spec => FinishedStays
<1>1. IndInv /\ [Next]_vars =>
        [/\ portable # None => portable' # None /\ portable'[1].manifest = portable[1].manifest
         /\ restored # None => restored' = restored
         /\ (bundle.manifest # None /\ "backup" \notin damaged') =>
              bundle'.manifest = bundle.manifest
         /\ (exported.manifest # None /\ "export" \notin damaged') => exported' = exported]_vars
  <2> SUFFICES ASSUME IndInv, Next
               PROVE  /\ portable # None => portable' # None /\ portable'[1].manifest = portable[1].manifest
                      /\ restored # None => restored' = restored
                      /\ (bundle.manifest # None /\ "backup" \notin damaged') =>
                           bundle'.manifest = bundle.manifest
                      /\ (exported.manifest # None /\ "export" \notin damaged') => exported' = exported
    OBVIOUS
  <2>1. damaged \subseteq damaged'
    BY Effects DEF IndInv
  <2> QED
    BY <2>1, RestoreStepInv, BackupStepInv, ExportStepInv DEF IndInv
<1> QED
  BY <1>1, Inductive, PTL DEF Spec, FinishedStays
=============================================================================
