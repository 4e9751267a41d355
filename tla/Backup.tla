------------------------------- MODULE Backup -------------------------------
(***************************************************************************)
(* The commands that copy a tenant's store: the portable backup and its    *)
(* restore (portable_backup.rs), the directory backup and its restore      *)
(* (backup.rs) and the export (export.rs), each a process of its own that  *)
(* runs beside the relay, may fail at any file operation and may be        *)
(* killed between any two.                                                 *)
(*                                                                         *)
(* A portable command works in a stage of its own and renames it to the    *)
(* final path; the others write in place, manifest last.  A digest is the  *)
(* content it was taken of.  An option is a sequence of at most one.       *)
(***************************************************************************)
EXTENDS Integers, SequencesExt, FiniteSetsExt

CONSTANTS
  Events,          \* signed events a client may send
  Replaces,        \* <<new, old>>: new replaces old under one address
  Size,            \* bytes of the JSON line of an event
  MaxEventCount,   \* PortableRelayBackupPolicy
  MaxLineBytes,
  MaxBackupBytes,
  Urls,            \* relay identities a command may name
  Tenants,         \* the tenants of the configuration
  Tenant,          \* the one whose store this is
  BackupEnabled,   \* tenants with backup_enabled
  ExportEnabled,   \* tenants with export_enabled
  Procs,           \* command processes
  MaxWrites,       \* bound on the relay's writes
  MaxCommands,     \* bound on commands
  MaxFaults        \* bound on failures, crashes and damage

ASSUME BackupAssumption ==
  /\ Replaces \subseteq Events \X Events
  /\ Size \in [Events -> Nat]
  /\ Tenant \in Tenants
  /\ {MaxEventCount, MaxLineBytes, MaxBackupBytes} \subseteq Nat \ {0}
  /\ {MaxWrites, MaxCommands, MaxFaults} \subseteq Nat

VARIABLES
  source,    \* the relay's store
  writing,   \* the relay has appended an event and not yet indexed it
  portable,  \* at the portable backup's final path
  restored,  \* at the portable restore's final path
  bundle,    \* the directory backup's output
  target,    \* the directory restore's target
  exported,  \* the export's output and manifest
  job,       \* what each process is doing
  damaged,   \* what the disk damaged, a write overlapped or two commands raced for
  orphaned,  \* a write of the relay ended between append and index
  writes, commands, faults

files == <<portable, restored, bundle, target, exported>>
bounds == <<writes, commands, faults>>
vars == <<source, writing, files, job, damaged, orphaned, bounds>>

None == <<>>
Some(x) == <<x>>
Idle == [cmd |-> "idle"]

-----------------------------------------------------------------------------
(* The Pocket store (external): a map of events, appended to, and an index   *)
(* of positions, from which a replaced event is taken.  The map is written   *)
(* first; a process that ends in between leaves an event outside the index.  *)

EmptyStore == [map |-> <<>>, indexed |-> {}]

Current(st) == {st.map[i] : i \in st.indexed}

Storable(st, e) ==
  /\ e \notin Current(st)
  /\ \A c \in Current(st) : <<c, e>> \notin Replaces

Appended(st, e) == [st EXCEPT !.map = Append(@, e)]

Indexed(st) ==
  LET n == Len(st.map)
  IN [st EXCEPT !.indexed =
        {i \in @ : <<st.map[n], st.map[i]>> \notin Replaces} \cup {n}]

\* scan_events: the whole map, with offsets, whatever the index says
Scan(st) == [i \in DOMAIN st.map |-> [offset |-> i, event |-> st.map[i]]]

Spend == faults < MaxFaults /\ faults' = faults + 1

RelayAppend ==
  /\ ~writing /\ writes < MaxWrites
  /\ \E e \in Events : Storable(source, e) /\ source' = Appended(source, e)
  /\ writing' = TRUE /\ writes' = writes + 1
  /\ UNCHANGED <<files, job, damaged, orphaned, commands, faults>>

RelayIndex ==
  /\ writing /\ writing' = FALSE
  /\ source' = Indexed(source)
  /\ UNCHANGED <<files, job, damaged, orphaned, bounds>>

RelayCrash ==
  /\ writing /\ writing' = FALSE
  /\ orphaned' = TRUE /\ Spend
  /\ UNCHANGED <<source, files, job, damaged, writes, commands>>

-----------------------------------------------------------------------------
(* Commands *)

Begin(p, j) ==
  /\ job[p] = Idle /\ commands < MaxCommands
  /\ job' = [job EXCEPT ![p] = j]
  /\ commands' = commands + 1

Doing(p, cmd, step) ==
  /\ job[p].cmd = cmd
  /\ job[p].step = step

Step(p, j) == job' = [job EXCEPT ![p] = j]

\* No process is at work on the command cmd.
Alone(cmd) == \A q \in Procs : job[q].cmd # cmd

\* A command that writes in place looks at its path once, at the start: a second
\* one that begins before the first has written there goes on beside it.
Races(cmd) == {c \in {cmd} : ~Alone(c)}

Quiet == UNCHANGED <<source, writing, orphaned, writes>>

-----------------------------------------------------------------------------
(* Portable backup *)

SumSizes(lines) ==
  FoldLeft(LAMBDA total, l : total + Size[l.event], 0, lines)

Manifest(url, lines) ==
  [url   |-> url,
   count |-> Len(lines),
   sha   |-> lines,
   first |-> IF lines = <<>> THEN None ELSE Some(lines[1].offset),
   last  |-> IF lines = <<>> THEN None ELSE Some(lines[Len(lines)].offset)]

\* parse_backup_line
LineParses(l) == Size[l.event] <= MaxLineBytes

\* verify_event_lines; signatures are the relay's own check on what it stores
LinesVerify(lines) ==
  /\ \A i \in DOMAIN lines :
       /\ LineParses(lines[i])
       /\ \A j \in 1..(i - 1) : /\ lines[j].offset < lines[i].offset
                                /\ lines[j].event # lines[i].event
  /\ Len(lines) <= MaxEventCount

\* Mutation: the lines are not read again.
VerifiesByDigest(b, url) ==
  /\ b.manifest # None
  /\ LET m == b.manifest[1]
     IN /\ m.url = url
        /\ m.count <= MaxEventCount
        /\ SumSizes(m.sha) <= MaxBackupBytes
        /\ b.lines = m.sha

\* verify_portable_relay_backup
Verifies(b, url) ==
  /\ b.manifest # None
  /\ LET m == b.manifest[1]
     IN /\ m.url = url
        /\ m.count <= MaxEventCount
        /\ SumSizes(m.sha) <= MaxBackupBytes
        /\ b.lines = m.sha
        /\ LinesVerify(b.lines)
        /\ Manifest(url, b.lines) = m

\* create_portable_relay_backup: refuses an output that exists, makes a stage
BeginCreate(p) ==
  /\ portable = None
  /\ \E url \in Urls :
       Begin(p, [cmd |-> "create", step |-> "scan", url |-> url, left |-> <<>>,
                 stage |-> [lines |-> <<>>, manifest |-> None]])
  /\ Quiet /\ UNCHANGED <<files, damaged, faults>>

CreateScan(p) ==
  /\ Doing(p, "create", "scan")
  /\ Len(source.map) <= MaxEventCount
  /\ Step(p, [job[p] EXCEPT !.step = "lines", !.left = Scan(source)])
  /\ Quiet /\ UNCHANGED <<files, damaged, commands, faults>>

CreateLine(p) ==
  /\ Doing(p, "create", "lines") /\ job[p].left # <<>>
  /\ LineParses(Head(job[p].left))
  /\ Step(p, [job[p] EXCEPT !.left = Tail(@),
                            !.stage.lines = Append(@, Head(job[p].left))])
  /\ Quiet /\ UNCHANGED <<files, damaged, commands, faults>>

CreateManifest(p) ==
  /\ Doing(p, "create", "lines") /\ job[p].left = <<>>
  /\ SumSizes(job[p].stage.lines) <= MaxBackupBytes
  /\ Step(p, [job[p] EXCEPT !.step = "publish",
                !.stage.manifest = Some(Manifest(job[p].url, job[p].stage.lines))])
  /\ Quiet /\ UNCHANGED <<files, damaged, commands, faults>>

\* Mutation: an output that has appeared in the meantime is replaced.
PublishOver(p) ==
  /\ Doing(p, "create", "publish")
  /\ Verifies(job[p].stage, job[p].url)
  /\ portable' = Some(job[p].stage)
  /\ Step(p, Idle)
  /\ Quiet /\ UNCHANGED <<restored, bundle, target, exported, damaged, commands, faults>>

\* The stage is verified as a backup and renamed; the file system refuses to
\* rename a directory over one that is not empty.
Publish(p) ==
  /\ Doing(p, "create", "publish")
  /\ Verifies(job[p].stage, job[p].url)
  /\ portable = None
  /\ portable' = Some(job[p].stage)
  /\ Step(p, Idle)
  /\ Quiet /\ UNCHANGED <<restored, bundle, target, exported, damaged, commands, faults>>

\* The error returns of a creation: the store or a line is over the policy,
\* the stage does not verify, the output exists.
CreateRefused(p) ==
  \/ Doing(p, "create", "scan") /\ Len(source.map) > MaxEventCount
  \/ /\ Doing(p, "create", "lines")
     /\ IF job[p].left = <<>> THEN SumSizes(job[p].stage.lines) > MaxBackupBytes
                              ELSE ~LineParses(Head(job[p].left))
  \/ /\ Doing(p, "create", "publish")
     /\ ~Verifies(job[p].stage, job[p].url) \/ portable # None

-----------------------------------------------------------------------------
(* Portable restore *)

\* restore_portable_relay_backup: verifies, refuses a target that exists
BeginRestore(p) ==
  /\ portable # None /\ restored = None
  /\ \E url \in Urls :
       /\ Verifies(portable[1], url)
       /\ Begin(p, [cmd |-> "restore", step |-> "lines", read |-> 0,
                    verified |-> portable[1].manifest[1].count,
                    stage |-> EmptyStore])
  /\ Quiet /\ UNCHANGED <<files, damaged, faults>>

MoreLines(p) == job[p].read < Len(portable[1].lines)
NextEvent(p) == portable[1].lines[job[p].read + 1].event

\* The file is read again, line by line, into the stage's own store.
RestoreLine(p) ==
  /\ Doing(p, "restore", "lines") /\ MoreLines(p)
  /\ Storable(job[p].stage, NextEvent(p))
  /\ Step(p, [job[p] EXCEPT !.read = @ + 1,
                            !.stage = Indexed(Appended(@, NextEvent(p)))])
  /\ Quiet /\ UNCHANGED <<files, damaged, commands, faults>>

\* Mutation: the count is compared with the lines read only.
CountsAgreeInStage(p) == Len(job[p].stage.map) = job[p].read

\* The events found by a scan, the lines read and the lines verified
CountsAgree(p) ==
  /\ Len(job[p].stage.map) = job[p].read
  /\ job[p].read = job[p].verified

RestorePublish(p) ==
  /\ Doing(p, "restore", "lines") /\ ~MoreLines(p)
  /\ CountsAgree(p) /\ restored = None
  /\ restored' = Some(job[p].stage)
  /\ Step(p, Idle)
  /\ Quiet /\ UNCHANGED <<portable, bundle, target, exported, damaged, commands, faults>>

RestoreRefused(p) ==
  /\ Doing(p, "restore", "lines")
  /\ IF MoreLines(p) THEN ~Storable(job[p].stage, NextEvent(p))
                     ELSE ~CountsAgree(p) \/ restored # None

\* An error return: the stage is removed and nothing else is touched.
Refuse(p) ==
  /\ CreateRefused(p) \/ RestoreRefused(p)
  /\ Step(p, Idle)
  /\ Quiet /\ UNCHANGED <<files, damaged, commands, faults>>

-----------------------------------------------------------------------------
(* Directory backup *)

EmptyBundle == [map |-> None, indexed |-> None, checksums |-> None, manifest |-> None]
EmptyTarget == [map |-> None, indexed |-> None, reported |-> None]

\* load_selected_tenant_config, then the tenant's own switch
Selected(t, enabled) == t \in Tenants /\ t \in enabled

\* collect_checksums: everything in the directory but the two manifests
Checksums(b) == <<b.map, b.indexed>>

\* backup_tenant: the output must be empty; entries are copied in path order,
\* event.map before lmdb/data.mdb, then the checksums, then the manifest.
BeginBackup(p) ==
  /\ Selected(Tenant, BackupEnabled)
  /\ bundle = EmptyBundle
  /\ damaged' = damaged \cup Races("backup")
  /\ Begin(p, [cmd |-> "backup", step |-> "map"])
  /\ Quiet /\ UNCHANGED <<files, faults>>

CopyMap(p) ==
  /\ Doing(p, "backup", "map")
  /\ bundle' = [bundle EXCEPT !.map = Some(source.map)]
  /\ Step(p, [job[p] EXCEPT !.step = "index"])
  /\ Quiet /\ UNCHANGED <<portable, restored, target, exported, damaged, commands, faults>>

\* The relay is not told of the copy: what it has written since the map was
\* copied is in the index and not in the map.  A file is copied in one step: an
\* index torn by a write that falls into its own copy is not represented.
CopyIndex(p) ==
  /\ Doing(p, "backup", "index")
  /\ bundle' = [bundle EXCEPT !.indexed = Some(source.indexed)]
  /\ damaged' = damaged \cup {d \in {"overlap"} : source.map # bundle.map[1]}
  /\ Step(p, [job[p] EXCEPT !.step = "checksums"])
  /\ Quiet /\ UNCHANGED <<portable, restored, target, exported, commands, faults>>

WriteChecksums(p) ==
  /\ Doing(p, "backup", "checksums")
  /\ bundle' = [bundle EXCEPT !.checksums = Some(Checksums(bundle))]
  /\ Step(p, [job[p] EXCEPT !.step = "manifest"])
  /\ Quiet /\ UNCHANGED <<portable, restored, target, exported, damaged, commands, faults>>

\* TenantBackupManifest: whose backup it is, and the digest of the checksums
BackupManifest(b) == Some([source |-> Tenant, sums |-> b.checksums])

WriteManifest(p) ==
  /\ Doing(p, "backup", "manifest")
  /\ bundle' = [bundle EXCEPT !.manifest = BackupManifest(bundle)]
  /\ Step(p, Idle)
  /\ Quiet /\ UNCHANGED <<portable, restored, target, exported, damaged, commands, faults>>

\* Mutation: the files are not compared with their checksums.
BundleHasManifest(b, t) ==
  b.manifest # None /\ b.manifest[1].source = t /\ b.checksums = b.manifest[1].sums

\* The tenant named, the digest of the checksum manifest, then every file's
BundleVerifies(b, t) ==
  /\ b.manifest # None /\ b.manifest[1].source = t
  /\ b.checksums = b.manifest[1].sums
  /\ Checksums(b) = b.checksums[1]

\* restore_tenant: copies in place and then opens and scans the store
BeginUnpack(p) ==
  /\ target = EmptyTarget
  /\ damaged' = damaged \cup Races("unpack")
  /\ \E t \in Tenants : /\ Selected(t, BackupEnabled) /\ BundleVerifies(bundle, t)
                        /\ Begin(p, [cmd |-> "unpack", step |-> "map", tenant |-> t])
  /\ Quiet /\ UNCHANGED <<files, faults>>

UnpackMap(p) ==
  /\ Doing(p, "unpack", "map")
  /\ target' = [target EXCEPT !.map = bundle.map]
  /\ Step(p, [job[p] EXCEPT !.step = "index"])
  /\ Quiet /\ UNCHANGED <<portable, restored, bundle, exported, damaged, commands, faults>>

UnpackIndex(p) ==
  /\ Doing(p, "unpack", "index")
  /\ target' = [target EXCEPT !.indexed = bundle.indexed]
  /\ Step(p, [job[p] EXCEPT !.step = "scan"])
  /\ Quiet /\ UNCHANGED <<portable, restored, bundle, exported, damaged, commands, faults>>

\* scan_events reads the map only.
UnpackScan(p) ==
  /\ Doing(p, "unpack", "scan")
  /\ target' = [target EXCEPT !.reported = Some(job[p].tenant)]
  /\ Step(p, Idle)
  /\ Quiet /\ UNCHANGED <<portable, restored, bundle, exported, damaged, commands, faults>>

-----------------------------------------------------------------------------
(* Export *)

\* export_tenant: neither file may exist when it looks; the store is scanned
\* before the output is created.
BeginExport(p) ==
  /\ Selected(Tenant, ExportEnabled)
  /\ exported.lines = None /\ exported.manifest = None
  /\ damaged' = damaged \cup Races("export")
  /\ Begin(p, [cmd |-> "export", step |-> "scan", events |-> <<>>, written |-> 0])
  /\ Quiet /\ UNCHANGED <<files, faults>>

ExportScan(p) ==
  /\ Doing(p, "export", "scan")
  /\ Step(p, [job[p] EXCEPT !.step = "create", !.events = source.map])
  /\ Quiet /\ UNCHANGED <<files, damaged, commands, faults>>

\* File::create empties a file that has appeared in the meantime.
ExportCreate(p) ==
  /\ Doing(p, "export", "create")
  /\ exported' = [exported EXCEPT !.lines = Some(<<>>)]
  /\ Step(p, [job[p] EXCEPT !.step = "lines"])
  /\ Quiet /\ UNCHANGED <<portable, restored, bundle, target, damaged, commands, faults>>

\* Every process writes at a position of its own; what a file emptied by another
\* has before it are holes.
Hole == None

WriteAt(lines, n, e) ==
  [i \in DOMAIN lines \cup 1..n |->
     IF i = n THEN e ELSE IF i \in DOMAIN lines THEN lines[i] ELSE Hole]

ExportLine(p) ==
  /\ Doing(p, "export", "lines") /\ job[p].written < Len(job[p].events)
  /\ LET n == job[p].written + 1
     IN /\ exported' = [exported EXCEPT !.lines[1] = WriteAt(@, n, job[p].events[n])]
        /\ Step(p, [job[p] EXCEPT !.written = n])
  /\ Quiet /\ UNCHANGED <<portable, restored, bundle, target, damaged, commands, faults>>

ExportDigest(n, lines) == Some([count |-> n, sha |-> lines])

\* Mutation: the manifest is written before the lines.
ExportManifestEarly(p) ==
  /\ Doing(p, "export", "lines") /\ exported.manifest = None
  /\ exported' = [exported EXCEPT !.manifest = ExportDigest(Len(job[p].events), job[p].events)]
  /\ UNCHANGED job
  /\ Quiet /\ UNCHANGED <<portable, restored, bundle, target, damaged, commands, faults>>

\* The count is the scan's, the digest is of the file read again.
ExportManifest(p) ==
  /\ Doing(p, "export", "lines") /\ job[p].written = Len(job[p].events)
  /\ exported' = [exported EXCEPT !.manifest =
       ExportDigest(Len(job[p].events), exported.lines[1])]
  /\ Step(p, Idle)
  /\ Quiet /\ UNCHANGED <<portable, restored, bundle, target, damaged, commands, faults>>

-----------------------------------------------------------------------------
(* Faults.  A file operation fails or the process is killed: a portable      *)
(* command's stage is removed or left behind under a name nobody uses again, *)
(* and what the others have written stays where it is.                       *)

Fail(p) ==
  /\ job[p] # Idle /\ Step(p, Idle) /\ Spend
  /\ Quiet /\ UNCHANGED <<files, damaged, commands>>

\* A backup loses its tail on the disk, also while a restore reads it, or is
\* altered while nobody reads it.
LosePortableTail ==
  /\ portable # None /\ portable[1].lines # <<>>
  /\ portable' = [portable EXCEPT ![1].lines = Front(@)]
  /\ damaged' = damaged \cup {"portable"} /\ Spend
  /\ Quiet /\ UNCHANGED <<restored, bundle, target, exported, job, commands>>

AlterPortable ==
  /\ portable # None /\ Alone("restore")
  /\ \E lines \in {Reverse(portable[1].lines), portable[1].lines \o portable[1].lines} :
       /\ lines # portable[1].lines
       /\ portable' = [portable EXCEPT ![1].lines = lines]
  /\ damaged' = damaged \cup {"portable"} /\ Spend
  /\ Quiet /\ UNCHANGED <<restored, bundle, target, exported, job, commands>>

DamageBundle ==
  /\ bundle.manifest # None /\ Alone("backup") /\ Alone("unpack")
  /\ \/ /\ bundle.map[1] # <<>>
        /\ bundle' = [bundle EXCEPT !.map[1] = Front(@)]
     \/ /\ bundle.indexed[1] # {}
        /\ bundle' = [bundle EXCEPT !.indexed[1] = {}]
  /\ damaged' = damaged \cup {"bundle"} /\ Spend
  /\ Quiet /\ UNCHANGED <<portable, restored, target, exported, job, commands>>

-----------------------------------------------------------------------------
Init ==
  /\ source = EmptyStore /\ writing = FALSE
  /\ portable = None /\ restored = None
  /\ bundle = EmptyBundle /\ target = EmptyTarget
  /\ exported = [lines |-> None, manifest |-> None]
  /\ job = [p \in Procs |-> Idle]
  /\ damaged = {} /\ orphaned = FALSE
  /\ writes = 0 /\ commands = 0 /\ faults = 0

Portable(p) ==
  \/ BeginCreate(p) \/ CreateScan(p) \/ CreateLine(p) \/ CreateManifest(p) \/ Publish(p)
  \/ BeginRestore(p) \/ RestoreLine(p) \/ RestorePublish(p) \/ Refuse(p)

InPlace(p) ==
  \/ BeginBackup(p) \/ CopyMap(p) \/ CopyIndex(p) \/ WriteChecksums(p) \/ WriteManifest(p)
  \/ BeginUnpack(p) \/ UnpackMap(p) \/ UnpackIndex(p) \/ UnpackScan(p)
  \/ BeginExport(p) \/ ExportScan(p) \/ ExportCreate(p) \/ ExportLine(p) \/ ExportManifest(p)

Next ==
  \/ RelayAppend \/ RelayIndex \/ RelayCrash
  \/ \E p \in Procs : Portable(p) \/ InPlace(p) \/ Fail(p)
  \/ LosePortableTail \/ AlterPortable \/ DamageBundle

Spec == Init /\ [][Next]_vars

-----------------------------------------------------------------------------
(* Properties *)

\* What stands at the portable backup's path, whoever failed or was killed on
\* the way, verifies under its own identity and holds the first events of the
\* relay's log in their order with their offsets, unless it was damaged later.
PortableIsWhole ==
  (portable # None /\ "portable" \notin damaged) =>
     /\ portable[1].manifest # None
     /\ Verifies(portable[1], portable[1].manifest[1].url)
     /\ LinesVerify(portable[1].lines)
     /\ IsPrefix(portable[1].lines, Scan(source))

\* A published restore has every event of the backup that was verified, in
\* order, though the file lost lines between verification and reading; and as
\* long as no write of the relay was cut short, a restore of the whole log
\* shows readers the same events as the relay does.
RestoredIsBackup ==
  restored # None =>
     /\ restored[1].map
          = [i \in DOMAIN portable[1].manifest[1].sha |->
               portable[1].manifest[1].sha[i].event]
     /\ (~orphaned /\ ~writing /\ restored[1].map = source.map)
          => Current(restored[1]) = Current(source)

\* A restore from a directory backup that reported success has a store whose
\* index names events of its map only, both are the relay's at one time, and it
\* is the store of the tenant the restore was for: damage at rest is refused, and
\* a retry after an interrupted copy too.  It holds unless the relay wrote while
\* the files were copied, or two backups or two restores raced for a directory.
UnpackedIsUsable ==
  (target.reported # None /\ damaged \cap {"overlap", "backup", "unpack"} = {}) =>
     /\ target.reported = Some(Tenant)
     /\ target.indexed[1] \subseteq DOMAIN target.map[1]
     /\ IsPrefix(target.map[1], source.map)
     /\ target.map = bundle.manifest[1].sums[1][1]
     /\ target.indexed = bundle.manifest[1].sums[1][2]

\* An export that has its manifest is complete and starts at the first event;
\* an interrupted one has none and is not written to again.  The count of the
\* scan is the count of the file.  It holds unless two exports raced for the file.
ExportIsWhole ==
  (exported.manifest # None /\ "export" \notin damaged) =>
     /\ exported.manifest[1].count = Len(exported.lines[1])
     /\ exported.manifest[1].sha = exported.lines[1]
     /\ IsPrefix(exported.lines[1], source.map)

\* No command changes what another has finished.  A published backup keeps its
\* manifest and a published restore its store also when two commands found the
\* path free at once, for a rename replaces nothing; a finished bundle and a
\* finished export stay unless two backups, or two exports, raced for the path.
FinishedStays ==
  [][/\ portable # None => portable' # None /\ portable'[1].manifest = portable[1].manifest
     /\ restored # None => restored' = restored
     /\ (bundle.manifest # None /\ "backup" \notin damaged') =>
          bundle'.manifest = bundle.manifest
     /\ (exported.manifest # None /\ "export" \notin damaged') => exported' = exported]_vars
=============================================================================
