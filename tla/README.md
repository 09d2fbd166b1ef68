# A TLA+ model of steward

steward inventories the files of a household's volumes, plans which duplicates
to remove, and removes them in stages a person can undo; it ships its inventory
between machines and reports on its own health. This directory holds TLA+
modules of the parts where that could go wrong, TLC runs over small instances,
and TLAPS proofs. Paths below are relative to `src/src/steward`.

## The system

| Component | State | Operations | What makes it correct |
|---|---|---|---|
| Audit chain: `core/audit.py`, `infra/db/repo_audit.py` | `audit_log` (append-only table, hash chain) | `append` in somebody's transaction, `verify_chain` | every row names its predecessor; rows never change; no row chains to something rolled back |
| Audit archive: `infra/db/audit_archive.py` | segment files, registry | plan, write, register | a segment is the prefix of the log it says it is |
| Scanner: `infra/scanner/*`, `infra/db/repo_claims.py` | `scan_runs`, `permanodes`, `claims` | scan (serial, parallel, resumed), members of containers | a claim says what its path held; a finished run covers its root |
| Watcher: `infra/scanner/fsevents_watcher.py`, `core/scanner/watcher.py` | event buffer | push, drain, incremental scan | no change is forgotten |
| Enrichment: `infra/importer`, `infra/db/classify.py`, `infra/embed` | `claims`, `embeddings` | import-legacy, classify, embed | what is committed is whole; labels are kept |
| Planner: `core/policy/*`, `infra/db/plan.py` | manifest files | dedup-retire, promote | one copy is kept, and it is a real one |
| Plan backlog: `infra/plans/registry.py` | summaries, index, sidecars | register, refresh, attach filter, list, prune | the status tells what was applied |
| Apply: `infra/db/apply.py` with executors `stash`, `retire`, `promote`, `nas_manifest` | file system, `claims`, `audit_log` | dry run, execute | nothing is overwritten; what is done is on record |
| Stash lifecycle: `infra/db/stash_cmd.py` | entries replayed from `audit_log`, files in stash directories | list, verify, finalize, restore | nothing is deleted before its time; everything goes back where it was |
| Cloud retire: `infra/dual_presence.py`, `core/fp_paths.py`, `infra/retire.py` | two forms of each cloud file | seed, probe, filter, retire | what is deleted is what was verified |
| MCP plan tokens: `infra/mcp/{plan_tokens,handlers,capability}.py` | token files, the manifest file | dry run, issue, validate, execute, consume | an agent executes what was dry-run, once, within bounds |
| Sync: `infra/sync/*`, `infra/machines.py` | envelopes, attached inventories, `machines` | export, pull, import, detach, preflight | foreign claims are never acted on; nothing partial is published |
| Runners: `infra/replicate`, `infra/archive`, `infra/db/backup.py` | staged copy, audit rows | replicate run, archive snapshot | what left the host is what was checked, and on record |
| Estate ownership: `core/estate/*`, `infra/estate/*` | the estate file, as each process read it | preflights of plan, apply, scan, stash commands, runners | one host acts on a volume |
| Health and fleet: `core/health`, `infra/health`, `infra/status.py`, `core/fleet` | snapshots, dual-presence cache | health check, status, fleet report | ok is only said of what was looked at and is well |
| Dashboard: `infra/dashboard/*` | two caches | polls, actions | an action is seen by who asks after it |
| Others | | cadence, statistics, database administration, command line | sequential, or read-only |

All components meet in one SQLite file and in the file system. SQLite gives one
writer at a time and whole transactions. The file system gives neither, and most
hard behaviour comes from that pair: a file is moved at once and the row that
says so appears at the end of the batch or never; a row or a file is looked at
before the write lock is held and used after. Processes are CLI commands, MCP
servers, dashboard threads, scan workers and the watcher's two threads; other
programs, a cloud provider and other machines write beside them. `PROJECT.json`
lists the hazards line by line.

## Modules

| Module | Models | Uses |
|---|---|---|
| `AuditLog` | what readers of the log rely on: it grows by whole transactions at its end, each one chain of one connection whose first row names the genesis or a committed row | |
| `AuditChain`, `AuditChainProofs` | `append`, transactions, `verify_chain` | implements `AuditLog` |
| `AuditArchive` | sealing a prefix of the log, by one of the chain's connections | extends `AuditChain` |
| `Scan` | scans with workers, resumes, edits and faults | |
| `Containers` | members of containers: claim, checksum and walk of a file that may be written in between | |
| `Watch` | the observer's thread, the buffer, the drain and the incremental scan | |
| `Enrichment` | import-legacy, classify and embed on one database | |
| `Stash`, `StashProofs` | apply of stash rows, list, finalize, restore | |
| `PlanToken`, `PlanTokenProofs` | MCP dry run and execute with a plan token | |
| `Backlog` | the plan registry next to applies, prunes and crashes | |
| `Promote` | promote and NAS rows of an apply next to other programs | |
| `Dedup` | scan, plan, apply, finalize and restore around one question: does a copy remain? | |
| `CloudRetire` | planning, filtering and retiring files that a cloud drive shows twice | |
| `Publisher` | what readers of an exported envelope may rely on | |
| `Export`, `ExportProofs` | overlapping exports of one target | implements `Publisher` |
| `Sync` | pull, import, detach, verify and the apply preflight | |
| `Runners` | replicate and archive runs | |
| `Ownership` | which host may act on which path, by estate files that are replaced | |
| `HealthReport` | what there is to know, what a report collects of it, the level of every check | |
| `HealthRelay` | `latest.json` of one machine, pulled and graded by another | |
| `Dashboard` | threads, caches, polls and actions; the banner | |
| `Inventory`, `InventoryProofs` | the log with its archive, scans, containers, watcher and enrichment | extends `AuditArchive`; `Scan`, `Containers`, `Watch`, `Enrichment` |
| `Plans`, `PlansProofs` | what plans go through | extends `PlanToken`; `Backlog`, `Promote`, `Dedup`, `CloudRetire` |
| `Hosts`, `HostsProofs` | what passes between hosts | extends `Sync`; `Export`, `Runners` |
| `Reports`, `ReportsProofs` | what a machine says of itself and of others, and may do | `HealthReport`, `HealthRelay`, `Ownership`, `Dashboard` |
| `MC...` | the instances TLC checks | extend a composition or a component |

An operator with the comment `\* Fault:` is a variant of the definition it
precedes, with a plausible bug. It is in no behaviour of the model; substituting
it shows that the property it is paired with in `PROJECT.json` can fail.

**AuditChain, AuditArchive.** `log` is the table, `pend[c]` the rows of a
connection's open transaction, `writer` the holder of SQLite's write lock.
Python opens a transaction at the first INSERT, so `append` is two steps:
`ReadTip` (`SELECT row_hash`) and `InsertRow`. A connection in `DataFirst` has
written something else first (`WriteData`: a scan inserts its `scan_runs` row)
and reads the tip under the lock. `Abort` is a rollback, an exception, the busy
timeout or a killed process. A row is its actor and two hashes; the hash is
uninterpreted, injective in the instance. An archiver is one more connection: it
plans on one look at the log, writes the segment file, and appends and registers
later. The INSERT into the registry may fail, which the code passes over: the
audit row of the segment is committed without it.

**Scan, Containers.** A file is a content and a time in whole seconds; `SizeOf`
makes contents collide in size, so that a resumed scan may take one for the
other. A parallel run has a worker per subtree, each with a transaction of its
own, and a main process that gathers their totals. `CommitBatch` is the commit
after `CommitEvery` claims, `Kill` ends any set of the processes. Two commands
may scan the root at once. A file whose content cannot be read counts as an
error; a directory that cannot be listed and a file whose stat fails are dropped
and counted nowhere (`PassDir`, `PassFile`, kept in the history variable
`passed`). A large file is read twice, for its fast and its archive hash
(`FastHash`, `ArchiveHash`). A busy timeout of the row that says how far a run
has come is passed over (`BumpTimeout`), any other ends the walker. In
`Containers` a walk reads a container three times by its path; ZIP, tar and disk
images stay open through the last read, 7z and RAR are extracted. Members that
an extracted or mounted tree does not show (`os.walk` without `onerror`,
`isfile` false) are left out and counted nowhere (`PassMembers`).

**Watch.** `emitted` is what the observer has not dispatched, `buffer` what the
handler pushed, `batch` what a drain swapped out. Times (debounce, longest wait)
only decide when a drain returns, and it may return whenever the buffer holds
something.

**Enrichment.** An import holds the write lock through a batch; `tx` is its
transaction. A dry run rolls back every full batch, its own `scan_runs` row with
the first. Classify and embed select first, wait for the lock, and write and
commit under it, so that each is two steps. A vector may fail after its
`embeddings` row is written, and the transaction goes on.

**Stash.** `file[p]` is the content at a path, `log` the committed stash rows,
`pend[p]` those of a running command, `cmd[p]` the command of process `p` with
its listing and its position. `InFlight(log)` is `list_stashes`. Check and act
are separate steps where the code looks first and acts later: `CheckRow` and
`RenameRow`, `CheckEntry` and `UnlinkEntry` or `RestoreEntry`. `RenameRaises` is
the `OSError` apply does not catch, `EntryFails` the one finalize and restore do
catch, `LockTimeout` the sixty seconds of `busy_timeout`, `Crash` a killed
process, `CreateFile` another program, `Tick` a day. `DestOf` is any map: a path
in the stash is the run and the basename, so two files of a run may share it,
and an entry's path may hold the file of another. A content is the path it first
had and a version, so that the model can say where a file came from. `setting`
is chosen in the initial state: commands overlap freely, or come one at a time
(`setting.alone`, the runbook's rule against concurrent commands,
`docs/runbooks/dropbox-rectification.md`, "Anti-patterns"), over which runs and
within which bounds. `stashed`, `touched`, `lost` and `torn` are history: the
entry of a file's last rename into the stash, what a command moved and has not
committed, the files whose last move no row records, and the entries whose file
left the stash without a row.

**PlanToken.** `call[a]` is the tool call a server process serves. The manifest
file is read at four places (dry run, issue, validate, execute), each a step of
its own, with `Edit` between any two. A digest stands for the content it is
taken of. `uses`, `issued`, `loose`, `swapped` and `disturbed` are history. One
manifest path and one machine are modelled, so the checks of path and machine id
always pass. The token binds the manifest by digest and carries the bound on
files; the flags `skip_verify` and `allow_store_path_unlink` of an execute are
arguments of that call alone, tied to no token, and are not modelled.

**Backlog.** A plan has a summary, the last of its lines in the index, and
sidecars. Commands take no lock: summary and index line are two steps, and
`_status_from_audit` is evaluated on what the log holds when the command reads
it. A dry run's digest says ok, failed, or that it had errors; only the last is
a reason to block. `told` remembers what was listed.

**Promote, Dedup, CloudRetire.** Rows of an apply, each kind in the module of
its hazard. `Promote` copies to `<dst>.inflight` and renames, with other
programs at work. `Dedup` maps places (a path, or a stashed file) to contents;
`InsertClaim` appends and clears nothing, as `repo_claims.insert`, and `late`
are the claims of scans that had read the file before `retire_direct` removed
it; `RowsOf` is `reconcile_dedup_retire` for one content; `job` is the running
apply with what its transaction holds. `CloudRetire` has two forms per file,
which the provider propagates, and takes a plan through the filter to the apply;
a claim carries its `is_current`, which `retire_direct` clears.

**Export, Sync.** An export packs into `.<name>.partial`, a name all exports of
the target share, and renames it; an exception at any step goes through the
`finally` that unlinks the partial, whoever wrote it (`Raises`). A file is known
by the export that created it, so that a process goes on writing to a file
another has renamed. In `Sync` a payload is a machine and a version, an envelope
pairs what its manifest says with what is in it; imports stage, verify, move and
register in separate steps.

**Runners.** `staged` is the database copy at the path that all replicate runs
share, complete, in part, or the empty one that SQLite makes of a path that is
not there. Replicate commits each row, archive leaves its rows to its caller's
transaction.

**Ownership.** `loaded[p]` is the estate file process `p` read first. A path is
placed on a volume by regular expressions and prefixes of mounts, the longest
first. A command is a list of items, each a set of (action, path) asked
together; the commands differ in when they ask and where a refusal is recorded,
as in the code.

**HealthReport, HealthRelay.** The variables of `HealthReport` are facts: scans,
volumes with their free space, their size and whether the mount is a link or
read-only, stash entries, the chain, machines, cloud domains. Its operators are
the collectors and the checks in the code's order, down to which exception or
option leaves a section out. `Collect` writes one report for one request,
`Holds` says in words of the facts what each ok means. `HealthRelay` follows
`latest.json` through its shared `.tmp`, a pull, and a grade under another
clock.

**Dashboard.** A poll that misses loads without a lock and stores what it
loaded; an action writes, then empties the caches, if it is one of those that
do: a dry run of replicate or archive writes a run's rows, which the posture
reads, and empties nothing. The page itself always collects anew and leaves what
it has collected in both caches.

## Runs

`Inventory`, `Plans`, `Hosts` and `Reports` compose components that share no
state in the model: the variable `subject` is chosen in the initial state and
says which of them moves. So every behaviour is one of a single component, at
the price of one run for several, and the proofs carry one invariant per
component. `stash` has commands that overlap and commands one at a time in
behaviours of their own, by `setting`.

| Run | Components | Distinct states | Shows |
|---|---|---|---|
| `audit_chain` | Inventory: AuditChain with AuditArchive, Scan, Containers, Watch, Enrichment | 826 thousand | rows of lock holders chain and no row dangles; segments are what they say; claims name what was there; finished runs cover their root but for what the walk drops uncounted, add up and never change; members are of the version claimed and all accounted for that the walk is shown; no change is forgotten, and the inventory follows the files; batches are whole and labels kept |
| `stash` | Stash, two processes; two of the three files share a path | 1.99 million | closing rows close something, an apply never renames over a file, a restored file is home unless it shared its path in the stash and, one command at a time, a command died; one command at a time, between them the listing and the disk agree but for what died commands moved, an entry closes once, and the cooling-off window holds but for a file at the path of an entry that a died command left open |
| `plans` | Plans: PlanToken, Backlog, Promote, Dedup, CloudRetire | 1.65 million | what is executed was dry-run within its bound; a token is used once unless two executions overlap or one dies, and only expiry and a finished apply remove it; what is listed settles, and applied means an apply ended; a promoted row names what is there, and no file seen is replaced; a content no other program has touched keeps a copy in place; a retired file is not current but for late claims; what is removed from the cloud was verified |
| `sync` | Hosts: Sync, Export, Runners | 670 thousand | what is attached is what was exported; foreign claims are never applied; `Export` refines `Publisher`; what ships as checked was checked, and what left the host is on record but for the runs that died |
| `reports` | Reports: HealthReport, HealthRelay, Ownership, Dashboard | 1.30 million | every ok of a report holds of the facts; an ok of another machine was true within the allowed age; only owners act; an action that empties the caches is seen by who asks after it was answered; the banner's ok is true |
| `audit_chain_race` | AuditChain | violation in 7 states | two `append`-first connections fork the chain |
| `stash_shared` | Stash, one command at a time | violation in 18 | a finalize removes a file stashed that day, at the path of an older entry |
| `stash_unrecorded` | Stash | violation in 5 | a batch that raises later, or dies, leaves files that no row knows |
| `plan_token_oneshot` | PlanToken | violation in 15 | two executions under one token |
| `dedup_verify` | Dedup, both bundled policies | violation in 20 | `stash verify` says ok for the last copy |
| `cloud_keeper` | CloudRetire | violation in 7 | a plan's keeper is the file its row retires |
| `plan_applied` | Backlog | violation in 10 | a plan of which a part was applied is listed as applied |

**Bounds.** Two processes (or connections, writers, threads) suffice for a race
over one lock or one name; there are three exporters, since a third finds the
partial of the first two mixed up, and three connections of different kinds. Two
files or rows let a batch fail between them. `Cap = 2` and two rows let a bound
cut a manifest. Two days tell an entry that is due from one that is not. In
`Stash`, three files of which two share a path and two runs that both stash one
of them put every pair of entries side by side: one path with two sources, one
source with two runs, and neither; one death leaves an entry open, a second can
interrupt what cleans it up. In `Dedup`, three claims let a path be scanned
twice next to another copy, and two manifests let an old one be applied after a
new one. In `Scan`, two runs let one resume the other or run beside it, two
edits let a file come back to its size. Two versions of a container and one edit
put every read on either side of it. An import has a batch of two, so that a dry
run goes on after its first rollback. In `HealthReport` any two events precede a
report. One crash or fault per behaviour is enough to interrupt every step, and
the faults of two steps are met where `MaxFaults` or `MaxCrashes` is 2.
`SYMMETRY` is used where processes are interchangeable and the run has no
liveness property.

Every run has `CHECK_DEADLOCK FALSE`: the systems stop when a bound is used up
or nothing is left to do.

**Fairness.** Only `Watch` has any, `WF(Push)` for the observer's thread and
`WF(Loop)` for the command's loop: both are threads of one live process that
block on nothing but a condition variable and SQLite's lock with its timeout.
With it, `Follows`: if the watcher stays up, what is at a watched path and what
the inventory says of it come to agree. No fairness is assumed of anything else:
commands are started by a person, a timer or an agent and may be killed at any
step.

## Findings

1. The chain can fork (`audit_chain_race`). `append` reads the tip outside the
   write lock when it is a connection's first statement, which is the case for
   apply, the stash commands and the MCP marker, but not for scans. The proofs
   show the other side: with a data write first (`DataFirst = Conn`) the chain
   is always intact, and a forked log is still a tree of true histories.
2. Cooling-off may be skipped (`stash_shared`), against `finalize_stash`'s
   "Refuses entries younger than `cooling_off_days` unless `force=True`". A path
   in the stash is the run and the basename (`core/policy/reconciler.py:216`).
   If a finalize dies after it has unlinked a file and before it commits, the
   entry stays open; the next apply of the run may put another file of that
   basename at the path, and the next finalize unlinks that one by the old
   entry's date. Only the path is looked at before the unlink.
3. A rename may go unrecorded (`stash_unrecorded`), against ADR-0007 and
   ADR-0002: the row is written after the rename and committed with the batch.
4. A plan token may authorize two executions (`plan_token_oneshot`): it is
   consumed after the apply, and a consume that fails is passed over.
5. `stash verify` cannot see that an entry is the last copy (`dedup_verify`): it
   counts current claims, and stash and finalize clear none, the entry's own
   source claim included. It takes two plans that rank copies differently to
   lose the last copy. `retention.yml` and `recovered.yml` do; `recovered.yml`
   alone does when its stash directory is scanned, since a stashed copy is not
   "recovered" any more and outranks the ones that are.
6. A cloud file's own second form can be its keeper (`cloud_keeper`): the
   planner compares paths as text, and the store form and the mount form of one
   file count as two copies. The retire row then deletes the file it names as
   kept.
7. A plan is listed as applied after any apply that ended (`plan_applied`): the
   status counts audit actions that apply never writes.

## Also seen, with no run

These came up in reading and shaped the guards and the exceptions of the
properties above.

- *Claims.* ADR-0001 says a superseded claim flips to `is_current=0`; only
  `retire_direct` ever flips one. `connect.py` calls WAL with
  `synchronous=NORMAL` durable across power loss. A claim may pair the time of
  one file with the content of another (stat, then hash), and a resumed scan may
  carry it on.
- *Scanner.* A directory that cannot be listed and a file or directory whose
  stat fails are left out without an error count (`infra/scanner/walker.py:138`,
  `149-151`, `384-403`, `410-423`), so that a run finishes `complete` with zero
  errors and has not seen them.
- *Watcher.* A file moved into a skipped directory becomes a claim; events that
  are not drained when the command ends are lost, and a read error is not
  retried. `core/scanner/watcher.py` describes a sweep that does not exist.
- *Containers.* A `RuntimeError`, `zlib.error`, `EOFError` or `TarError` in the
  iteration, and a duplicate member name, end the whole scan, although the
  module's docstring says a bad member must not. A walk holds the write lock
  through `hdiutil` and `unar`, up to 1800 seconds against a busy timeout of 60.
  `os.walk` without `onerror` and a false `isfile` pass over members of an
  extracted tree that cannot be read, uncounted
  (`infra/scanner/container_walker.py:391-395`). The planner counts a member of
  an archive as a copy.
- *Enrichment.* A dry run of more than one batch reports the rest as skipped:
  the run its claims refer to is rolled back. A vector that fails leaves its
  `embeddings` row, and later runs pass the content over. A semantic search
  takes its neighbours over all models before it filters by model.
- *Stash.* A row is not verified against the hash it names. A refusal of
  finalize or restore in report mode is recorded in the command's transaction.
  Where two files share a path (finding 2), one death is also enough for a
  restore to put one of them at the other's source path. A restore renames over
  a file that another program created at the source after the check
  (`infra/db/stash_cmd.py:268-273`).
- *Promote.* `os.rename` replaces a file created after the check; nothing cleans
  `.inflight`; NAS lines are outside the transaction.
- *Backlog.* Prune looks at 500 plans and never shortens the index; a pruned
  plan reappears; two refreshes that overlap may leave summary and index in
  disagreement until the next; registering again resets applied; the statuses
  superseded and expired are never set; `write_dry_run_sidecar` has no caller.
- *Archive.* The INSERT of a segment into the registry may fail and is passed
  over, after its audit row is committed (`infra/db/audit_archive.py:399-401`).
- *Dedup.* A scan that has read a file before `retire_direct` removes it may
  commit its claim afterwards; that claim of a file that is gone stays current.
- *Cloud.* `write_filtered_plans` leaves an older `plan-dual.tsv` in place when
  no row is dual.
- *Sync.* SQLite attaches ten databases to a connection, and the preflight
  passes over the ones beyond. Two imports of a machine in one second share a
  name. Overlapping exports may publish a partial file for a moment.
- *Runners.* Replicate runs share `.replicate-staging`, and of two that overlap
  one may ship what the other has written so far. An archive run holds the write
  lock through restic and loses its rows with an exception.
- *Ownership.* The estate is read once per process, so that after a change of
  owner the old and the new one may both act. Checks use the claim's path, not
  what it resolves to. `scan` checks its root only.
- *Health.* The stash summary counts an audit action that nothing writes, so
  `stash_overdue` never fails (`core/health/evaluate.py:272`). Fleet tokens are
  ok without rows when imports cannot be listed; `rollup_stale` can never fail;
  `foreign_attach` is ok without `hdiutil`; roots beyond twelve probes are not
  measured; mounts that are links, and read-only ones, are not graded, and a
  volume without a total passes the tests by ratio
  (`core/health/evaluate.py:140-145`), although "an unmeasurable volume is
  unknown, never ok"; counts are served for a day; writers of `latest.json`
  share its `.tmp`.
- *Dashboard.* `replicate_dry_run` and `archive_dry_run` commit the
  `replicate_end` and `archive_end` rows that the posture reads
  (`infra/replicate/runner.py:277-293`, `infra/archive/runner.py:241-257`), and
  empty no cache, although `infra/dashboard/server.py:427` has "any successful
  write/plan" do so. The posture takes a dry run for the adapter's last run,
  with its time and its outcome (`infra/status.py:251-270`). A load begun before
  an action is stored after it and served for the cache's time; a failed action
  that has written empties nothing; the page's health payload takes the place of
  one with more checks.
- *MCP.* With an invalid `STEWARD_MCP_MODE` the error handler raises the same
  error again.

## Proofs

TLAPS proves, for any constants that satisfy the modules' assumptions, that
every safety invariant and every action property of the passing runs holds, the
refinements included. The runs show them on an instance; they were also used to
check each inductive invariant below before it was proved. What stays with TLC
is `Follows`, since the prover has no rule for fairness, and the violations. The
numbers of a proof (walked files, claims of a run, free inodes) are sizes of
sets or minima of sets of naturals, so that nothing rests on induction over
data.

The theorems of the compositions carry one invariant per component through the
steps of all of them; a component that is not the subject stands still.

`AuditChainProofs`. `IInv` joins the types, the lock discipline (only the writer
has rows pending), that pending rows chain from the log's tip for lock-first
connections, and that every hash read is one of an earlier row. With that,
`TypeCorrect`, `SingleWriter`, `NothingDangles` and `ScansNeverFork` follow;
`IntactUnderLock` adds `DataFirst = Conn`. `Refines` maps every commit to one
`Publish` and everything else to a stutter; its `TxInv` says that the rows of a
transaction are its connection's and chain one to the next, and by `IInv` the
first names the genesis or a committed row. `LockedAppendsChain` alone is not
inductive: it says nothing of the rows that are still pending.

`InventoryProofs`.
- *Archive.* `ArchiveInv`: what a connection has planned or is sealing is a
  verified prefix that leaves the hot rows, and only a connection that seals has
  rows pending. With the log growing at its end only, `SegmentsStay`.
- *Scan.* `ScanInv` joins the types, `ClaimsHold`, `HeldNow` (what lies at a
  path counts as held by every run under way, and so does the file of a stat,
  replaced or not) and `WalkersHold` (workers are quiet once the command walks
  itself, rows are pending only between two commits). From it
  `ClaimsAreOfTheFiles` and `FinishedRunsStay`. `CoverInv` counts: a path is due
  once, with one walker of a run, and is claimed only after; unless a walker
  gave up, the files walked are the claims and the errors, and beside those
  passed over no more files were missed than there are errors. A kill rolls back
  what is pending, but a command whose worker gave up gives up too, so that its
  run is never finished. From both, `FinishedRunsCover`.
- *Containers.* `MemberInv` and `AccountInv` (a walk's totals are those of the
  members it has passed, those it was not shown excepted, and a container
  written since its checksum is no longer accounted for). From them
  `MembersAreTheContainers`, `ScansAccountForMembers`.
- *Watch.* `WatchInv`: a path is on its way between the threads, or gone, or
  what was read last of it is what is there. From it `NoChangeForgotten`.
- *Enrichment.* `EnrichInv`: an open batch only adds to the database, and only
  to its run; an import has a claim for every row it has counted as hashed and
  none beyond the row it is at. From it `CommitsAreWhole` and `LabelsStay`.

`StashProofs`. `IInv` joins the types, `Running` (only a running command has
pending rows or holds the lock, and an apply holds it throughout) and `Guarded`
(what an apply has checked is still so: no other process puts a file at its
destination, since only applies do and they need the lock). From it,
`TypeCorrect` and `NoClobber`. `NothingClosedUnopened` needs `OpenInv`: an entry
in anybody's hands was opened by a row of the log, and so was what a pending row
closes. All of it is for any map of destinations. `IInv` has `InPlace` for that:
a file in the stash lies where it was last renamed to, whatever entries name the
path. `PutsBackHome`, `ListingIsTheDisk`, `ClosedOnlyOnce` and `CoolsOff` rest
on `HomeInv` (rows name the path the manifest gives, and a file at a source path
came from there or shared its path in the stash with one that did) and
`AloneInv`, which is `SoloInv` in the settings with `setting.alone`. `SoloInv`
holds the disk against two listings at once, the committed rows', as if the
command died now, and the command's own, as if it committed now: a file in the
stash has the entry of its last rename, and an entry whose file is not at its
path is in `torn`. While no command has died `torn` is empty, so that two open
entries never name one path; after one it may not be, and that is the exception
`CoolsOff` and `ListingIsTheDisk` state and `stash_shared` shows.

`PlanTokenProofs`. `IInv` joins the types, `Calls` (what a call's fields are at
each of its steps), `Bound` (a token in the store or in a call was issued, and
is tied to what its dry run read unless an edit came in between; a call that met
no edit has read the manifest as it is) and `Once` (a token that is not
disturbed is in one call at most, and one that has been used is gone from the
store or in the call that used it). The last clause is why one use per token is
not inductive by itself: the token stays valid until the apply has ended. From
it, `TypeCorrect`, `AppliesBound`, `UsedOnce` and the action property
`KeptUntilApplied`. The assumption asks that no dry run's record is the value
`None`.

`PlansProofs`.
- *Backlog.* `BacklogInv`: a status "applied" that a command is about to write
  is true already; and unless commands overlapped or died, one command at a time
  knows what it has written and summary and index agree outside it. From it
  `AppliedWasAppliedHolds`, `ListingSettlesHolds`.
- *Promote.* `PromoteInv`: what apply knows at each step of the destination and
  of its `.inflight`, and that a recorded row found its content. From it
  `RecordedIsThereHolds`, and with it the action property
  `NeverOverwritesHolds`.
- *Dedup.* `RetiredNotCurrentHolds` is of any policies, and excepts the paths of
  `late` claims. `LastCopySafeHolds` assumes `Unbiased`: no policy in use ranks
  recovered copies last, or nothing is recovered. Its `DedupSafe` says which
  copy survives: a current claim of the best tier and the lowest id among those,
  whose file is in place and which no plan, old or new, has a row for; any other
  copy in place is on no better tier, or has nothing else on record. Copies
  compared by the bias break exactly that, since the best one of a plan is not
  the best one of the next (`dedup_verify`).
- *CloudRetire.* `CloudInv`: a filter and an apply exclude each other, and a
  file about to be deleted that was verified and not written since is what its
  row names. From it `RemovedKnowinglyHolds`.

`ExportProofs`. `IInv` joins the types, `Attested` (a manifest names a snapshot
that was taken, a body is that snapshot or unreadable, and whoever has a file
open that was never mixed is alone with it), `Named` (the partial and the target
are different files), `Alone` (while exports do not overlap, the partial is the
one export's own) and `Replaced` (a target is missing only while or after
another replaced it). From it, `TypeCorrect`, `PublishesWhole`, and `Refines`:
every step is one of `Publisher` on the published envelope or leaves it alone,
whether or not exports overlap. The theorems name `ExportAssumption`, since the
runs instantiate the module.

`HostsProofs`. `SyncInv` joins the types, `AllGenuine` (envelopes and payload
files are of exports of the machine they are filed under), `Recorded` (what is
attached or pulled is on record) and `Undisturbed` (what a command that runs
alone knows of the files it goes on with). From it `AttachedGenuineHolds` and
`PulledWasAttachedHolds`. `ForeignNeverAppliedHolds` assumes `Attachable`, no
more machines than SQLite attaches (*Also seen*), and carries `Guarding`: a
permanode that had no local claim since the apply began is in an inventory that
preflight attached. `RunInv` follows a run's rows and transfers
(`ReplicateKnows`, `ArchiveKnows`) and the one staging path; from it
`ShippedIsCheckedHolds` and `TransfersAttestedHolds`. `ImplementsPublisherHolds`
brings the refinement of `ExportProofs` to the composition.

`ReportsProofs`.
- *Relay.* `RelayInv`: every file, open or renamed, holds a report that was true
  when it says, or a torn one. `OkWasHealthyHolds`.
- *Ownership.* `EstateInv`: every item that a job has passed was one its loaded
  estate entitles it to, or its refusal is on record or in a transaction that is
  open or died. `OwnersOnlyHolds`.
- *Dashboard.* `PageInv`: what a cache or a thread holds was read with one look
  and is no older than the actions answered that empty the caches, or was stored
  across one. `ReadsItsActionsHolds`, `BannerOkIsTrueHolds`.
- *Health.* `MachineInv`: the cached counts were the counts at their time. From
  it, token by token, `OkIsTrueHolds`, which assumes no more declared mounts
  than the probes look at (`infra/health/probes.py:418`).

What the assumptions of the modules ask beyond types: markers such as `None` and
`NoFile` are no data; importers, classifiers and embedders are different
processes; there are more inodes than writers of `latest.json`; an estate file
in force says where volumes lie and declares nested mounts; programs beside a
scan write in directories that were there when it began; mounts that are
declared and mounts that are not are different.

`TypeOK` of a component is proved as a part of the invariants above, where the
argument needs it, and holds on the instances of the runs, which do not list it.

## Not modelled

- Statistics and the dashboard's HTML: read-only queries and text.
- Schedule cadence: `evaluate_overdue` has no caller.
- Command line: parsing and printing around the modelled functions.
- Database administration: initialisation, migrations and settings are calls of
  SQLite and Alembic.
- MCP tools other than the apply tools: queries, or calls of modelled functions.
- The planner's noise rules, which add stash rows by a path pattern; the
  dual-presence report and the command that chains its steps; adapters and retry
  advice of the health report, which are never ok; what a vector is computed
  from.
- Times inside SQLite, rclone, restic, `hdiutil`: they succeed, fail or are
  killed.

## Plan

1. Abstract specifications of more components: a stash entry's life as its user
   sees it, for `Stash` with commands one at a time; a token's life, for
   `PlanToken`; a finished run as one step, for `Scan`.
2. `TypeOK` of each component as a theorem of its own, where the invariants hold
   weaker types.
3. Larger instances of `Sync` (two publishing hosts) and of `Dashboard` (three
   threads), within the time a run may take.
