# Verifying crosscheck

Crosscheck records what coding agents do in a repository and tells other agents about it.  A *connector* (hooks of
an editor or agent, an MCP server, an ACP proxy) runs beside the agent; a *hub* keeps the records of the team.  This
directory models the parts where a lost or misplaced step would be silent: the files that many short-lived processes
share, the proxy on the agent's wire, the hub's idea of which session is open, what the hub holds as told to whom, and
the order it claims between an explanation and an edit.

Paths below are relative to `src/packages/`.

## 1. Inventory

| component | state | operations | what is hard | modelled by |
|---|---|---|---|---|
| spool lock (`connector-core/src/spool/lock.ts`) | a lock file with a token; `heldLocks` per process | create, write, read back, probe, steal, release, exit handler | processes die or exit anywhere, thieves race, no lock below it | `SpoolLock` |
| record spool (`spool/append,write,lines,cursor,identity,files,flush.ts`) | a data file and a cursor file per session | append (lock-free), flush, cursor move | short writes, unlink under a writer, recycled inodes, redelivery | `Spool` |
| reaper (`spool/reap.ts`) | – | removes delivered or expired spools, rescues the tail, folds drop ledgers, ends deferred sessions | writers append meanwhile, kills between two file operations | `Spool`, `DropLedger`, `SessionEnds` |
| drop ledger (`spool/drops.ts`) | `.drops` per session, `unrecorded.dropmarker`, one aggregate | count a drop, fold, read for `doctor` | unlocked appends, reader without a lock, crash between fold and remove | `DropLedger` |
| unclosed sessions (`spool/unclosed.ts`) | the counted ends | count an end nobody could deliver | counted, then the marker removed: two steps | `SessionEnds` |
| session state (`state/session-state.ts`, `session-scan,session-reap,host-session-key.ts`) | a state file per host session: epoch, counter, windows, seen targets, delivered lists | read-modify-write under a lock, unlocked delete, re-publication, claim, reaping | lost updates, an unlocked fallback, resurrection after an end | `CausalOrder` (counter, windows, targets), `Delivery` (delivered lists), `SessionEnds` (existence) |
| positions (`capture/seq.ts`, `state/tool-window-key.ts`) | the counter and the open tool windows in the state file | open a window before a tool, allocate after it | busy locks, parallel tools with one key, stale reads | `CausalOrder`, which implements `SeqCounter` |
| flows (`flows/register-session,end-session,capture-*,hint,briefing.ts`), hooks, `mcp/tools/set-intent.ts` | a pending-end marker | register, re-fire, recover, capture, declare, hint, brief, end or defer the end | hub unreachable, resume racing a deferred end, sibling hooks | `CausalOrder`, `SessionEnds`, `Delivery` |
| ACP proxy (`connector-acp/src`) | a held line, a capture queue, pending requests, sessions | forward both ways, inject, capture, brief, shut down | two pumps, a queue that drops, answers out of order, exits | `AcpProxy` |
| landing fetch (`connector-core/src/landed-changes`) | one record per clone | book a fetch, fetch in a worker, record the outcome, tell `doctor` | racing hooks, dead workers, a fetch that half succeeds, a clock set back | `LandingFetch` |
| hub sessions (`server/src/services/sessions,records,session-events,events.ts`) | a row per session, the event ledger, the session's event rows | register, heartbeat, ingest, end, reap | statements of concurrent requests interleave, restarts | `HubSessions` |
| causal order (`services/session-order,record-handlers,intent-ledger.ts`) | event rows with positions | decide before / after / unknown | misplaced positions, missing rows | `OrderGate`, with `CausalOrder` |
| questions (`services/questions.ts`) | question rows, answer edges | ask under budgets, answer across an embedding, expire | expiry against a slow answer | `Questions` |
| author's notices (`services/landed-notices.ts`) | a row per reader and commit | file a stop, refile, tell, expire | stops arrive late, twice, in any order | `LandedNotices` |
| deliveries (`services/hint-deliveries.ts`, `routes/hints.ts`, `connector-core/src/hints/delivery.ts`) | delivery rows, delivered lists, shown notices | list, claim, spool, ship, print | sibling hooks race for a slot, kills between steps | `Delivery` |
| claims and their validity (`services/claim-revalidations,claim-validity,record-handlers.ts`, `connector-core/src/flows/claim-revalidation.ts`, `git/claim-drift.ts`, `mcp/tools/get-diagnosis.ts`, `cli/src/cli/revalidate.ts`) | claims with the commit they were observed at, edges, targets, one reading a claim | write, bind, fold a repetition, revise, plan, measure, report, expire, derive the state | clones that stand at different commits report in any order, a downgrade is final, reports are lost | `ClaimValidity` |
| contradictions, pins, waivers | rows | open, close | each decided inside one request over stored rows | no |
| model runner and gates (`connector-core/src/model`) | – | judge one model answer | a pure pipeline over text | no |
| CI, verdict, suspect, referee, search, reports | – | read-only queries | – | no |
| CLI, UI, rendering, configuration, git adapter | – | text and I/O; what `doctor` reads is in `DropLedger` and `LandingFetch` | – | no |

## 2. Modules

**Files on the developer's machine.**  `SpoolLock` is the file lock at the granularity of its file-system calls.  A
task is one caller of `withLock`; its labels (`at`) are the awaits of `acquireLock`, `createLock`, `stealableToken`,
`stealLock` and `releaseLock`.  `file` is the lock file (who created it, whether its token is written, whether it is
older than `SPOOL_LOCK_STALE_MS`), `held` is `heldLocks`.  `Kill` is a death without handlers, `Exit` is
`process.exit`.  `PidReused` gives the pid of a dead process to an unrelated one, which `ImpostorEnds` ends, if ever.
`raced` is history: it rises when a thief passes `stealLock`'s re-check beside another thief, or over a creator that has
not yet written; `robbed` are the holders whose entry in `heldLocks` a sibling call of their process deleted when it
returned.

`Spool` is one session's spool.  Files are inodes, so that a write through an open handle can land in an unlinked
file and an inode number can come back; `path` is the name, `disk` the contents in lines, `cursor` the cursor file.
An append is `Start, OpenSpool, WriteRecord, StatAfterWrite`, with `TerminateFragment` and `Refuse` behind failures;
a worker flushes (`FlushRead, Post, CountBatch, IdentifyFile, MoveCursor`) or reaps (`ReapRead .. PutBack`) inside the
flush lock.

`DropLedger` is the counting of what could not be kept: `Start .. MarkUnrecorded` is `recordDrop`, `SweepAge ..
RemoveLedger` is `reapOrphanDrops` and `archiveLedger`, `ReadNames, ReadLedger, ReadArchive, ReadMarker` is what `doctor`
reads (`readDropSummary`, `readUnrecordedDrop`).  Each read may fail, and then the code takes the file for empty.  `late`,
`misread` and `missed` are history: entries recorded behind a sweep that had read the ledger, entries of a file that a
sweep failed to read, and those of a file that `doctor` did.

`SessionEnds` is how a session registers, ends and comes back.  Hooks of several host sessions run again and again: a
*start* registers under the first suffix the hub accepts (`Accepted, Conflict, Publish`), works and reaps; a *work*
hook recovers a missing state file, appends and flushes; an *end* appends its last record, flushes, and either tells
the hub or leaves a marker (`TellOrDefer`).  Recovery registers the base id and gives up on a conflict in Claude Code's
connector; in Cursor's it climbs the ladder like a start (`Climbs`) and then claims the file.  A ladder that is climbed
to its end publishes, or claims, the base id all the same.  Later starts walk the markers inside the flush lock
(`ReadMarker, Retire, Drained, Call, Remove`) and count what is too old as unclosed.  `name` is the hub session a hook
speaks for, `state` and `marker` the two files, `spool` which hooks' records still wait.  History variables say which
ends were owed, which sessions were ended while they came back, and what happened between a look and its act.

`LandingFetch` is the background fetch of a clone's landing branches.  A hook reads the clock (`Fire`), looks without
the lock, books under it and starts a worker; the worker asks what the stop reads, asks origin, notes the tips, fetches,
reads the tips again when git refused, and records the outcome under the lock.  Tips are numbered by age, so that
"behind" is an inequality.  `since` is the clock less the booking time, which makes setting the clock back a
subtraction.  `FromRecord` is the line `doctor` prints.

**The order of things in a session.**  `OrderGate` is what the hub concludes from positions, as pure operators: what is
stored of a stamp (`WindowFloorOf`, `SeqKindFor`, `Position`, `Stored`), whether a session's order is usable
(`CausalOrderOf`), whether two events may be compared and which came first (`CausalComparisonOf`, `CompareEvents`),
which sighting stands for the edit (`EditEvents`), and the ladder from "no intent" to "declared before"
(`ExplanationTiming`).

`CausalOrder` is the system that produces those positions.  One state file (`file`: epoch, counter `n`, open tool
`windows`, whether the path is in `seenTargets`) is shared by processes of their own: Pre/PostToolUse hook pairs, MCP
declarations, Stop's git lane, SessionStart re-fires and SessionEnd.  Every writer of the file is a section, `Enter`
(lock and read) followed by the section's own action (write and release); `Refused` is a lock that stayed busy,
`Kill` a death, `PublishUnlocked` the fallback of `publishSessionState`, `DeleteState` the unlocked delete.

| source | actions |
|---|---|
| `pre-tool-use.ts`, `openToolWindow` | `OpenToolWindow`; then the host's `Edit` or `ToolFails` |
| `post-tool-use.ts`, `allocateToolSeq`, `captureFileTargets` | `PostToolUse`, `AllocateToolSeq`, `Emit`, `Book` |
| its `recoverState`, `claimSessionState` | `Register`, `Claim`, `Announce` |
| `post-tool-use-failure.ts` | `PostToolUseFailure`, `CloseWindow`, `Fingerprint` |
| `set-intent.ts`, `appendIntentVersion` | `Declare`, `AllocateOne`, `PostIntent` |
| `stop.ts`, `capture-git-touches.ts` | `Stop`, `AllocateLane`, `Emit` or `LaneFindsNothing`, `Book` |
| `register-session.ts`, `publishSessionState` | `SessionStart`, `Register`, `Publish` or `PublishUnlocked`, `Announce` |
| `end-session.ts` | `SessionEnd`, `AllocateOne`, `DeleteState`, `ReportEnd` |
| `flush.ts`, `record-handlers.ts`, `session-events.ts` | `Deliver`, `Ingest`, `Record` |

At the hub, `rows` are the session's `session_events`, `chain` its intent ledger, `open` and `context` whether it holds
the session's row and its work context.  `preceded`, `issued`, `born`, `unfiled` and the `by` and `at` fields are history:
which declarations had a position before a call's tool ran, every position handed out and to which step, the epochs a
state file was created under, and the epochs that were minted in the absence of a file and named to the hub.

`SeqCounter` is the abstract specification of all this writing: one counter per epoch, every block above all earlier
blocks of its epoch.  `CausalOrder` carries the refinement (`Counter == INSTANCE SeqCounter WITH ...`, `CountsUp`):
the file, its copies in the hands of sections, its unlocked fallback and its deletion implement it.

**The wire.**  `AcpProxy` is the proxy between an editor and its agent: `Send .. HangUp` the editor, `AgentAnswers,
AgentEdits, AgentExits` the agent, `PumpStep` the client-to-agent pump, which holds one line while the injector decides
on it, `Deliver` the other pump, which copies what it forwards to the capture queue, `Dispatch`, `FinishRegister` and
`BriefingLands` the capture engine working its queue off, `ShutdownStep` the exit.  A client line is its number in the
client's script, which is also the id of its request; what the queue holds are the lines it has seen in either direction,
`pending` is the set of requests it waits for, `job` the session it is registering.  `lives`, `ends`, `records` and
`told` count what it has said of each session; `due`, `captured` and `excused` are history, of the edits that a standing
registration saw.  A registration may throw after the hub accepted it (`FinishRegister`): the queue counts an error, the
session is not entered, and `stranded` counts it.  `pipes` are the agent's outputs that a helper it started still holds
after its death, until `HelperLetsGo`.

**The hub.**  `HubSessions` is one session on the hub.  A request is a sequence of SQL statements, each an action;
`life` is the row (`open`, `reaped`: ended by the reaper, `ended`: ended by itself), `journal` the event ledger, `marks`
the rows of `session_events`, `view` what a request read.  A hub restart loses the requests under way.

`Questions` is the question channel: asking under three budgets, answering in two halves (the clock is read, an
embedding is awaited, the rest is one transaction), expiry.  `LandedNotices` files, refiles, tells and expires the
author's notices of stops that arrive late or twice.  Both read `HubClock`.  `Delivery` extends both and composes them
with the connector: a hook process lists what waits, picks, and then spools, claims, ships and prints in the order of
its kind (`Path`), between which siblings, flushes and the hub run.  A prompt of a session that owes a briefing pays it
(`DeferredBriefing`), or meets a busy state lock and goes on to hints while the debt stands (`Pick`); `early` is what it
told then.

`ClaimValidity` is whether the code under a claim has moved.  The default branch grows (`Land`), clones follow it
(`FetchOrigin`, `Checkout`), authors write claims at their own checkout (`Write`) and the hub binds each to a commit
(`IngestClaim`: the stated one, or the session's latest `base_commit`), folds a repetition into the stored claim and
files revisions (`IngestEdge`).  A *pull* is a `get_diagnosis` (`FetchDiagnosis, NameRef, Measure, Report`) or a
`crosscheck revalidate` (`RunRevalidate, WalkTree, Measure, Report`) in one clone: `Plan` is
`planClaimRevalidation`, `Drift` is `checkClaimDrift` over the commits between the claim's and the one ref the pull
named, `Ingested` is the hub's transaction with its upsert rule (`Wins`) and its retention (`Prune`).  `StateUnder`
derives a claim's state from rows whenever somebody reads it.  `reading` is `claim_revalidations`; its `of` and `ref` tell
which files the reading was about and the commit it was measured against, `overlooked` (history, like `of`) that the cap
dropped files of the claim and none of the claim that led its check.

**How they compose.**  `SpoolLock` is what the others take for granted: `Spool`, `DropLedger` and `SessionEnds` admit
one worker to the flush lock at a time, `CausalOrder`, `Delivery` and `LandingFetch` one section to a state file.
`Spool` takes from `HubSessions` that the hub stores a record at most once per id, so that a redelivered batch is no
second record.  `SessionEnds` takes a flush as whole, which `Spool` opens up, and a hub session as `open` (reaped or
not) or `ended`, which `HubSessions` opens up.  `CausalOrder` extends `OrderGate` and implements `SeqCounter`.  `MC*`
modules give the instances, `*Proof` modules the theorems.

## 3. Runs

| run | instance | shows |
|---|---|---|
| `SpoolLock` | 3 tasks in 3 processes, or 2 of one process beside a third; 1 retry | `ExclusiveUnlessRaced`, `HolderKeepsLock`, `ExitPutsBack`; `OrphanRetired` under fairness |
| `SpoolLockRace` | the same, no creator suspended past the stale age | violates `MutualExclusion`: two thieves |
| `SpoolCore` | 2 records, 2 inodes, cap 2 lines, batches of 1, 1 fault | `NoRecordLost`, `CursorSkipsNothing` |
| `SpoolLive` | 1 record, 2 inodes, 2 faults | `EventuallySettled` |
| `DropLedger` | 2 drops of a session that ends and resumes, 2 sweepers, 2 faults | `NeverUnderCounts`, `DoctorNeverUnderCounts` |
| `SessionEnds` | 6 casts of a start, a work and an end hook of one session and a start of another | `LiveIsOpen`, `NoEndForgotten`, `DoneIsTrueWhenTold`; `MarkersSettle` |
| `LandingFetch` | 6 casts of up to 2 hooks, 2 workers, 3 branches | `FetchedIsTrue`, `StartsAreApart`; `StaleIsTold` |
| `CausalOrder` | 9 casts of 3 or 4 processes out of 4 hook pairs, 2 declarations, 2 re-fires, a lane, an end; blocks of 2, 2 windows, 1 fault | `PredeclaredIsTrue`, `PostHocIsTrue`, `OrderStaysUsable`; `CountsUp`, the refinement of `SeqCounter` |
| `AcpProxy` | 7 scripts of up to 5 lines, 2 sessions, a queue of 2 lines, 2 pending requests | `LinesKeepOrder`, `EditsAreEntitled`, `BriefingToldOnce`, `OneLifeAtATime`, `ExitLeavesNoneOpen`, `StandingEditsAreCaptured`; `LinesGoThrough`, `ExitFollowsAgent` |
| `HubSessions` | 4 casts out of 2 registrations, a heartbeat, a record, 2 ends, the timer | `SilenceCostsNoRecord`, `LedgerTellsTheRow`, `InferredEndWithdrawn`, `ReportedEndIsFinal` |
| `Delivery` | 8 scenarios of up to 3 questions, 2 answers, 2 stops, 3 hooks in 2 sessions | `StatusTellsAnswers`, `PairBudget`, `ToldWasShown`, `SeenIsOwed`, `NoneTwice` |
| `ClaimValidity` | 7 casts of 2 claims, up to 3 commits and 3 files (2 under the cap), 1 or 2 pulls at a time, 1 group a pull | `CurrentIsEarned`, `StaleIsDeserved`; `DowngradeStands` |

*Bounds.*  Three tasks are one orphan's maker and two thieves, or two callers of one process and a thief.  Two records and two inodes are a delivered file, the
writer that lost it and the number that comes back; `Cap = 2` lets the size cap refuse.  One fault suffices for each
property that counts on what a fault leaves behind; `SpoolLive` allows a second to hit the recovery.  Two drops in one
session are one that is in the aggregate when the other is swept; with two faults a read can fail where a write did, or
`doctor`'s where a sweep's did.  Two sweepers are the one inside the flush lock and the one that would spoil it.

`CausalOrder` runs its processes in casts, chosen before the first step: two calls or one call wired twice beside a
declaration (a neighbour's window, two entries under one key); three hooks with one of them denied, so that its
window stays until the cap of 2 evicts one; one call with two declarations, a lane, an end or a re-fire; two re-fires
with a recovering call; an end and a re-fire around two declarations, the shortest way to a deletion that an unlocked
publication follows.  `Init` ranges over what the first SessionStart may have left: no file, or a file with a register
that did or did not arrive and a work context taken, waiting or lost.  A block of 2 tells the first position of a
block from its last.  One fault is one of: a kill, a refused lock or append, a lost call, a lost answer.  The states in
which each answer of the ladder is given are reached, "declared before" with a second counter among them; an
`epoch_conflict` is not reached, which is the uniqueness of positions seen from the hub.

`SessionEnds` casts: a session that starts again after its end; one round with a fault; one that falls silent; a
working hook between start and end, as Claude Code's recovers; a ladder climbed to its last suffix (`Last = 1`; the code
has three rungs, the theorems any number); and one that a working hook climbs, as Cursor's recovers.  The start of
another session does the maintenance in the first three.

`LandingFetch` casts: two hooks that race while the clock may be set back; two overlapping workers for branches a team
named; origin gaining, losing and renaming branches; whatever leaves a trace going wrong again and again (all of it but
hooks that die before they book, clocks set back and a git that does not answer, see below); a ref git refuses for
good; and anything going wrong once.  `Interval = 2` and `HookTime = 1` are the smallest with a hook that is behind
and not late; jumps of 1 and of more than an interval are the two cases of `isLandingFetchDue`'s guard; `Warn = 3` is
the code's.

`AcpProxy` scripts: a session with prompts and a close; two initialize requests; loads of a live and of an ended
session; a load beside a prompt and a cancel; a hang-up; a directory that is not connected; and a session that is created,
closed and loaded again.  A queue of two lines
drops one.  `HubSessions` casts let requests overlap statement by statement with a silence, with a restart, with
heartbeats, and let seven of them run one at a time; one silence per reaper pass is what separates a SELECT from its
UPDATE.  `Delivery` scenarios are a backlog of questions against all three budgets, prompts that race for an answer or
for the last slot, late, repeated and refiled stops, racing notices, a briefing owed by a late registration, and an
answer beside a notice; each budget is set to bite (`MaxOpen = 2`, `MaxPerTarget = 1`, `PairCap = 1`, `MaxHints = 2`).

`ClaimValidity` casts: two authors who declare the same file and both ask, in clones of their own; three targets
against a cap of 2, the touched one cut in one commit and kept in another; a claim that does not say where it was
observed, its session registered again from another checkout, beside one in other words; a finding revised by one that
was taken back; a claim added from another repository; the same said again from another checkout; and a claim that
declares just the files the cap leaves of another's surface (`Collide`), so that the two share a check.  One group a
pull makes the plan's cut bite; two commits after the first suffice for a downgrade and a report taken before it.

`CHECK_DEADLOCK FALSE` stands where the instance really comes to rest: every record settled, every request answered,
every hook of a scenario run, the proxy gone.  In `SpoolCore` and `CausalOrder` interchangeable constants are declared
as such (`SYMMETRY`); the one temporal property there, `CountsUp`, is a safety property of single steps.

*Fairness.*  A process that keeps running gets through its awaits (weak fairness of the step of each task, call,
worker, hook or request); time passes (`Age`, `Tick`).  Hooks keep coming, each of them flushes and sweeps, and
sessions keep being started: strong fairness where a lock is shared, of entering it for a flush (`Spool`) and of the
reaper finding it free (`SessionEnds`).  In `AcpProxy` the two pumps and the shutdown go on, since every wait in them has
a timer or ends with the peer; nothing is asked of the hub, the queue or the agent.  In `LandingFetch` the developer
keeps working (`Fire`).  Kills, faults, silences, restarts and whatever origin does are never fair.

*Where the code differs from its comments.*  `SpoolLockRace`: two thieves of one orphan both run, against
`lock.ts:331`.  The rest was met while modelling and has no run of its own:

- An answer's record is spooled before its claim; when the claim is declined, because the lock stayed busy or a sibling
  took the last slot, the record is flushed all the same and the hub excludes an answer nobody saw, against
  `hints/delivery.ts:126`.  `Delivery` states it as `HandedWasSeen`, which the scenarios `BusyLock` refute.
- A group of claims keeps the `droppedPaths` and the basis of its first (`flows/claim-revalidation.ts:176`), so that a
  claim with a cut surface can be called current although a cut file was touched, against line 216 there.
  `CurrentIsEarned` names the case (`overlooked`); without that, the cast `Collide` refutes it.
- `drops.ts:199` calls under-counting "the one direction a drop counter must never fail in".  A hook that counts a drop of
  an ended session behind the sweep's read loses it (`reap.ts:324`); a ledger whose read fails is folded as nothing and
  removed (`drops.ts:336`), an aggregate whose read fails is written over as if it were empty (`drops.ts:342`), and a read
  that fails in `doctor` counts for nothing.  `NeverUnderCounts` and `DoctorNeverUnderCounts` name these and no other.
- A registration that throws after the hub accepted it (the state's write, `register-session.ts:276`) is caught by the
  queue (`engine.ts:371`) before the session is entered (512): it stays open on the hub when the proxy exits, and the next
  load registers it again.  `OneLifeAtATime` and `ExitLeavesNoneOpen` count it as `stranded`.
- One claim by a session of another repository, which `extend-diagnosis.ts:115` calls intended, has the hub refuse every
  report of the tree (`claim-revalidations.ts:135`): its other claims are not revalidated, against `cli/revalidate.ts:5`.
- Publishing a stale finding anew in the same words is folded into the stale row (`record-handlers.ts:722`), against
  `claim-revalidations.ts:24`.
- The upsert of a reading leaves `self_reported` out of its `set` (`claim-revalidations.ts:262`), against
  `db/schema.ts:1368`.

*Premises and exceptions.*  Where a property would not hold without one of these, it or a constant names it.
- With `KillInRescue` a reaper killed between its unlink and its write loses what it rescued (`reap.ts:231`), a fourth
  outcome beside the three of `append.ts:73`.
- An orphan is retired unless its holder's pid has come back as an unrelated process's, for as long as that one lives
  (`lock.ts:93` says so); `OrphanRetired` names it (`Impersonated`).
- With two callers of `withLock` in one process on one path, `heldLocks` holds one entry for both, and a call that
  returns deletes it after its release has let the other in: an exit then leaves that one's claim behind.  `ExitPutsBack` leaves out those holders (`robbed`) and no
  others.
- The proxy's exit waits for the agent's stdout and stderr to come to their end; a helper that inherited one can defer it
  without bound, which `proxy.ts:543` accepts, or, for stdout, until the client hangs up.  `ExitFollowsAgent` starts from
  there.
- The hub breaks a session's order where state files were created under two epochs, or where its row names a mint that
  never became a file's: parallel recoveries, or a re-fire killed between its register and its publication.
  `OrderStaysUsable` names both (`born`, `NamedInVain`); that nothing else breaks it is what `carriedSeqEpoch` is for
  (`session-state.ts:730`).
- `StaleIsTold` asks that three things do not go on for good, since they leave no trace for `doctor` to warn of: hooks that
  die before they book (the record then reads "not run yet", which passes, `doctor-landing-fetch.ts:106`), a clock set back,
  and a git that does not answer (`fetch-worker.ts:321` then has no stop refs and reports the run as fetched).
- `LedgerTellsTheRow` and `InferredEndWithdrawn` need requests one at a time: an end that read the row before the reaper
  closed it writes a second end.  A session reaped, revived and ended keeps the reaper's row beside its own
  (`sessions.ts:504`, against 257).
- A heartbeat between the reaper's SELECT and its UPDATE does not save the session (`sessions.ts:433`, against the
  comment at 430); `SilenceCostsNoRecord` says that it costs nothing but the row.
- A listing git does not answer reads as no refs, so that a fetch that moved nothing then reads as a full success
  (`fetch-worker.ts:252` and 276, against "Nothing moved = the fetch failed"); `FetchedIsTrue` asks that git answers.
- A hook held up for longer than an interval between reading the clock and booking takes the newer booking for a clock
  set back and starts a second worker; `HookTime < Interval` excludes it.
- A session that comes back between a teller's look at its state file and the teller's call is ended under a live hook
  (`reap.ts:432` accepts it); an unanswered registration publishes an id the hub may not know; and one that every suffix
  answered as ended publishes the ended base id (`register-session.ts:164`, 206).  `LiveIsOpen` names the three
  (`astray`).  A SessionEnd without a state file falls back to the base id and may write over a suffixed marker;
  a spent marker is removed whatever stands there by then; `NoEndForgotten` names both.
- A reading of `unknown` (git declined) replaces a stored `unchanged`, and the claim goes from current back to unknown
  (`flows/claim-revalidation.ts:202` says that it "downgrades nothing"); `DowngradeStands` speaks of assertability, which
  both have.
- Groups behind a pull's bound wait, and newer claims come first: the plan does not rotate, so an old group can starve.
- A briefing beside another hook, or one whose state file stays locked, may repeat a notice; `NoneTwice` calls these
  sessions `blurred`.  So may one whose debt could not be claimed at an earlier prompt, which then went on to tell the
  notice by itself (`briefing.ts:414`); what such a prompt tells is `early`.

## 4. Proofs

Everything here holds for every value of the constants that satisfies the named assumptions of the modules.  Every
safety property that a run checks is a theorem.  Type invariants are proved and
not run; those of `Spool`, `DropLedger` and `AcpProxy` are parts of their inductive invariants.

`SpoolProof` is about the lock and the file below it.  *The lock*, for any number of tasks spread over processes in any
way and any number of retries: `LockTypeCorrect`, `LockExclusive`, `LockKept` and `ExitRestores`, the last from one
more invariant (`Remembered`): the entry of a process is that of its running action whose claim is on disk, unless that
action is `robbed`.
`LockInv` adds to the types that a thief carries a dead process's token or an unreadable one
(`LockBooks`), and, until the race flag rises, that holders and releasers own the file, that a thief past its re-check
faces an orphan and that there is one such thief (`LockWindows`).  Exclusion alone is not inductive: a thief about to
remove the file of a holder would break it in the next step.  *The spool*, for any number of appends, workers, inodes and
faults: `CursorIsSettled`, and `AckedIsNeverLost` as long as no reaper dies between its unlink and its rescue
(`KillInRescue = FALSE`; TLC shows the loss with it).  Of the lock they use what `MayEnter` says: one worker at a time.
Neither is inductive.  `IInv` adds what an open handle keeps (`Handles`), that a cursor is always that of the file under
the name and has nothing behind it that the hub has not heard of (`CursorHolds`), and what a worker knows of the file it
read at each of its steps (`Workers`): files only grow, and never a whole line right behind a torn one (`Grows`), which is
why an offset that was read stays good while others append.  `AckedIsKept` says where an acknowledged record still is:
at the hub, in the file under the name, or in the hands of a reaper that will put it back.

`SessionEndsProof` proves `TypeCorrect`, `LadderIsClimbed`, `NoEndIsForgotten`, `LiveSessionIsOpen` and
`DoneIsToldInTime` for any sessions, hooks, suffixes and faults.  `EndsInv` adds to the types that a suffix is
registered only above ended ones (`Ladder`) and that, unless it was written anew, the marker a hook has in hand is the
one it read and one about to be removed has done its work (`Spending`); `KnowsInv` adds what a hook knows at each step
of the session it speaks for.  `NoEndForgotten` alone is not inductive: a hook about to remove a marker that still
matters would break it.

`LandingFetchProof` proves `TypeCorrect`, `BookingsAreApart` and `FetchedIsCurrent`.  Bookings: until the clock is set
back, the record's age is the time since the last booking give or take what a hook is behind (`Clock`).  Fetches: a tip
a worker was shown is not newer than the one origin has now (`Shown`), and at each step a worker knows which branches it
fetches, what origin showed of them, and that what has moved since its first listing has moved at least that far
(`Knows`).

`SessionsProof` is about a session on both sides of the wire.  *At the hub* it proves `TypeCorrect`, `EndIsFinal` and
`NoRecordLostToSilence` for any requests in any interleaving across any number of restarts; what makes the latter two
inductive is which labels a request can hold once the row is final.  `LedgerIsTrue` and `WithdrawalIsTrue` are of
requests one at a time, which `InTurn` says and the properties name.  `TurnInv` adds that such requests really never
overlap (`OneAtATime`) and, for each statement a request may have yet to run, what the ledger owes until then
(`Ledger`) and which row a reaped session's end still has to take back (`Withdrawn`).

*At the proxy* it proves `WireKeepsOrder`, `OnlyEntitledEdits`, `BriefingIsToldOnce`, `LivesAlternate`, `ExitEndsAll` and
`EditsAreCaptured` for any scripts, sessions, queue length, number of pending requests, answers in any order and any
faults.  All six follow from one invariant, `ProxyInv`, since no part of it is inductive without others:

- `WireOK`: what the agent got is a prefix of what the client sent, in order, but for one line in hand; `AnswersOK`: the
  agent answers a line once, and only one it got.
- `GateOK`: as long as nothing is negotiated, no successful answer to an initialize has passed and every unanswered one
  is awaited.  Without it an injected line could precede the negotiation.
- `ChainOK`: which lines the queue still holds; `LifeOK`: a session has begun once more than it has ended
  exactly while it is live or being registered, a registration that threw counted with the ends, and is briefed at most
  once each time.
- `FreshOK`: a session that is created is unheard of until the answer that creates it is worked off; `ExitOK`: when the
  queue was worked off in time, the sessions the shutdown has passed are not live.
- `CaptureOK`: whether a session will be live when an event of the queue is reached is decided by what stands before it
  (`WillStand`), so an edit that is queued now is captured later, however long the queue.

Two assumptions on the peers are needed: a created session gets an id nobody has used (`HandsOutNew`) and a load names
a session from before.  `ExitLeavesNoneOpen` holds of all sessions, those whose events a full queue dropped included; what
`OneLifeAtATime` and `ExitLeavesNoneOpen` leave out, registrations that threw after the hub had accepted them, is counted
one by one (`stranded`), so that no other registration passes for one.

`CausalOrderProof` is first about the hub's decisions (`OrderGate`) for any rows, ledger and windows.  Comparison is
symmetric and `Before` is a strict partial order on well-formed events (`ComparisonIsSymmetric`,
`BeforeIsStrictOrder`); an answer of `predeclared` or `declared_after` is earned (`PredeclaredIsEarned`,
`DeclaredAfterIsEarned`); a withheld position never buys a better answer (`WithheldEntryBuysNothing`,
`WithheldEditIsUnanswered`).  What is not by shape there is that the ladder looks at the *earliest* entry of each role
only: that it decides for all of them needs a least natural number (`LeastNatural`, `EarliestEntryExists`) and that
comparable windows are disjoint or the same (`ComparableWindows`).  `WellFormed` asks that a bracket is no higher than
its position and comes with one; `StoredIsWellFormed` shows that of whatever the hub stores.

It then proves `TypeCorrect`, `PositionsAreUnique` and `CounterImplemented` of `CausalOrder` for any processes, any cap on
windows and any number of faults.  Uniqueness is not inductive alone.  The invariant adds that whatever counter stands
in the file, or in the copy that the process inside the lock may still write over a file deleted or replaced meanwhile,
is ahead of every position its epoch has handed out (`Ahead`), and that the epoch of a process that has not published
yet has handed out none (`EarlyIsUnused`): together they say why an unlocked publication, a deletion under a section and
a killed section cannot re-issue a position.  From the same invariant every step is a step of `SeqCounter` or a stutter.

Last, it joins the two halves: `PredeclaredHolds`, `PostHocHolds` and `OrderHolds` say of the whole system, from the
hook that takes a position to the answer the hub gives, what the first half says of given rows.  `HubInv` adds to the
above how far each process has come (`Progress`), that a window's floor lies between what was handed out before the
tool ran and what is handed out after it, in the file, in its copies and in the stamps (`Brackets`), that what is
spooled, stored and in the ledger is what a process stamped (`Records`), and that an epoch an event names is a state
file's or was named to the hub for want of one (`Minted`): a broken order is then put down to two state files or to a
mint named in vain, for any number of parallel recoveries.  With these, what the hub finds before the edit is what had its position before the edit.  The
kinds of processes are assumed disjoint.

`DropLedgerProof` proves `FilesNeverUnderCount` and `DoctorNeverUnderCount` for any sessions, drops, sweepers and
faults, with stragglers and failing reads.  `Kept` adds that a sweep at work is alone and at a ledger nobody writes (`Alone`),
that a torn line belongs to a drop that will not be recorded (`Written`) and that what a sweep has in hand is what the
ledger holds and, before the removal, what the aggregate counts, but for late and misread entries (`Folding`).  For
doctor, `Told` says where what it owes still is while it reads: in its report, in the aggregate, in a ledger it has yet
to read, or lost or missed in one of the named ways.  That every step leaves an entry where it is, counts it in the
aggregate or books it as late or misread (`Persists`) carries that across the sweeps.

`DeliveryProof` proves all of `Delivery`'s invariants, for any developers, questions, sessions, hooks and scenarios.
`AnsweredMeansAnswered` follows from the types and the fact that an answer's first half fixes nothing but its clock;
`ToldNoticesWereShown` from what a spooled delivery may name, which is a notice some hook has printed or still holds.
`PairStaysInBudget` counts: the commits of a stop that are filed are the ones that fit before it (`FreshFits`,
`PrefixesFill`), a refiled row takes the place of another (`ImageIsNoLarger`), and one row stands for a reader and a
commit (`RowsOK`).  `SeenIsReported` follows a printed reference to the hub, the spool or the hook that is about to
spool it (`OwedInv`), where a notice may be refiled meanwhile (`RefsOK`).  For `NothingIsPrintedTwice`, what a
hook has claimed is remembered in the session's file and claimed by no other (`OnceIn`), session by session unless
`blurred`, and a briefing has its session to itself; a reference it repeats was told by a prompt that met its debt with the
lock busy (`Excused`).  The assumptions say what the scenarios are made of and that no
claim or pointer is a notice.

`ClaimValidityProof` proves `TypeCorrect`, `DowngradeIsFinal` and `StaleIsTrue` for any claims, clones, commits and
pulls, any cap and any bound on groups.  Finality needs only the types and what no step takes back: which claims are
stored and what they are bound to (`RecordsStand`), and a row that says `changed` (`ChangedStands`).
`StaleIsDeserved` is not inductive: `DeservedInv` follows what is said of a claim from the plan (`PlanHolds`: each
group has its claims' commit and no file but theirs) through what a pull found (`FoundHolds`) to the row (`RowsHold`),
while commits land, files are added and other pulls report between.  `CurrentIsTrue` does the same for `unchanged`
(`EarnedInv`), where a group must know that *nothing* was cut from the surface of any claim in it.  The code's groups
know it of their first claim only; a claim of which the cap dropped more is `overlooked` from the plan on (`WholePlan`),
and the proof shows, with no hypothesis on how claims share checks, that this is the only way to a `current` that was
not earned.

Liveness, `ENABLED` and what a recursion computes for every input are outside the prover: `OrphanRetired`,
`EventuallySettled`, `MarkersSettle`, `StaleIsTold`, `LinesGoThrough` and `ExitFollowsAgent` are model-checked only.

## 5. Not modelled

The content of records, rendering, SQL plans, authentication, retention, schema validation and the editors' own
protocols are not modelled; git is, where its outcomes decide a step.  Contradictions, pins and waivers are decided
inside one request over stored rows; CI, verdicts, search and reports only read; the model gates judge one
answer in one pass over its text; the Cursor hooks run the same flows over the same files as Claude's, and
where recovery differs `SessionEnds` has both.

`HubSessions` leaves out other developers' requests (refused before they change anything), the condition on
`skeleton_retired_at` in `recordSessionEvent` and the retention sweeps.

`CausalOrder` follows one path in one session whose binding never changes: a re-fire after a reported end goes on as
another session and leaves the model (`SessionEnds` follows it).  A holder's death is atomic with respect to its write.
Fields of the state file that no property reads (turn counters, heartbeat, briefing and hint lists) are left out, and
with them the writers that touch nothing else; so are the fingerprint slot of PostToolUse's block, retries under a
suffixed id, the deferral of an end (a deferred end is a late one), the cap of the intent chain, and sessions from
before epochs.

`SessionEnds` leaves out the repo mismatch of a registration, writes of a marker or of the unclosed count that fail, and
takes the count as a set of ends; a batch leaves at once.

`LandingFetch` leaves out the switches and invalid settings, the skips for a shallow clone, a clone without origin and
an old git, the ages of timestamps, garbled record fields, force-pushes, pruning, and the environment that keeps ssh
from prompting.

`AcpProxy` takes one line for one unit of the queue and a write of a line and its observation as one step.  It leaves out
the cap on initialize requests, the cache of directories, heartbeats, derived workers, terminals, fingerprints, counting
of edit fires, oversized lines, the recorder, the pump used when injection is off, signals and containment, the agent's
name in the session key, answers other than to initialize and session setup, and the reaping in the shutdown.

`Delivery` leaves out the mute, listing limits and character budgets, the claim's gate, similarity and session, repo and
addressee checks, the stored echo hashes, the candidates counter and the solved and ghost references of a briefing.  The
path of a stop is folded into its commit, all clocks are one, reading the state and the hub's list is one step, and
pointers only compete for slots.

`ClaimValidity` is one work context and clones of one repository.  It leaves out the similarity of bodies (the hub
without an embedder), evidence axes and confidence, kinds of claims but the retraction, edges but `supersedes`, claims
that the hub refuses, the limits of a tree, the basis, the listed commits and `self_reported` of a reading, what a
reader is shown after a report, the count of refused walk-backs, force-pushes and shallow clones (git then declines),
the walk's deadline, and readers that only read.

## 6. Plan

1. What each component takes for granted of another as a refinement: `MayEnter` of `Spool` from `LockExclusive`, the flush
   of `SessionEnds` from `Spool`.
2. An abstract session that is opened and closed once, with `SessionEnds` as its detailed form.
3. That a touched claim comes to be called stale, for groups within a pull's bound; then contradictions, pins and waivers.
4. Pure algorithms against a reference definition: tool-window keys, precision, CI deltas.
