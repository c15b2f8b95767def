# A verification project for DPMtF-LightWorker

TLA+ models of the LightWorker daemon, TLC runs that check them on small
instances, and TLAPS proofs for every instance.  Paths are relative to the
repository; `worker.py` and the other Python files are those of
`src/dpmtf_lightworker/`.

## The system

A LightWorker is one process on one machine.  It polls a server, *Father*, for a
role execution, claims it, prepares a git worktree, has the model allocator start
a runtime, opens a tmux session with the OpenCode client, types the handoff into
it, waits for the role to write its deliverable, reports the result, releases the
runtime and cleans up.  It handles one execution at a time and nothing of it is
persisted: what survives a crash is what Father recorded and what lies on the
machine (mirrors, worktrees, sessions, runtimes, client configurations).

| component | state it keeps | operations | interacts through | modelled in |
|---|---|---|---|---|
| role-execution loop, `worker.py` | `_state`, `_in_flight`, the execution in hand | `run_once`, the sequence of GOAL section 14, `_report_failure`, `_cleanup` | calls to everything below | `WorkerLoop` |
| deliverable wait, `worker.py` | poll count, last signature, whether the file was seen | `_await_deliverable` | the worktree, which the role writes; heartbeats | `DeliverableWait` |
| Father client, `father_client.py` | caches of claims, completions, failures | one method per endpoint | HTTP | `Intake`, `WorkerLoop` |
| Father (not in the repository) | the status of every execution | offer, claim, complete, fail, expire | HTTP | `WorkerLoop`, as far as the worker sees it |
| git workspace, `git_workspace.py` | mirrors, worktrees and their registrations, the exclude file | `ensure_mirror`, `create_worktree`, `exclude_from_status`, `commit_result`, `generate_patch`, `cleanup` | git | `GitWorkspace`, `Machine` |
| client configuration, `client_config.py` | a published file per execution | `render_execution_config` | file system, allocator | `ClientConfig`, `Machine` |
| tmux session, `tmux_session.py` | live sessions by name | `create`, `launch`, `wait_ready`, `inject`, `capture`, `kill` | tmux | `Terminal` |
| envelope validator, `envelope_validator.py` | none | `validate_envelope` | pure | `EnvelopeValidator`, `Intake` |
| worker configuration, `config.py` | none after start-up | `load_config` | file system | `WorkerConfig`, `Intake` |
| allocator adapter, `allocator.py` | none; runtimes live in the allocator | `preflight`, `validate`, `render_config`, `run`, `release` | subprocess | partly: `WorkerLoop`, `Machine` |
| retention and main loop, `retention.py`, `worker.py` | time of the last sweep | `sweep`, `_main` | the paths' modification times | partly: `WorkerLoop`, `Machine`, `Intake` |
| systemd unit, `deploy/` | none | restart | process | a crash is followed by a restart |
| `safe_paths.py`, `scripts/` | none | | | no |

What is hard about it:

* **Lost, late and empty answers.**  A request may never reach Father, may be
  handled although its caller has given up, may be answered with an error after
  it took effect, or with no body at all.
* **Failures of failure handling.**  The report of a failure can itself fail, in
  ways the code catches and in ways it does not.
* **Crash and restart** between any two steps, with the caches gone and
  everything outside the process still there.
* **Two processes and one file.**  The role writes the deliverable while the
  worker polls it, and the worktree while the worker stages it.
* **Names.**  Sessions are found by a name derived from a part of the execution
  id, and by tmux through its beginning; runtimes by their alias; worktrees and
  configurations by the execution id; caches by what the envelope says before
  anybody has validated it.
* **What executions share**: a mirror, its registrations and its exclude file,
  the tmux server, the caches.
* **The sweeper**, which deletes what executions use.

What makes each component correct: the *loop* runs a role at most once, never
without a claim, reports and cleans up on every path but the known ones, never
contradicts a recorded result and puts every execution down again; the *wait*
returns whole documents, misses none that was finished in time, beats in time and
ends; the *git workspace* puts what the role wrote into the patch, keeps the
bookkeeping out, and leaves no registration without a directory; a *client* runs on
a configuration of its own that confines it; a *pane* takes its own handoff, every
line once and in order, and a kill hits its own session; an *envelope* is refused
with the category of what is wrong with it; the *client's* caches neither repeat nor
swallow a request.

## The modules

`RoleExecution` and `Holdings` are abstract specifications; the others describe the
code, in five models. They share the sequence of the worker's thread and split what
it touches: `WorkerLoop` relates the loop to Father, `Machine` to the disk,
`Terminal` to tmux, `DeliverableWait` to the role's file, and `Intake` to what
stands in envelopes and in worker.yaml. What one model does not look at it keeps as
a choice of outcomes (a step succeeds or fails), so that each holds for whatever the
others do. Three of them look at what executions have on the machine, each from its
side; `Holdings` is what they agree on, and each is shown to implement it. The
`...MC` modules hold values of constants for TLC, the `...Proofs` modules and
`WorkerLoopRefinement` the theorems.

### `RoleExecution`: what is promised

Each execution is waiting, running, ended or skipped; one runs at a time; none
runs twice; a result is delivered only for an execution whose role ran, while it
runs or afterwards (a slow request).  Its fairness says that a started role ends.

### `Holdings`: who may touch what

The execution in hand (`holder`), what the thread may do for it (`phase`), the
directories under worktree_root (`dirs`) and the live sessions (`live`).  The
thread makes a directory and opens a session for the execution in hand only, and
only if there is none; takes the directory away in the cleanup and the session at
its end; sweeps with nothing in hand.  Around it roles write, which may bring a
directory back, sessions end, the process dies, with a directory just made and with
or without the sessions, and starts again with a sweep.  That is what the loop's
model takes the disk and tmux to do, and what theirs take the loop to do:

| | `WorkerLoop` | `Machine` | `Terminal` |
|---|---|---|---|
| `holder` | `exec` | `exec` | `exec` |
| `phase` | `state` | `at` | `at` |
| `dirs` | `worktrees` | `directory` | (none) |
| `live` | owners of their own session name | `roles` | owners of panes |

### `WorkerLoop`: the loop, Father and the network

`state` is `WorkerLoop._state` (plus `DOWN`), `exec` the execution in hand,
`reply` the Father call that is under way in this state or what it came back
with.  One action per step of the sequence:

| actions | code |
|---|---|
| `PollNothing`, `TakeUp` | `run_once`, `_poll_father`, the head of `_run_sequence` |
| `CallFather`, `FatherAnswers`, `Unreachable`, `TimesOut` | `FatherClient.claim/complete/fail` and the urllib transport |
| `ClaimGranted`, `ClaimAnsweredEmpty`, `ClaimFails` | step 2 and `_safe_call` |
| `ValidateEnvelope` ... `CollectResult` | steps 3 to 15 |
| `StepFails`, `StepRaisesUnexpected`, `PrepareRepositoryFails` | the `except EnvelopeError` of each step, the catch-all of `_execute`, `_safe_call` |
| `CompleteAcknowledged`, `CompleteFails`, `CompleteRaises` | step 16 |
| `ReleaseRuntime` | step 17 |
| `FailReturns`, `ReportRaises` | `_report_failure` |
| `CleanWorktree`, `CleanSession` | `_cleanup` |
| `Crash`, `Restart`, `HourlySweep` | the process, systemd, `_main` and the sweeper |
| `FatherHandlesLate`, `FatherWithdraws`, `FatherExpires` | Father and the network on their own (external) |
| `RoleWrites`, `SessionEnds` | a role that brings its directory back, a session that ends (external) |

A call is split into the call and its answer, because Father, a late request or a
crash may come between. `Verdicts` says what each endpoint may record; Father is
modelled only as far as the worker's code and documents say what it answers: a claim
is granted once, a completion may be refused by the endpoint's own validation,
`fail` closes a claimed execution and may or may not close one that is only offered,
and terminal records do not change. `Environment` names which faults may happen in a
run, so that each finding is shown with nothing else going wrong. The cleanup's kill
takes a name as tmux does (`Target`): the session of that name or, without one, one
whose name is longer (`LongerNames` says which are); creating a session takes the
same look first. Between the steps of one call of `run_once` that only change the
loop's state and fail the same way, `PrepareClient` stands for three. Worktrees and
sessions appear here only by name: what they hold is in the next two modules.
`revived` are executions whose role wrote between `git.cleanup` and `tmux.kill`, so
that the directory is there again when the event says it is gone:
`FullCleanupLeavesNothing` claims the session of every full cleanup, and the
worktree of those without.

Left out: the events (except the outcome in `CLEANUP_COMPLETED`), the text of
reports, the artifacts a large result is uploaded as (a failed upload falls back
to the inline text).

### `GitWorkspace`, `ClientConfig`, `Machine`: the disk

`GitWorkspace` has one operator per git command or file operation: a bare mirror per
project with the commits it has (`objects`), the worktrees git believes in
(`registered`), the exclude file (`hidden`), which every worktree of a mirror
shares. `exclude_from_status` writes the deliverable's path as it is, and git reads
it as a pattern: `Hides[f]` are the files that the pattern written for `f` hides,
`f` itself and, for a name without a slash or with a wildcard, others.
`IgnoredAt[c]` are those that the repository's own .gitignore hides at commit `c`.
Neither hides a tracked file (`Ignored`, `Visible`). There is a directory per
execution with what its role changed, what is staged and what is committed. A bare
clone brings every branch, a later fetch only the remote's HEAD, as the refspecs
have it. `ClientConfig` renders into a temporary directory, merges over the
operator's base file, validates and publishes by rename; a configuration is the set
of its leaf paths, and a merge drops those the other side contradicts. The temporary
directory is the rendering in hand (`draft`) and no more:
`rmtree(ignore_errors=True)` may leave it, and nothing reads it again.

`Machine` puts the operators in the order the thread runs them, one action each
(`at` is the next command), and adds what comes in between: the role, which writes
while the worker stages and even after the removal (`RoleWrites`), or ends
(`RoleEnds`), a push to the remote (`RemotePublishes`), a crash at any command
(`Crash`, with a broken mirror or a configuration published or not), a sweep while
idle (`Sweep`), and the cleanup's three ways to remove (`RemoveWorktree`,
`RemoveTree` with `PruneMirror`, `RemoveUnowned`). `disturbed` are executions whose
worktree was left otherwise than by a cleanup that went through.

### `Terminal`: sessions

Panes by session name. Names are derived as `session_name` does it, from the last
`ShortLength` characters of the id with leading dashes off; `Target` is tmux's own
reading of `-t`: the session of that name or, without one, the only one whose name
begins with it. Typing and entering are two actions (`TypeCommand`, `EnterCommand`,
`TypeHandoff`, `EnterHandoff`), since `send-keys` runs twice. A handoff has several
lines (`_handoff_with_deliverable_path` appends some to whatever Father sent),
`send-keys -l` sends the newlines between them as they are, and what one does is up
to the client: `Typed` takes it as part of the input (`AsText`) or as submitting the
line before it (`AsLines`). `SeesMarker` is `wait_ready`, which finds the marker in
a pane whose client has come up, also if the client is gone again; `Fails` is any
step that fails, `Kill` and `KillFails` the cleanup. `ClientComesUp`, `SessionEnds`,
`Crash` and `Restart` are the client, Father's stop button or the user, the process
and systemd.

### `DeliverableWait`: the wait

`_await_deliverable` with its arithmetic: how many polls a timeout makes, how
many polls a heartbeat interval makes.  The role creates, extends, truncates,
removes and finishes the file between any two system calls of the poll; `stat`
and `read` are separate steps.  `mtime` counts the changes and stands for the
pair of size and modification time.  `steady` and `fresh` are chosen at the start
and are assumptions on the role and the base commit, not on the code: a steady
role that is writing changes the file between any two polls; a fresh path holds
nothing before the role writes.

### `WorkerConfig`, `EnvelopeValidator`, `Intake`: what is read

`WorkerConfig` says which files `load_config` returns from and which of those the
constructors in `_main` take.  `EnvelopeValidator` is `validate_envelope` as one
table, a row per field in the order the code looks at them, and a verdict per
rule and kind of value; `Acceptable` and `CategoryFits` say without an order what
GOAL section 13 rejects, and are what the table is checked against.  The validator
looks at one path only, the deliverable's; that the repository's is safe (the mirror
of a project lies at its `project_key`) is left to the git layer, so `Acceptable` is
`AcceptableButRepository` and `SafeRepository`, and they are reached in two steps.
Values are kinds: "right", another text, one that is a file name but no project key
("odd": a space, a leading dash, ".." inside), an empty one, one with a shell
metacharacter, one with a NUL, ".", a path with a slash, an absolute one, one that
leaves the root, a list, a flag, a block, or nothing.

`Intake` carries them through the daemon: `Load`, `Start` and `StartFails`, then per
offer `TakeUp`, the claim, `Validate` (which raises what it does not mean to for a
NUL in a path), `Mirror` and `Worktree` (which refuse what `_validate_project_key`
and `_validate_id` do, each in its own way, and may raise what nobody expected),
`Role`, completion and report, each from the cache or from Father. The cache keys
are taken from the envelope as `str(payload.get(...))` takes them, before it is
validated, and with an attempt for completions and failures but not for claims.

## The runs

| run | question | states |
|---|---|---|
| `CoreSafety` | two executions, late and empty answers, unexpected exceptions, a crash, withdrawn work, roles that write after the removal: are claims, reports, caches, machine and record consistent, does no role run twice, are `RoleExecution` and `Holdings` implemented? | 2,456,374 |
| `Liveness` | every fault there is, with an execution that names no role, under fairness: is everything put down again unless a git or tmux command hangs, does every started role end, and are the known ways past report and cleanup the only ones? | 277,896 |
| `Wait` | timeouts and intervals around the poll length, roles of either pace, a fresh or an occupied path: is a document finished before the last two polls collected, is a steady role never caught mid-write, do heartbeats keep their interval, does the wait end? | 90,444 |
| `Machine` | two executions of one project, one taken up twice, a crash at any command, sweeps, roles that go on writing or end: are patches, mirrors, registrations and configurations right, and is `Holdings` implemented? | 4,437,464 |
| `Terminal` | two executions, one session name the beginning of the other, each taken up twice, failed kills, a crash, sessions that end on their own: does each pane take its own handoff, every line once, and does a kill hit its own? | 27,759 |
| `Intake` | seven worker.yaml files, every envelope with one field off, two attempts of one execution, a crash: do verdicts fit, is every request made once, is every silence explained? | 305,265 |

Runs that show where the code departs from what its documents say:

| run | what happens |
|---|---|
| `ReportTimeout` | a response that is not read in time is not a `FatherClientError`; twice in a row it skips the cleanup, which "runs on every failure path" |
| `RepositoryFailure` | a failed fetch is reported as `INTERNAL_WORKER_ERROR`, not `REPOSITORY_FETCH_FAILED` |
| `DuplicatePoll` | a repeated offer of a claimed execution is let through by the claim cache and runs the role again |
| `SharedExclude` | the "per-worktree exclude file" is the mirror's: the deliverable path of one execution hides a file the next one's role creates, which is then missing from the patch, although "untracked files the role created are captured" |
| `PrefixKill` | the kill of `r-12` fails; then `r-1` fails before it has a session, its cleanup kills `r-1` by name all the same, and tmux takes `r-12` for it |
| `UnusableDeliverable` | the validator accepts `.`, the root itself, as a deliverable "beneath this root" |

What else the models have, without a run of its own:

* Two more ways out of the sequence without a report.  An execution with an empty
  `target_role` fails validation, and `_report_failure` names the session first,
  which raises, in the catch-all too.  A claim answered with no body is `None`,
  which the sequence takes for "already reported".  `UnreportedOnlyWhen` and
  `UncleanedOnlyWhen` say, and theorems prove, that with the double timeout these
  are all.
* Ids with the same last twelve characters share a session name; the loop's
  cleanup of one then kills the other's (`OnlyOwnSessionKilled` is proved for
  names of which none equals or begins another, and for no others).
* With nothing shared, new files are missing from a patch all the same: a deliverable
  `result.md`, written to the exclude file without a slash in front, hides
  `docs/result.md` too, and the repository's .gitignore hides what it names
  (`HiddenByOwn`).  "Untracked files the role created are captured"
  (`worker.py:777-778`) holds but for these, and that is what `PatchHasRolesWork`
  says.
* `inject` promises "one submission" (`tmux_session.py:112-119`, and 177-178 "exactly
  one submission happens whatever the caller passes").  `_submit` strips the newlines
  at the end and leaves those between the lines, of which its own docstring says that
  "a literal newline does submit".  The handoff is one submission only for a client
  that takes a newline as text; `OwnLinesInOrder` is what holds for either.
* An unsafe repository path (GOAL.md:808, and the comment of Rule 8 in the validator)
  is not refused as an invalid envelope: the validator never looks at `project_key`,
  and the git layer's `ValueError` comes out as `INTERNAL_WORKER_ERROR`.  So does an
  `expected_deliverable` with a NUL in it, for which `resolve()` raises a `ValueError`
  that `envelope_validator.py:467-471` does not catch (`LateRefusalsKnown`).
* A finished document seen only by the last poll is called missing: the bound in
  `FinishedInTimeIsCollected` is the last poll but one.
* A file that the base commit already has at the deliverable's path stands still
  from the first poll and is accepted; `AcceptedIsComplete` is about fresh paths.
* A cached claim answers for a new attempt of the same execution
  (`SilenceOnlyWhen` names what follows).
* A "full" cleanup event is no promise about the directory if the role lives: its
  session is killed after the worktree is removed, and what it writes in between
  brings an unregistered directory back, which `create_worktree` then refuses until
  the sweeper takes it (`revived`, and `disturbed` in `Machine`).

**Bounds.** In the loop, two executions are enough for one to be in hand while
another has a record, a late request, a leftover session or a leftover worktree; the
loop never relates three. One crash loses the caches and leaves everything else.
`CoreSafety` leaves out three of the ten faults in `Environment`, each of which adds
no kind of step that the others do not have: a request that never reaches Father (a
late one that is lost), expired claims (which Father's record allows at any time,
and no property rests on) and sessions that end on their own (which leave less
behind); `Liveness` has all ten, and the theorems hold for every `Environment`. One
alias makes two executions share a runtime. On the disk, one execution is taken up
twice, which reuses its directory, registration and configuration path, and the
other once, which shares its mirror and its exclude file; of two commits one lies
beside the default branch, so that a fetch does not bring it; of five files two are
the deliverables, one of them in its base commit already, one is code that both
bases have and their .gitignore names, and two are added by the second role, whose
execution is the one that asks for a patch: one is in nobody's way, the other has
the name of its report in another directory, and the report is named without one
(`ByName`). The operator's base file comes with and without the permission block. In
the terminal the two names are `r-1` and `r-12` with `ShortLength` 3, so that one is
a beginning of the other and one id is cut with its dash stripped; three lines of a
handoff (`HandoffLines`) have a first, a last and one between. `Liveness` has one
session name begin the other as well. In the intake three offers are enough to
claim, to fail and to come again; envelopes miss one field in each way, or two of
those that are compared, where the order of the checks decides the category. In the
wait, the timeouts run from none configured through shorter than a poll to five
polls, the intervals from zero to three polls, and five changes of the file
(`MaxWrites`) cover create, extend, truncate, remove and finish.

`CHECK_DEADLOCK FALSE` stands where the system may stop: the wait ends; `Machine`,
`Terminal` and `Intake` end when the bounds on take-ups, offers and crashes are
used up.  `CoreSafety` uses the symmetry of the executions, which nothing in it
tells apart; no other run does.

**Fairness.**  The daemon is one thread, which nothing but its own calls can stop.
`WF(CallEnds)`: every call to Father ends, because `urlopen` has a timeout (a
peer that trickles its answer byte by byte is left out).
`WF(WorkerStep /\ state \notin CommandStates)`: so does every step that is only
Python on local files, and the allocator's, which is run with a timeout of its own
(`allocator.py:139-168`).  The steps in `CommandStates` run git or tmux, by
`subprocess.run` without a timeout (`git_workspace.py:327-336`,
`tmux_session.py:219-227`): a fetch that stalls, or a server that does not answer,
holds the only thread for ever, and nothing is assumed of them.  The liveness
properties therefore say "unless `Stuck`", which is that the loop stays in one of
those states for good.  The mirror, the worktree, the session and its client, the
commit and the cleanup are such states; claim, validation, configuration, runtime,
completion and the reports are not, and what the property excludes is that any
retry, rescue or late answer among all of them goes round for ever.  Father owes
nothing: that it expires stale claims is planned (`worker.py:17-21`, 1168) and is
something it may do and not something it must; nor does it owe anything for late
requests, which may be lost, or for withdrawals.  In the wait, `WF(WaitStep)`:
`stat`, `read`, `sleep` and a heartbeat with the socket's timeout; the role owes
nothing, unless it is steady.

## What is proved

All theorems hold for every set of executions, every environment, every number of
crashes and take-ups, every envelope and every file, under the named assumptions
on the constants (`WorkerLoopAssumption`, `DeliverableWaitAssumption`,
`GitWorkspaceAssumption`, `ClientConfigAssumption`, `MachineAssumption`,
`TerminalAssumption`, `IntakeAssumption`), which TLC evaluates in the runs.

* **The loop** (`WorkerLoopProofs`), if a poll returns only work that is on offer
  (`Offerable = {"offered"}`; without it `DuplicatePoll` refutes it).  None of the
  safety properties is inductive alone.  That a completed record means a role that
  ran needs to know that late completions were sent by roles that ran
  (`RanInOrder`), which needs the states before and after the injection to agree
  with `ran`; that a role runs once needs that what ran is not on offer any more;
  that an acknowledged completion is never failed needs that nothing before the
  release has a cached completion (`UnacknowledgedUntilReleased`), which needs
  that cached completions are on record and answers true (`AnswersAreTrue`).
  `LoopInv` is their conjunction with the types and with who holds an execution
  when (`HeldWhileHandled`); the step is proved action by action, and handling a
  request, in time or late, is one lemma (`RecordStep`).  From it follow the
  properties of `CoreSafety`, and that the two ways past the report and the three
  past the cleanup are all (`OnlyTwoWaysUnreported`, `OnlyThreeWaysUncleaned`).
  `AnsweredCallsReport` states the positive case: if every call is answered and
  every execution names its role, every path reports and cleans up.
* **Refinement** (`ImplementsAbstract`): every step of `WorkerLoop` is a step of
  `RoleExecution` or a stutter, under `StageOf`.
* **Holdings**, three times: `LoopHolds` (if no session name equals or begins
  another), `MachineHolds` (always) and `SessionsHold` (under the same
  `NamesApart`). The loop's proof needs that a directory is made where there is none
  and that a session belongs to an execution of its name; the disk's that the
  execution in hand still has its directory wherever it has been made and not
  removed (`DirectoryInHand`); the sessions' that a pane belongs to the execution
  whose name it has (`LiveByName`). In each, crashes, sweeps and roles come between
  any two steps. `HoldingsProofs` proves once what that is good for (`OnlyOwn`): a
  directory goes in its own execution's cleanup or in a sweep that finds nothing in
  hand, and comes from its own execution or its own role; the loop and the disk
  inherit it through their refinements (`LoopKeepsApart`, `MachineKeepsApart`).
* **Progress.** What is left of the liveness properties when fairness is taken away
  is proved: a rank no step raises. `ExecutionsEnd` (again with `Offerable =
  {"offered"}`): with an execution in hand, every step of the thread or of its call
  to Father lowers `Rank`, which never exceeds 50, or puts the execution down, and
  no step of Father or of a role touches what the rank reads; so no retry, rescue or
  late answer goes round for ever. `WaitGetsOn`: the same for the wait, four steps
  to a poll, and `WaitIsBounded`: its sleeps add up to no more than the configured
  timeout, or one poll.
* **The wait** (`DeliverableWaitProofs`): a document finished in time is
  collected, a steady role at a fresh path is not caught mid-write, and the
  heartbeats keep their interval.  The last counts sleeps since a multiple of
  `HeartbeatEvery` (`BeatInv`), over lemmas on quotient and remainder.
* **The disk** (`MachineProofs`).  `MachineInv`: what was due when the result was
  staged is on its way from the changes over the index to the commit
  (`WorkIsKept`), the excluded files are not (`BookkeepingIsHidden`), undisturbed
  directories and registrations agree at every place of the sequence
  (`TreesMatch`), and the draft is the one of this take-up (`DraftIsOwn`).  That
  the patch has the role's work (`WorkIsInPatch`), but for new files that the
  execution's own patterns or the repository's .gitignore hide, needs `OwnPaths`: no
  role writes a new file that another's deliverable, read as a pattern, hides.
  `SharedExclude` shows what happens without.  `NothingLeftBehind` excuses by name
  (`disturbed`) a worktree that was swept, cut off by a crash, whose cleanup failed,
  found no owning mirror or never ran, or that its role wrote to after the removal.
* **The terminal** (`TerminalProofs`). That sessions between executions are known
  leftovers, and that a kill under a name that begins no other hits its own session,
  hold for all names. That a pane takes one command and one handoff, every line once
  and in order, whichever way a newline is taken (`EnteredOnceInOrder`), in a pane
  whose client had come up (`HandoffIsHeard`; it may be gone again, which
  `wait_ready` does not notice), is proved under `NamesApart` from `TerminalInv`,
  whose core says what stands in the pane at each place of the sequence
  (`PaneInHand`). `WhenNamesAreApart` says what that hypothesis takes of ids and
  roles: if no role is called like another with a dash after it, names are apart
  exactly when, of two executions of one role, neither kept end of an id begins the
  other.
* **The intake** (`IntakeProofs`). About the table: no row is missed exactly by
  envelopes that are acceptable but for the repository's path, and the first row
  missed fits what is wrong (`MissedNothing`, `FirstMissedFits`). About the daemon:
  `IntakeInv` counts an answer for what a cache holds and for nothing else
  (`CachesCount`), keeps the configuration in use one the collaborators took
  (`ServesStarted`, from which the validator can always be built), and knows that
  past the claim without a request the claim was cached (`UnaskedIsClaimed`), and
  past the mirror the project key is one the git layer takes (`KeyIsPlain`).

Only model-checked: the liveness properties (`PutDownUnlessStuck`,
`ImplementsRoleLiveness`, `WaitEnds`).  They need fairness and ENABLED, that a next
step is always possible, which are out of the prover's reach; the ranks above are
the other half of the argument for the first and the last.  The
runs that expect a violation prove nothing beyond their trace.

## What is not modelled, and why

* **The allocator's own work**: how long a preflight takes, the arguments the
  adapter builds.  It keeps no state; a runtime is acquired, fails or is
  released.  That no heartbeat is sent before the deliverable is awaited, and that
  a failed execution never releases its runtime, are hazards without a property:
  the code promises neither.
* **Retention ages**, the artifact and log directories, the hourly clock: the
  models let the sweep come at any idle moment and take anything, which covers
  every age; nothing the worker reads again lies in the other two directories.
  `opencode_config_root` is swept by nobody, so configurations stay.
* **Endpoints that change nothing the worker keeps**: `register`, `heartbeat`,
  `report_event`, `execution_heartbeat`, `upload_artifact`.
* **Settings that are loaded and not read again**: `max_parallel_executions`,
  `successful_worktree_hours`, `allocator.client`, `config_root`.
* **Patterns at large.**  `Hides` and `IgnoredAt` say which files are hidden, not how
  a pattern matches.  Left out are negating patterns, a role that edits .gitignore or
  the exclude file, and a deliverable that does not match itself when read as a
  pattern (a path with brackets in it).
* **Temporary directories** of renderings, which nothing reads again, and names that
  no encoding takes (lone surrogates): the worktree's unexpected exceptions stand for
  what they raise.
* **`safe_paths.py`**, which no code of the worker calls, and the scripts, which an
  operator runs once.
* **Two daemons on one machine or with one worker id**: there is one systemd unit,
  and the documents fix one role execution at a time.
