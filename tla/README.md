# Verification of pico

TLA+ modules for the parts of `pico` whose correctness depends on order, on
failure or on both: the Run Log protocol, the life of a Run over crashes and
exceptions, the agent loop with its limits, the tool transactions on a workspace
that its user edits too, the batches of observations, the commands and their
processes, the Provider client, the completion gate, subagents, the immutable
artifacts, the compaction of history and the repository map. TLC checks them on
small instances; TLAPS proves their safety for every value of the constants.

All paths below are relative to the repository. `PROJECT.json` lists every
definition of the modules with the source lines it stands for, the runs, the
mutants, the theorems, and the hazards the properties are aimed at.

To check one run: `tlc -config MCRunLifecycle.cfg MCRunLifecycle.tla`. To check
the proofs: `tlapm` on `RunLifecycleProofs.tla`, `AgentLoopProofs.tla`,
`SubagentsProofs.tla`, `ToolProofs.tla`, `ProviderClientProofs.tla`,
`ObservationBatchProofs.tla`, `WorkspaceRunProofs.tla` and `ContextProofs.tla`.

## 1. Inventory

| Component | Source (`src/pico/`) | State | Operations | Hard part |
|---|---|---|---|---|
| Run Log protocol | `run_log.py` | `_RunProtocol`: user message seen, pending calls, started ids, ordinal, results, terminal | `check` and `apply` of each event, on append and on load | the same automaton guards live appends, validates logs and is replayed |
| Run lifecycle | `run_lifecycle.py` | the installed `ActiveRunState` | load, reload, stale check, reconcile, initialize, finish | every exception path must leave memory equal to disk |
| Run Store, Session | `run_store.py`, `session_store.py`, `persistence.py` | `events.jsonl`, cached cursors, `active_run_id` | append with fsync, tail repair, search, atomic replacement | torn lines, ambiguous appends, two files written one after the other |
| Agent loop | `agent_loop.py` | turn counters, prompt snapshot, Provider session, `execution_stop` | model turn, tool turn, invalid output, final, overflow recovery | limits that reset each other; stops racing answers |
| Execution context | `execution.py` | token, deadline | request, check, child | first reason wins; parents cancel children |
| Command runner | `command_runner.py` | the process group, two spooled outputs, the reason of a stop | start, poll, terminate, kill, truncate | processes that fork, leave the group, ignore SIGTERM or keep the pipes |
| Provider client | `providers/clients.py` | action input, pending call ids; attempts and timers of one request | request with retries, read, decode, record results, reset | one output per call, one deadline over retries, redirects and bodies |
| Tool transaction | `tool_runtime.py`, `tool_execution.py` | pending call or batch, repeat guard, worker pool | persist, admit, start, run, classify, result | a crash, an interrupt or an edit between any two of those |
| Mutations, evidence | `mutations.py`, `evidence.py`, `delivery.py` | revisions, path transitions, final Diff | guarded replacement, chain of effects, drift | the user edits the same files |
| Completion, verification | `completion_controller.py`, `verification.py` | open partial and unknown effects, verification state | gate, plan, run verifiers, accept | the workspace changes while it is verified |
| Subagents | `subagents/` | records of children in memory, worktrees, patches, receipts in the log | delegate, integrate, release | a patch is applied before it is recorded; memory and log both say what a child did |
| History, compaction | `history.py`, `context_manager.py`, `compaction_summary.py` | covered prefix, units, budget | select, cover, summarise | never half of a tool transaction |
| Artifact store | `artifacts.py` | immutable contents and descriptors | write once, read by page | two files, one crash |
| Repository map | `repo_map.py` | file entries, parsed files, the last snapshot | refresh, resolve, select, render | three looks at a file that changes; two caches that must lose entries together |
| Working state | `working_state.py` | plan, notes | update | small |
| Runtime facade | `runtime.py`, `runtime_state.py` | wiring, active state | ask, reset, cancel | called from several threads |
| Prompt, configuration, security, command line | `prompt_*.py`, `config.py`, `runtime_config.py`, `security.py`, `cli.py` | text | parse, render, redact | no shared mutable state worth a model |

How they interact. `Pico.ask` runs `AgentLoop.run` in the caller's thread. The
loop calls `RunLifecycle.initialize`, which loads or creates the Run through the
Run Store and the Session, settles interrupted calls and resets the Provider
session. Each turn builds a prompt, for which `RepoMap.refresh` reads what has
changed, and asks the Provider client for an action; a tool action becomes one
transaction of the Run Log, executed by `ToolRuntime`, whose Runners change the
workspace. A batch of observations runs on a pool of threads; the main thread
alone writes the log. Commands and verifiers go through `CommandRunner`. Large
outputs, preimages and the final Diff are artifacts. A final action goes through
the completion gate. Every fact is appended by `RunLog.append`: protocol check,
file, store cursor, log, protocol, and then `apply_run_event` updates the
projection. Only `cancel_current_run`, an active `reset` and the clock act on a
running ask from outside; they do it through the `ExecutionContext`. Subagents
are synchronous: `delegate` runs one child to its end, in the caller's thread and
under a child of the caller's `ExecutionContext`; an implement child works in a
Git worktree of its own, and `integrate_child` is a later call of the parent.

What makes each correct:

- Run Log: an opened Run, exactly one result per persisted call, in order,
  starts before results, nothing after the terminal line.
- Run lifecycle: what memory says equals the disk whenever the process may append; no
  persisted call runs twice; recovery always finds an outcome the protocol
  accepts; the unfinished Run of the Session is never forgotten.
- Agent loop: every ask ends; the tool budget holds; the Provider conversation
  stays paired; a late answer has no effect; a stop ends the Run.
- Tool transaction, mutations: no user edit is overwritten without a trace, the
  path transitions chain, a changed workspace is never recorded as unchanged; no
  observation runs outside its batch, and each result is what happened.
- Command runner: a command ends at its deadline or the stop, with all that it
  started, and its result has a true reason and a fair share of each output.
- Provider client: nothing is sent after the deadline, retried without a cause or
  believed when it was cut, and every call of the conversation has its output.
- Completion: what completes was verified in the state that is delivered.
- Subagents: memory says what the log would recover, a patch lands on the tree it
  was verified on, no Run completes over an implementation that was not integrated,
  and no worktree is left behind, whatever fails; what an interrupt, or a result that
  is lost, can still spoil is known.
- Compaction: a prefix of whole units, monotone coverage, latest guidance kept.
- Artifact store: what a descriptor names can be read, unchanged and without gaps.
- Repository map: every refresh shows each file as it was at some moment while it
  ran; edges stay within the map, texts within their budget.

## 2. Modules

| Module | What it is | Extends |
|---|---|---|
| `RunProtocol` | the protocol automaton of one Run Log, as operators | |
| `RunLifecycle` | one process, its Session file and its Run Logs | `RunProtocol` |
| `RunContract` | what a Run promises, without files or crashes; `RunLifecycle` and `ObservationBatch` implement it | |
| `MCRunLifecycle` | model values and symmetry | `RunLifecycle` |
| `RunLifecycleProofs` | the inductive invariant of `RunLifecycle` and its theorems | `RunLifecycle`, `TLAPS` |
| `AgentLoop` | one ask after another, with limits, Provider session and stops | |
| `AgentLoopProofs` | the inductive invariant of `AgentLoop` and its theorems | `AgentLoop`, `TLAPS` |
| `RunEvidence` | `evidence.py` as operators: effects, transitions, drift, checks, the gate's questions | |
| `WorkspaceRun` | one Run, its files, its tools, its verifier and a user who edits | `RunEvidence` |
| `MCWorkspaceRun` | model values and symmetry | `WorkspaceRun` |
| `WorkspaceRunProofs` | the inductive invariant of `WorkspaceRun` and its theorems | `WorkspaceRun`, `TLAPS` |
| `Subagents` | a parent Run, its children and its repository | |
| `MCSubagents` | model values and symmetry | `Subagents` |
| `SubagentsProofs` | the inductive invariant of `Subagents` and its theorems | `Subagents`, `TLAPS` |
| `Selection` | what is picked from a sequence, as a recursive function | |
| `Compaction` | what of a history is in use, replaced and shown | `Selection` |
| `MCCompaction` | the instance | `Compaction` |
| `ArtifactStore` | the artifacts of one Run, their writer and a reader by page | |
| `MCArtifactStore` | the instance | `ArtifactStore` |
| `CommandRunner` | one command, its processes, the token and the clock | |
| `ToolProofs` | what tools rely on: the inductive invariants of `ArtifactStore` and `CommandRunner` and their theorems | `ArtifactStore`, `CommandRunner`, `TLAPS` |
| `ProviderClient` | the requests of one conversation, their attempts and timers | |
| `ProviderClientProofs` | the inductive invariants of `ProviderClient` and its theorems | `ProviderClient`, `FiniteSetTheorems`, `TLAPS` |
| `ObservationBatch` | the batches of one Run, the pool and the recovery from an interrupt | `RunProtocol` |
| `MCObservationBatch` | the instance | `ObservationBatch` |
| `ObservationBatchProofs` | the inductive invariant of `ObservationBatch` and its theorems | `ObservationBatch`, `FiniteSetTheorems`, `TLAPS` |
| `RepoMap` | the refresh with its caches, the graph and the text of a prompt | `Selection` |
| `MCRepoMap` | the instance: files, texts, names, scores | `RepoMap` |
| `ContextProofs` | what a prompt shows of the Run and of the repository: the inductive invariants of `RepoMap` and `Compaction` and their theorems | `RepoMap`, `Compaction`, `FiniteSetTheorems`, `TLAPS` |

The modules meet in the Run Log: `RunLifecycle` shows that what is appended is
what a new process reads, and the others take their durable state (`ev` of
`WorkspaceRun`, `receipts` of `Subagents`, `events` of `Compaction`, `named` of
`ArtifactStore`) to survive a crash for that reason. `RunProtocol` is shared by
`RunLifecycle`, where a batch is one step that runs, and `ObservationBatch`,
where it is a pool of workers; both implement `RunContract`. `RunEvidence` is
shared with nothing yet; it is the part of `WorkspaceRun` that is pure.

Definitions whose comment begins with "A slip never used" are plausible mistakes
in the code. `PROJECT.json` names for each property the slip that breaks it.

### RunProtocol

The record `Protocol` is `_RunProtocol`; `Allowed` is `check` and `Applied` is
`apply`. A tool call is its call id, standing for the tool and its arguments as
well. The kinds the protocol treats alike are the one kind `note`. `ordinal` is
1-based, 0 where the code has -1.

### RunLifecycle

On disk: `log` (complete lines), `torn` (half a line follows), `pointer`
(`active_run_id`). In the process: `mem`, which holds the installed Run, its
`RunLog`, the protocol state, the number of events the projection has seen, the
store's cached cursor and the Session's copy of the pointer. `pc` is where the
code is. `facts[r]` is the protocol state a replay of `log[r]` yields; it is a
history variable, and `ReplayAgrees` checks it against `Replayed`, which validates a
log line by line.

`Attempt` is one whole append: the protocol refuses; the line is written and
every copy moves; an exception leaves nothing, half a line or the whole line,
with any prefix of the copies moved; or the process dies in the write.
`SetPointer` and `SetPointerRaises` are the atomic replacement of the Session
file. `Recover` is the exception handlers' `reload_current_run` or
`load_resumable_run`. `Reconcile` is one result of `reconcile_interrupted`, which
appends those of all pending calls; the caller moves the projection over them
afterwards (`ApplyRecovered`), so that it is behind the log meanwhile. A call is
executed by `ToolTurn`, `StartTool`, `RunTool`, `FinishTool`, or refused by
`RejectTool`; `altered` says whether its Runner
changed the workspace, which is the repository state the code can see (for
`run_command` it compares Git snapshots). Errors of a file mutator are raised
before `os.replace`, so a mutator that changed a file never reports `none`.

A crash is the death of the process, not the loss of written pages.

### RunContract

A Run opens once, owes results for the calls of one transaction at a time,
settles them in order and closes once. `RunLifecycle` refines it under
`run <- [r \in Runs |-> RunView(facts[r])]`: every durable append is a step of
the contract, everything else a stutter. `ObservationBatch` refines it for one Run
under `run <- [r \in {"r"} |-> TheRun]`.

### AgentLoop

A Run is its status, its executed-tool count, and the persisted transaction
(`owed` calls, of which the first `started` have a `tool_started`). The loop's
own state is `AgentLoopState`. The Provider conversation `session` is the tool
surface it began with and the calls it waits for. `asked` and `expired` are the
token and the deadline. Free choices: what the model answers, whether the
completion gate allows, whether the reported input tokens reach the high
watermark, whether the request overflows or fails. `action.late` records
whether a stop was requested before the answer came.

The model admits any Provider client, also one that answers with a tool it was
not offered; `OpenAICompatibleModelClient` turns a single such call into an
invalid output. Batches may be longer than the policy allows and are then
rejected. `Raise` is an exception out of any step or the death of the process:
the next ask rebuilds what either loses, which is the subject of `RunLifecycle`.
`max_tool_executions = None` (no limit) is left out.

### RunEvidence and WorkspaceRun

`ws` is the workspace: each path has a content or is `Absent`. `ev` is
`runtime.run.evidence`: per touched file its first state, its preimage and its
current state, the list of effects (changed, partial, unknown, with paths), the
verification records, and `broken`, which says that an event on disk makes the
projection raise. Of the verification records only the latest per cursor and
pair of path states is kept, because the code looks at no older one.

A structured tool goes through `CallTool`, `Admit` (drift and the repeat guard),
`Plan`, `Start` (preimages, `tool_started`), `Stage`, `Guard`, `Replace` and
`Finish`, or out by `Reject` or `RunnerRaises`: each step is one read or write of
the workspace or of the log in `ToolRuntime._execute`, `MutationPlan` and
`guarded_replace`. A command takes a snapshot, writes any file at any time
(`ProcessWrites`) and is classified by comparison. `SubmitFinal` is
`CompletionController.assess`; `ReuseOrVerify`, `VerifierEnds` and `Recheck` are
the verification, `Render` and `Deliver` the final Diff and the terminal event.
`Crash` and `Resume` lose what is in memory and settle the call as
`reconcile_interrupted` does. `seen`, `lost`, `unaccounted` and `odd` are history.

The user edits between any two steps. Three things the code cannot see are
remembered in `odd`, and the properties name the ones they except:

- `raced`: an edit between two reads that the code does back to back. Excepted by
  `UserEditsSurvive` and `DeliveredWasVerified`, and by the two of `undone`.
- `undone`: an edit back to an earlier content in the middle of a call. Excepted,
  with `raced`, by `LogReplays` and `PreimagesMatch`.
- `cut`: the process dies when the verifier has changed a file. Excepted, with the
  two others, by `ChangesAreAccounted`.

What happens in each of these is told under "Limits of what holds".
`UncertaintyIsSettled` excepts nothing. After `raced` or `undone` the user edits no
more, since none of what remains to be claimed depends on it.

### Subagents

The log: `role` and `base` of each delegate call, `receipts` of implement children
that succeeded, `integrations`, `uncertain` partial effects, the files it takes to
hold a patch (`recorded`) and whether an effect is `unknown`. The repository: `head`,
whose patches are in it (`committed`), whose are in the files (`present`), and other
changes (`own`). Memory: `records` and `held` worktrees. `Delegate`, `Prepare`,
`RunChild` and `Report` are a delegation; `Integrate`, `CheckBase`, `Verify`, `Apply`,
`Mark` and `Record` an integration. `Restart` is `_recover_records` after
`reconcile_interrupted`. A child's own Run is one step with a free outcome.

Each of these steps may fail inside the tool boundary, which then records an error:
the receipt cannot be made when the record is completed (`Report`), the integration
worktree does not go after `git apply` (`Mark`), the paths cannot be read again when
the record is marked (`Record`). And each may be cut by what no handler of the
boundary catches, `Ctrl-C` or an append that raises: `CutDelegation` and
`CutIntegration` have the next ask settle the call while the process keeps its
records. Where memory then knows more than the log, the child is remembered in
`unreported` or `unrecorded` until the process ends, and the properties name it.
Others work in the repository at any time, also between the last look at the parent
and `git apply`, of which `raced` keeps note.

### Compaction

`events` are the events of `CONTEXT_KINDS`, each with a kind, a size, and what
links calls and results; a compaction event names what it covers. `Active` is
`RunHistory.active_events`, a fold over the log; units, the plan, the source of a
summary, the commit, `_bounded_history` and the fallback with
`history_override` follow the code. A room is what a prompt leaves to its history. It
is measured twice, by `PrepareCompaction` (`room`) and by `BuildPrompt`, with the
request of a summary in between, and is another one each time. `refused` is history:
the two rooms of a prompt that was just refused. Tokens are sizes that add up, which the
real estimate of a joined text does only nearly. `stage` is where the ask is: in
its loop or between the two halves of a build; `prompted` is
the history of the last prompt. `active_events` and the sums are recursive
functions over the log and over what is shown, as the proofs need them.

### ArtifactStore

`txt` and `json` are the content and the descriptor file of each artifact: absent,
torn (a prefix) or whole. `op` is the write under way, which `Cut` ends before a
step or in the middle of it; `Collision` is `write_once_bytes` or `_write_once`
meeting something else than it would write. Tool outputs and Diffs are compared
as text, which turns a carriage return into a line feed; preimages as bytes, and
they are staged and linked, so their content is never torn. `WriteFinalDiff` and
`CloseWithoutDiff` are what every attempt to complete, stop or reset the Run does
with the net changes `tree`. A content is its set of character boundaries;
`ReadPage` aligns the offset that was asked for and moves the end of the page back
to a boundary. `named` is history: what a caller was given a descriptor for.

### CommandRunner

The runner is `Start` (`bounded_timeout`), `Spawn`, `PollStop`, `Wait`,
`Terminate`, `WaitGrace` and `Drain`; `Interrupt` is an exception in any of them.
The processes fork, exit, leave the group, redirect and ignore SIGTERM as they
like; `alive`, `group`, `pipe` and `deaf` are the sets of them. `communicate()`
returns when no process holds a pipe and the leader is gone. `CheckToken`,
`StoreReason` and `SetToken` are the three steps of `CancellationToken.request`,
taken by any thread. Time passes only while the runner waits. `Truncated` is
`_truncate_output`. `CancellationToken.child` has no caller and is left out.

### ProviderClient

One request is `CompleteAction`, then up to three attempts: `BeginAttempt`,
`Connected` or `ConnectFails`, `Redirected`, `Responds` or `Disconnected`,
`ReadBody`, `GiveUpOrRetry`, `Slept`, and `Decode` for a success. A connect is
bounded by the whole timeout of the attempt, each exchange by a timer that shuts
the socket at the attempt's deadline; a body may be whole, cut by the peer or cut
by that timer. The conversation is `input` and `pending`; `RecordResults` and
`Reset` are the caller's. A response that comes exactly at a deadline, a redirect
that begins just before it and a body whose length nobody told are in the model.

### ObservationBatch

`main` is where the main thread is: it writes the batch, admits it, writes the
starts, submits, waits for the futures in order, and writes the results; `task`
and `value` are the pool's. A worker looks at the stop before and after its
Runner. An interrupt inside of the `with` waits for the pool (`joining`), and a
second one leaves it; everywhere else it leaves the batch as it is, before or
right after an append (`Interrupt`, `InterruptAppended`). `Resume` and `Recover`
are the next ask and `reconcile_interrupted`. `protocol` is the record of
`RunProtocol` and every append goes through `Applied`. Call ids are not reused.

### RepoMap

`Refresh` is the listing with its limits of entries, time, files and bytes, and
drops the entries of what is no longer listed; `Stat` compares fingerprints,
`Read` parses and makes an entry with the fingerprint taken before, `Answer` builds
the graph or hands out the snapshot of before; `Leave` is a refresh that is left by
a `RecursionError` or an interrupt. `Edit` is anybody who writes a file in between.
`Modules`, `Candidates`, `Tested` and `Edges` are the resolution of references:
modules by name or by a common ending, symbols by their full or their last name, and
for each symbol of a test the production symbols whose names it contains, in the
order of the code and cut at its limit. `Selected`, `Lines` and `Render` are the
selection and the text within a budget. What parsing a
text yields is a constant of the text; scores are any numbers. `during`, `racy` and
`lost` are history.

## 3. Runs

A property of a run is mostly a conjunction of named parts, each stated and
commented on its own in its module; below, the parts stand behind the property.

| Run | Question | Result |
|---|---|---|
| `run_lifecycle` | do memory and disk agree, is recovery possible, does nothing run twice, is the contract kept, with one exception, one failing Session write and one crash anywhere? | holds; 179,390 states |
| `agent_loop` | pairing, budget, settlement, late answers and termination, over any number of asks | holds; 389,350 states |
| `workspace_run` | is every change by tools, commands and verifiers accounted for, no user edit overwritten, and only a verified state delivered? | holds; 8,683,608 states |
| `subagents` | do memory, log, repository and worktrees agree on every child, over failures and interrupts at every step? | holds; 750,883 states |
| `compaction` | is nothing split, forgotten or covered unread, and is a prompt refused only when its room shrank meanwhile? | holds; 60,466 states |
| `artifact_store` | is what was named readable and unchanged, a reading gapless, and does the Run close, with two cuts anywhere? | holds; 542,976 states |
| `command_runner` | does a command end in time, with all it started, whatever its processes do? | holds; 6,511,620 states |
| `provider_client` | do requests keep their deadline and the conversation its pairs, whatever the network does? | holds; 1,128,050 states |
| `observation_batch` | is the log of a batch sound and true, and does nothing run outside of it, over stops, interrupts and crashes? | holds; 187,535 states |
| `repo_map` | is no map older than its refresh, no edge dangling, no text over its budget, while files change? | holds; 1,044,767 states |
| `call_id_reuse` | is recovery possible when a Provider repeats a call id? | violated |
| `stop_blocked` | can a stopped Run always be closed? | violated |

### run_lifecycle

- `MemoryIsCurrent`: whenever the process may append, `RunLog`, protocol and cursor
  equal the file, and the projection lacks nothing but results that recovery is
  appending.
- `LogsAreSound` (`TypeOK`, `ReplayAgrees`): every log on disk validates and replays
  to what the model says.
- `PointerIsRight` (`PointerIsLoadable`, `NoOrphanWithoutPointerFault`): the Session
  never names a Run startup would refuse, and between asks the only unfinished Run
  is the installed one, as long as no Session write raised.
- `Reconcilable`: recovery's outcome is one the protocol accepts.
- `ExecutionsAreRecorded` (`NoBlindReplay`, `NoSilentEffect`): a Runner runs at most
  once per persisted call, never before its start is durable, and a call that
  changed the workspace is never recorded as free of effects, whether it returned,
  raised or was cut off.
- `ContractHolds`: `RunLifecycle` implements `RunContract`.

Bounds: two Runs, four call ids (two observations, one mutator, one command), 6
lines before a loop only ends, 8 before no ask begins, one exception, one
failing pointer write, one crash. That lets a Run be interrupted within a
transaction, resumed and finished, and a second Run begin. Two observations are
enough for a batch: the protocol compares neighbours only. Runs and the two
observations are symmetric; symmetry is used with safety properties only.

### agent_loop

- `TurnsAreSettled` (`RequestIsPaired`, `SettledBeforeTurn`): no request continues a
  conversation with open calls or with another tool surface, each answer gets as
  many results as calls, and no call owes a result when the loop appends anything
  else.
- `BudgetIsHonoured` (`ToolBudgetKept`, `LastWordBeforeBudgetStop`):
  `max_tool_executions` holds over batches, interrupted turns and resumed asks,
  counting what recovery will count, and the budget stops a Run only after the
  model had a turn with `submit_final` alone.
- `NoLateWork`: an answer that comes after a stop was requested has no effect.
- `ResetEndsRun`: an ask that a reset was asked of, and that met no exception, leaves
  no open Run behind, unless its last answer was the second context overflow in a
  row.
- `EveryAskEnds`: every ask ends, without help from the deadline or the user.

Bounds: 3 turns, 2 tools, batches of 2 (3 is too long), 2 invalid outputs in
place of 8, 2 rejected completions in place of 3, one exception. The number of
asks is not bounded. The limits are compared, never computed with, so 2 has
every case of 8: below, reaching and resetting.

Fairness: `WF_vars(Step)`. An ask is sequential code in one thread; a Provider
request ends by its deadline (`provider_client`) and a command by its timeout
(`command_runner`), so what it can do next it does. Nothing is assumed of a stop,
the deadline, an exception, the next ask or a reset. `EveryAskEnds` therefore rests
on the turn limit and on the single overflow retry alone.

### workspace_run

- `UserEditsSurvive`: what a structured tool replaced is what its call named.
- `EvidenceReplays` (`TypeOK`, `LogReplays`, `PreimagesMatch`): transitions chain, the
  terminal event has the Diff its changes demand, so no event makes a replay raise,
  and the preimage of a touched file is the state the Run found.
- `CompletionIsEarned` (`DeliveredWasVerified`, `UncertaintyIsSettled`): a Run that had
  to verify completes with exactly the states a passing verifier started and
  finished on, after the last effect; and never over an unknown effect, nor over a
  partial one without a covering repair and a verification after it.
- `ChangesAreAccounted`: what Pico, a command or a verifier changed is covered by
  an effect between calls and at the end.

What each excepts is told in section 2. Bounds: two files, two contents (and
absence), two edits by the user at any moment, two effects, one crash. A repair
takes two effects; a lost edit takes one edit between two reads of one call; drift
with a way back takes two. Files are independent but for commands and
verifications that see both. Files and contents are symmetric.

### subagents

- `BetweenCallsAgree` (`RestartChangesNothing`, `MemoryIsNeverBehind`, `LogRecovers`,
  `WorktreesAreReleased`): between calls memory says of every implement child what a
  new process would read from the log, the log can be read, and only completed
  children hold a worktree. Excepted is a child whose delegation or marked integration
  lost its result in this process; of it memory knows more than the log, never less.
- `AppliedWhereVerified`: a patch is written into the commit and the clean tree it was
  verified on, unless others worked in the repository while `git apply` ran.
- `CompletedIsIntegrated`: no Run completes with a receipt that is not integrated,
  over crashes, failed integrations and repairs, but for a patch that was applied and
  marked before its result was lost.
- `DeadEndsAreKnown`: as long as nobody else works in the repository, what keeps a Run
  between calls from completing is one of three things: a record that says running
  after its delegation was cut, a patch of some child in the files while a completed
  child wants the clean base, or an `integrate_child` that was called for an explore
  child. No patch has drifted, so a partial effect can be repaired.

Bounds: two children, three changes by others, two crashes: enough for an edit, a
commit and a revert around one integration, and for a restart that is followed by
another integration and another crash. Failures and interrupts are not bounded.

### compaction

- `HistoryIsComplete` (`HistoryTypeOK`, `ActiveIsReadable`, `NothingForgotten`): every coverage
  is a prefix of the history in use, no transaction is split, and each event is in
  use or replaced by exactly one summary, over compactions of compactions and
  resumes.
- `SummariesAreHonest` (`GuidanceStays`, `NothingLeavesUnsummarised`): the latest
  guidance is never replaced, and what is replaced was part of what a summary was
  made from, or is said elsewhere in the prompt.
- `PromptsAreServed` (`RefusedOnlyInLessRoom`, `ShownIsRecentAndWhole`): however rooms
  change from prompt to prompt, a prompt fails for its history only when its own room
  shrank between its preparation and its build, and it shows whole transactions, the
  most recent ones.

Bounds: sizes 1 and 3, rooms 2 and 5, two recent tokens, batches of 2, 6 events:
an event fits alone, or not at all, or in one room only, and a summary can be
summarised again. What a prompt may drop is part of the code: the summary goes
when the newest transaction does not fit beside it, and nothing after the latest
guidance can be summarised, so an ask that grows long is shown a suffix.

### artifact_store

- `StoreIsSound` (`TypeOK`, `NamedIsReadable`, `DescriptorNamesContent`, `Immutable`):
  what a caller was given a descriptor for can be read, a descriptor never precedes
  its content, and no step touches what was written whole.
- `ReadingIsExact` (`PagesAreContiguous`, `PagesAdvance`): a model that follows the
  continuation offsets is shown every byte once, and comes on with every page that
  is not smaller than the next character.
- `RunCloses`: a Run whose closing is tried again closes, unless the Diff of its
  workspace was spoiled by an earlier attempt.

Bounds: one call, three contents (empty, of single bytes, with characters of
several bytes and a carriage return), pages of 1 and 3 bytes, two faults, one edit.
Artifacts of different calls share nothing. Fairness: `WF` on the steps of a write
and on the end of a reading; `SF` on the attempt to close, which readings and other
writes of the same thread take turns with: a user asks again until the Run is
closed. Nothing is assumed of a fault, an edit or a new output.

### command_runner

- `EndsInTime`: when the command is past its deadline, the ask's, or one poll after a
  stop, and the grace is over as well, it has ended, or is about to see that it
  has; and every command ends. Excepted is a process that has left the group and
  keeps the pipes.
- `NothingSurvives` (`CleanupReachesGroup`, `OutputIsFinal`): after a cleanup that ran
  to its end, what lives on had left the group, or ignored SIGTERM and had given up
  its pipes; and nobody can add to an output that was returned.
- `StopsForCause`: the reason of a stop is one that was asked for, or the deadline,
  which has passed.
- `OutputIsShared` (`TypeOK`, `OutputIsBounded`, `NoStreamStarves`): a result has no more
  than the limit, is cut only when the limit is used up, and neither stream cuts the
  other below its half.

Bounds: the command and one helper, two threads that request, `Poll = Grace = 1`,
timeouts 1 and 3, 0, 2 or 9 left of the ask, a limit of 3 (odd, so that the halves
differ), streams of up to 4, a clock up to 5. One helper has every role: inside or
outside of the group, deaf or not, with or without a pipe. Fairness: `WF` on the
runner's next step and on time. No process has to do anything.

### provider_client

- `RequestsKeepTime` (`TypeOK`, `OverdueOnlyConnecting`, `NothingSentLate`,
  `RetriesAreJustified`): a request over its deadline is one that waits for a connect
  after a redirect; nothing is sent at or after the deadline; a delay is slept only
  when it ends before the deadline, and a further attempt follows a failure that
  may pass, after its delay.
- `CutBodyIsNotUsed`: what the client's own timer cut is neither decoded nor believed.
- `ConversationIsPaired`: what is sent has one output per call, after it and in order,
  and exactly the calls of the last answer wait for theirs.
- `EveryRequestEnds`.

Bounds: two call ids, one or two calls per response, two requests, timeout 7 with 2
or 9 left of the ask, one redirect per attempt, a clock up to 14, which is as far as
a request can get. The delays are 1 and 2, so that 7 has room for all three attempts and 2 for
not all of them. Fairness: `WF` on the client's own steps and on time, and on the
connect that timed out and the socket that was shut: timeouts and timers act.
Nothing is assumed of the network.

### observation_batch

- `NothingRunsOutside`: an observation that runs is started in the log and inside of
  its own batch, before any result of it, unless two interrupts came.
- `LogIsSound` (`TypeOK`, `NeverRefused`, `ResultsAreTrue`, `SiblingsSurvive`,
  `BudgetKept`): the protocol accepts every append; completed means that the call's
  own Runner returned with no stop before or after, not started that it never came
  to the pool; without a stop a failed observation stops no other; the budget holds.
- `ContractHolds`: batches implement `RunContract`.
- `EveryBatchSettles`: every batch is answered, or left to the next ask.

Bounds: five calls, responses of 2 to 4 with at most 3 admitted, two workers, a
budget of 4, two interrupts or crashes: a batch larger than the pool, one too long,
one over the budget, and a batch after a recovery. Fairness: `WF` on the main
thread's steps and on some worker's: an observation reads files of bounded size, or
waits for a command that ends. Nothing is assumed of an ask, a stop or a fault.

### repo_map

- `MapIsTrue` (`TypeOK`, `NeverStale`, `NothingIsMissing`): a refresh shows of each file
  what it held at some moment while it ran, and every file that was there all the
  time, or says that it does not. Excepted are a file rewritten with the same size
  in the same tick of its file system and a refresh after one that was left.
- `EdgesAreWithin`: the graph joins symbols of the map only, and has an edge back for
  every edge; the page rank looks both ends up.
- `TextIsRight` (`TextFits`, `LinesUnderTheirFile`, `BestIsShown`): a text is within its
  budget, shows no symbol twice and each below the path of its file; the best
  symbol is shown whenever it fits, and a text that leaves one out says so.

Bounds: three files (one of a test) of which two are taken, six texts (two of the
same size, a class with a method, one too large, one too deep), two targets per
reference in place of 4, budgets 0, 4 and 7, three symbols per text, two edits, two
ticks, three refreshes: an entry can be made, become stale and be dropped. Two
assignments of scores, one with ties. One test speaks of two production names, one
stands outside of a test file. No liveness is claimed: a refresh is a loop over a list.

### The violations

- `call_id_reuse`. `reconcile_interrupted` decides whether a call had started by
  looking for its id in the whole Run (`run_lifecycle.py:132`); the protocol
  looks in the current transaction. If a Provider repeats an id and the process
  is interrupted before the second start, recovery writes an executed result for
  a call that did not start, the protocol refuses it, and the Run can be neither
  resumed nor reset.
- `stop_blocked`. The final Diff is written once (`artifacts.py:216`). When an attempt
  to close the Run was cut in the middle of that write, or failed after it and the
  Diff has a carriage return, the file that is there never equals what every later
  attempt would write, and all of them raise. `docs/architecture/agent-runtime.md:324`
  says that a cancellation or reset can still terminalize safely.

### Limits of what holds

What the properties except is as much a result as what they claim. The faults
behind these are named by constants, history variables or premises, so that they
can be tried:

- `ReloadMayFail` (`RunLifecycle`): an append that raised after its fsync did not
  move the store's cursor; if the reload in the handler raises too, the cursors
  that `_reload_if_snapshot_is_stale` compares agree with each other and not with
  the file, and `LogsReadable` is violated by the next ask.
- A Session write that raised, followed by a crash (`NoOrphan` without the
  premise of `NoOrphanWithoutPointerFault`): startup finds the pointed Run
  terminal, drops the pointer and does not search (`run_lifecycle.py:80`); only a
  later startup finds the unfinished Run.
- A reset or a cancel that arrives while the second context overflow in a row is on
  its way is not looked at (`agent_loop.py:62`): the ask raises and the Run stays
  open. Every other exception of a turn consults the request first
  (`agent_loop.py:66`).
- A call reads its files three times. A file that changes between two reads that
  are made back to back, or changes and changes back around one, passes every
  check, and the event that is then written is durable before the projection
  refuses it (`run_projection.py:135`, `evidence.py:47`), now and in every reload.
- There is no event before a verifier runs (`completion_controller.py:151`). If the
  process ends when it has changed a file, the resumed Run knows nothing of the
  change and can complete.
- The records of children are read from the log once per process and Run
  (`subagents/runner.py:76`), and change before the result of a call is appended. A
  result that is lost after `mark_integrated` (`subagents/integration.py:117`) leaves a
  child integrated in memory, over which the gate lets the Run complete, and a partial
  effect in the log. One lost after the child ended, before the receipt of its
  delegation is made and appended (`subagents/runner.py:332,375`), leaves a child that
  `integrate_child` still accepts: the log then integrates a child it does not know
  (`subagents/runner.py:145`), and no later process can recover the children of the Run,
  although `docs/architecture/agent-runtime.md:320` says that a restarted parent can
  continue. `BetweenCallsAgree` without `unreported` in `LogRecovers` shows it. `except
  Exception` does not catch `Ctrl-C` (`subagents/runner.py:333,363`): the record says
  running for the rest of the process, which blocks the gate (`subagents/runner.py:387`),
  and the worktree stays.
- `_require_parent_base` is the last look at the parent, then two `git apply` run
  (`subagents/integration.py:111`, `subagents/worktree.py:179`), which need only the lines
  of the patch: an edit of other files, or a commit, made in between goes unseen, although
  `subagents/tools.py:102` says that the patch goes into the unchanged parent repository.
  `AppliedWhereVerified` with `elsewhere = {}` shows it.
- A summary fits the room that was measured before its request and is committed; the
  build measures again (`context_manager.py:118,129`), with a fresh Git status and
  repository map, and raises where it no longer fits (`history.py:291`), although
  `docs/resume-project.md:19` says that a summary that does not fit is not committed and
  that the Run goes on with a bounded projection. `RefusedOnlyInLessRoom` with
  `refused = <<>>` shows it. The next ask prepares its prompt in the new room and is
  served.
- An integration of an explore child is refused by an exception, and since it plans
  no paths its effect is called unknown (`subagents/tools.py:43`,
  `tool_runtime.py:663`): the Run cannot complete. After a crash between `git apply` and
  the receipt, or a failure between `git apply` and the mark, the gate demands an
  integration which demands a clean parent (`subagents/integration.py:90`); undoing the
  patch is drift, which rejects the call as well. Once one of two completed implement children is integrated, the other
  cannot be. These are the blocked Runs of `DeadEndsAreKnown`.
- A page smaller than the character at its start is empty and continues at its own
  offset (`artifacts.py:203`).
- After a redirect a connect has the whole timeout of the attempt, so a request may
  overrun its deadline by that, though it sends nothing any more. A success whose
  text is cut inside a character raises a decoding error nobody handles. A cancel is
  not seen while a request waits.
- After SIGKILL the output is awaited without a timeout (`command_runner.py:200`): a
  process that left the group and kept a pipe keeps the runner. One that ignores
  SIGTERM and gave up its pipes is never sent SIGKILL. A second interrupt, in the
  cleanup, leaves the group alive. Two threads inside of `request` may both store a
  reason (`execution.py:50`).
- A second interrupt, in the join of the pool, leaves running observations behind,
  which may end during the next ask. A stop after a Runner returned turns a reported
  side effect into an interruption.
- A refresh that is left after it has changed its cache, by a `RecursionError` or an
  interrupt, leaves entries that the snapshot does not have; when everything hits,
  the next refresh hands that snapshot out. A text nested too deep raises in every
  refresh. A directory that cannot be listed drops its files without
  `scan_truncated`; that is not in the model.

## 4. Proofs

`RunLifecycleProofs`, for any Runs, call ids, bounds and Providers that may or
may not repeat call ids, assuming `~ReloadMayFail` (without it the first two are
false, section 3). Its invariant has three layers, each inductive given the ones
before it:

- `Invariance`: the first layer, `IInv`. `MemoryIsCurrent` alone is not
  inductive: recovery appends while the projection is behind, so the invariant knows
  that what it lacks is results, and that nothing but `ApplyRecovered` follows them; in
  the middle of an exception (`pc = "recover"`) the copies differ,
  so the invariant also says which Runs can be reloaded there, that a Run being
  created has an empty log, that an empty log has the empty protocol state, and
  that protocol states keep their shape (`WellFormed`).
- `TypeCorrect`, `MemoryStaysCurrent`, `LogsStayReadable`,
  `PointerStaysLoadable`. `LogsReadable`, that no sequence number repeats and no
  line is fused with a torn one, is what a reload that raises breaks.
- `LogsReplay`: `LogsAreSound`. What a recursion computes for every log is an induction
  over data, but a log grows one line at a time, so the induction is over the behaviour:
  `ReplaysInv` says that whatever solves the recursion for the log on disk (`Solves`)
  ends in the state that was kept beside it, and that the protocol allowed every line
  of it (`Replays`). A solution for the longer log is one for the shorter
  (`ReplaysMore`); that there is one, and so that `Replayed` is one, follows from the
  induction as well (`ReplayedSolves`).
- `Implements`: `RunLifecycle` implements `RunContract`. A durable append maps to
  the contract's step of its kind (lemmas on `Applied`), all else to a stutter.
- `PointerStaysRight`, by the second layer, `PInv`: between the write of a Run's first
  line and the Session's pointer to it, and between the terminal line and the pointer's
  removal, the two files disagree, so the layer says at each such place what the
  pointer may be (`PointerShape`) and what of the Run there is (`Begun`). On top of it,
  unless a Session write raised, at most one Run is unfinished, and pointer and process
  know which (`PointerLeads`).
- `Executions`, the third layer, `XInv`: what a recovery and a Runner rely on. The
  log holds a start of every started call and, unless ids are reused, of no other owed
  call (`StartsLogged`, `OnlyStartsLogged`); starts come in the order of the calls,
  without a gap (`Ordered`); a call that ran has started, has run once, and if it
  changed the workspace is no observation (`RanShape`). Of it
  `CallsRunOnce` (`NoBlindReplay`) and, with `NoSilentEffect` as an action property of
  every step, `ExecutionsStayRecorded`.
- `RecoveryNeverSticks`: `Reconcilable`, assuming `~ReuseIds` as well. Without it the
  run `call_id_reuse` refutes it.

`AgentLoopProofs`, for every value of the limits and any number of exceptions:

- `LoopInvariance`: the inductive invariant, `TypeOK` and five parts, one per
  idea: the conversation, the answer in hand, the budget, the settled calls and
  the counters at their limits. They lean on each other. That a request is
  paired needs the shape of the answer; the budget needs that a single call was
  admitted while something was left; the counters' types need that a counter at
  its limit is already on its way out.
- `LoopTypes`, `RequestsStayPaired`, `ToolBudget`, `TurnsStartSettled`,
  `BudgetStopHasLastWord`, `LateAnswersAreDropped`, and of them `TurnsBeginSettled`
  and `TheBudgetIsHonoured`, the properties of the run.
- `ResetsEndTheRun`: `ResetEndsRun` is inductive given `TypeOK` and `RequestIsPaired`: an
  ask that meets no exception leaves the loop only by an end of the Run.

`SubagentsProofs`, for any children, any number of crashes, failures and interrupts, and
of changes by others at any time, with no assumption beyond `SubagentsAssumption`:

- `SubagentsInvariance`: the inductive invariant. `RestartChangesNothing` speaks of
  the moments between calls; inside a call memory may be ahead of the log by
  the child of the call as well (`Agreement`), a process that is down remembers nothing
  and a lost delegation has no receipt (`MemoryShape`), a worktree or a running record
  belongs to the call or to a lost one (`HeldShape`), and each place of a call says what
  is already known of its child (`CallShape`). That a patch lands where it was verified
  needs that at `pc = "apply"` the parent is clean and at the base, or the child is in
  `raced`; that the gate, which reads memory, speaks for the log needs `Agreement`.
- `TypeCorrectness`, `RestartIsInvisible`, `MemoryStaysAhead`, `RecoveryRarelyRaises`,
  `NoWorktreeLeaks`, and of them `CallsLeaveAgreement`; `PatchesLandWhereVerified`,
  `CompletionIsIntegrated`.
- `DeadEndsAreFew`, by a second layer: while nobody else works in the repository its
  commit is the first one, patches are only added to the files, and only after one of
  them is in does a repair change others (`Untouched`); an unknown effect has a call of
  `integrate_child` for an explore child behind it.

`ToolProofs`, of `ArtifactStore`, for any calls, contents, page sizes and number of faults and
edits, with no assumption beyond those of the constants:

- `StoreInvariance`: the inductive invariant. To what the run checks it adds where
  the write is (`WriterShape`: a descriptor is written only when its content is
  whole) and where the reading is (`ReaderShape`: at a character boundary, as far
  from the aligned start as it has shown bytes).
- `WholeFilesStay`, `TheStoreIsSound`; `ReadingsAreExact`, on lemmas that `Length`,
  `Aligned` and `PageEnd` exist and are what their definitions choose, by the
  least-number principle.

`ToolProofs`, of `CommandRunner`, for any helpers, threads, timeouts, limits and times:

- `RunnerInvariance`: the inductive invariant. A token that is set has a reason
  (`TokenShape`); the command itself is never outside of its group, and what is left
  of the group after SIGTERM ignores it, after SIGKILL nothing is (`ProcessShape`);
  a cleanup has its cause (`StopShape`); each place of the runner has a latest moment
  (`TimeShape`), where a token that is set late moves `Due` but never before now.
- `NothingLivesOn`, `StopsHaveCauses`, `LimitIsShared` (on the lemma `TruncationFacts`),
  and `NeverOverdue`, the safety half of `EndsInTime`.

`ProviderClientProofs`, for any timeouts and any number of redirects, requests and
calls:

- `RequestInvariance`: the inductive invariant. Each place of an attempt has a latest
  moment, of which only a connect after a redirect may lie behind the deadline
  (`ClockShape`), and carries what justified the attempt (`RetryShape`).
- `DeadlinesAreKept`, `CutBodiesAreDropped`.
- `ConversationsStayPaired`, by an invariant of the conversation: `ConversationIsPaired`,
  and a request never runs while calls wait for their outputs, so that an answer's calls
  are appended to a conversation without open ones. The n-th call and the n-th output
  are found by counting, and the lemmas say what an appended block does to the counts
  (`CountOfBlock`, `CountOfOthers`) and to the pairs.

`ObservationBatchProofs`, for any order of ids, batches, workers, budget and number of
faults, with no assumption beyond `BatchAssumption`:

- `BatchInvariance`: the inductive invariant. A result is true because of where main
  is when it is written, so the invariant says for each of its places how far the
  protocol has come in the batch (`Progress`) and what the pool may hold of it
  (`Confined`). The calls that have an id are a prefix of the order (`Prefix`), and what
  is not started never was in the pool (`NotYet`), also of an earlier batch: without
  that a worker left behind by two interrupts could answer for a later call. The
  budget counts answered and started calls, so an admission says what it leaves
  (`Admitted`).
- `LogsStaySound`, `WorkersStayInside`, and `BatchesKeepTheContract`: `ContractHolds`, one
  kind of append after another, as in `RunLifecycleProofs`.

`WorkspaceRunProofs`, for any files, contents, edits, effects and crashes, with no
assumption beyond those of the constants:

- `ShapesHold`: types, with what the pending call and the locals are at each place of
  the process (`CallShape`, `ProbeShape`): most values exist only there.
- `EditsSurvive`: between `commit_guard` and `os.replace` the file is what the call named,
  unless the user edits right there, which the model records (`Guarded`).
- `EvidenceStaysReplayable`: that every append fits the chain is no fact about the
  append. A planned call starts where the last effect ended (`Tracked`); its file stays
  as planned until its own write, or else is not what the call expects (`Untouched`),
  which needs that contents do not come back (`Clean`) and that whatever a call expects
  was in the file at some time (`Known`); and the gate compares before it renders
  (`Compared`).
- `ChangesStayAccounted`: at each place of a call, what is not yet in an effect is what the
  pending call, or the snapshot taken before a command or a verifier, still knows
  (`Accounted`).
- `CompletionsAreEarned`: a record that counts was passed over the projected states
  (`Judged`), the record the gate looks at again is not older than the last effect, or
  an unknown effect blocks the gate (`Rechecked`), and an answer that passed the gate
  stays right until it is delivered (`Earned`).

`ContextProofs`, about `RepoMap`, for any files, texts, orders, limits, edits and
refreshes that fail:

- `MapInvariance`: the inductive invariant. What a refresh hands out is right because of
  what every earlier one left in the cache, so the invariant says of each entry that it
  is the file's text as long as its mark is the file's (`EntriesAreTrue`), or the file
  was rewritten under its mark; of what is parsed, that its file held it during the
  refresh (`ParsedIsTrue`); of each file, that it is still listed, or parsed, or was
  missed with a word (`NothingIsForgotten`); and of the snapshot, that it is the cache
  unless something changed since or a refresh was left (`SnapshotIsTheCache`). A listed
  file comes once (`Queue`), by lemmas on what `InOrder` keeps of an order.
- `TheMapIsTrue`: `MapIsTrue`, of it.
- `TheGraphIsWithin`: `EdgesAreWithin`. The edges handed out are those of the files
  handed out (`GraphInv`), and `_add_edge` admits no end that is not a symbol of these
  files. No assumption on names is used.
- `TheTextIsRight`: `TextIsRight`. `SelectedFacts` says what `Selected` chooses, in which
  the preference must be an order (`PreferenceOrders`: scores divided by weights,
  compared by products) for there to be a best symbol among many, and `LinesFacts` what
  `Lines` draws of it: after each symbol, left out or not, what is drawn is of those
  already passed, each once, under the last path that was drawn (`Drawn`).
- What a recursion over numbers computes is proved by induction on a set of numbers
  (`UpTo`, from the well-foundedness of the naturals), after `Recursion`: every recursion
  of this kind has a solution. So `InOrder` is a recursive function here.

`ContextProofs`, about `Compaction`, for any sizes and rooms, any number of results in
a batch and logs of any length:

- `HistoryInvariance`: the inductive invariant. What is in use is computed from the
  whole log, so every property is first one of a log and of what is read from it, and
  the induction is over the behaviour, which appends one event at a time: what is read
  from the longer log is `Replaced` of what was read from the shorter (`ActiveOfMore`).
  `IsLog` says what the appends write, with the results of a call right behind it;
  `InUse` says of what is read that its facts are in order after at most one summary
  (`Ordered`), that it has a call with all of its results or none of them (`Whole`), that
  what it lacks is older (`Younger`) and covered once (`Replacing`). From order and
  wholeness follows that units are contiguous (`UnitsAreWhole`): of facts that rise in
  place and in number, those between a call and its last result are all there.
- `TheHistoryIsComplete`: `HistoryIsComplete`. An append keeps `InUse` (`AddFact`); a
  summary keeps it when it replaces a prefix that ends between units (`AddSummary`),
  and `Cut` is such a place (`CutFacts`).
- `TheSummariesAreHonest`: `SummariesAreHonest`. The latest guidance is not before the
  cut, and what is before it and not in `Source` is said elsewhere (`ReplacedWasRead`);
  a successful update stays one in a longer log (`UpdatesStay`).
- `ThePromptsAreServed`: `PromptsAreServed`. `Coverable` holds of every `Covered`
  (`CutCovers`), and when a prompt is prepared its summaries fit the room found then, or
  what is built is the fallback (`HasRoom`), so that a build raises only in less room;
  each of the ways to select what is shown ends in a recent part in whole units
  (`Suits`).

Model-checked only: liveness, which is out of the prover's reach. It is `EveryAskEnds`,
`RunCloses`, the second half of `EndsInTime`, `EveryRequestEnds` and `EveryBatchSettles`.

Assumptions of the proved modules: `ConstantsAssumption`, `LimitsAssumption`,
`SubagentsAssumption`, `BatchAssumption`, `RevisionsAssumption` of `RunEvidence`,
`BoundAssumption` of `WorkspaceRun`, `BoundaryAssumption`, `PageAssumption`,
`CarriageAssumption`, `BoundAssumption` and `KeyAssumption` of `ArtifactStore`,
`TimeAssumption`, `OutputAssumption` and `NameAssumption` of `CommandRunner`,
`TimeAssumption` and `BoundAssumption` of `ProviderClient`, `OrderAssumption`,
`TextAssumption`, `NameAssumption` and `ScoreAssumption` of `RepoMap`,
`CompactionAssumption`. TLC evaluates all of them. `NameAssumption` of `RepoMap` says
that the names of definitions are among the names, and that a text defines each once:
`refresh` keys its symbols by path and qualified name, so that a later definition
replaces an earlier one of the same name.

## 5. What is not modelled

Not yet (section 6): the working state.

Not at all: the content of prompts and answers, token estimates, redaction,
configuration parsing, the command line and the loss of written pages; the lexical
scores and the page rank of the repository map, which are floating point, and what
its parser finds in a text. Checks that only reject before anything is written are
left out: the task mode and write scope of an ask, the write scope of a tool.
Manual calls of tools, outside of an ask, are left out. Git is abstract: a commit
number, and which patches are in the files. The scripts that drive real Providers
or walk through examples only call what is modelled.

## 6. Plan

In order of how much depends on it:

1. `RunProtocol`, `RunLifecycle`, `RunContract` and their proofs: done.
2. `AgentLoop` and its proofs: done.
3. `RunEvidence` and `WorkspaceRun`, tools, verification and the gate, and their proofs:
   done. Abstract specification still to state: a ledger of who changed what, which the
   effects in the log implement.
4. `Subagents` and its proofs: done. Open: two children whose patches share files.
5. `Compaction` and its proofs: done.
6. `ArtifactStore` and its proofs: done.
7. `ProviderClient`, `CommandRunner` and their proofs: done.
8. `ObservationBatch` and its proofs: done.
9. `RepoMap` and its proofs: done.
10. `WorkingState`.
