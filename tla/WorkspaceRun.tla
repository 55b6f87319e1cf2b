----------------------------- MODULE WorkspaceRun ------------------------------
(****************************************************************************)
(* One Run and the files it works on: tool_runtime.py (_execute),           *)
(* mutations.py, tools.py (write_file, edit_file, run_command),             *)
(* completion_controller.py, verification.py, delivery.py and               *)
(* reconcile_interrupted, with a user who edits the same files.             *)
(*                                                                          *)
(* What ev says is durable: every event that changes it is in the Run Log   *)
(* before memory follows (RunLifecycle), so a crash loses pc, probe and     *)
(* repeats only, and call is the persisted ToolCall with its tool_started.  *)
(*                                                                          *)
(* The user may edit a file between any two steps.  "odd" remembers what    *)
(* the code is not made for, and each property says which of it it cannot   *)
(* stand.  raced: an edit between two reads that the code does back to      *)
(* back.  undone: an edit back to an earlier content of the file while Pico *)
(* is in the middle of something (between turns a user always may: the      *)
(* drift message asks for it).  cut: the process died, or was interrupted   *)
(* with Ctrl-C, when the verification command had already changed a file.   *)
(*                                                                          *)
(* Bounds: MaxEdits edits by the user, of which only the last is raced or   *)
(* undone, MaxEffects recorded effects, MaxCrashes crashes.  Left out: the  *)
(* write scope, which only rejects.                                         *)
(****************************************************************************)
EXTENDS RunEvidence, FiniteSets

CONSTANTS MaxEdits, MaxEffects, MaxCrashes

ASSUME BoundAssumption == {MaxEdits, MaxEffects, MaxCrashes} \subseteq Nat

VARIABLES
    contract,   \* TaskContract: may the Run mutate, must it verify its changes?
    ws,         \* the workspace
    ev,         \* runtime.run.evidence
    call,       \* the pending ToolCall, or NoCall
    pc,         \* where the process is
    probe,      \* locals of a running command or verifier: the snapshot and the cursor
    repeats,    \* _repeat_outcomes: the calls that left an uncertain effect
    status,     \* of the Run
    delivered,  \* what the final Diff shows of each net-changed path
    seen,       \* history: every state each file has had
    lost,       \* history: a tool replaced a content its call did not name
    unaccounted,\* history: the files Pico or its commands changed without an effect
                \* recorded yet, with their state before the call
    odd,        \* history: what happened of "raced", "undone" and "cut"
    edits, crashes

memory == <<probe, repeats>>
history == <<seen, lost, unaccounted, odd>>
vars == <<contract, ws, ev, call, pc, memory, status, delivered, history, edits, crashes>>

Writes == [tool : {"write_file"}, path : Paths, new : Contents]
Edits == [tool : {"edit_file"}, path : Paths, old : Contents, new : Contents]
Commands == [tool : {"run_command"}]
ToolCalls == Writes \cup Edits \cup Commands

NoPaths == [p \in {} |-> Absent]

NoCall == [args |-> [tool |-> "none"], started |-> FALSE,
           before |-> NoPaths, preimage |-> NoPaths]

\* before and preimage: potential_effects of the persisted tool_started.
PendingCall == [args : ToolCalls, started : BOOLEAN, before : PathStates,
                preimage : PathStates]

NoProbe == [ws |-> NoPaths, cursor |-> 0]

PCs == {"loop", "admit", "plan", "preimage", "run", "commit", "replace", "result",
        "command", "check", "verify", "recheck", "render", "deliver", "down", "poisoned",
        "closed"}

TypeOK ==
    /\ contract \in [mutates : BOOLEAN, verifies : BOOLEAN]
    /\ ws \in [Paths -> States]
    /\ ev \in Evidence
    /\ call \in PendingCall \cup {NoCall}
    /\ pc \in PCs
    /\ probe \in [ws : PathStates, cursor : Nat]
    /\ repeats \subseteq ToolCalls
    /\ status \in {"running", "completed", "stopped"}
    /\ delivered \in PathStates
    /\ seen \in [Paths -> SUBSET States]
    /\ lost \in BOOLEAN
    /\ unaccounted \in PathStates
    /\ odd \subseteq {"raced", "undone", "cut"}
    /\ edits \in Nat /\ crashes \in Nat

\* _task_contract: verify_changes needs the mutation right.
Init ==
    /\ contract \in [mutates : BOOLEAN, verifies : BOOLEAN]
    /\ contract.verifies => contract.mutates
    /\ ws \in [Paths -> States]
    /\ ev = EmptyEvidence
    /\ call = NoCall
    /\ pc = "loop"
    /\ probe = NoProbe
    /\ repeats = {}
    /\ status = "running"
    /\ delivered = NoPaths
    /\ seen = [p \in Paths |-> {ws[p]}]
    /\ lost = FALSE
    /\ unaccounted = NoPaths
    /\ odd = {}
    /\ edits = 0 /\ crashes = 0

\* What is still different of the unaccounted files, without those in paths.
StillUnaccounted(paths) ==
    [p \in {q \in DOMAIN unaccounted \ paths : ws[q] # unaccounted[q]} |-> unaccounted[p]]

\* Pico, or a process it runs, changes p from its state in before.
NowUnaccounted(p, before) ==
    [q \in DOMAIN unaccounted \cup {p} |->
        IF q \in DOMAIN unaccounted THEN unaccounted[q] ELSE before[q]]

\* Somebody gives file p the state s.
Put(p, s) ==
    /\ ws' = [ws EXCEPT ![p] = s]
    /\ seen' = [seen EXCEPT ![p] = @ \cup {s}]

(****************************************************************************)
(* The user, outside of Pico.                                               *)
(****************************************************************************)
UserEdit ==
    /\ pc \notin {"poisoned", "closed"}
    /\ edits < MaxEdits /\ odd \cap {"raced", "undone"} = {}
    /\ \E p \in Paths, s \in States :
           /\ s # ws[p]
           /\ Put(p, s)
           /\ odd' = odd \cup
                 (IF pc \in {"preimage", "replace", "check", "deliver"} THEN {"raced"} ELSE {})
                 \cup (IF s \in seen[p] /\ pc \notin {"loop", "down"} THEN {"undone"} ELSE {})
    /\ edits' = edits + 1
    /\ UNCHANGED <<contract, ev, call, pc, memory, status, delivered, lost,
                   unaccounted, crashes>>

(****************************************************************************)
(* A tool transaction: ToolRuntime._execute.                                *)
(****************************************************************************)

\* A successful list_files, read_file, read_artifact, search or delegate.
Observe ==
    /\ pc = "loop"
    /\ ev' = [ev EXCEPT !.observed = TRUE]
    /\ UNCHANGED <<contract, ws, call, pc, memory, status, delivered, history,
                   edits, crashes>>

\* The model asks for a call and append_tool_call persists it.  It can only
\* know revisions the file has had.
CallTool ==
    /\ pc = "loop"
    /\ Len(ev.effects) < MaxEffects
    /\ \E a \in ToolCalls :
           /\ a \in Edits => a.old \in seen[a.path]
           /\ call' = [NoCall EXCEPT !.args = a]
    /\ pc' = "admit"
    /\ UNCHANGED <<contract, ws, ev, memory, status, delivered, history, edits, crashes>>

\* append_tool_result and the projection.  Where the transition chain does not
\* continue, apply_event raises, and so does the reload in the handler.
FinishCall(side, moves) ==
    /\ ev' = Recorded(ev, side, moves)
    /\ pc' = IF ev'.broken THEN "poisoned" ELSE "loop"
    /\ repeats' = IF side \in {"partial", "unknown"} /\ pc # "down"
                  THEN repeats \cup {call.args} ELSE repeats
    /\ unaccounted' = IF side = "unknown" THEN NoPaths
                      ELSE StillUnaccounted(DOMAIN moves)
    /\ call' = NoCall
    /\ probe' = NoProbe
    /\ UNCHANGED <<contract, ws, status, delivered, seen, lost, odd, edits, crashes>>

\* Rejected before the start, or a typed failure of a Runner: nothing changed.
FinishUnchanged == FinishCall("none", NoPaths)

\* The transitions between the recorded states and the present ones.
Detected ==
    [p \in {q \in DOMAIN call.before : ws[q] # call.before[q]} |->
        [before |-> call.before[p], preimage |-> call.preimage[p], after |-> ws[p]]]

\* A slip never used by Next: only declared paths are looked at.
FinishByDeclaredPaths ==
    FinishCall(IF Detected # NoPaths THEN "partial" ELSE "none", Detected)

\* What the exception path and reconcile_interrupted make of them.
FinishUncertain ==
    LET side == IF Detected # NoPaths THEN "partial"
                ELSE IF call.args \in Commands THEN "unknown" ELSE "none"
    IN  FinishCall(side, Detected)

\* _resolve_tool, the repeat guard and the validators.
Admissible(a) ==
    /\ contract.mutates
    /\ a \notin repeats
    /\ a \in Writes => ws[a.path] = Absent
    /\ a \in Edits => ws[a.path] # Absent

\* The user is asked last, and may deny.
Admit ==
    /\ pc = "admit"
    /\ Admissible(call.args)
    /\ pc' = "plan"
    /\ UNCHANGED <<contract, ws, ev, call, memory, status, delivered, history,
                   edits, crashes>>

Reject ==
    /\ pc = "admit"
    /\ FinishUnchanged

PotentialPaths(a) == IF a \in Commands THEN {} ELSE {a.path}

\* tracked_workspace_drift: a path of the call is not as the last effect left it.
TrackedDrift == PotentialPaths(call.args) \cap WorkspaceDrift(ev, ws)

\* A slip never used by Next: the tracked states are not compared.
PlanWithoutDrift ==
    /\ pc = "plan"
    /\ call' = [call EXCEPT !.before = [p \in PotentialPaths(call.args) |-> ws[p]]]
    /\ pc' = "preimage"
    /\ UNCHANGED <<contract, ws, ev, memory, status, delivered, history, edits, crashes>>

\* _effect_snapshot and the drift check.
Plan ==
    /\ pc = "plan"
    /\ IF TrackedDrift # {}
       THEN FinishUnchanged
       ELSE /\ call' = [call EXCEPT !.before = [p \in PotentialPaths(call.args) |-> ws[p]]]
            /\ pc' = "preimage"
            /\ UNCHANGED <<contract, ws, ev, memory, status, delivered, history,
                           edits, crashes>>

\* _preimage_artifacts: the files whose first state is not yet in the Run.
NeedsPreimage ==
    {p \in DOMAIN call.before : call.before[p] # Absent /\ p \notin TouchedPaths(ev)}

\* write_workspace_preimage copies the file as it is now.
Preimages ==
    [p \in DOMAIN call.before |-> IF p \in NeedsPreimage THEN ws[p] ELSE Absent]

\* The preimages, then tool_started.
Start ==
    /\ pc = "preimage"
    /\ IF \E p \in NeedsPreimage : ws[p] = Absent
       THEN FinishUnchanged
       ELSE /\ call' = [call EXCEPT !.started = TRUE, !.preimage = Preimages]
            /\ pc' = "run"
            /\ UNCHANGED <<contract, ws, ev, memory, status, delivered, history,
                           edits, crashes>>

Expected(a) == IF a \in Writes THEN Absent ELSE a.old

\* WorkspaceMutationService.write and edit up to the staged payload.  The text
\* to replace may be missing or ambiguous; an edit may change nothing.
Stage ==
    /\ pc = "run" /\ call.args \notin Commands
    /\ LET a == call.args IN
       \/ ws[a.path] # Expected(a) /\ FinishUnchanged
       \/ a \in Edits /\ FinishUnchanged
       \/ /\ ws[a.path] = Expected(a)
          /\ a.new # Expected(a)
          /\ pc' = "commit"
          /\ UNCHANGED <<contract, ws, ev, call, memory, status, delivered, history,
                         edits, crashes>>

\* A slip never used by Next: the revision was checked when the text was read.
GuardByFirstRead ==
    /\ pc = "commit"
    /\ pc' = "replace"
    /\ UNCHANGED <<contract, ws, ev, call, memory, status, delivered, history,
                   edits, crashes>>

\* commit_guard of atomic_replace_bytes: _require_revision.
Guard ==
    /\ pc = "commit"
    /\ IF ws[call.args.path] # Expected(call.args)
       THEN FinishUnchanged
       ELSE /\ pc' = "replace"
            /\ UNCHANGED <<contract, ws, ev, call, memory, status, delivered, history,
                           edits, crashes>>

\* os.replace.
Replace ==
    /\ pc = "replace"
    /\ Put(call.args.path, call.args.new)
    /\ lost' = (lost \/ ws[call.args.path] # Expected(call.args))
    /\ unaccounted' = NowUnaccounted(call.args.path, ws)
    /\ pc' = "result"
    /\ UNCHANGED <<contract, ev, call, memory, status, delivered, odd, edits, crashes>>

\* The Runner returns its MutationReceipt.
Finish ==
    /\ pc = "result"
    /\ LET a == call.args IN
       FinishCall("changed", [p \in {a.path} |-> [before |-> Expected(a),
                                                  preimage |-> call.preimage[p],
                                                  after |-> a.new]])

\* Any other exception before os.replace, or out of the command runner.
RunnerRaises ==
    /\ \/ pc \in {"run", "commit"} /\ call.args \notin Commands
       \/ pc = "command"
    /\ FinishUncertain

(****************************************************************************)
(* tool_run_command: a snapshot, the command, a snapshot.                   *)
(****************************************************************************)
RunCommand ==
    /\ pc = "run" /\ call.args \in Commands
    /\ \/ FinishUnchanged                        \* no snapshot: not started
       \/ /\ probe' = [ws |-> ws, cursor |-> Cursor(ev)]
          /\ pc' = "command"
          /\ UNCHANGED <<contract, ws, ev, call, repeats, status, delivered, history,
                         edits, crashes>>

\* A command or a verifier changes a file, each at most once.
ProcessWrites ==
    /\ pc \in {"command", "verify"}
    /\ \E p \in Paths \ DOMAIN unaccounted, s \in States :
           s # ws[p] /\ Put(p, s) /\ unaccounted' = NowUnaccounted(p, probe.ws)
    /\ UNCHANGED <<contract, ev, call, pc, memory, status, delivered, lost, odd,
                   edits, crashes>>

Changes == {p \in Paths : ws[p] # probe.ws[p]}

\* The second snapshot may fail too; affected_paths is empty in any case.
CommandEnds ==
    /\ pc = "command"
    /\ \/ Changes # {} /\ FinishCall("unknown", NoPaths)
       \/ Changes = {} /\ FinishUnchanged
       \/ FinishCall("unknown", NoPaths)

(****************************************************************************)
(* submit_final: CompletionController.assess and finish_success.            *)
(****************************************************************************)
VerificationRequired ==
    \/ contract.verifies /\ NetChangedPaths(ev) # {}
    \/ RepairedPartials(ev) # {}

Blocked ==
    \/ UnrepairedUncertainEffects(ev) # {}
    \/ ~contract.mutates /\ TouchedPaths(ev) # {}
    \/ NetChangedPaths(ev) = {} /\ ~ev.observed
    \/ WorkspaceDrift(ev, ws) # {}

\* capture_changed_path_states.
Captured == [p \in NetChangedPaths(ev) |-> ws[p]]

HasPassed(cursor) ==
    \E c \in LatestVerification(ev, cursor, Captured) : c.status = "passed"

\* A blocked answer, or one that needs a verifier where none is configured,
\* leaves an instruction and the loop goes on.
SubmitFinal ==
    /\ pc = "loop"
    /\ ~Blocked
    /\ IF VerificationRequired
       THEN contract.verifies /\ pc' = "check"
       ELSE UnresolvedEffects(ev, {}) = {} /\ pc' = "render"
    /\ UNCHANGED <<contract, ws, ev, call, memory, status, delivered, history,
                   edits, crashes>>

\* _ensure_verification reuses a passing record of this very state.
ReuseOrVerify ==
    /\ pc = "check"
    /\ probe' = [ws |-> ws, cursor |-> Cursor(ev)]
    /\ pc' = IF HasPassed(Cursor(ev)) THEN "recheck" ELSE "verify"
    /\ UNCHANGED <<contract, ws, ev, call, repeats, status, delivered, history,
                   edits, crashes>>

\* What verify_workspace records: no change is a free verdict, a change fails,
\* and a missing snapshot is an infrastructure error.
VerifierEnds ==
    /\ pc = "verify"
    /\ \E verdict \in {"passed", "failed", "infrastructure_error"}, unseen \in BOOLEAN :
           /\ unseen => verdict = "infrastructure_error"
           /\ Changes # {} => verdict # "passed"
           /\ ev' = Verified(ev, [status |-> verdict, cursor |-> probe.cursor,
                        started |-> [p \in NetChangedPaths(ev) |-> probe.ws[p]],
                        finished |-> Captured],
                        IF unseen THEN {} ELSE Changes, unseen)
    /\ unaccounted' = IF Cursor(ev') > Cursor(ev) THEN NoPaths ELSE StillUnaccounted({})
    /\ pc' = "recheck"
    /\ UNCHANGED <<contract, ws, call, memory, status, delivered, seen, lost, odd,
                   edits, crashes>>

\* The record must be current for what the files hold now, and have passed.  An
\* infrastructure error raises: the ask ends and the Run stays resumable.
Recheck ==
    /\ pc = "recheck"
    /\ pc' = IF HasPassed(probe.cursor)
                /\ UnresolvedEffects(ev, LatestVerification(ev, probe.cursor, Captured)) = {}
             THEN "render" ELSE "loop"
    /\ probe' = NoProbe
    /\ UNCHANGED <<contract, ws, ev, call, repeats, status, delivered, history,
                   edits, crashes>>

\* A slip never used by Next: the Diff is rendered without the drift check.
RenderUnchecked ==
    /\ pc = "render"
    /\ pc' = "deliver"
    /\ UNCHANGED <<contract, ws, ev, call, memory, status, delivered, history,
                   edits, crashes>>

\* build_final_diff: require_current_workspace, then the files are read again.
Render ==
    /\ pc = "render"
    /\ pc' = IF WorkspaceDrift(ev, ws) = {} THEN "deliver" ELSE "loop"
    /\ UNCHANGED <<contract, ws, ev, call, memory, status, delivered, history,
                   edits, crashes>>

\* Every file reads as its preimage: the Diff is empty, and the projection, which
\* expects one with every net change, raises on the terminal event.
DiffMissing ==
    /\ NetChangedPaths(ev) # {}
    /\ \A p \in NetChangedPaths(ev) :
           ev.files[p].first # Absent /\ ws[p] = ev.files[p].preimage

\* append_final.
Deliver ==
    /\ pc = "deliver"
    /\ delivered' = Captured
    /\ status' = "completed"
    /\ ev' = [ev EXCEPT !.broken = DiffMissing]
    /\ pc' = IF ev'.broken THEN "poisoned" ELSE "closed"
    /\ UNCHANGED <<contract, ws, call, memory, history, edits, crashes>>

(****************************************************************************)
(* The other ends of a Run, and of the process.                             *)
(****************************************************************************)

\* finish_stopped or a dormant reset; a drifted workspace leaves no Diff.
Stop ==
    /\ pc = "loop"
    /\ LET trusted == WorkspaceDrift(ev, ws) = {} IN
       /\ delivered' = IF trusted THEN Captured ELSE delivered
       /\ ev' = [ev EXCEPT !.broken = trusted /\ DiffMissing]
    /\ status' = "stopped"
    /\ pc' = IF ev'.broken THEN "poisoned" ELSE "closed"
    /\ UNCHANGED <<contract, ws, call, memory, history, edits, crashes>>

Crash ==
    /\ pc \notin {"down", "poisoned", "closed"}
    /\ odd' = IF pc = "verify" /\ unaccounted # NoPaths THEN odd \cup {"cut"} ELSE odd
    /\ crashes < MaxCrashes
    /\ crashes' = crashes + 1
    /\ pc' = "down"
    /\ repeats' = {}
    /\ UNCHANGED <<contract, ws, ev, call, probe, status, delivered, seen, lost, unaccounted,
                   edits>>

\* The next ask: reconcile_interrupted settles the pending call.
Resume ==
    /\ pc = "down"
    /\ \/ call = NoCall /\ pc' = "loop" /\ probe' = NoProbe
          /\ UNCHANGED <<contract, ws, ev, call, repeats, status, delivered, history,
                         edits, crashes>>
       \/ call # NoCall /\ ~call.started /\ FinishUnchanged
       \/ call # NoCall /\ call.started /\ FinishUncertain

Next ==
    \/ UserEdit \/ Observe \/ CallTool \/ Admit \/ Reject \/ Plan \/ Start
    \/ Stage \/ Guard \/ Replace \/ Finish \/ RunnerRaises
    \/ RunCommand \/ ProcessWrites \/ CommandEnds
    \/ SubmitFinal \/ ReuseOrVerify \/ VerifierEnds \/ Recheck \/ Render \/ Deliver
    \/ Stop \/ Crash \/ Resume

Spec == Init /\ [][Next]_vars

(****************************************************************************)
(* Properties.                                                              *)
(****************************************************************************)

\* What a structured tool replaced is exactly what its call named: the content
\* the model had read, or no file.  An edit of the user is never overwritten,
\* unless it falls between the last comparison and os.replace (raced).
UserEditsSurvive == "raced" \notin odd => ~lost

\* The path transitions in the log chain, and a Diff is there when one is due:
\* no event Pico wrote itself makes the projection, or a replay, raise.  A file
\* edited between two reads, or edited back in the middle of a call, breaks it.
LogReplays == odd \cap {"raced", "undone"} = {} => ~ev.broken

\* The preimage a final Diff starts from is the state the Run found: of every
\* touched file that existed, the artifact holds first_before_state, with the
\* same two exceptions.
PreimagesMatch ==
    odd \cap {"raced", "undone"} = {} => \A p \in TouchedPaths(ev) :
        ev.files[p].first # Absent => ev.files[p].preimage = ev.files[p].first

\* The evidence of a Run can be replayed by any later process and says what the Run
\* began with (RunEvidence, reconcile_interrupted).
EvidenceReplays == TypeOK /\ LogReplays /\ PreimagesMatch

\* A Run that had to verify completes with the very states a passing verifier
\* started and finished on, after its last effect; they are what the final Diff
\* shows, unless the user edits between the check and the rendering (raced).
DeliveredWasVerified ==
    status = "completed" /\ VerificationRequired /\ "raced" \notin odd =>
        \E c \in ev.checks :
            /\ c.status = "passed"
            /\ c.cursor = Cursor(ev)
            /\ c.started = delivered /\ c.finished = delivered

\* No Run completes over an unknown effect, nor over a partial one without a
\* later change of all its files and a passing verification after that.
UncertaintyIsSettled ==
    status = "completed" =>
        \A i \in DOMAIN ev.effects :
            /\ ev.effects[i].side # "unknown"
            /\ ev.effects[i].side = "partial" =>
                   \E j \in i + 1 .. Len(ev.effects), c \in ev.checks :
                       /\ ev.effects[j].side = "changed"
                       /\ ev.effects[i].paths \subseteq ev.effects[j].paths
                       /\ c.status = "passed" /\ c.cursor >= j

\* A Run completes only in a state that was verified and over nothing uncertain
\* (CompletionController.assess, _verify).
CompletionIsEarned == DeliveredWasVerified /\ UncertaintyIsSettled

\* Between calls, and when a Run completes, every change that Pico, a command or
\* a verifier made and that is still visible is covered by an effect.  It does
\* not hold when a verifier was cut short after it changed a file (cut), and the
\* edits no comparison can see (raced, undone) are not attributed.
ChangesAreAccounted ==
    odd = {} /\ pc \in {"loop", "closed"} => unaccounted = NoPaths
================================================================================
