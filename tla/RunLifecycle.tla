------------------------------ MODULE RunLifecycle -----------------------------
(****************************************************************************)
(* One Pico process, its Session file and the Run Logs of the Session, from *)
(* run_lifecycle.py, run_log.py, run_store.py, session_store.py and the     *)
(* Run-owning parts of runtime.py, agent_loop.py and tool_runtime.py.       *)
(*                                                                          *)
(* On disk: every Run's events.jsonl (log, and torn: an incomplete last     *)
(* line) and the Session's active_run_id (pointer).  In the process: the    *)
(* installed ActiveRunState and the copies the code keeps of what is on     *)
(* disk (mem).  pc names the point of the code the process is at.           *)
(*                                                                          *)
(* Every append and every pointer write can succeed, raise, or be cut by a  *)
(* crash, and an append that raises may have left nothing, half a line or   *)
(* the whole line behind: test_resume_runtime.py calls the last an          *)
(* "ambiguous append".  A crash is the death of the process (kill -9, a     *)
(* second Ctrl-C), not the loss of synced or unsynced pages.                *)
(*                                                                          *)
(* Bounds, over all the lines the Session has written: from MaxEvents lines *)
(* on a loop only ends, and from MaxAskable lines on no ask begins.         *)
(* MaxRaises, MaxPointerRaises and MaxCrashes count faults.                 *)
(****************************************************************************)
EXTENDS RunProtocol, FiniteSets

CONSTANTS
    Runs,               \* the Run ids new_run_id may answer
    NoRun,              \* the empty active_run_id
    Mutators,           \* call ids of tools that declare the paths they may change
    Commands,           \* call ids of run_command: workspace scope, no declared path
    ReuseIds,           \* may a Provider answer a call id it used earlier in the Run?
    ReloadMayFail,      \* may reload_current_run itself raise?
    MaxEvents, MaxAskable, MaxRaises, MaxPointerRaises, MaxCrashes

ASSUME ConstantsAssumption ==
    /\ NoRun \notin Runs
    /\ Mutators \subseteq CallIds
    /\ Commands \subseteq CallIds
    /\ Mutators \cap Commands = {}
    /\ {ReuseIds, ReloadMayFail} \subseteq BOOLEAN
    /\ {MaxEvents, MaxAskable, MaxRaises, MaxPointerRaises, MaxCrashes} \subseteq Nat

VARIABLES
    log,        \* log[r]: the complete lines of runs/r/events.jsonl
    torn,       \* torn[r]: a line without its newline follows them
    pointer,    \* active_run_id in the Session file
    mem,        \* what the process holds; Blank when there is none
    pc,         \* where the process is
    altered,    \* the Runner of the last started call changed the workspace
    ran,        \* ran[c]: how often a Runner ran for the pending call c
    facts,      \* history: facts[r] is the protocol state a replay of log[r] yields
    raises, pointerRaises, crashes

disk == <<log, torn, facts>>
work == <<altered, ran>>
vars == <<log, torn, pointer, mem, pc, altered, ran, facts,
          raises, pointerRaises, crashes>>

Observers == CallIds \ (Mutators \cup Commands)

\* What one Provider response may ask for: one call, or an ordered batch of
\* distinct observations (MAX_OBSERVATION_BATCH_SIZE is 4, two are enough here).
ToolTurns == {<<c>> : c \in CallIds}
             \cup {ids \in Observers \X Observers : ids[1] # ids[2]}

PCs == {"down", "idle", "create", "point", "reconcile", "announce", "loop",
        "call", "run", "result", "clear", "clearReset", "recover", "repoint",
        "adopt", "drop", "reset", "unpoint"}

(****************************************************************************)
(* Process memory: runtime.run (run, log, proto, seen), the RunStore cursor *)
(* of that Run, session.active_run_id, and two locals of the code.          *)
(****************************************************************************)
Blank == [run |-> NoRun, log |-> <<>>, proto |-> EmptyProtocol, seen |-> 0,
          cursor |-> 0, pointer |-> NoRun, resumed |-> FALSE, boot |-> FALSE]

\* ActiveRunState(): no Run is installed.
Vacant(m) == [Blank EXCEPT !.pointer = m.pointer, !.boot = m.boot]

Memory == [run : Runs \cup {NoRun}, log : Seq(Event), proto : Protocol, seen : Nat,
           cursor : Nat, pointer : Runs \cup {NoRun}, resumed : BOOLEAN,
           boot : BOOLEAN]

\* A slip never used by Next: the reload trusts the cached cursor.
InstalledWithCachedCursor(m, r) ==
    [m EXCEPT !.run = r, !.log = log[r], !.proto = facts[r], !.seen = Len(log[r]),
              !.resumed = FALSE]

\* _state_from_snapshot: replay and RunLog agree because they read one snapshot.
Installed(m, r) == [m EXCEPT !.run = r, !.log = log[r], !.proto = facts[r],
                             !.seen = Len(log[r]), !.cursor = Len(log[r]),
                             !.resumed = FALSE]

LinesWritten == Cardinality(UNION {{r} \X DOMAIN log[r] : r \in Runs})

\* read_events validates identity: contiguous sequence numbers.  (That the
\* protocol also accepts the events is the invariant ReplayAgrees.)
Readable(l) == \A i \in DOMAIN l : l[i].seq = i

\* ActiveRunState.resumable while no ask is executing.
Resumable(m) == m.run # NoRun /\ m.proto.user /\ ~m.proto.terminal

Unfinished(r) == facts[r].user /\ ~facts[r].terminal

TypeOK ==
    /\ log \in [Runs -> Seq(Event)]
    /\ torn \in [Runs -> BOOLEAN]
    /\ pointer \in Runs \cup {NoRun}
    /\ mem \in Memory
    /\ WellFormed(mem.proto) /\ \A r \in Runs : WellFormed(facts[r])
    /\ pc \in PCs
    /\ altered \in BOOLEAN
    /\ ran \in [CallIds -> Nat]
    /\ facts \in [Runs -> Protocol]
    /\ raises \in Nat /\ pointerRaises \in Nat /\ crashes \in Nat

Init ==
    /\ log = [r \in Runs |-> <<>>]
    /\ torn = [r \in Runs |-> FALSE]
    /\ facts = [r \in Runs |-> EmptyProtocol]
    /\ pointer = NoRun
    /\ mem = Blank
    /\ pc = "down"
    /\ altered = FALSE
    /\ ran = [c \in CallIds |-> 0]
    /\ raises = 0 /\ pointerRaises = 0 /\ crashes = 0

(****************************************************************************)
(* RunStore.append_event followed by RunLog.append and apply_run_event.     *)
(****************************************************************************)

\* The line as append_event writes it: numbered from the store's cursor.  A
\* line written behind a torn tail is fused with it and can no longer be read.
Line(r, e) == [e EXCEPT !.seq = IF torn[r] THEN 0 ELSE mem.cursor + 1]

Write(r, e) ==
    /\ log' = [log EXCEPT ![r] = Append(@, Line(r, e))]
    /\ torn' = [torn EXCEPT ![r] = FALSE]
    /\ facts' = [facts EXCEPT ![r] = Applied(@, e)]

\* The steps of append in memory: the store's cursor, the log and its
\* protocol, then the projection (apply_run_event, by the caller).
CursorMoved(m)  == [m EXCEPT !.cursor = @ + 1]
Logged(m, r, e) == [CursorMoved(m) EXCEPT !.log = Append(@, Line(r, e)),
                                          !.proto = Applied(@, e)]
Noted(m, r, e)  == [Logged(m, r, e) EXCEPT !.seen = @ + 1]

\* The process settles the calls an interrupted ask has left.
Recovering == pc \in {"reconcile", "reset"}

\* After a success the caller moves the projection over the line, except that
\* reconcile_interrupted appends the results of all calls first.
Kept(m, r, e) == IF Recovering /\ e.kind = "tool_result" THEN Logged(m, r, e)
                 ELSE Noted(m, r, e)

\* Where an exception leaves the process.  A failed first append replaces
\* runtime.run by ActiveRunState() before load_resumable_run.
AfterRaise(m) == IF pc = "create" THEN Vacant(m) ELSE m

\* Process death: every copy is gone, a runner's effects stay.
Die ==
    /\ crashes < MaxCrashes
    /\ crashes' = crashes + 1
    /\ mem' = Blank
    /\ pc' = "down"

\* Append e to the current Run and go on at "next".  In order: the protocol
\* check in memory refuses; success; an exception; a crash within the write.
Attempt(e, next) ==
    LET r == mem.run IN
    /\ \/ /\ ~Allowed(mem.proto, e)
          /\ mem' = AfterRaise(mem)
          /\ pc' = "recover"
          /\ UNCHANGED <<disk, raises, crashes>>
       \/ /\ Allowed(mem.proto, e)
          /\ Write(r, e)
          /\ mem' = Kept(mem, r, e)
          /\ pc' = next
          /\ UNCHANGED <<raises, crashes>>
       \/ /\ Allowed(mem.proto, e)
          /\ raises < MaxRaises
          /\ raises' = raises + 1
          /\ \/ /\ torn' \in {torn, [torn EXCEPT ![r] = TRUE]}
                /\ mem' = AfterRaise(mem)
                /\ UNCHANGED <<log, facts>>
             \/ /\ Write(r, e)
                /\ \E m \in {mem, CursorMoved(mem), Logged(mem, r, e)} :
                       mem' = AfterRaise(m)
          /\ pc' = "recover"
          /\ UNCHANGED crashes
       \/ /\ Allowed(mem.proto, e)
          /\ torn' = [torn EXCEPT ![r] = TRUE]
          /\ Die
          /\ UNCHANGED <<log, facts, raises>>
    /\ UNCHANGED <<pointer, pointerRaises>>

(****************************************************************************)
(* Session.set_active_run: the file is replaced atomically, then memory.    *)
(****************************************************************************)
PointerTarget ==
    CASE pc \in {"point", "adopt"} -> mem.run
      [] pc = "repoint" -> IF mem.proto.terminal THEN NoRun ELSE mem.run
      [] OTHER -> NoRun

AfterPointer(m) ==
    IF pc \in {"clearReset", "unpoint"} THEN Vacant(m) ELSE [m EXCEPT !.boot = FALSE]

SetPointer ==
    /\ pc \in {"point", "adopt", "repoint", "clear", "clearReset", "drop", "unpoint"}
    /\ pointer' = PointerTarget
    /\ mem' = AfterPointer([mem EXCEPT !.pointer = PointerTarget])
    /\ pc' = IF pc = "point" THEN "reconcile" ELSE "idle"
    /\ UNCHANGED <<disk, work, raises, pointerRaises, crashes>>

\* The write raises, before or after os.replace.  finish_success and
\* finish_stopped are inside AgentLoop.run's handler; the other callers let the
\* exception out, at startup out of the process.
SetPointerRaises ==
    /\ pc \in {"point", "adopt", "repoint", "clear", "clearReset", "drop", "unpoint"}
    /\ pointerRaises < MaxPointerRaises
    /\ pointerRaises' = pointerRaises + 1
    /\ pointer' \in {pointer, PointerTarget}
    /\ mem' = IF mem.boot THEN Blank ELSE mem
    /\ pc' = IF mem.boot THEN "down"
             ELSE IF pc \in {"clear", "clearReset"} THEN "recover" ELSE "idle"
    /\ UNCHANGED <<disk, work, raises, crashes>>

(****************************************************************************)
(* Startup and recovery.                                                    *)
(****************************************************************************)

\* read_events truncates an incomplete last line of the logs it reads.
Repaired(rs) == [r \in Runs |-> torn[r] /\ r \notin rs]

\* find_active_run skips what does not load and what has ended.
ActiveRuns == {r \in Runs : Readable(log[r]) /\ Unfinished(r)}

\* A slip never used by Next: an empty pointer means there is nothing to load.
LoadPointedOnly(m) ==
    /\ IF m.pointer = NoRun
       THEN mem' = [Vacant(m) EXCEPT !.boot = FALSE] /\ pc' = "idle" /\ torn' = torn
       ELSE /\ mem' = [Installed(m, m.pointer) EXCEPT !.boot = FALSE]
            /\ pc' = "idle"
            /\ torn' = Repaired({m.pointer})
    /\ UNCHANGED <<log, facts, pointer, work, raises, pointerRaises, crashes>>

\* load_resumable_run.  m.pointer decides: a pointed Run is loaded or the load
\* raises; without one find_active_run reads every log (repairing each tail)
\* and takes the unfinished Run with the latest wall-clock time.
LoadResumable(m) ==
    /\ \/ /\ m.pointer # NoRun
          /\ torn' = Repaired({m.pointer})
          /\ IF log[m.pointer] = <<>> \/ ~Readable(log[m.pointer])
             THEN /\ mem' = IF m.boot THEN Blank ELSE Vacant(m)
                  /\ pc' = IF m.boot THEN "down" ELSE "idle"
             ELSE IF facts[m.pointer].terminal
             THEN mem' = Vacant(m) /\ pc' = "drop"
             ELSE /\ mem' = [Installed(m, m.pointer) EXCEPT !.boot = FALSE]
                  /\ pc' = "idle"
       \/ /\ m.pointer = NoRun
          /\ torn' = Repaired(Runs)
          /\ \/ ActiveRuns = {} /\ mem' = [Vacant(m) EXCEPT !.boot = FALSE] /\ pc' = "idle"
             \/ \E r \in ActiveRuns : mem' = Installed(m, r) /\ pc' = "adopt"
    /\ UNCHANGED <<log, facts, pointer, work, raises, pointerRaises, crashes>>

\* SessionStore.load, then Pico.__init__ up to load_resumable_run.
Boot ==
    /\ pc = "down"
    /\ LoadResumable([Blank EXCEPT !.pointer = pointer, !.boot = TRUE])

ExpectedPointer(r) == IF facts[r].terminal THEN NoRun ELSE r

\* reload_current_run once a Run is installed.
ReloadCurrent ==
    /\ torn' = Repaired({mem.run})
    /\ IF log[mem.run] = <<>> \/ ~Readable(log[mem.run])
       THEN pc' = "idle" /\ mem' = mem
       ELSE /\ mem' = Installed(mem, mem.run)
            /\ pc' = IF mem.pointer = ExpectedPointer(mem.run) THEN "idle" ELSE "repoint"
    /\ UNCHANGED <<log, facts, pointer, work, raises, pointerRaises, crashes>>

ReloadRaises ==
    /\ ReloadMayFail
    /\ raises < MaxRaises
    /\ raises' = raises + 1
    /\ pc' = "idle"
    /\ UNCHANGED <<disk, pointer, mem, work, pointerRaises, crashes>>

\* A slip never used by Next: the handler returns to the caller without a reload.
RecoverByForgetting ==
    /\ pc = "recover"
    /\ pc' = "idle"
    /\ UNCHANGED <<disk, pointer, mem, work, raises, pointerRaises, crashes>>

\* The exception handlers of AgentLoop.run, RunLifecycle.initialize,
\* _resume_or_create_run and Pico.reset; the exception then reaches the caller.
Recover ==
    /\ pc = "recover"
    /\ \/ mem.run = NoRun /\ LoadResumable(mem)
       \/ mem.run # NoRun /\ ReloadCurrent
       \/ ReloadRaises

(****************************************************************************)
(* Pico.ask: RunLifecycle.initialize.                                       *)
(****************************************************************************)

\* _reload_if_snapshot_is_stale compares three copies the process keeps; the
\* "durable" one is the cached cursor unless the Run was never read.
Stale(m) == m.run # NoRun /\ ~(m.seen = Len(m.log) /\ m.seen = m.cursor)

Ask ==
    /\ pc = "idle"
    /\ IF Stale(mem)
       THEN ReloadCurrent
       ELSE /\ LinesWritten < MaxAskable
            /\ IF Resumable(mem)
               THEN /\ mem' = [mem EXCEPT !.resumed = TRUE]
                    /\ pc' = IF mem.pointer = mem.run THEN "reconcile" ELSE "point"
               ELSE \E r \in Runs :
                    /\ log[r] = <<>> /\ ~torn[r]
                    /\ mem' = [Vacant(mem) EXCEPT !.run = r]
                    /\ pc' = "create"
            /\ UNCHANGED <<disk, pointer, work, raises, pointerRaises, crashes>>

\* _resume_or_create_run: the TaskContract is durable before the pointer.
Create ==
    /\ pc = "create"
    /\ Attempt(Plain("user_message"), "point")
    /\ UNCHANGED work

\* The outcome reconcile_interrupted gives a call that has no result: whether it
\* started is looked up by call id in the whole Run, and declared paths are
\* compared with the state recorded before the start.
EverStarted(c) ==
    \E i \in DOMAIN mem.log :
        mem.log[i].kind = "tool_started" /\ mem.log[i].calls = <<c>>

\* A slip never used by Next: every interrupted call is said to have started.
InterruptedAsStarted(c) ==
    IF c \in Mutators /\ altered THEN Result(c, "failed", "partial")
    ELSE Result(c, "failed", IF c \in Commands THEN "unknown" ELSE "none")

\* A slip never used by Next: declared paths are not compared with their
\* recorded state.
InterruptedWithoutCompare(c) ==
    IF ~EverStarted(c) THEN Result(c, "not_started", "none")
    ELSE Result(c, "failed", IF c \in Commands THEN "unknown" ELSE "none")

Interrupted(c) ==
    IF ~EverStarted(c) THEN Result(c, "not_started", "none")
    ELSE IF c \in Mutators /\ altered THEN Result(c, "failed", "partial")
    ELSE IF c \in Commands THEN Result(c, "failed", "unknown")
    ELSE Result(c, "failed", "none")

Owed == PendingCalls(mem.proto)

\* reconcile_interrupted appends the results of all pending calls, in order.
Reconcile ==
    /\ Recovering
    /\ Owed # <<>>
    /\ Attempt(Interrupted(Head(Owed)), pc)
    /\ UNCHANGED work

Behind(m) == m.seen < Len(m.log)

\* Then its caller moves the projection over them.
ApplyRecovered ==
    /\ Recovering
    /\ Owed = <<>> /\ Behind(mem)
    /\ mem' = [mem EXCEPT !.seen = Len(mem.log)]
    /\ UNCHANGED <<disk, pointer, pc, work, raises, pointerRaises, crashes>>

\* user_guidance of a resumed Run, then run_started or run_resumed.
Announce ==
    /\ \/ pc = "reconcile" /\ Owed = <<>> /\ ~Behind(mem)
       \/ pc = "announce"
    /\ Attempt(Plain("note"),
               IF pc = "reconcile" /\ mem.resumed THEN "announce" ELSE "loop")
    /\ UNCHANGED work

(****************************************************************************)
(* AgentLoop.run and ToolRuntime.                                           *)
(****************************************************************************)

\* Everything else a turn records: model_requested, turn_metrics, instructions,
\* compaction, Provider resets, verification, completion_blocked.
TakeNote ==
    /\ pc = "loop"
    /\ LinesWritten < MaxEvents
    /\ Attempt(Plain("note"), "loop")
    /\ UNCHANGED work

UsedIds == UNION {{mem.log[i].calls[j] : j \in DOMAIN mem.log[i].calls} :
                  i \in DOMAIN mem.log}

\* _handle_tool_turn persists the call or the whole batch before executing it.
ToolTurn ==
    /\ pc = "loop"
    /\ LinesWritten < MaxEvents
    /\ \E ids \in ToolTurns :
        /\ ReuseIds \/ \A i \in DOMAIN ids : ids[i] \notin UsedIds
        /\ Attempt(Requested(ids), "call")
        /\ ran' = [c \in CallIds |-> IF InSeq(c, ids) THEN 0 ELSE ran[c]]
    /\ UNCHANGED altered

\* Rejected before tool_started: surface, policy, repeat, schema, approval,
\* drift or effect planning; of a batch, every call.
RejectTool ==
    /\ pc = "call"
    /\ mem.proto.started = {} /\ Owed # <<>>
    /\ Attempt(Result(Head(Owed), "not_started", "none"),
               IF Len(Owed) = 1 THEN "loop" ELSE "call")
    /\ UNCHANGED work

\* _effect_snapshot of the declared paths, then tool_started.  A batch records
\* all its starts, in order, before the first Runner.
StartTool ==
    /\ pc = "call"
    /\ mem.proto.results = 0 /\ mem.proto.ordinal < Len(mem.proto.pending)
    /\ LET next == mem.proto.ordinal + 1 IN
       Attempt(Started(mem.proto.pending[next]),
               IF next = Len(mem.proto.pending) THEN "run" ELSE "call")
    /\ altered' = FALSE
    /\ UNCHANGED ran

\* The Runners, of which only a Mutator's and a Command's can change files.
RunTool ==
    /\ pc = "run"
    /\ ran' = [c \in CallIds |-> IF InSeq(c, Owed) THEN ran[c] + 1 ELSE ran[c]]
    /\ altered' \in IF \A i \in DOMAIN Owed : Owed[i] \in Observers
                    THEN {altered} ELSE BOOLEAN
    /\ pc' = "result"
    /\ UNCHANGED <<disk, pointer, mem, raises, pointerRaises, crashes>>

\* classify_runner_result and the exception path of _execute: (execution_state,
\* side_effect_state) by kind of tool and by what the Runner did.
Outcomes(c) ==
    IF c \in Mutators
    THEN IF altered THEN {<<"completed", "changed">>, <<"failed", "partial">>}
                    ELSE {<<"completed", "none">>, <<"failed", "none">>}
    ELSE IF c \in Commands
    THEN IF altered THEN {<<"completed", "unknown">>, <<"failed", "unknown">>}
                    ELSE {<<"completed", "none">>, <<"failed", "unknown">>}
    ELSE {<<"completed", "none">>, <<"failed", "none">>}

FinishTool ==
    /\ pc = "result" /\ Owed # <<>>
    /\ \E o \in Outcomes(Head(Owed)) :
        Attempt(Result(Head(Owed), o[1], o[2]),
                IF Len(Owed) = 1 THEN "loop" ELSE "result")
    /\ UNCHANGED work

\* finish_success or finish_stopped; after a user_reset the Run is uninstalled.
Finish ==
    /\ pc = "loop"
    /\ \E next \in {"clear", "clearReset"} : Attempt(Plain("terminal"), next)
    /\ UNCHANGED work

\* An exception that no append raised: the Provider, WorkspaceDriftError, a path of a
\* recovered call that cannot be read, Ctrl-C.
Interrupt ==
    /\ pc \in {"reconcile", "announce", "reset", "loop", "call", "run", "result"}
    /\ raises < MaxRaises
    /\ raises' = raises + 1
    /\ pc' = "recover"
    /\ UNCHANGED <<disk, pointer, mem, work, pointerRaises, crashes>>

(****************************************************************************)
(* Pico.reset of a dormant Run; an executing one is asked to stop (Finish). *)
(****************************************************************************)
Reset ==
    /\ pc = "idle"
    /\ pc' = IF Resumable(mem) THEN "reset" ELSE "unpoint"
    /\ UNCHANGED <<disk, pointer, mem, work, raises, pointerRaises, crashes>>

StopReset ==
    /\ pc = "reset"
    /\ Owed = <<>> /\ ~Behind(mem)
    /\ Attempt(Plain("terminal"), "unpoint")
    /\ UNCHANGED work

Crash ==
    /\ pc # "down"
    /\ Die
    /\ UNCHANGED <<disk, pointer, work, raises, pointerRaises>>

Next ==
    \/ Boot \/ Ask \/ Create \/ SetPointer \/ SetPointerRaises
    \/ Reconcile \/ ApplyRecovered \/ Announce
    \/ TakeNote \/ ToolTurn \/ RejectTool \/ StartTool \/ RunTool \/ FinishTool
    \/ Finish \/ Interrupt \/ Recover
    \/ Reset \/ StopReset \/ Crash

Spec == Init /\ [][Next]_vars

(****************************************************************************)
(* What must hold.                                                          *)
(****************************************************************************)

\* The points at which the process may append to the Run it has installed, or
\* is between two such points.
Attached == {"point", "reconcile", "announce", "loop", "call", "run", "result",
             "clear", "clearReset", "repoint", "adopt", "reset"}

Current(m) ==
    /\ m.log = log[m.run]
    /\ m.proto = facts[m.run]
    /\ m.cursor = Len(log[m.run])
    /\ ~torn[m.run]

\* The projection has seen the log, but for the results of a recovery under way.
Projected(m) ==
    /\ m.seen <= Len(m.log)
    /\ \A i \in m.seen + 1 .. Len(m.log) : Recovering /\ m.log[i].kind = "tool_result"

\* Whenever the process may append, its RunLog, protocol state and store cursor are
\* exactly what is on disk, and its projection is behind them by nothing but results
\* that are being recovered: no exception path leaves a stale copy behind
\* (reload_current_run, run_lifecycle.py).
MemoryIsCurrent ==
    /\ pc \in Attached => mem.run # NoRun
    /\ pc \in Attached \cup {"idle", "unpoint"} /\ mem.run # NoRun
           => Current(mem) /\ Projected(mem)

\* events.jsonl always loads: numbers are contiguous and no line was written
\* behind half a line (read_events raises otherwise and the Run is lost).
LogsReadable == \A r \in Runs : Readable(log[r])

\* validate_run_events of a log that is read back: the protocol before its
\* first line, and after each of them.
Replayed(l) ==
    LET state[n \in 0 .. Len(l)] ==
            IF n = 0 THEN EmptyProtocol ELSE Applied(state[n - 1], l[n])
    IN  state

\* validate_run_events accepts every log on disk, and replaying it yields the
\* protocol state the history variable keeps.
ReplayAgrees ==
    \A r \in Runs :
        /\ facts[r] = Replayed(log[r])[Len(log[r])]
        /\ \A i \in DOMAIN log[r] : Allowed(Replayed(log[r])[i - 1], log[r][i])

\* The Run Logs and the copies of them are well formed and replay to what the model
\* says of them (validate_run_events, RunLog.restore).
LogsAreSound == TypeOK /\ ReplayAgrees

\* A Session pointer never names a Run that cannot be loaded: startup fails
\* closed on it (load_resumable_run), so the user_message is durable first.
PointerIsLoadable ==
    \A r \in {pointer} \ {NoRun} : log[r] # <<>> /\ Readable(log[r])

\* A Runner runs at most once for a persisted call, over any crashes, resumes
\* and resets, and never before that call's tool_started is durable.
NoBlindReplay ==
    \A c \in CallIds :
        /\ ran[c] <= 1
        /\ \A r \in Runs :
            r = mem.run /\ InSeq(c, facts[r].pending) /\ ran[c] > 0
                => c \in facts[r].started

\* Recovery never gets stuck: the outcome reconcile_interrupted builds is one
\* the Run's protocol accepts, so an interrupted Run can be resumed or reset.
Reconcilable ==
    Recovering /\ Owed # <<>>
        => Allowed(mem.proto, Interrupted(Head(Owed)))

\* The Runs a user has started and not finished, except the one the process has
\* installed.
Orphans == {r \in Runs : Unfinished(r)} \ {mem.run}

\* Between two asks the unfinished Run of the Session is the installed one.
NoOrphan == pc = "idle" => Orphans = {}

\* The same, as long as no Session write has raised.
NoOrphanWithoutPointerFault == pointerRaises = 0 => NoOrphan

\* The pointer of the Session leads to the Run that is to be resumed: it names no Run
\* that cannot be loaded, and no unfinished Run is without it (_resume_or_create_run,
\* load_resumable_run, find_active_run).
PointerIsRight == PointerIsLoadable /\ NoOrphanWithoutPointerFault

\* The call a step settles: its result is the line the step appends.
Settles(r) ==
    /\ Len(log'[r]) = Len(log[r]) + 1
    /\ log'[r][Len(log[r]) + 1].kind = "tool_result"

\* A call whose Runner changed the workspace is never recorded as free of
\* effects, whether it returned, raised, or was cut by a crash.
NoSilentEffect ==
    [][\A r \in Runs :
         Settles(r) =>
            LET result == log'[r][Len(log[r]) + 1]
                c == result.calls[1] IN
            ran[c] > 0 /\ altered => result.effect # "none"]_vars

\* What a Runner did is in the log: it never runs again for the same call, and never
\* leaves a change behind that its result denies (reconcile_interrupted, ToolRuntime).
ExecutionsAreRecorded == []NoBlindReplay /\ NoSilentEffect

(****************************************************************************)
(* The abstract promise: RunContract, seen through a replay of the logs.    *)
(****************************************************************************)
RunView(p) ==
    [phase   |-> IF ~p.user THEN "absent" ELSE IF p.terminal THEN "closed" ELSE "open",
     owed    |-> PendingCalls(p),
     started |-> p.started]

Contract == INSTANCE RunContract WITH run <- [r \in Runs |-> RunView(facts[r])]

\* Every durable append, by a process that crashed and reloaded any number of
\* times, is a step of the contract.
ContractHolds == Contract!Spec
================================================================================
