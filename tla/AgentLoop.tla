-------------------------------- MODULE AgentLoop --------------------------------
(****************************************************************************)
(* Pico.ask, one call after another: AgentLoop.run with its limits, the     *)
(* Provider conversation, the tool budget and the requests to stop that     *)
(* other threads make (cancel_current_run, an active reset, the deadline).  *)
(*                                                                          *)
(* How a Run's facts reach the disk is the subject of RunLifecycle; here a  *)
(* Run is its status, the number of executed tools its log counts and the   *)
(* calls that still owe a result.  An exception anywhere leaves the ask     *)
(* (Raise); the death of the process is the same step, because everything   *)
(* it loses is rebuilt by the next ask.  What the model answers, what the   *)
(* completion gate decides and whether the reported input tokens reached    *)
(* the high watermark are free choices.                                     *)
(*                                                                          *)
(* The only bound is MaxRaises, on exceptions; the number of asks is not    *)
(* bounded.  The other constants are limits of the code.  That              *)
(* max_tool_executions may be None, for no limit, is left out.              *)
(****************************************************************************)
EXTENDS Naturals

CONSTANTS
    MaxTurns,           \* max_agent_turns
    MaxTools,           \* max_tool_executions
    MaxBatch,           \* MAX_OBSERVATION_BATCH_CALLS
    InvalidLimit,       \* 8 invalid outputs
    BlockLimit,         \* 3 rejected completions
    MaxRaises

ASSUME LimitsAssumption ==
    /\ MaxTurns \in Nat \ {0} /\ MaxTools \in Nat \ {0} /\ MaxBatch \in Nat \ {0}
    /\ InvalidLimit \in Nat \ {0} /\ BlockLimit \in Nat \ {0}
    /\ MaxRaises \in Nat

VARIABLES
    pc,         \* where the ask is; "idle" between asks
    run,        \* status of the installed Run
    reason,     \* stop_reason of the last Run a stop ended
    tools,      \* metrics.executed_tool_count of the Run
    owed,       \* calls of the persisted transaction without a result
    started,    \* how many of those, from the first on, have a tool_started
    turns,      \* model requests of this ask
    invalids,   \* invalid_output_count
    blocks,     \* completion_block_count
    retried,    \* overflow_recovery_attempted
    snapshot,   \* tool surface of prompt_snapshot, "none" when there is none
    session,    \* the Provider conversation: surface it began with, calls to answer
    action,     \* the model's answer in hand
    stop,       \* execution_stop of the loop
    asked,      \* reason a stop was requested with; kept until the next ask
    expired,    \* the turn deadline has passed
    raises      \* exceptions so far

theRun  == <<run, reason, tools, owed, started>>
theLoop == <<turns, invalids, blocks, retried, snapshot, stop>>
talk    == <<session, action>>
outside == <<asked, expired>>
vars    == <<pc, theRun, theLoop, talk, outside, raises>>

PCs == {"idle", "init", "top", "send", "wait", "failed", "overflow", "answered",
        "execute", "continue", "final", "success", "finish"}

\* Names of model_action_tools(): all of them, or submit_final alone.
Surfaces == {"all", "final"}

NoSession == [tools |-> "none", calls |-> 0]
NoAction  == [kind |-> "none", calls |-> 0, high |-> FALSE, late |-> FALSE]

Requestable == {"user_cancelled", "user_reset"}

StopReasons == Requestable \cup
    {"turn_timeout", "agent_turn_limit", "tool_execution_limit",
     "invalid_output_limit", "completion_block_limit"}

RunTyped ==
    /\ run \in {"none", "open", "completed", "stopped"}
    /\ reason \in StopReasons \cup {""}
    /\ tools \in Nat /\ owed \in 0 .. MaxBatch + 1 /\ started \in 0 .. owed

LoopTyped ==
    /\ pc \in PCs
    /\ turns \in 0 .. MaxTurns /\ invalids \in 0 .. InvalidLimit /\ blocks \in 0 .. BlockLimit
    /\ retried \in BOOLEAN
    /\ snapshot \in Surfaces \cup {"none"}
    /\ stop \in StopReasons \cup {""}

TalkTyped ==
    /\ session \in [tools : Surfaces \cup {"none"}, calls : 0 .. MaxBatch + 1]
    /\ action \in [kind : {"none", "tool", "invalid", "final"}, calls : 0 .. MaxBatch + 1,
                   high : BOOLEAN, late : BOOLEAN]

OutsideTyped ==
    /\ asked \in Requestable \cup {""}
    /\ expired \in BOOLEAN
    /\ raises \in 0 .. MaxRaises

TypeOK == RunTyped /\ LoopTyped /\ TalkTyped /\ OutsideTyped

Init ==
    /\ pc = "idle"
    /\ run = "none" /\ reason = "" /\ tools = 0 /\ owed = 0 /\ started = 0
    /\ turns = 0 /\ invalids = 0 /\ blocks = 0
    /\ retried = FALSE /\ snapshot = "none" /\ stop = ""
    /\ session = NoSession /\ action = NoAction
    /\ asked = "" /\ expired = FALSE
    /\ raises = 0

(****************************************************************************)
(* ExecutionContext: requests from outside, and what check_active sees.     *)
(****************************************************************************)
InAsk   == pc # "idle"
Stopped == asked # "" \/ expired

\* execution_stop: the token is looked at before the deadline.
StopReason == IF asked # "" THEN asked ELSE "turn_timeout"

\* CancellationToken.request: the first reason wins.
RequestStop ==
    /\ InAsk
    /\ asked = ""
    /\ asked' \in Requestable
    /\ UNCHANGED <<pc, theRun, theLoop, talk, expired, raises>>

Expire ==
    /\ InAsk
    /\ ~expired
    /\ expired' = TRUE
    /\ UNCHANGED <<pc, theRun, theLoop, talk, asked, raises>>

(****************************************************************************)
(* The start of an ask.                                                     *)
(****************************************************************************)

\* initialize up to the ExecutionContext: an open Run is resumed, otherwise a
\* new one begins.
Ask ==
    /\ pc = "idle"
    /\ pc' = "init"
    /\ run' = "open"
    /\ tools' = IF run = "open" THEN tools ELSE 0
    /\ asked' = "" /\ expired' = FALSE
    /\ turns' = 0 /\ invalids' = 0 /\ blocks' = 0
    /\ retried' = FALSE /\ snapshot' = "none" /\ stop' = ""
    /\ action' = NoAction
    /\ UNCHANGED <<reason, owed, started, session, raises>>

\* reconcile_interrupted settles the owed calls in order; one that had started
\* counts as executed.
Reconcile ==
    /\ pc = "init"
    /\ owed > 0
    /\ owed' = owed - 1
    /\ started' = IF started > 0 THEN started - 1 ELSE 0
    /\ tools' = IF started > 0 THEN tools + 1 ELSE tools
    /\ UNCHANGED <<pc, run, reason, theLoop, talk, outside, raises>>

\* run_started or run_resumed, then reset_action_session.
Begin ==
    /\ pc = "init"
    /\ owed = 0
    /\ session' = NoSession
    /\ pc' = "top"
    /\ UNCHANGED <<theRun, theLoop, action, outside, raises>>

(****************************************************************************)
(* One model turn.                                                          *)
(****************************************************************************)
Exhausted == tools >= MaxTools
Surface   == IF Exhausted THEN "final" ELSE "all"

\* The checks at the head of the loop, and of an answer that comes too late.
StopAtTop ==
    /\ pc = "top"
    /\ \/ Stopped /\ stop' = StopReason
       \/ ~Stopped /\ turns >= MaxTurns /\ stop' = "agent_turn_limit"
    /\ pc' = "finish"
    /\ UNCHANGED <<theRun, turns, invalids, blocks, retried, snapshot, talk, outside, raises>>

\* A slip never used by Next: a request that continues a conversation is not
\* counted.
PrepareCountingPrompts ==
    /\ pc = "top" /\ ~Stopped /\ turns < MaxTurns
    /\ turns' = IF snapshot = "none" THEN turns + 1 ELSE turns
    /\ session' = IF snapshot \notin {"none", Surface} THEN NoSession ELSE session
    /\ snapshot' = Surface
    /\ pc' = "send"
    /\ UNCHANGED <<theRun, invalids, blocks, retried, stop, action, outside, raises>>

\* A slip never used by Next: only the tools field of the request changes.
PrepareKeepingSession ==
    /\ pc = "top" /\ ~Stopped /\ turns < MaxTurns
    /\ turns' = turns + 1
    /\ snapshot' = Surface
    /\ pc' = "send"
    /\ UNCHANGED <<theRun, invalids, blocks, retried, stop, talk, outside, raises>>

\* _resolve_action_tool_surface, _prepare_prompt and model_requested.
Prepare ==
    /\ pc = "top" /\ ~Stopped /\ turns < MaxTurns
    /\ turns' = turns + 1
    /\ session' = IF snapshot \notin {"none", Surface} THEN NoSession ELSE session
    /\ snapshot' = Surface
    /\ pc' = "send"
    /\ UNCHANGED <<theRun, invalids, blocks, retried, stop, action, outside, raises>>

\* bounded_timeout raises once a stop was requested, and complete_action when
\* the conversation owes outputs; otherwise the request is on its way.
Send ==
    /\ pc = "send"
    /\ IF Stopped
       THEN pc' = "failed" /\ session' = session
       ELSE /\ session' = IF session.tools = "none"
                          THEN [session EXCEPT !.tools = snapshot] ELSE session
            /\ pc' = IF session.calls > 0 THEN "failed" ELSE "wait"
    /\ UNCHANGED <<theRun, theLoop, action, outside, raises>>

\* complete_action and the end of _next_model_turn.  A batch may be longer than
\* the policy allows, and a client may answer with a tool it was not offered
\* (the HTTP client lets only batches through, the tests' client any call).
Answer ==
    /\ pc = "wait"
    /\ \E kind \in {"tool", "invalid", "final"}, n \in 1 .. MaxBatch + 1, high \in BOOLEAN :
        /\ kind # "tool" => n = 1
        /\ action' = [kind |-> kind, calls |-> n, high |-> high, late |-> Stopped]
        /\ session' = [session EXCEPT !.calls = IF kind = "invalid" THEN 0 ELSE n]
    /\ retried' = FALSE
    /\ pc' = "answered"
    /\ UNCHANGED <<theRun, turns, invalids, blocks, snapshot, stop, outside, raises>>

Overflow ==
    /\ pc = "wait"
    /\ pc' = "overflow"
    /\ UNCHANGED <<theRun, theLoop, talk, outside, raises>>

\* Any other exception between the prompt and the parsed answer.
TurnFails ==
    /\ pc \in {"send", "wait"}
    /\ pc' = "failed"
    /\ UNCHANGED <<theRun, theLoop, talk, outside, raises>>

\* _recover_context_overflow; the second in a row leaves the ask.
RecoverOverflow ==
    /\ pc = "overflow"
    /\ IF retried
       THEN pc' = "idle" /\ UNCHANGED <<retried, snapshot, session>>
       ELSE retried' = TRUE /\ snapshot' = "none" /\ session' = NoSession /\ pc' = "top"
    /\ UNCHANGED <<theRun, turns, invalids, blocks, stop, action, outside, raises>>

\* A slip never used by Next: no failure of a turn is looked at for a stop.
HandleFailureRaising ==
    /\ pc = "failed"
    /\ pc' = "idle"
    /\ UNCHANGED <<theRun, theLoop, talk, outside, raises>>

\* Any other exception of the turn: a stop if one was requested.
HandleFailure ==
    /\ pc = "failed"
    /\ IF Stopped
       THEN pc' = "finish" /\ stop' = StopReason
       ELSE pc' = "idle" /\ stop' = stop
    /\ UNCHANGED <<theRun, turns, invalids, blocks, retried, snapshot, talk, outside, raises>>

StopAfterAnswer ==
    /\ pc = "answered"
    /\ Stopped
    /\ stop' = StopReason
    /\ pc' = "finish"
    /\ UNCHANGED <<theRun, turns, invalids, blocks, retried, snapshot, talk, outside, raises>>

(****************************************************************************)
(* What is done with the answer.                                            *)
(****************************************************************************)
Accepted(kind) == pc = "answered" /\ ~Stopped /\ action.kind = kind

\* A slip never used by Next: the answer is acted upon without a second check.
HandleToolUnchecked ==
    /\ pc = "answered" /\ action.kind = "tool"
    /\ IF Exhausted /\ action.calls = 1
       THEN /\ stop' = "tool_execution_limit" /\ pc' = "finish"
            /\ UNCHANGED <<invalids, blocks, owed, started>>
       ELSE /\ invalids' = 0 /\ blocks' = 0
            /\ owed' = action.calls /\ started' = 0
            /\ stop' = IF Exhausted THEN "tool_execution_limit" ELSE ""
            /\ pc' = "execute"
    /\ UNCHANGED <<run, reason, tools, turns, retried, snapshot, talk, outside, raises>>

\* _handle_tool_turn up to the persisted call or batch.  budget_exhausted is
\* read here and kept in stop, which the code sets when the turn is over.
HandleTool ==
    /\ Accepted("tool")
    /\ IF Exhausted /\ action.calls = 1
       THEN /\ stop' = "tool_execution_limit" /\ pc' = "finish"
            /\ UNCHANGED <<invalids, blocks, owed, started>>
       ELSE /\ invalids' = 0 /\ blocks' = 0
            /\ owed' = action.calls /\ started' = 0
            /\ stop' = IF Exhausted THEN "tool_execution_limit" ELSE ""
            /\ pc' = "execute"
    /\ UNCHANGED <<run, reason, tools, turns, retried, snapshot, talk, outside, raises>>

\* A slip never used by Next: the budget is looked at, not what the batch adds.
AdmittedWhileAnyIsLeft ==
    \/ action.calls = 1
    \/ action.calls <= MaxBatch /\ tools < MaxTools

\* _batch_policy_error; a single call was admitted by _handle_tool_turn.
Admitted ==
    \/ action.calls = 1
    \/ action.calls <= MaxBatch /\ tools + action.calls <= MaxTools

\* All calls of a transaction start, in order, before the first result.
StartCall ==
    /\ pc = "execute"
    /\ Admitted
    /\ owed = action.calls /\ started < owed
    /\ started' = started + 1
    /\ UNCHANGED <<pc, run, reason, tools, owed, theLoop, talk, outside, raises>>

\* Rejected before any start: by the batch policy, or for the call's own sake.
RejectCall ==
    /\ pc = "execute"
    /\ started = 0 /\ owed > 0
    /\ owed' = owed - 1
    /\ UNCHANGED <<pc, run, reason, tools, started, theLoop, talk, outside, raises>>

\* tool_result of a call that ran, whatever it returned or raised.
FinishCall ==
    /\ pc = "execute"
    /\ started = owed /\ owed > 0
    /\ owed' = owed - 1 /\ started' = started - 1
    /\ tools' = tools + 1
    /\ UNCHANGED <<pc, run, reason, theLoop, talk, outside, raises>>

\* The last result; _append_budget_instruction adds a line to the log only.
EndToolTurn ==
    /\ pc = "execute"
    /\ owed = 0
    /\ pc' = "continue"
    /\ UNCHANGED <<theRun, theLoop, talk, outside, raises>>

HandleInvalid ==
    /\ Accepted("invalid")
    /\ invalids' = invalids + 1
    /\ stop' = IF invalids' >= InvalidLimit THEN "invalid_output_limit" ELSE ""
    /\ pc' = "continue"
    /\ UNCHANGED <<theRun, turns, blocks, retried, snapshot, talk, outside, raises>>

HandleFinal ==
    /\ Accepted("final")
    /\ pc' = "final"
    /\ UNCHANGED <<theRun, theLoop, talk, outside, raises>>

\* CompletionController.assess: allowed, or _block_completion.
Assess ==
    /\ pc = "final"
    /\ \/ pc' = "success" /\ UNCHANGED <<blocks, stop>>
       \/ /\ blocks' = blocks + 1
          /\ stop' = IF blocks' >= BlockLimit THEN "completion_block_limit" ELSE ""
          /\ pc' = IF blocks' >= BlockLimit THEN "finish" ELSE "continue"
    /\ UNCHANGED <<theRun, turns, invalids, retried, snapshot, talk, outside, raises>>

Results == IF action.kind = "tool" THEN action.calls ELSE 1

\* record_action_results takes one result per call, or one correction.
Recordable == Results = IF session.calls > 0 THEN session.calls ELSE 1

\* _continue_provider.
Continue ==
    /\ pc = "continue"
    /\ \/ /\ action.high
          /\ session' = NoSession /\ snapshot' = "none"
          /\ pc' = IF stop = "" THEN "top" ELSE "finish"
       \/ /\ ~action.high /\ Recordable
          /\ session' = [session EXCEPT !.calls = 0]
          /\ pc' = IF stop = "" THEN "top" ELSE "finish"
          /\ UNCHANGED snapshot
       \/ /\ ~action.high /\ ~Recordable
          /\ pc' = "idle"
          /\ UNCHANGED <<session, snapshot>>
    /\ UNCHANGED <<theRun, turns, invalids, blocks, retried, stop, action, outside, raises>>

(****************************************************************************)
(* The end of an ask.                                                       *)
(****************************************************************************)
FinishSuccess ==
    /\ pc = "success"
    /\ run' = "completed"
    /\ pc' = "idle"
    /\ UNCHANGED <<reason, tools, owed, started, theLoop, talk, outside, raises>>

\* finish_stopped; after a user_reset the Run is uninstalled.
FinishStopped ==
    /\ pc = "finish"
    /\ reason' = stop
    /\ run' = IF stop = "user_reset" THEN "none" ELSE "stopped"
    /\ session' = IF stop = "user_reset" THEN NoSession ELSE session
    /\ pc' = "idle"
    /\ UNCHANGED <<tools, owed, started, theLoop, action, outside, raises>>

\* An exception out of any step, or the death of the process; the terminal
\* line may be durable already.
Raise ==
    /\ InAsk
    /\ raises < MaxRaises
    /\ raises' = raises + 1
    /\ \/ run' = run /\ reason' = reason
       \/ pc = "success" /\ run' = "completed" /\ reason' = reason
       \/ pc = "finish" /\ run' = "stopped" /\ reason' = stop
    /\ pc' = "idle"
    /\ UNCHANGED <<tools, owed, started, theLoop, talk, outside>>

\* Pico.reset between two asks; an unfinished Run is reconciled and stopped.
Reset ==
    /\ pc = "idle"
    /\ run # "none"
    /\ reason' = IF run = "open" THEN "user_reset" ELSE reason
    /\ run' = "none" /\ owed' = 0 /\ started' = 0
    /\ tools' = tools + started
    /\ session' = NoSession
    /\ UNCHANGED <<pc, theLoop, action, outside, raises>>

\* What the ask itself does.
Step ==
    \/ Reconcile \/ Begin
    \/ StopAtTop \/ Prepare \/ Send
    \/ Answer \/ Overflow \/ TurnFails
    \/ RecoverOverflow \/ HandleFailure \/ StopAfterAnswer
    \/ HandleTool \/ StartCall \/ RejectCall \/ FinishCall \/ EndToolTurn
    \/ HandleInvalid \/ HandleFinal \/ Assess \/ Continue
    \/ FinishSuccess \/ FinishStopped

Next == Step \/ Ask \/ RequestStop \/ Expire \/ Raise \/ Reset

\* An ask is sequential code in one thread: every step it can take it takes.
\* A request is cut by its deadline, a tool by its timeout.
Fairness == WF_vars(Step)

Spec == Init /\ [][Next]_vars /\ Fairness

(****************************************************************************)
(* What must hold.                                                          *)
(****************************************************************************)

\* A request continues its conversation with nothing left to answer and with
\* the tool surface the conversation began with, which is the one the budget
\* allows; and every answer gets as many results as it has calls.  Asks that
\* broke off anywhere must not leave a conversation behind.
RequestIsPaired ==
    /\ pc = "send" =>
        /\ session.calls = 0
        /\ session.tools \in {"none", snapshot}
        /\ snapshot = Surface
    /\ pc = "continue" /\ ~action.high => Recordable

\* No Run executes more tools than max_tool_executions, over single calls,
\* batches, interrupted turns and resumed asks: even if everything started
\* counts, which it does when recovery settles it.
ToolBudgetKept == tools + started <= MaxTools

\* Whenever the loop may append anything but a start or a result, no call is
\* owed a result (the protocol would refuse the line).
SettledBeforeTurn ==
    pc \notin {"idle", "init", "execute"} => owed = 0 /\ started = 0

\* Nothing is owed when a turn begins: no output to the Provider (AgentLoop._next_action),
\* no result to the Run Log.
TurnsAreSettled == RequestIsPaired /\ SettledBeforeTurn

\* A Run is stopped for its tool budget only after the model was asked with
\* submit_final as the only tool.
LastWordBeforeBudgetStop ==
    pc = "finish" /\ stop = "tool_execution_limit" => snapshot \in {"final", "none"}

\* max_tool_executions is never passed, and never ends a Run without a last word of
\* the model (_handle_tool_turn, _prepare_turn).
BudgetIsHonoured == ToolBudgetKept /\ LastWordBeforeBudgetStop

\* An answer that arrives after a stop was requested has no effect: nothing of
\* it is persisted, executed or accepted as final.
NoLateWork ==
    action.late => pc \notin {"execute", "continue", "final", "success"}

\* Every ask ends, whatever the model answers and however the limits reset
\* each other, without help from the deadline or the user.
EveryAskEnds == InAsk ~> pc = "idle"

\* "The running AgentLoop ... observes cancellation, appends run_stopped,
\* clears the Session pointer": after an ask that was asked to stop and met no
\* exception, no Run is left open - except where the last answer was the second
\* context overflow in a row, which is raised without a look at the stop.
ResetEndsRun ==
    pc = "idle" /\ asked = "user_reset" /\ raises = 0 => run # "open" \/ retried
================================================================================
