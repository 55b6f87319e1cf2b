------------------------------ MODULE RunProtocol ------------------------------
(****************************************************************************)
(* The causal protocol of one Run Log, from _RunProtocol in run_log.py: the *)
(* same check guards every append, validates a log that is read back, and   *)
(* is replayed by recovery.  Pure operators; the state machines that use    *)
(* them are RunLifecycle and the modules that EXTEND it.                    *)
(*                                                                          *)
(* What is abstracted: a tool call is its call id (so the tool-name match   *)
(* holds by construction), and every event kind the protocol treats alike - *)
(* user_guidance, run_started, run_resumed, model_requested, turn_metrics,  *)
(* model_instruction, verification_result, compaction, completion_blocked - *)
(* is the kind "note".                                                      *)
(****************************************************************************)
EXTENDS Naturals, Sequences

CONSTANT CallIds        \* the call ids a Provider response may carry

Kinds == {"user_message", "note", "tool_calls", "tool_started", "tool_result",
          "terminal"}

\* execution_state of a ToolOutcome; "-" in events that carry no outcome.
ExecutionStates == {"-", "not_started", "completed", "failed"}

\* side_effect_state of a ToolOutcome.
EffectStates == {"-", "none", "changed", "partial", "unknown"}

\* One line of events.jsonl.  "calls" holds the ordered calls of an
\* assistant_tool_call / assistant_tool_batch, and the single call of a
\* tool_started or tool_result.
Event == [seq : Nat, kind : Kinds, calls : Seq(CallIds),
          exec : ExecutionStates, effect : EffectStates]

Plain(kind)     == [seq |-> 0, kind |-> kind, calls |-> <<>>,
                    exec |-> "-", effect |-> "-"]
Requested(ids)  == [Plain("tool_calls") EXCEPT !.calls = ids]
Started(c)      == [Plain("tool_started") EXCEPT !.calls = <<c>>]
Result(c, exec, effect) ==
    [seq |-> 0, kind |-> "tool_result", calls |-> <<c>>,
     exec |-> exec, effect |-> effect]

(****************************************************************************)
(* The protocol state.  "ordinal" is 1-based, 0 where the code has -1.      *)
(****************************************************************************)
Protocol == [user : BOOLEAN, pending : Seq(CallIds), started : SUBSET CallIds,
             ordinal : Nat, results : Nat, terminal : BOOLEAN]

EmptyProtocol == [user |-> FALSE, pending |-> <<>>, started |-> {},
                  ordinal |-> 0, results |-> 0, terminal |-> FALSE]

\* _begin_calls; _clear_calls is BeginCalls(p, <<>>).
BeginCalls(p, ids) == [p EXCEPT !.pending = ids, !.started = {},
                                !.ordinal = 0, !.results = 0]

Distinct(ids) == \A i, j \in DOMAIN ids : ids[i] = ids[j] => i = j

\* The shape apply keeps: a transaction of distinct calls that still owes a
\* result or is gone, and starts that reach up to the ordinal.
WellFormed(p) ==
    /\ Distinct(p.pending)
    /\ p.results <= Len(p.pending)
    /\ p.results = Len(p.pending) => p.pending = <<>>
    /\ p.ordinal <= Len(p.pending)
    /\ \A c \in p.started : \E i \in 1 .. p.ordinal : p.pending[i] = c

InSeq(c, ids) == \E i \in DOMAIN ids : ids[i] = c

\* pending_calls.index(call): the first position, as list.index answers.
Position(c, ids) ==
    CHOOSE i \in DOMAIN ids : ids[i] = c /\ \A j \in DOMAIN ids : ids[j] = c => i <= j

\* RunLog.pending_tool_calls: the calls that still owe a result, in order.
PendingCalls(p) == SubSeq(p.pending, p.results + 1, Len(p.pending))

MayStart(p, c) ==
    /\ InSeq(c, p.pending)
    /\ p.results = 0
    /\ c \notin p.started
    /\ Position(c, p.pending) > p.ordinal

MayFinish(p, c, exec) ==
    /\ p.results < Len(p.pending)
    /\ c = p.pending[p.results + 1]
    /\ (exec = "not_started") <=> (c \notin p.started)

\* _RunProtocol.check. 
Allowed(p, e) ==
    /\ ~p.terminal
    /\ p.user <=> (e.kind # "user_message")
    /\ \/ e.kind = "tool_started" /\ MayStart(p, e.calls[1])
       \/ e.kind = "tool_result" /\ MayFinish(p, e.calls[1], e.exec)
       \/ e.kind \notin {"tool_started", "tool_result"} /\ p.pending = <<>>

\* A slip never used by a specification: the last result clears nothing.
AppliedWithoutClear(p, e) ==
    CASE e.kind = "user_message" -> [p EXCEPT !.user = TRUE]
      [] e.kind = "tool_calls"   -> BeginCalls(p, e.calls)
      [] e.kind = "tool_started" ->
           [p EXCEPT !.started = @ \cup {e.calls[1]},
                     !.ordinal = Position(e.calls[1], p.pending)]
      [] e.kind = "tool_result"  -> [p EXCEPT !.results = @ + 1]
      [] e.kind = "terminal"     -> [p EXCEPT !.terminal = TRUE]
      [] OTHER                   -> p

\* _RunProtocol.apply, of an event that check let through.
Applied(p, e) ==
    CASE e.kind = "user_message" -> [p EXCEPT !.user = TRUE]
      [] e.kind = "tool_calls"   -> BeginCalls(p, e.calls)
      [] e.kind = "tool_started" ->
           [p EXCEPT !.started = @ \cup {e.calls[1]},
                     !.ordinal = Position(e.calls[1], p.pending)]
      [] e.kind = "tool_result"  ->
           IF p.results + 1 = Len(p.pending)
           THEN BeginCalls(p, <<>>)
           ELSE [p EXCEPT !.results = @ + 1]
      [] e.kind = "terminal"     -> [p EXCEPT !.terminal = TRUE]
      [] OTHER                   -> p
================================================================================
