--------------------------- MODULE ObservationBatch ---------------------------
(***************************************************************************)
(* The observation batches of one Run: execute_pending_batch of            *)
(* src/pico/tool_runtime.py, its worker pool, and what run_lifecycle.py    *)
(* makes of a batch that an interrupt or a crash left behind.  The main    *)
(* thread owns the Run Log; the workers only run observations.             *)
(*                                                                         *)
(* Simplifications.  The log is what RunProtocol keeps of it, plus which   *)
(* answer each call got.  Call ids are never reused within the Run (what   *)
(* follows when a Provider reuses one is RunLifecycle's).  The token and   *)
(* the deadline of the ask are one flag: check_active raises on either.    *)
(***************************************************************************)
EXTENDS RunProtocol, FiniteSets

CONSTANTS
    Order,          \* the call ids, in the order the Provider makes them up
    MaxRequested,   \* bound: the calls of one response
    MaxBatchCalls,  \* MAX_OBSERVATION_BATCH_CALLS
    MaxParallel,    \* MAX_PARALLEL_OBSERVATIONS
    Budget,         \* max_tool_executions
    MaxFaults       \* bound: interrupts and crashes

ASSUME BatchAssumption ==
    /\ Order \in Seq(CallIds) /\ Distinct(Order)
    /\ MaxRequested \in Nat /\ MaxBatchCalls \in Nat
    /\ MaxParallel \in Nat \ {0} /\ Budget \in Nat \ {0} /\ MaxFaults \in Nat

VARIABLES
    main,       \* where the main thread is
    protocol,   \* the protocol state of the Run Log
    answer,     \* answer[c]: the execution_state of the result c has in the log
    batch,      \* the calls execute_pending_batch holds, in order
    at,         \* how many of them the current loop of main is done with
    task,       \* task[c]: where the pool has the runner of c
    value,      \* value[c]: what future c holds
    stop,       \* a stop is requested of this ask, or its deadline has passed
    faults

vars == <<main, protocol, answer, batch, at, task, value, stop, faults>>

Values == {"-", "ok", "effect", "error", "interrupted"}
Pooled == {"submitting", "collecting", "joining"}    \* main is inside the `with`
Phases == Pooled \cup {"new", "idle", "preparing", "rejecting", "starting",
                       "recording", "raised", "recovering", "closed"}

Calls == {Order[i] : i \in DOMAIN Order}
With(state) == {c \in Calls : task[c] = state}
Used == Cardinality({c \in Calls : answer[c] # "-" \/ InSeq(c, protocol.pending)})

\* RunMetrics.executed_tool_count
Executed == Cardinality({c \in Calls : answer[c] \notin {"-", "not_started"}})

Init ==
    /\ main = "new" /\ protocol = EmptyProtocol
    /\ answer = [c \in Calls |-> "-"]
    /\ batch = <<>> /\ at = 0
    /\ task = [c \in Calls |-> "none"]
    /\ value = [c \in Calls |-> "-"]
    /\ stop = FALSE /\ faults = 0

(* ------------------------------ the Run Log ---------------------------- *)

Log(e) ==
    /\ protocol' = Applied(protocol, e)
    /\ answer' = IF e.kind = "tool_result" THEN [answer EXCEPT ![e.calls[1]] = e.exec]
                                           ELSE answer

\* reconcile_interrupted: a call that was started failed, whatever it did.
Reconciled(c) == Result(c, IF c \in protocol.started THEN "failed" ELSE "not_started", "none")

\* A slip: only what the runner raised itself counts as a failure.
OutcomeOfRunner(c) ==
    CASE value[c] = "effect" -> Result(c, "completed", "unknown")
      [] value[c] = "error"  -> Result(c, "failed", "none")
      [] OTHER               -> Result(c, "completed", "none")

\* _observation_outcome
Outcome(c) ==
    CASE value[c] = "ok"     -> Result(c, "completed", "none")
      [] value[c] = "effect" -> Result(c, "completed", "unknown")
      [] OTHER               -> Result(c, "failed", "none")

\* The event the current loop of main appends next.
NextEvent ==
    CASE main = "rejecting"  -> Result(batch[at + 1], "not_started", "none")
      [] main = "starting"   -> Started(batch[at + 1])
      [] main = "recording"  -> Outcome(batch[at + 1])
      [] main = "recovering" -> Reconciled(PendingCalls(protocol)[1])

(* ---------------------------- the main thread -------------------------- *)

Open ==
    /\ main = "new"
    /\ main' = "idle"
    /\ Log(Plain("user_message"))
    /\ UNCHANGED <<batch, at, task, value, stop, faults>>

\* A response with several calls, written as one assistant_tool_batch.
Request ==
    \E n \in 2 .. MaxRequested :
        /\ main = "idle" /\ ~stop /\ Used + n <= Len(Order)
        /\ batch' = SubSeq(Order, Used + 1, Used + n)
        /\ Log(Requested(batch'))
        /\ main' = "preparing" /\ at' = 0
        /\ UNCHANGED <<task, value, stop, faults>>

\* _batch_policy_error and the arguments: "unfit" is a tool that may not be
\* batched, or arguments its schema or its validator refuses.
Admits(unfit) ==
    /\ Len(batch) <= MaxBatchCalls
    /\ Executed + Len(batch) <= Budget
    /\ ~unfit

Prepare ==
    \E unfit \in BOOLEAN :
        /\ main = "preparing"
        /\ main' = IF Admits(unfit) THEN "starting" ELSE "rejecting"
        /\ UNCHANGED <<protocol, answer, batch, at, task, value, stop, faults>>

After == [rejecting |-> "idle", starting |-> "submitting",
          submitting |-> "collecting", collecting |-> "recording", recording |-> "idle"]

\* One turn of the loop main is in: the loop ends with the last call of the batch.
Advance ==
    IF at + 1 = Len(batch) THEN main' = After[main] /\ at' = 0
                           ELSE main' = main /\ at' = at + 1

\* _reject_observation_batch, the tool_started loop, the loop over the outcomes
Record ==
    /\ main \in {"rejecting", "starting", "recording"}
    /\ Log(NextEvent)
    /\ Advance
    /\ UNCHANGED <<batch, task, value, stop, faults>>

Submit ==
    /\ main = "submitting"
    /\ task' = [task EXCEPT ![batch[at + 1]] = "queued"]
    /\ Advance
    /\ UNCHANGED <<protocol, answer, batch, value, stop, faults>>

\* future.result(): main waits for the futures in the order of the calls, and the
\* pool has nothing left when it has them all.
Collect ==
    /\ main = "collecting" /\ task[batch[at + 1]] = "done"
    /\ Advance
    /\ UNCHANGED <<protocol, answer, batch, task, value, stop, faults>>

\* The Run ends, by an answer or by a stop, between two transactions.
Close ==
    /\ main = "idle"
    /\ main' = "closed"
    /\ Log(Plain("terminal"))
    /\ UNCHANGED <<batch, at, task, value, stop, faults>>

(* ------------------------------- the pool ------------------------------ *)

\* A worker takes the next item; check_active may raise before the runner is
\* entered.  A call of an abandoned batch has the token of its own ask.
Take(c) ==
    /\ task[c] = "queued"
    /\ Cardinality(With("running")) < MaxParallel
    /\ \A d \in With("queued") : Position(c, Order) <= Position(d, Order)
    /\ \/ /\ stop \/ ~InSeq(c, batch)
          /\ task' = [task EXCEPT ![c] = "done"]
          /\ value' = [value EXCEPT ![c] = "interrupted"]
       \/ /\ ~stop \/ ~InSeq(c, batch)
          /\ task' = [task EXCEPT ![c] = "running"]
          /\ UNCHANGED value
    /\ UNCHANGED <<main, protocol, answer, batch, at, stop, faults>>

\* A slip: the worker is not free again when its runner raises.
FinishHolding(c) ==
    /\ task[c] = "running" /\ value[c] = "-"
    /\ \E v \in {"ok", "effect", "error"} :
          /\ value' = [value EXCEPT ![c] = v]
          /\ task' = IF v = "error" THEN task ELSE [task EXCEPT ![c] = "done"]
    /\ UNCHANGED <<main, protocol, answer, batch, at, stop, faults>>

\* The runner returns or raises; check_active after it turns what it returned
\* into an interruption, and leaves what it raised.
Finish(c) ==
    /\ task[c] = "running"
    /\ task' = [task EXCEPT ![c] = "done"]
    /\ \E v \in Values \ {"-"} :
          /\ v \in {"ok", "effect"} => ~stop \/ ~InSeq(c, batch)
          /\ v = "interrupted" => stop \/ ~InSeq(c, batch)
          /\ value' = [value EXCEPT ![c] = v]
    /\ UNCHANGED <<main, protocol, answer, batch, at, stop, faults>>

(* ------------------------------- the faults ---------------------------- *)

\* Another thread cancels or resets the Run, or its time is over.
RequestStop ==
    /\ main \notin {"new", "raised", "closed"} /\ ~stop
    /\ stop' = TRUE
    /\ UNCHANGED <<main, protocol, answer, batch, at, task, value, faults>>

\* A KeyboardInterrupt, or a failure of an append, of its fsync or of an artifact.
\* Inside the `with` it waits for everything that was submitted first, and a second
\* interrupt leaves the workers at it.
Interrupt ==
    /\ main \notin {"new", "raised", "closed"} /\ faults < MaxFaults
    /\ faults' = faults + 1
    /\ main' = IF main \in Pooled \ {"joining"} THEN "joining" ELSE "raised"
    /\ UNCHANGED <<protocol, answer, batch, at, task, value, stop>>

\* The same right after an event is durable and before main goes on.
InterruptAppended ==
    /\ main \in {"rejecting", "starting", "recording", "recovering"} /\ faults < MaxFaults
    /\ faults' = faults + 1
    /\ Log(NextEvent)
    /\ main' = "raised"
    /\ UNCHANGED <<batch, at, task, value, stop>>

\* A slip: the pool is left without waiting for what has begun.
JoinedQueue == With("queued") = {}

Joined == With("queued") \cup With("running") = {}

\* shutdown(wait=True): nothing is cancelled, so the queue is run to its end.
Join ==
    /\ main = "joining" /\ Joined
    /\ main' = "raised"
    /\ UNCHANGED <<protocol, answer, batch, at, task, value, stop, faults>>

Crash ==
    /\ main \notin {"new", "closed"} /\ faults < MaxFaults
    /\ faults' = faults + 1
    /\ main' = "raised"
    /\ task' = [c \in Calls |-> "none"]
    /\ UNCHANGED <<protocol, answer, batch, at, value, stop>>

\* The Run is asked again: a new context, and reconcile_interrupted.
Resume ==
    /\ main = "raised"
    /\ main' = IF PendingCalls(protocol) = <<>> THEN "idle" ELSE "recovering"
    /\ stop' = FALSE /\ batch' = <<>> /\ at' = 0
    /\ UNCHANGED <<protocol, answer, task, value, faults>>

Recover ==
    /\ main = "recovering"
    /\ Log(NextEvent)
    /\ main' = IF Len(PendingCalls(protocol)) = 1 THEN "idle" ELSE main
    /\ UNCHANGED <<batch, at, task, value, stop, faults>>

Main == Open \/ Request \/ Prepare \/ Record \/ Submit \/ Collect \/ Close \/ Join
Worker == \E c \in Calls : Take(c) \/ Finish(c)

Next == Main \/ Worker \/ RequestStop \/ Interrupt \/ InterruptAppended
        \/ Crash \/ Resume \/ Recover

\* Main runs on.  A worker runs on, and an observation ends: it reads files of
\* bounded size, or waits for a search command that CommandRunner ends in time.
\* Nobody has to ask a Run again, or to close it.
Fairness ==
    /\ WF_vars(Prepare \/ Record \/ Submit \/ Collect \/ Join \/ Recover)
    /\ WF_vars(Worker)

Spec == Init /\ [][Next]_vars /\ Fairness

(* ------------------------------ properties ----------------------------- *)

TypeOK ==
    /\ main \in Phases
    /\ WellFormed(protocol)
    /\ answer \in [Calls -> {"-", "not_started", "failed", "completed"}]
    /\ batch \in Seq(Calls)
    /\ at \in Nat /\ (main \in DOMAIN After => at < Len(batch))
    /\ task \in [Calls -> {"none", "queued", "running", "done"}]
    /\ value \in [Calls -> Values]
    /\ stop \in BOOLEAN /\ faults \in 0 .. MaxFaults

\* The protocol check of the Run Log never refuses what the batch code or the
\* reconciler appends, after whatever interrupt or crash: an append that raised there
\* would leave a Run that no resume gets past.
NeverRefused ==
    main \in {"rejecting", "starting", "recording", "recovering"} => Allowed(protocol, NextEvent)

\* An observation that runs is in the log as started, and while main has been
\* interrupted at most once, it runs inside the `with` of its own batch, before
\* any result of the batch is written.
NothingRunsOutside ==
    \A c \in With("running") :
        /\ c \in protocol.started \/ answer[c] = "failed"
        /\ faults < 2 => /\ main \in Pooled /\ InSeq(c, batch)
                         /\ \A i \in DOMAIN batch : answer[batch[i]] = "-"

\* What the log says of a call is what happened to it: completed only when its own
\* runner returned, with no stop before or after it; not started only when no runner
\* was given to the pool.
ResultsAreTrue ==
    \A c \in Calls :
        /\ answer[c] = "completed" => value[c] \in {"ok", "effect"}
        /\ answer[c] = "not_started" => task[c] = "none" /\ value[c] = "-"

\* Without a stop and without a fault every sibling of a failed observation runs to
\* its own end (docs/architecture: a failed Observation does not cancel valid siblings).
SiblingsSurvive ==
    ~stop /\ faults = 0 => \A c \in Calls : value[c] # "interrupted"

\* The executions the log counts, those a crash left half-done included, never pass
\* max_tool_executions, although a batch is admitted before any of it has run.
BudgetKept ==
    Cardinality({c \in Calls : answer[c] \in {"failed", "completed"}} \cup protocol.started)
        <= Budget

\* Every batch is answered to the last call, or main has left it to the next ask:
\* no batch waits for a worker that never comes.
EveryBatchSettles ==
    (protocol.pending # <<>>) ~> (protocol.pending = <<>> \/ main = "raised")

\* What the contract sees of the log.
TheRun == [phase |-> IF protocol.terminal THEN "closed"
                     ELSE IF protocol.user THEN "open" ELSE "absent",
           owed |-> PendingCalls(protocol), started |-> protocol.started]

Contract == INSTANCE RunContract WITH Runs <- {"r"}, run <- [r \in {"r"} |-> TheRun]

\* Seen from the Run Log, batches keep the contract of a Run: starts in order and
\* before any result, one result for each call in order, nothing after the close.
ContractHolds == Contract!Spec

\* Every append is accepted, and what the log then says of each call is true, and of
\* all of them within the budget (_observation_outcome, _batch_policy_error,
\* reconcile_interrupted).
LogIsSound == TypeOK /\ NeverRefused /\ ResultsAreTrue /\ SiblingsSurvive /\ BudgetKept
===============================================================================
