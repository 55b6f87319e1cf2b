---------------------------- MODULE ProviderClient ----------------------------
(***************************************************************************)
(* OpenAICompatibleModelClient, src/pico/providers/clients.py: requests    *)
(* with up to three attempts under one deadline, sockets that a timer      *)
(* shuts down, and the conversation they continue.                         *)
(*                                                                         *)
(* Simplifications.  Time is a number, one unit the first retry delay, and *)
(* starts anew with each request; it passes while the client waits for the *)
(* network or sleeps.  One connect of a socket is bounded by the timeout   *)
(* of the attempt.  What a response says is one of the kinds the client    *)
(* tells apart.  An item of the conversation is its kind and call id.      *)
(***************************************************************************)
EXTENDS Naturals, Sequences, FiniteSets

CONSTANTS
    CallIds,       \* the ids a model gives its function calls
    Timeout,       \* the timeout the client was configured with
    TurnRemaining, \* what may be left of the ask when a request begins
    MaxRedirects,  \* bound: redirects of one attempt
    MaxTurns,      \* bound: requests of one conversation
    MaxCalls,      \* bound: calls in one response
    MaxTime        \* bound: the clock of one request

ASSUME TimeAssumption ==
    /\ Timeout \in Nat \ {0}
    /\ TurnRemaining \subseteq Nat \ {0}

ASSUME BoundAssumption ==
    /\ MaxRedirects \in Nat /\ MaxTurns \in Nat /\ MaxCalls \in Nat \ {0}
    /\ MaxTime \in Nat

Attempts == 3

\* What a body, whole or not, tells the client.  The first three come with an HTTP
\* error status, the others with a success.
Failures == {"transient", "refused", "tooLarge"}
Answers == {"calls", "badCalls", "incomplete", "error", "overflow", "noise"}

VARIABLES
    \* one request
    pc, now, deadline, attempt,
    attemptDeadline,  \* the deadline of this attempt
    span,             \* its timeout, which each of its sockets gets in full
    connectBy,        \* when the connect under way times out
    redirects,
    body,             \* what was read
    sentAt,           \* when this attempt last sent its request
    failedAt,         \* when the attempt before this one failed
    failure,          \* how
    outcome,          \* how the request ended
    \* the conversation
    input, pending, turns

requestVars == <<pc, now, deadline, attempt, attemptDeadline, span, connectBy, redirects,
                 body, sentAt, failedAt, failure, outcome>>
sessionVars == <<input, pending, turns>>
vars == <<pc, now, deadline, attempt, attemptDeadline, span, connectBy, redirects,
          body, sentAt, failedAt, failure, outcome, input, pending, turns>>

Minimum(a, b) == IF a <= b THEN a ELSE b

NoBody == [says |-> "nothing", cut |-> "no"]

\* How a body that is not whole got so: the peer closed, or the timer shut it.
Cuts == {"no", "peer", "timer"}

Item(kind, id) == <<kind, id>>
NoId == "-"

CallLists == UNION {[1..n -> CallIds] : n \in 1..MaxCalls}

Distinct(ids) == \A i, j \in 1..Len(ids) : ids[i] = ids[j] => i = j

Outcomes == {"none", "action", "invalid", "overflow", "failed"}

States == {"idle", "attempt", "connect", "exchange", "read", "failing", "sleep", "decode"}

-----------------------------------------------------------------------------
TypeOK ==
    /\ pc \in States
    /\ {now, deadline, attemptDeadline, span, connectBy, sentAt, failedAt} \subseteq Nat
    /\ attempt \in 0..Attempts
    /\ redirects \in 0..MaxRedirects
    /\ body \in [says : Failures \union Answers \union {"nothing"}, cut : Cuts]
    /\ failure \in Failures \union {"none", "transport"}
    /\ outcome \in Outcomes
    /\ input \in Seq({"user", "other", "call", "output"} \X (CallIds \union {NoId}))
    /\ pending \in Seq(CallIds)
    /\ turns \in 0..MaxTurns

Init ==
    /\ pc = "idle"
    /\ now = 0 /\ deadline = 0 /\ attemptDeadline = 0 /\ span = 0 /\ connectBy = 0
    /\ attempt = 0 /\ redirects = 0
    /\ body = NoBody
    /\ sentAt = 0 /\ failedAt = 0
    /\ failure = "none" /\ outcome = "none"
    /\ input = <<>> /\ pending = <<>> /\ turns = 0

-----------------------------------------------------------------------------
(* The conversation *)

\* complete_action up to its request: the prompt opens the conversation only.
CompleteAction ==
    /\ pc = "idle"
    /\ turns < MaxTurns
    /\ pending = <<>>
    /\ input' = IF input = <<>> THEN <<Item("user", NoId)>> ELSE input
    /\ turns' = turns + 1
    /\ pc' = "attempt"
    /\ now' = 0
    /\ \E remaining \in TurnRemaining : deadline' = Minimum(Timeout, remaining)
    /\ attempt' = 0
    /\ outcome' = "none"
    /\ failure' = "none"
    /\ failedAt' = 0
    /\ sentAt' = 0
    /\ UNCHANGED <<attemptDeadline, span, connectBy, redirects, body, pending>>

\* record_action_results: one output for each call that is waited for, or one
\* correction, which the caller gives after an answer without a usable call.
RecordResults ==
    /\ pc = "idle"
    /\ outcome \in {"action", "invalid"}
    /\ input' = input \o
          (IF pending = <<>> THEN <<Item("user", NoId)>>
           ELSE [i \in 1..Len(pending) |-> Item("output", pending[i])])
    /\ pending' = <<>>
    /\ outcome' = "none"
    /\ UNCHANGED <<pc, now, deadline, attempt, attemptDeadline, span, connectBy, redirects,
                   body, sentAt, failedAt, failure, turns>>

\* reset_action_session: a new ask, a recovered overflow or a full context.
ResetActionSession ==
    /\ pc = "idle"
    /\ input' = <<>>
    /\ pending' = <<>>
    /\ outcome' = "none"

Reset ==
    /\ turns > 0
    /\ ResetActionSession
    /\ UNCHANGED <<pc, now, deadline, attempt, attemptDeadline, span, connectBy, redirects,
                   body, sentAt, failedAt, failure, turns>>

-----------------------------------------------------------------------------
(* One attempt: _open_response *)

Ended(how) ==
    /\ pc' = "idle"
    /\ outcome' = how

Failing(how) ==
    /\ pc' = "failing"
    /\ failure' = how
    /\ failedAt' = now

\* effective_timeout, what an attempt may take.
AttemptTimeout == Minimum(Timeout, deadline - now)

BeginAttempt ==
    /\ pc = "attempt"
    /\ IF deadline <= now
       THEN Ended("failed") /\ UNCHANGED <<attempt, attemptDeadline, span, connectBy, redirects>>
       ELSE /\ attempt' = attempt + 1
            /\ attemptDeadline' = now + AttemptTimeout
            /\ span' = AttemptTimeout
            /\ connectBy' = now + AttemptTimeout
            /\ redirects' = 0
            /\ pc' = "connect"
            /\ UNCHANGED outcome
    /\ body' = NoBody
    /\ UNCHANGED <<now, deadline, sentAt, failedAt, failure>>
    /\ UNCHANGED sessionVars

\* A slip never used: the deadline is not looked at once the socket is there.
TimerArmedAlways == TRUE

\* arm: a timer for what is left of the attempt, if anything is.
TimerArmed == now < attemptDeadline

\* The socket is connected, its timer is armed and the request is sent.
Connected ==
    /\ pc = "connect"
    /\ TimerArmed
    /\ sentAt' = now
    /\ pc' = "exchange"
    /\ UNCHANGED <<now, deadline, attempt, attemptDeadline, span, connectBy, redirects, body,
                   failedAt, failure, outcome>>
    /\ UNCHANGED sessionVars

\* No connection, a refused one, one that took too long, or one that came late.
ConnectFails ==
    /\ pc = "connect"
    /\ Failing("transport")
    /\ UNCHANGED <<now, deadline, attempt, attemptDeadline, span, connectBy, redirects, body,
                   sentAt, outcome>>
    /\ UNCHANGED sessionVars

\* A redirect opens a connection of its own, with a timer of its own.
Redirected ==
    /\ pc = "exchange"
    /\ redirects < MaxRedirects
    /\ redirects' = redirects + 1
    /\ connectBy' = now + span
    /\ pc' = "connect"
    /\ UNCHANGED <<now, deadline, attempt, attemptDeadline, span, body, sentAt, failedAt,
                   failure, outcome>>
    /\ UNCHANGED sessionVars

\* Something is read: whole, or cut by the peer or by the timer in a response whose
\* length nobody told.
Responds(says, cut) ==
    /\ pc = "exchange"
    /\ cut = "timer" => attemptDeadline <= now
    /\ body' = [says |-> says, cut |-> cut]
    /\ pc' = "read"
    /\ UNCHANGED <<now, deadline, attempt, attemptDeadline, span, connectBy, redirects,
                   sentAt, failedAt, failure, outcome>>
    /\ UNCHANGED sessionVars

\* The connection ends, by the peer or by the timer, before a response that says
\* its length is whole.
Disconnected ==
    /\ pc = "exchange"
    /\ Failing("transport")
    /\ UNCHANGED <<now, deadline, attempt, attemptDeadline, span, connectBy, redirects, body,
                   sentAt, outcome>>
    /\ UNCHANGED sessionVars

\* A slip never used: whatever was read is used.
ReadInTimeAlways == TRUE

\* The deadline is looked at again behind the body, of an error as of a success.
ReadInTime == now < attemptDeadline

\* An error whose body was cut by the peer may not say any more that the request
\* was too large; its status is then all there is.
Judged == {body.says} \union
    (IF body.says = "tooLarge" /\ body.cut # "no" THEN {"refused", "transient"} ELSE {})

\* A success whose text is cut inside a character cannot be decoded: an exception
\* nobody handles, before the deadline is looked at.
ReadBody ==
    /\ pc = "read"
    /\ \/ ReadInTime /\ body.says \in Answers /\ pc' = "decode"
          /\ UNCHANGED <<failure, failedAt, outcome>>
       \/ ReadInTime /\ body.says \in Failures /\ UNCHANGED outcome
          /\ \E how \in Judged : Failing(how)
       \/ ~ReadInTime /\ Failing("transport") /\ UNCHANGED outcome
       \/ body.cut # "no" /\ body.says \in Answers /\ Ended("failed")
          /\ UNCHANGED <<failure, failedAt>>
    /\ UNCHANGED <<now, deadline, attempt, attemptDeadline, span, connectBy, redirects, body,
                   sentAt>>
    /\ UNCHANGED sessionVars

-----------------------------------------------------------------------------
(* Retries: _request_with_retry *)

Delay(n) == n

\* retry_delay: the delay must end before the deadline.
DelayFits == now + Delay(attempt) < deadline

Retryable == failure \in {"transient", "transport"}

AttemptsLeft == attempt < Attempts

\* A slip never used: a retry at once that is not counted.
GiveUpOrRetryUncounted ==
    /\ pc = "failing"
    /\ IF Retryable /\ now < deadline
       THEN pc' = "attempt" /\ attempt' = attempt - 1 /\ UNCHANGED outcome
       ELSE Ended("failed") /\ UNCHANGED attempt
    /\ UNCHANGED <<now, deadline, attemptDeadline, span, connectBy, redirects, body,
                   sentAt, failedAt, failure>>
    /\ UNCHANGED sessionVars

GiveUpOrRetry ==
    /\ pc = "failing"
    /\ IF Retryable /\ AttemptsLeft /\ DelayFits
       THEN pc' = "sleep" /\ UNCHANGED outcome
       ELSE Ended(IF failure = "tooLarge" THEN "overflow" ELSE "failed")
    /\ UNCHANGED <<now, deadline, attempt, attemptDeadline, span, connectBy, redirects, body,
                   sentAt, failedAt, failure>>
    /\ UNCHANGED sessionVars

Slept ==
    /\ pc = "sleep"
    /\ now = failedAt + Delay(attempt)
    /\ pc' = "attempt"
    /\ UNCHANGED <<now, deadline, attempt, attemptDeadline, span, connectBy, redirects, body,
                   sentAt, failedAt, failure, outcome>>
    /\ UNCHANGED sessionVars

-----------------------------------------------------------------------------
(* What the answer means: _decode_response, _action_from_response *)

\* A body cut by the peer is not JSON, or an event stream without its last event,
\* whose response object holds no call yet.
Understood == IF body.cut = "no" THEN {body.says} ELSE {"noise", "badCalls"}

CallItems(ids) == [i \in 1..Len(ids) |-> Item("call", ids[i])]

\* ModelAction.tool_batch refuses a response that uses one call id twice.
Usable(ids) == Distinct(ids)

Accept(ids, others) ==
    /\ Usable(ids)
    /\ input' = input \o others \o CallItems(ids)
    /\ pending' = ids
    /\ Ended("action")

\* A slip never used: unusable calls stay in the conversation, unanswered.
RejectKeepingCalls(ids, others) ==
    /\ input' = input \o others \o CallItems(ids)
    /\ pending' = <<>>
    /\ Ended("invalid")

Reject(ids, others) ==
    /\ input' = input \o others
    /\ pending' = <<>>
    /\ Ended("invalid")

Decode ==
    /\ pc = "decode"
    /\ \E says \in Understood, ids \in CallLists,
          others \in {<<>>, <<Item("other", NoId)>>} :
          \/ says = "calls" /\ Accept(ids, others)
          \/ says = "calls" /\ ~Usable(ids) /\ Reject(ids, others)
          \/ says \in {"badCalls", "incomplete"} /\ Reject(ids, others)
          \/ says \in {"error", "noise"} /\ Ended("failed") /\ UNCHANGED <<input, pending>>
          \/ says = "overflow" /\ Ended("overflow") /\ UNCHANGED <<input, pending>>
    /\ UNCHANGED <<now, deadline, attempt, attemptDeadline, span, connectBy, redirects, body,
                   sentAt, failedAt, failure, turns>>

\* Time passes while the client waits: for a connect until its timeout, for a
\* response until the timer, in a sleep until its end.
WaitsUntil ==
    CASE pc = "connect" -> connectBy
      [] pc = "exchange" -> attemptDeadline
      [] pc = "sleep" -> failedAt + Delay(attempt)
      [] OTHER -> 0

Tick ==
    /\ now < WaitsUntil
    /\ now < MaxTime
    /\ now' = now + 1
    /\ UNCHANGED <<pc, deadline, attempt, attemptDeadline, span, connectBy, redirects, body,
                   sentAt, failedAt, failure, outcome>>
    /\ UNCHANGED sessionVars

Next ==
    \/ CompleteAction \/ RecordResults \/ Reset
    \/ BeginAttempt \/ Connected \/ ConnectFails \/ Redirected
    \/ \E says \in Failures \union Answers, cut \in Cuts : Responds(says, cut)
    \/ Disconnected \/ ReadBody
    \/ GiveUpOrRetry \/ Slept \/ Decode
    \/ Tick

\* The client goes on and time passes.  Nothing is expected of the network: a
\* connect ends by its timeout and an exchange by its timer, never by themselves.
Fairness ==
    /\ WF_vars(BeginAttempt \/ ReadBody \/ GiveUpOrRetry \/ Slept \/ Decode)
    /\ WF_vars(Tick)
    /\ WF_vars(connectBy <= now /\ ConnectFails)
    /\ WF_vars(attemptDeadline <= now /\ Disconnected)

Spec == Init /\ [][Next]_vars /\ Fairness

-----------------------------------------------------------------------------
(* Properties *)

\* Whatever the network does, a request ends (timers of _open_response).
EveryRequestEnds == (pc = "attempt") ~> (pc = "idle")

\* A request that is over its deadline is one that followed a redirect: it waits
\* for a connect, whose timeout is not cut to what is left, and sends nothing.
OverdueOnlyConnecting ==
    deadline < now => redirects > 0 /\ pc \in {"connect", "failing", "idle"}

\* No attempt sends its request at or after the deadline of the ask.
NothingSentLate == pc \in {"exchange", "read", "decode"} => sentAt < deadline

\* What our own timer cut short is never decoded, nor believed as an error.
CutBodyIsNotUsed ==
    /\ pc = "decode" => body.cut # "timer" /\ now < deadline
    /\ pc = "failing" /\ failure \in Failures => body.cut # "timer" /\ now < deadline

\* A delay is never slept in vain, and a further attempt follows a failure that may
\* pass, after its delay, early enough to be sent (retry_delay).
RetriesAreJustified ==
    /\ pc = "sleep" => failedAt + Delay(attempt) < deadline
    /\ pc = "connect" /\ attempt > 1 /\ redirects = 0 =>
          /\ failure \in {"transient", "transport"}
          /\ failedAt + Delay(attempt - 1) <= now
          /\ failedAt + Delay(attempt - 1) < deadline

\* All attempts keep the one deadline of the ask, the delays between them as well
\* (_request_with_retry, _open_response).
RequestsKeepTime == TypeOK /\ OverdueOnlyConnecting /\ NothingSentLate /\ RetriesAreJustified

\* How many of the first n items are of a kind.
Count(items, kind, n) == Cardinality({i \in 1..n : items[i][1] = kind})

\* The n-th output answers the n-th call, which comes before it; the calls without an
\* output are those that are waited for.
Paired(items, waiting) ==
    LET outputs == Count(items, "output", Len(items))
    IN  /\ Count(items, "call", Len(items)) = outputs + Len(waiting)
        /\ \A i \in 1..Len(items) : items[i][1] = "call" =>
              /\ \A j \in 1..Len(items) :
                    items[j][1] = "output" /\ Count(items, "output", j) = Count(items, "call", i)
                        => i < j /\ items[j][2] = items[i][2]
              /\ \A k \in 1..Len(waiting) :
                    Count(items, "call", i) = outputs + k => items[i][2] = waiting[k]

\* What is sent has one output for each of its function calls, in their order;
\* after an answer exactly the calls of that answer wait for theirs, each once.
ConversationIsPaired == Paired(input, pending) /\ Distinct(pending)
=============================================================================
