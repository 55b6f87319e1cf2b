---------------------------- MODULE CommandRunner ----------------------------
(***************************************************************************)
(* One command of run_command or of a verifier: src/pico/command_runner.py *)
(* under the token and the deadline of src/pico/execution.py, against the  *)
(* processes the command starts and the threads that ask it to stop.       *)
(*                                                                         *)
(* Simplifications.  Time is a number that passes only when the runner is  *)
(* waiting, never beyond the end of its wait: its own steps take none.     *)
(* Output is a length.  A process that dies slowly on SIGTERM is one that  *)
(* ignores it and ends later.  CancellationToken.child has no caller, so   *)
(* all contexts of an ask share one token.                                 *)
(***************************************************************************)
EXTENDS Naturals

CONSTANTS
    Helpers,       \* the processes the command may start besides itself
    Threads,       \* the threads that may ask for a stop
    Reasons,       \* with what reason
    Poll,          \* COMMAND_POLL_SECONDS
    Grace,         \* COMMAND_TERMINATE_SECONDS
    Limit,         \* max_output_bytes
    Timeouts,      \* the timeouts a caller may give
    TurnDeadlines, \* what may be left of the ask
    MaxOutput,     \* bound: the bytes of one stream
    MaxTime        \* bound: the clock

ASSUME TimeAssumption ==
    /\ Poll \in Nat \ {0} /\ Grace \in Nat \ {0} /\ MaxTime \in Nat
    /\ Timeouts \subseteq Nat \ {0} /\ TurnDeadlines \subseteq Nat

ASSUME OutputAssumption == Limit \in Nat /\ MaxOutput \in Nat

None == "none"
Expired == "deadline_exceeded"
Default == "user_cancelled"
Leader == "leader"

ASSUME NameAssumption ==
    /\ Leader \notin Helpers
    /\ {None, Expired} \intersect Reasons = {}

Processes == Helpers \union {Leader}

VARIABLES
    \* CancellationToken, since when it is set, and the threads inside its request()
    isSet, reason, setAt, asking, asked,
    \* the runner: turn is the deadline of the ask, deadline that of the command
    pc, now, turn, deadline, wakeAt, stop, raising, cutShort, result,
    \* the processes: what of them is alive, in the group of the command, holding
    \* its output pipes, ignoring SIGTERM
    alive, group, pipe, deaf,
    \* the bytes both streams have when the runner reads them
    written

tokenVars == <<isSet, reason, setAt, asking, asked>>
processVars == <<alive, group, pipe, deaf>>
vars == <<isSet, reason, setAt, asking, asked, pc, now, turn, deadline, wakeAt, stop, raising,
          cutShort, result, alive, group, pipe, deaf, written>>

Minimum(a, b) == IF a <= b THEN a ELSE b

NoResult == [kind |-> None]
Ended == pc = "ended"

Steps == {"start", "spawn", "poll", "wait", "terminate", "grace", "drain", "ended"}

Streams == [out : 0..MaxOutput, err : 0..MaxOutput]

-----------------------------------------------------------------------------
(* _truncate_output *)

Half == Limit \div 2

\* A slip never used: the free part of one budget is given away and kept as well.
TruncatedTwice(out, err) ==
    IF out + err <= Limit THEN [out |-> out, err |-> err]
    ELSE IF out < Half THEN [out |-> out, err |-> Minimum(err, Limit)]
    ELSE [out |-> Half, err |-> Minimum(err, Limit - Half)]

\* What is kept of the two streams: each may use what the other leaves free.
Truncated(out, err) ==
    IF out + err <= Limit THEN [out |-> out, err |-> err]
    ELSE IF out < Half THEN [out |-> out, err |-> Limit - out]
    ELSE IF err < Limit - Half THEN [out |-> Limit - err, err |-> err]
    ELSE [out |-> Half, err |-> Limit - Half]

-----------------------------------------------------------------------------
TypeOK ==
    /\ isSet \in BOOLEAN
    /\ reason \in Reasons \union {None}
    /\ setAt \in 0..MaxTime
    /\ asking \in [Threads -> {"idle", "checked", "told"} \X (Reasons \union {None})]
    /\ asked \subseteq Reasons
    /\ pc \in Steps
    /\ now \in 0..MaxTime
    /\ turn \in Nat /\ deadline \in Nat /\ wakeAt \in Nat
    /\ stop \in Reasons \union {None, Expired, Default}
    /\ raising \in BOOLEAN /\ cutShort \in BOOLEAN
    /\ result \in {NoResult} \union
          [kind : {"exit", "stopped", "error", "refused", "raised"},
           reason : Reasons \union {None, Expired, Default},
           out : Nat, err : Nat, limited : BOOLEAN, left : SUBSET Processes]
    /\ alive \subseteq Processes
    /\ group \subseteq alive /\ pipe \subseteq alive /\ deaf \subseteq alive
    /\ written \in Streams

Init ==
    /\ isSet = FALSE /\ reason = None /\ setAt = 0
    /\ asking = [t \in Threads |-> <<"idle", None>>]
    /\ asked = {}
    /\ pc = "start"
    /\ now = 0
    /\ turn \in TurnDeadlines
    /\ deadline = turn
    /\ wakeAt = 0
    /\ stop = None
    /\ raising = FALSE /\ cutShort = FALSE
    /\ result = NoResult
    /\ alive = {} /\ group = {} /\ pipe = {} /\ deaf = {}
    /\ written = [out |-> 0, err |-> 0]

-----------------------------------------------------------------------------
(* CancellationToken.request: a check, then two assignments, without a lock. *)

CheckToken(t, r) ==
    /\ asking[t][1] = "idle"
    /\ asked' = asked \union {r}
    /\ asking' = [asking EXCEPT ![t] = <<IF isSet THEN "told" ELSE "checked", r>>]
    /\ UNCHANGED <<isSet, reason, setAt>>

StoreReason(t) ==
    /\ asking[t][1] = "checked"
    /\ asking[t][2] # None
    /\ reason' = asking[t][2]
    /\ asking' = [asking EXCEPT ![t] = <<"checked", None>>]
    /\ UNCHANGED <<isSet, setAt, asked>>

\* A slip never used: the event is set before its reason is stored.
SetTokenFirst(t) ==
    /\ asking[t][1] = "checked"
    /\ isSet' = TRUE
    /\ setAt' = IF isSet THEN setAt ELSE now
    /\ UNCHANGED <<reason, asked, asking>>

SetToken(t) ==
    /\ asking[t] = <<"checked", None>>
    /\ isSet' = TRUE
    /\ setAt' = IF isSet THEN setAt ELSE now
    /\ asking' = [asking EXCEPT ![t] = <<"told", None>>]
    /\ UNCHANGED <<reason, asked>>

Request(t) ==
    /\ ~Ended
    /\ \/ \E r \in Reasons : CheckToken(t, r)
       \/ StoreReason(t)
       \/ SetToken(t)
    /\ UNCHANGED <<pc, now, turn, deadline, wakeAt, stop, raising, cutShort, result,
                   written>>
    /\ UNCHANGED processVars

-----------------------------------------------------------------------------
(* The processes *)

\* A process of the command starts another one, which inherits everything.
Inherits(set, p, q) == IF p \in set THEN set \union {q} ELSE set

Fork ==
    \E p \in alive, q \in Helpers \ alive :
        /\ alive' = alive \union {q}
        /\ group' = Inherits(group, p, q)
        /\ pipe' = Inherits(pipe, p, q)
        /\ deaf' = Inherits(deaf, p, q)

Die(dead) ==
    /\ alive' = alive \ dead
    /\ group' = group \ dead
    /\ pipe' = pipe \ dead
    /\ deaf' = deaf \ dead

\* A process ends, starts a session of its own, redirects its output, or ignores
\* SIGTERM from now on.
Exit == \E p \in alive : Die({p})

Leave ==
    \E p \in group \ {Leader} : group' = group \ {p} /\ UNCHANGED <<alive, pipe, deaf>>

Redirect ==
    \E p \in pipe : pipe' = pipe \ {p} /\ UNCHANGED <<alive, group, deaf>>

Ignore ==
    \E p \in alive \ deaf : deaf' = deaf \union {p} /\ UNCHANGED <<alive, group, pipe>>

ProcessStep ==
    /\ ~Ended
    /\ Fork \/ Exit \/ Leave \/ Redirect \/ Ignore
    /\ UNCHANGED <<pc, now, turn, deadline, wakeAt, stop, raising, cutShort, result,
                   written>>
    /\ UNCHANGED tokenVars

\* communicate() returns: end of file on both pipes, and the command waited for.
Finished == pipe = {} /\ Leader \notin alive

-----------------------------------------------------------------------------
(* CommandRunner.run *)

Return(kind, r) ==
    /\ pc' = "ended"
    /\ written' \in Streams
    /\ LET kept == Truncated(written'.out, written'.err)
       IN  result' = [kind |-> kind, reason |-> r, out |-> kept.out, err |-> kept.err,
                      limited |-> kept # written', left |-> alive]

\* A slip never used: the timeout of the caller replaces the deadline of the ask.
StartUnbounded ==
    /\ pc = "start"
    /\ \E timeout \in Timeouts : deadline' = now + timeout
    /\ pc' = "spawn"
    /\ UNCHANGED <<result, now, turn, wakeAt, stop, raising, cutShort, written>>
    /\ UNCHANGED tokenVars /\ UNCHANGED processVars

\* bounded_timeout: a stop that was asked for, or a deadline that has passed, is
\* an exception before anything is started.
Start ==
    /\ pc = "start"
    /\ \/ /\ isSet \/ turn <= now
          /\ Return("refused", None)
          /\ UNCHANGED deadline
       \/ /\ ~isSet /\ now < turn
          /\ \E timeout \in Timeouts : deadline' = Minimum(now + timeout, turn)
          /\ pc' = "spawn"
          /\ UNCHANGED <<result, written>>
    /\ UNCHANGED <<now, turn, wakeAt, stop, raising, cutShort>>
    /\ UNCHANGED tokenVars /\ UNCHANGED processVars

Spawn ==
    /\ pc = "spawn"
    /\ \/ Return("error", None) /\ UNCHANGED processVars
       \/ /\ pc' = "poll"
          /\ alive' = {Leader} /\ group' = {Leader} /\ pipe' = {Leader}
          /\ UNCHANGED <<deaf, result, written>>
    /\ UNCHANGED <<now, turn, deadline, wakeAt, stop, raising, cutShort>>
    /\ UNCHANGED tokenVars

StopReason ==
    IF isSet THEN (IF reason = None THEN Default ELSE reason)
    ELSE IF deadline <= now THEN Expired
    ELSE None

PollStop ==
    /\ pc = "poll"
    /\ stop' = StopReason
    /\ IF StopReason = None
       THEN /\ pc' = "wait"
            /\ wakeAt' = now + Minimum(Poll, deadline - now)
       ELSE pc' = "terminate" /\ UNCHANGED wakeAt
    /\ UNCHANGED <<now, turn, deadline, raising, cutShort, result, written>>
    /\ UNCHANGED tokenVars /\ UNCHANGED processVars

Wait ==
    /\ pc = "wait"
    /\ \/ Finished /\ Return("exit", None)
       \/ ~Finished /\ wakeAt <= now /\ pc' = "poll" /\ UNCHANGED <<result, written>>
    /\ UNCHANGED <<now, turn, deadline, wakeAt, stop, raising, cutShort>>
    /\ UNCHANGED tokenVars /\ UNCHANGED processVars

\* A slip never used: only the command itself is signalled.
SignalledLeader(p) == p = Leader /\ p \notin deaf

Signalled(p) == p \in group /\ p \notin deaf

Terminate ==
    /\ pc = "terminate"
    /\ Die({p \in alive : Signalled(p)})
    /\ wakeAt' = now + Grace
    /\ pc' = "grace"
    /\ UNCHANGED <<now, turn, deadline, stop, raising, cutShort, result, written>>
    /\ UNCHANGED tokenVars

\* Where both ways of the cleanup end, for a stop and for an exception.
CleanedUp == IF raising THEN Return("raised", None) ELSE Return("stopped", stop)

WaitGrace ==
    /\ pc = "grace"
    /\ \/ Finished /\ CleanedUp /\ UNCHANGED processVars
       \/ /\ ~Finished /\ wakeAt <= now
          /\ Die(group)
          /\ pc' = "drain"
          /\ UNCHANGED <<result, written>>
    /\ UNCHANGED <<now, turn, deadline, wakeAt, stop, raising, cutShort>>
    /\ UNCHANGED tokenVars

\* communicate() without a timeout.
Drain ==
    /\ pc = "drain"
    /\ Finished
    /\ CleanedUp
    /\ UNCHANGED <<now, turn, deadline, wakeAt, stop, raising, cutShort>>
    /\ UNCHANGED tokenVars /\ UNCHANGED processVars

\* An exception (KeyboardInterrupt) while the command runs is raised again after
\* the cleanup; one in the cleanup ends it where it is.
Interrupt ==
    /\ pc \in {"poll", "wait", "terminate", "grace", "drain"}
    /\ IF pc \in {"poll", "wait"}
       THEN /\ pc' = "terminate"
            /\ raising' = TRUE
            /\ UNCHANGED <<cutShort, result, written>>
       ELSE /\ Return("raised", None)
            /\ cutShort' = TRUE
            /\ UNCHANGED raising
    /\ UNCHANGED <<now, turn, deadline, wakeAt, stop>>
    /\ UNCHANGED tokenVars /\ UNCHANGED processVars

Waiting == pc \in {"wait", "grace", "drain"}

\* Time passes while the runner waits.
Tick ==
    /\ now < MaxTime
    /\ Waiting /\ ~Finished
    /\ pc = "drain" \/ now < wakeAt
    /\ now' = now + 1
    /\ UNCHANGED <<pc, turn, deadline, wakeAt, stop, raising, cutShort, result, written>>
    /\ UNCHANGED tokenVars /\ UNCHANGED processVars

RunnerStep == Start \/ Spawn \/ PollStop \/ Wait \/ Terminate \/ WaitGrace \/ Drain

Next ==
    \/ \E t \in Threads : Request(t)
    \/ ProcessStep
    \/ Start \/ Spawn \/ PollStop \/ Wait \/ Terminate \/ WaitGrace \/ Drain
    \/ Interrupt
    \/ Tick

\* The runner's thread is scheduled and time passes; no process has to do anything.
Fairness == WF_vars(RunnerStep) /\ WF_vars(Tick)

Spec == Init /\ [][Next]_vars /\ Fairness

-----------------------------------------------------------------------------
(* Properties *)

\* What a process must have done to keep the runner waiting for ever: left the
\* process group and kept the pipes.
OutOfReach == pipe \ group # {}

\* When the runner must act at the latest: at the deadlines of the command and of
\* the ask, or one poll after the token was set.
Due ==
    LET last == Minimum(turn, deadline)
    IN  IF isSet THEN Minimum(last, setAt + Poll) ELSE last

\* With that exception, a command ends, and when the grace after that is over it has
\* ended, or its runner is about to see that it has, whatever its processes ignore
\* (run, _terminate_process_group).
Overdue == Due + Grace < now /\ ~(Ended \/ OutOfReach \/ Finished)
EndsInTime == []~Overdue /\ <>(Ended \/ OutOfReach)

\* After a cleanup that ran to its end, what is still alive had left the group, or
\* ignored SIGTERM and had given up the output, so that SIGKILL was never sent.
CleanupReachesGroup ==
    Ended /\ result.kind \in {"stopped", "raised"} /\ ~cutShort =>
        \A p \in result.left : p \notin group \/ (p \in deaf /\ p \notin pipe)

\* Nobody can add to the output of a command whose result was returned.
OutputIsFinal ==
    Ended /\ result.kind \in {"exit", "stopped"} => result.left \intersect pipe = {}

\* Nothing that the runner could reach lives on, or goes on writing, after its result
\* (_terminate_process_group, communicate).
NothingSurvives == CleanupReachesGroup /\ OutputIsFinal

\* The reason of a stop is one that was asked for, or the deadline, and then it has
\* passed; user_cancelled is never made up (CancellationToken.request, reason).
StopsForCause ==
    Ended /\ result.kind = "stopped" =>
        \/ result.reason \in asked
        \/ result.reason = Expired /\ deadline <= now

\* A result holds no more than the limit, and is only cut when it is used up.
OutputIsBounded ==
    Ended =>
        /\ result.out + result.err <= Limit
        /\ result.limited => result.out + result.err = Limit

\* One stream is never cut below its half by the other (_truncate_output).
NoStreamStarves ==
    Ended =>
        /\ result.out >= Minimum(written.out, Limit \div 2)
        /\ result.err >= Minimum(written.err, Limit \div 2)

\* The two streams share the limit, and each has its half (_truncate_output).
OutputIsShared == TypeOK /\ OutputIsBounded /\ NoStreamStarves
=============================================================================
