---------------------------- MODULE AgentLoopProofs ----------------------------
(****************************************************************************)
(* Safety of AgentLoop for every value of the limits: the conversation with *)
(* the Provider stays paired, the tool budget is kept over resumed asks,    *)
(* and no transaction is left open when the loop goes on.                   *)
(****************************************************************************)
EXTENDS AgentLoop, TLAPS

(****************************************************************************)
(* The inductive invariant: TypeOK and five parts, one per idea.            *)
(****************************************************************************)

WithAnswer == {"answered", "execute", "continue", "final"}

\* What the Provider conversation is at each point of a turn.
Conversation ==
    /\ pc \in {"top", "send"} => session.calls = 0 /\ session.tools \in {"none", snapshot}
    /\ pc = "wait" => session.calls = 0
    /\ pc \in WithAnswer \cup {"wait"} => session.tools = snapshot
    /\ pc \in {"send", "wait", "answered"} => snapshot = Surface
    /\ pc \in WithAnswer =>
        session.calls = IF action.kind = "invalid" THEN 0 ELSE action.calls

\* The shape of the answer in hand, and of the transaction it asks for.
InHand ==
    /\ pc \in WithAnswer =>
        /\ action.kind # "none"
        /\ action.calls >= 1
        /\ action.kind # "tool" => action.calls = 1
    /\ pc = "execute" => action.kind = "tool" /\ owed <= action.calls
    /\ pc = "final" => action.kind = "final"
    /\ pc = "answered" /\ action.late => Stopped
    /\ NoLateWork

\* The budget, with what has started and what a single call was admitted for.
Budget ==
    /\ ToolBudgetKept
    /\ pc = "execute" /\ action.calls = 1 /\ owed = 1 /\ started = 0 => tools < MaxTools

\* Only an open Run owes results, and in an ask only between turns' ends.
Settled ==
    /\ SettledBeforeTurn
    /\ InAsk => run = "open"
    /\ run # "open" => owed = 0

\* The counters at their limits, and the budget stop, imply the loop is leaving.
Limits ==
    /\ invalids = InvalidLimit => pc \in {"idle", "continue", "finish"}
    /\ pc = "continue" /\ invalids = InvalidLimit => stop # ""
    /\ blocks = BlockLimit => pc \in {"idle", "finish"}
    /\ stop = "tool_execution_limit" => pc \in {"idle", "execute", "continue", "finish"}
    /\ pc \in {"execute", "continue"} /\ stop = "tool_execution_limit" => snapshot = "final"
    /\ LastWordBeforeBudgetStop

IInv == TypeOK /\ Conversation /\ InHand /\ Budget /\ Settled /\ Limits

(****************************************************************************)
(* Facts about bounded numbers.  The steps below that count also speak of   *)
(* names; cited as lemmas, the two do not get in each other's way.          *)
(****************************************************************************)

\* Counting up to a limit that is not yet reached.
LEMMA CountUp ==
    ASSUME NEW n \in Nat, NEW i \in 0 .. n, i < n \/ i # n
    PROVE  i + 1 \in 0 .. n
OBVIOUS

\* Counting begins at zero.
LEMMA CountFrom == ASSUME NEW n \in Nat PROVE 0 \in 0 .. n
OBVIOUS

\* Nothing owed, nothing started.
LEMMA NothingStarted == ASSUME NEW i \in 0 .. 0 PROVE i = 0
OBVIOUS

\* Exhausted is the opposite of having something left.
LEMMA BelowLimit ==
    ASSUME NEW n \in Nat, NEW i \in Nat
    PROVE  i >= n <=> ~(i < n)
OBVIOUS

\* A conversation may owe nothing.
LEMMA NothingOwed ==
    ASSUME NEW n \in Nat
    PROVE  0 \in 0 .. n + 1
OBVIOUS

\* The numbers of a state, apart from its names.
LEMMA Numbers ==
    ASSUME TypeOK
    PROVE  /\ tools \in Nat /\ owed \in 0 .. MaxBatch + 1 /\ started \in 0 .. owed
           /\ invalids \in 0 .. InvalidLimit /\ blocks \in 0 .. BlockLimit
           /\ session.calls \in 0 .. MaxBatch + 1 /\ action.calls \in 0 .. MaxBatch + 1
BY DEF TypeOK, RunTyped, LoopTyped, TalkTyped

\* The empty conversation is one.
LEMMA NoSessionTyped ==
    NoSession \in [tools : Surfaces \cup {"none"}, calls : 0 .. MaxBatch + 1]
<1>1. 0 \in 0 .. MaxBatch + 1
  BY LimitsAssumption DEF LimitsAssumption
<1>2. QED
  BY <1>1 DEF NoSession

\* The Run's part of the type invariant: the starts never outnumber the owed calls.
LEMMA RunTypedKept ==
    ASSUME TypeOK, Settled, [Next]_vars
    PROVE  RunTyped'
<1> USE LimitsAssumption DEF LimitsAssumption
<1>1. CASE Reconcile
  <2>1. UNCHANGED <<run, reason>>
    BY <1>1 DEF Reconcile
  <2>2. /\ owed > 0 /\ owed' = owed - 1
        /\ started' = IF started > 0 THEN started - 1 ELSE 0
        /\ tools' = IF started > 0 THEN tools + 1 ELSE tools
    BY <1>1 DEF Reconcile
  <2>3. tools' \in Nat /\ owed' \in 0 .. MaxBatch + 1 /\ started' \in 0 .. owed'
    BY <2>2, Numbers
  <2>4. QED
    BY <2>1, <2>3 DEF TypeOK, RunTyped
<1>2. CASE HandleTool
  <2>1. UNCHANGED <<run, reason, tools>>
    BY <1>2 DEF HandleTool
  <2>2. \/ UNCHANGED <<owed, started>>
        \/ owed' = action.calls /\ started' = 0
    BY <1>2 DEF HandleTool
  <2>3. owed' \in 0 .. MaxBatch + 1 /\ started' \in 0 .. owed'
    BY <2>2, Numbers
  <2>4. QED
    BY <2>1, <2>3 DEF TypeOK, RunTyped
<1>3. CASE StartCall
  <2>1. UNCHANGED <<run, reason, tools, owed>> /\ started < owed /\ started' = started + 1
    BY <1>3 DEF StartCall
  <2>2. owed' \in 0 .. MaxBatch + 1 /\ started' \in 0 .. owed'
    BY <2>1, Numbers
  <2>3. QED
    BY <2>1, <2>2 DEF TypeOK, RunTyped
<1>4. CASE RejectCall
  <2>1. /\ UNCHANGED <<run, reason, tools, started>>
        /\ started = 0 /\ owed > 0 /\ owed' = owed - 1
    BY <1>4 DEF RejectCall
  <2>2. owed' \in 0 .. MaxBatch + 1 /\ started' \in 0 .. owed'
    BY <2>1, Numbers
  <2>3. QED
    BY <2>1, <2>2 DEF TypeOK, RunTyped
<1>5. CASE FinishCall
  <2>1. /\ UNCHANGED <<run, reason>> /\ tools' = tools + 1 /\ started = owed
        /\ owed > 0 /\ owed' = owed - 1 /\ started' = started - 1
    BY <1>5 DEF FinishCall
  <2>2. tools' \in Nat /\ owed' \in 0 .. MaxBatch + 1 /\ started' \in 0 .. owed'
    BY <2>1, Numbers
  <2>3. QED
    BY <2>1, <2>2 DEF TypeOK, RunTyped
<1>6. CASE Reset
  <2>1. /\ run' = "none" /\ owed' = 0 /\ started' = 0
        /\ tools' = tools + started /\ reason' \in {"user_reset", reason}
    BY <1>6 DEF Reset
  <2>2. tools' \in Nat /\ owed' \in 0 .. MaxBatch + 1 /\ started' \in 0 .. owed'
    BY <2>1, Numbers
  <2>3. QED
    BY <2>1, <2>2 DEF TypeOK, RunTyped, StopReasons, Requestable
<1> USE DEF TypeOK, RunTyped, Requestable, StopReasons, InAsk, LoopTyped, theRun,
         theLoop, talk, outside, vars
<1>7. CASE Begin
  BY <1>7 DEF Begin
<1>8. CASE StopAtTop
  BY <1>8 DEF StopAtTop
<1>9. CASE Prepare
  BY <1>9 DEF Prepare
<1>10. CASE Send
  BY <1>10 DEF Send
<1>11. CASE Answer
  BY <1>11 DEF Answer
<1>12. CASE Overflow
  BY <1>12 DEF Overflow
<1>13. CASE TurnFails
  BY <1>13 DEF TurnFails
<1>14. CASE RecoverOverflow
  BY <1>14 DEF RecoverOverflow
<1>15. CASE HandleFailure
  BY <1>15 DEF HandleFailure
<1>16. CASE StopAfterAnswer
  BY <1>16 DEF StopAfterAnswer
<1>17. CASE EndToolTurn
  BY <1>17 DEF EndToolTurn
<1>18. CASE HandleInvalid
  BY <1>18 DEF HandleInvalid
<1>19. CASE HandleFinal
  BY <1>19 DEF HandleFinal
<1>20. CASE Assess
  BY <1>20 DEF Assess
<1>21. CASE Continue
  BY <1>21 DEF Continue
<1>22. CASE FinishSuccess
  BY <1>22 DEF FinishSuccess
<1>23. CASE FinishStopped
  BY <1>23 DEF FinishStopped
<1>24. CASE Ask
  BY <1>24 DEF Ask
<1>25. CASE RequestStop
  BY <1>25 DEF RequestStop
<1>26. CASE Expire
  BY <1>26 DEF Expire
<1>27. CASE Raise
  BY <1>27 DEF Raise
<1>28. CASE UNCHANGED vars
  BY <1>28
<1>29. QED
  BY <1>1, <1>2, <1>3, <1>4, <1>5, <1>6, <1>7, <1>8, <1>9, <1>10, <1>11, <1>12,
     <1>13, <1>14, <1>15, <1>16, <1>17, <1>18, <1>19, <1>20, <1>21, <1>22, <1>23,
     <1>24, <1>25, <1>26, <1>27, <1>28
  DEF Next, Step

\* The loop's part: the counters stay within the limits they are compared with.
LEMMA LoopTypedKept ==
    ASSUME TypeOK, Limits, [Next]_vars
    PROVE  LoopTyped'
<1> USE LimitsAssumption DEF LimitsAssumption
<1>1. CASE HandleTool
  <2>1. UNCHANGED <<turns, retried, snapshot>>
    BY <1>1 DEF HandleTool
  <2>2. pc' \in {"finish", "execute"} /\ stop' \in {"tool_execution_limit", ""}
    BY <1>1 DEF HandleTool
  <2>3. \/ UNCHANGED <<invalids, blocks>>
        \/ invalids' = 0 /\ blocks' = 0
    BY <1>1 DEF HandleTool
  <2>4. invalids' \in 0 .. InvalidLimit /\ blocks' \in 0 .. BlockLimit
    BY <2>3, Numbers
  <2>5. QED
    BY <2>1, <2>2, <2>4 DEF TypeOK, LoopTyped, PCs, StopReasons
<1>2. CASE HandleInvalid
  <2>1. invalids # InvalidLimit
    BY <1>2 DEF HandleInvalid, Accepted, Limits
  <2>2. /\ UNCHANGED <<turns, blocks, retried, snapshot>>
        /\ pc' = "continue" /\ stop' \in {"invalid_output_limit", ""}
    BY <1>2 DEF HandleInvalid
  <2>3. invalids' = invalids + 1
    BY <1>2 DEF HandleInvalid
  <2>4. invalids' \in 0 .. InvalidLimit
    BY <2>1, <2>3, Numbers
  <2>5. QED
    BY <2>2, <2>4 DEF TypeOK, LoopTyped, PCs, StopReasons
<1>3. CASE Assess
  <2>1. blocks # BlockLimit
    BY <1>3 DEF Assess, Limits
  <2>2. UNCHANGED <<turns, invalids, retried, snapshot>>
    BY <1>3 DEF Assess
  <2>3. /\ pc' \in {"success", "finish", "continue"}
        /\ stop' \in {stop, "completion_block_limit", ""}
    BY <1>3 DEF Assess
  <2>4. blocks' = blocks \/ blocks' = blocks + 1
    BY <1>3 DEF Assess
  <2>5. blocks' \in 0 .. BlockLimit
    BY <2>1, <2>4, Numbers
  <2>6. QED
    BY <2>2, <2>3, <2>5 DEF TypeOK, LoopTyped, PCs, StopReasons
<1> USE DEF TypeOK, LoopTyped, OutsideTyped, PCs, Surfaces, Requestable, StopReasons,
         InAsk, Stopped, StopReason, Exhausted, Surface, Accepted, theRun, theLoop,
         talk, outside, vars
<1>4. CASE Reconcile
  BY <1>4 DEF Reconcile
<1>5. CASE Begin
  BY <1>5 DEF Begin
<1>6. CASE StopAtTop
  BY <1>6 DEF StopAtTop
<1>7. CASE Prepare
  BY <1>7, CountUp DEF Prepare
<1>8. CASE Send
  BY <1>8 DEF Send
<1>9. CASE Answer
  BY <1>9 DEF Answer
<1>10. CASE Overflow
  BY <1>10 DEF Overflow
<1>11. CASE TurnFails
  BY <1>11 DEF TurnFails
<1>12. CASE RecoverOverflow
  BY <1>12 DEF RecoverOverflow
<1>13. CASE HandleFailure
  BY <1>13 DEF HandleFailure
<1>14. CASE StopAfterAnswer
  BY <1>14 DEF StopAfterAnswer
<1>15. CASE StartCall
  BY <1>15 DEF StartCall
<1>16. CASE RejectCall
  BY <1>16 DEF RejectCall
<1>17. CASE FinishCall
  BY <1>17 DEF FinishCall
<1>18. CASE EndToolTurn
  BY <1>18 DEF EndToolTurn
<1>19. CASE HandleFinal
  BY <1>19 DEF HandleFinal
<1>20. CASE Continue
  BY <1>20 DEF Continue
<1>21. CASE FinishSuccess
  BY <1>21 DEF FinishSuccess
<1>22. CASE FinishStopped
  BY <1>22 DEF FinishStopped
<1>23. CASE Ask
  BY <1>23, CountFrom DEF Ask
<1>24. CASE RequestStop
  BY <1>24 DEF RequestStop
<1>25. CASE Expire
  BY <1>25 DEF Expire
<1>26. CASE Raise
  BY <1>26 DEF Raise
<1>27. CASE Reset
  BY <1>27 DEF Reset
<1>28. CASE UNCHANGED vars
  BY <1>28
<1>29. QED
  BY <1>1, <1>2, <1>3, <1>4, <1>5, <1>6, <1>7, <1>8, <1>9, <1>10, <1>11, <1>12,
     <1>13, <1>14, <1>15, <1>16, <1>17, <1>18, <1>19, <1>20, <1>21, <1>22, <1>23,
     <1>24, <1>25, <1>26, <1>27, <1>28
  DEF Next, Step

\* The conversation's part.
LEMMA TalkTypedKept ==
    ASSUME TypeOK, [Next]_vars
    PROVE  TalkTyped'
<1> USE LimitsAssumption DEF LimitsAssumption
<1>1. CASE Send
  <2>1. action' = action /\ session' \in {session, [session EXCEPT !.tools = snapshot]}
    BY <1>1 DEF Send
  <2>2. snapshot \in Surfaces \cup {"none"}
    BY DEF TypeOK, LoopTyped
  <2>3. QED
    BY <2>1, <2>2 DEF TypeOK, TalkTyped
<1>2. CASE Answer
  <2>1. PICK kind \in {"tool", "invalid", "final"}, n \in 1 .. MaxBatch + 1, high \in BOOLEAN :
            /\ action' = [kind |-> kind, calls |-> n, high |-> high, late |-> Stopped]
            /\ session' = [session EXCEPT !.calls = IF kind = "invalid" THEN 0 ELSE n]
    BY <1>2 DEF Answer
  <2> DEFINE m == IF kind = "invalid" THEN 0 ELSE n
  <2>2. n \in 0 .. MaxBatch + 1 /\ m \in 0 .. MaxBatch + 1
    OBVIOUS
  <2>3. Stopped \in BOOLEAN
    BY DEF Stopped, TypeOK, OutsideTyped
  <2>4. session' = [session EXCEPT !.calls = m]
    BY <2>1
  <2> HIDE DEF m
  <2>5. QED
    BY <2>1, <2>2, <2>3, <2>4 DEF TypeOK, TalkTyped
<1>3. CASE RecoverOverflow
  <2>1. action' = action /\ session' \in {session, NoSession}
    BY <1>3 DEF RecoverOverflow
  <2>2. QED
    BY <2>1, NoSessionTyped DEF TypeOK, TalkTyped
<1>4. CASE Continue
  <2>1. action' = action /\ session' \in {session, NoSession, [session EXCEPT !.calls = 0]}
    BY <1>4 DEF Continue
  <2>2. 0 \in 0 .. MaxBatch + 1
    OBVIOUS
  <2>3. QED
    BY <2>1, <2>2, NoSessionTyped DEF TypeOK, TalkTyped
<1> USE DEF TypeOK, TalkTyped, Surfaces, NoSession, NoAction, LoopTyped, theRun,
         theLoop, talk, outside, vars
<1>5. CASE Reconcile
  BY <1>5 DEF Reconcile
<1>6. CASE Begin
  BY <1>6, NothingOwed DEF Begin
<1>7. CASE StopAtTop
  BY <1>7 DEF StopAtTop
<1>8. CASE Prepare
  BY <1>8, NothingOwed DEF Prepare
<1>9. CASE Overflow
  BY <1>9 DEF Overflow
<1>10. CASE TurnFails
  BY <1>10 DEF TurnFails
<1>11. CASE HandleFailure
  BY <1>11 DEF HandleFailure
<1>12. CASE StopAfterAnswer
  BY <1>12 DEF StopAfterAnswer
<1>13. CASE HandleTool
  BY <1>13 DEF HandleTool
<1>14. CASE StartCall
  BY <1>14 DEF StartCall
<1>15. CASE RejectCall
  BY <1>15 DEF RejectCall
<1>16. CASE FinishCall
  BY <1>16 DEF FinishCall
<1>17. CASE EndToolTurn
  BY <1>17 DEF EndToolTurn
<1>18. CASE HandleInvalid
  BY <1>18 DEF HandleInvalid
<1>19. CASE HandleFinal
  BY <1>19 DEF HandleFinal
<1>20. CASE Assess
  BY <1>20 DEF Assess
<1>21. CASE FinishSuccess
  BY <1>21 DEF FinishSuccess
<1>22. CASE FinishStopped
  BY <1>22, NothingOwed DEF FinishStopped
<1>23. CASE Ask
  BY <1>23, NothingOwed DEF Ask
<1>24. CASE RequestStop
  BY <1>24 DEF RequestStop
<1>25. CASE Expire
  BY <1>25 DEF Expire
<1>26. CASE Raise
  BY <1>26 DEF Raise
<1>27. CASE Reset
  BY <1>27, NothingOwed DEF Reset
<1>28. CASE UNCHANGED vars
  BY <1>28
<1>29. QED
  BY <1>1, <1>2, <1>3, <1>4, <1>5, <1>6, <1>7, <1>8, <1>9, <1>10, <1>11, <1>12,
     <1>13, <1>14, <1>15, <1>16, <1>17, <1>18, <1>19, <1>20, <1>21, <1>22, <1>23,
     <1>24, <1>25, <1>26, <1>27, <1>28
  DEF Next, Step

\* The part of the requests from outside.
LEMMA OutsideTypedKept ==
    ASSUME TypeOK, [Next]_vars
    PROVE  OutsideTyped'
<1> USE LimitsAssumption DEF LimitsAssumption
<1> USE DEF TypeOK, OutsideTyped, Requestable, InAsk, theRun, theLoop, talk, outside,
         vars
<1>1. CASE Reconcile
  BY <1>1 DEF Reconcile
<1>2. CASE Begin
  BY <1>2 DEF Begin
<1>3. CASE StopAtTop
  BY <1>3 DEF StopAtTop
<1>4. CASE Prepare
  BY <1>4 DEF Prepare
<1>5. CASE Send
  BY <1>5 DEF Send
<1>6. CASE Answer
  BY <1>6 DEF Answer
<1>7. CASE Overflow
  BY <1>7 DEF Overflow
<1>8. CASE TurnFails
  BY <1>8 DEF TurnFails
<1>9. CASE RecoverOverflow
  BY <1>9 DEF RecoverOverflow
<1>10. CASE HandleFailure
  BY <1>10 DEF HandleFailure
<1>11. CASE StopAfterAnswer
  BY <1>11 DEF StopAfterAnswer
<1>12. CASE HandleTool
  BY <1>12 DEF HandleTool
<1>13. CASE StartCall
  BY <1>13 DEF StartCall
<1>14. CASE RejectCall
  BY <1>14 DEF RejectCall
<1>15. CASE FinishCall
  BY <1>15 DEF FinishCall
<1>16. CASE EndToolTurn
  BY <1>16 DEF EndToolTurn
<1>17. CASE HandleInvalid
  BY <1>17 DEF HandleInvalid
<1>18. CASE HandleFinal
  BY <1>18 DEF HandleFinal
<1>19. CASE Assess
  BY <1>19 DEF Assess
<1>20. CASE Continue
  BY <1>20 DEF Continue
<1>21. CASE FinishSuccess
  BY <1>21 DEF FinishSuccess
<1>22. CASE FinishStopped
  BY <1>22 DEF FinishStopped
<1>23. CASE Ask
  BY <1>23 DEF Ask
<1>24. CASE RequestStop
  BY <1>24 DEF RequestStop
<1>25. CASE Expire
  BY <1>25 DEF Expire
<1>26. CASE Raise
  BY <1>26, CountUp DEF Raise
<1>27. CASE Reset
  BY <1>27 DEF Reset
<1>28. CASE UNCHANGED vars
  BY <1>28
<1>29. QED
  BY <1>1, <1>2, <1>3, <1>4, <1>5, <1>6, <1>7, <1>8, <1>9, <1>10, <1>11, <1>12,
     <1>13, <1>14, <1>15, <1>16, <1>17, <1>18, <1>19, <1>20, <1>21, <1>22, <1>23,
     <1>24, <1>25, <1>26, <1>27, <1>28
  DEF Next, Step

\* Every request finds its conversation answered and on the surface it began with.
LEMMA ConversationKept ==
    ASSUME TypeOK, Conversation, InHand, [Next]_vars
    PROVE  Conversation'
<1> USE LimitsAssumption DEF LimitsAssumption
<1>1. CASE Send
  <2>1. pc = "send" /\ pc' \in {"failed", "wait"} /\ UNCHANGED <<snapshot, tools>>
    BY <1>1 DEF Send, theRun, theLoop
  <2>2. pc' = "wait" =>
            session' = IF session.tools = "none" THEN [session EXCEPT !.tools = snapshot]
                       ELSE session
    BY <1>1 DEF Send
  <2>3. /\ session.calls = 0 /\ session.tools \in {"none", snapshot}
        /\ snapshot = Surface
    BY <2>1 DEF Conversation
  <2>4. LET begun == [session EXCEPT !.tools = snapshot]
        IN  begun.calls = session.calls /\ begun.tools = snapshot
    BY DEF TypeOK, TalkTyped
  <2>5. pc' = "wait" => session'.calls = 0 /\ session'.tools = snapshot
    BY <2>2, <2>3, <2>4
  <2>6. snapshot' = Surface'
    BY <2>1, <2>3 DEF Surface, Exhausted
  <2>7. QED
    BY <2>1, <2>5, <2>6 DEF Conversation, WithAnswer
<1>2. CASE Answer
  <2>1. PICK kind \in {"tool", "invalid", "final"}, n \in 1 .. MaxBatch + 1, high \in BOOLEAN :
            /\ action' = [kind |-> kind, calls |-> n, high |-> high, late |-> Stopped]
            /\ session' = [session EXCEPT !.calls = IF kind = "invalid" THEN 0 ELSE n]
    BY <1>2 DEF Answer
  <2>2. action'.kind = kind /\ action'.calls = n
    BY <2>1
  <2>3. /\ session'.calls = IF kind = "invalid" THEN 0 ELSE n
        /\ session'.tools = session.tools
    BY <2>1 DEF TypeOK, TalkTyped
  <2>4. session.tools = snapshot /\ snapshot = Surface
    BY <1>2 DEF Answer, Conversation
  <2>5. pc' = "answered" /\ snapshot' = snapshot /\ Surface' = Surface
    BY <1>2 DEF Answer, Surface, Exhausted, theRun
  <2>6. QED
    BY <2>2, <2>3, <2>4, <2>5 DEF Conversation, WithAnswer
<1>3. CASE RecoverOverflow
  <2>1. \/ pc' = "idle"
        \/ pc' = "top" /\ session' = NoSession
    BY <1>3 DEF RecoverOverflow
  <2>2. NoSession.calls = 0 /\ NoSession.tools = "none"
    BY DEF NoSession
  <2>3. QED
    BY <2>1, <2>2 DEF Conversation, WithAnswer
<1>4. CASE Continue
  <2>1. pc' \in {"idle", "top", "finish"}
    BY <1>4 DEF Continue
  <2>2. pc' = "idle" \/ session' = NoSession
            \/ (session' = [session EXCEPT !.calls = 0] /\ snapshot' = snapshot)
    BY <1>4 DEF Continue
  <2>3. NoSession.calls = 0 /\ NoSession.tools = "none"
    BY DEF NoSession
  <2>4. LET after == [session EXCEPT !.calls = 0]
        IN  after.calls = 0 /\ after.tools = session.tools
    BY DEF TypeOK, TalkTyped
  <2>5. session.tools = snapshot
    BY <1>4 DEF Continue, Conversation, WithAnswer
  <2>6. QED
    BY <2>1, <2>2, <2>3, <2>4, <2>5 DEF Conversation, WithAnswer
<1> USE DEF TypeOK, Conversation, InHand, RunTyped, LoopTyped, TalkTyped, NoSession,
         Exhausted, Surface, Surfaces, InAsk, Accepted, Results, Recordable, WithAnswer,
         theRun, theLoop, talk, outside, vars
<1>5. CASE Reconcile
  BY <1>5 DEF Reconcile
<1>6. CASE Begin
  BY <1>6 DEF Begin
<1>7. CASE StopAtTop
  BY <1>7 DEF StopAtTop
<1>8. CASE Prepare
  BY <1>8 DEF Prepare
<1>9. CASE Overflow
  BY <1>9 DEF Overflow
<1>10. CASE TurnFails
  BY <1>10 DEF TurnFails
<1>11. CASE HandleFailure
  BY <1>11 DEF HandleFailure
<1>12. CASE StopAfterAnswer
  BY <1>12 DEF StopAfterAnswer
<1>13. CASE HandleTool
  BY <1>13 DEF HandleTool
<1>14. CASE StartCall
  BY <1>14 DEF StartCall
<1>15. CASE RejectCall
  BY <1>15 DEF RejectCall
<1>16. CASE FinishCall
  BY <1>16 DEF FinishCall
<1>17. CASE EndToolTurn
  BY <1>17 DEF EndToolTurn
<1>18. CASE HandleInvalid
  BY <1>18 DEF HandleInvalid
<1>19. CASE HandleFinal
  BY <1>19 DEF HandleFinal
<1>20. CASE Assess
  BY <1>20 DEF Assess
<1>21. CASE FinishSuccess
  BY <1>21 DEF FinishSuccess
<1>22. CASE FinishStopped
  BY <1>22 DEF FinishStopped
<1>23. CASE Ask
  BY <1>23 DEF Ask
<1>24. CASE RequestStop
  BY <1>24 DEF RequestStop
<1>25. CASE Expire
  BY <1>25 DEF Expire
<1>26. CASE Raise
  BY <1>26 DEF Raise
<1>27. CASE Reset
  BY <1>27 DEF Reset
<1>28. CASE UNCHANGED vars
  BY <1>28
<1>29. QED
  BY <1>1, <1>2, <1>3, <1>4, <1>5, <1>6, <1>7, <1>8, <1>9, <1>10, <1>11, <1>12,
     <1>13, <1>14, <1>15, <1>16, <1>17, <1>18, <1>19, <1>20, <1>21, <1>22, <1>23,
     <1>24, <1>25, <1>26, <1>27, <1>28
  DEF Next, Step

\* The answer in hand keeps its shape, and a late one is not acted upon.
LEMMA InHandKept ==
    ASSUME TypeOK, InHand, Settled, [Next]_vars
    PROVE  InHand'
<1> USE LimitsAssumption DEF LimitsAssumption
<1>1. CASE Answer
  <2>1. PICK kind \in {"tool", "invalid", "final"}, n \in 1 .. MaxBatch + 1, high \in BOOLEAN :
            /\ kind # "tool" => n = 1
            /\ action' = [kind |-> kind, calls |-> n, high |-> high, late |-> Stopped]
    BY <1>1 DEF Answer
  <2>2. action'.kind = kind /\ action'.calls = n /\ action'.late = Stopped
    BY <2>1
  <2>3. pc' = "answered" /\ Stopped' = Stopped
    BY <1>1 DEF Answer, outside, Stopped
  <2>4. n >= 1
    OBVIOUS
  <2>5. QED
    BY <2>1, <2>2, <2>3, <2>4 DEF InHand, NoLateWork, WithAnswer
<1>2. CASE HandleTool
  <2>1. /\ action' = action /\ pc' \in {"finish", "execute"}
        /\ pc' = "execute" => owed' = action.calls
    BY <1>2 DEF HandleTool, talk
  <2>2. action.calls <= action.calls
    BY Numbers
  <2>3. action.kind = "tool" /\ action.calls >= 1 /\ ~action.late
    BY <1>2 DEF HandleTool, Accepted, InHand, WithAnswer
  <2>4. QED
    BY <2>1, <2>2, <2>3 DEF InHand, NoLateWork, WithAnswer
<1>3. CASE RejectCall
  <2>1. action' = action /\ pc = "execute" /\ pc' = pc /\ owed' = owed - 1
    BY <1>3 DEF RejectCall, talk
  <2>2. owed <= action.calls
    BY <2>1 DEF InHand
  <2>3. owed - 1 <= action.calls
    BY <2>2, Numbers
  <2>4. QED
    BY <2>1, <2>3 DEF InHand, NoLateWork, WithAnswer
<1>4. CASE FinishCall
  <2>1. action' = action /\ pc = "execute" /\ pc' = pc /\ owed' = owed - 1
    BY <1>4 DEF FinishCall, talk
  <2>2. owed <= action.calls
    BY <2>1 DEF InHand
  <2>3. owed - 1 <= action.calls
    BY <2>2, Numbers
  <2>4. QED
    BY <2>1, <2>3 DEF InHand, NoLateWork, WithAnswer
<1> USE DEF TypeOK, InHand, Settled, RunTyped, LoopTyped, TalkTyped, OutsideTyped,
         NoLateWork, SettledBeforeTurn, InAsk, Stopped, StopReason, Exhausted, Accepted,
         Admitted, WithAnswer, NoAction, theRun, theLoop, talk, outside, vars
<1>5. CASE Reconcile
  BY <1>5 DEF Reconcile
<1>6. CASE Begin
  BY <1>6 DEF Begin
<1>7. CASE StopAtTop
  BY <1>7 DEF StopAtTop
<1>8. CASE Prepare
  BY <1>8 DEF Prepare
<1>9. CASE Send
  BY <1>9 DEF Send
<1>10. CASE Overflow
  BY <1>10 DEF Overflow
<1>11. CASE TurnFails
  BY <1>11 DEF TurnFails
<1>12. CASE RecoverOverflow
  BY <1>12 DEF RecoverOverflow
<1>13. CASE HandleFailure
  BY <1>13 DEF HandleFailure
<1>14. CASE StopAfterAnswer
  BY <1>14 DEF StopAfterAnswer
<1>15. CASE StartCall
  BY <1>15 DEF StartCall
<1>16. CASE EndToolTurn
  BY <1>16 DEF EndToolTurn
<1>17. CASE HandleInvalid
  BY <1>17 DEF HandleInvalid
<1>18. CASE HandleFinal
  BY <1>18 DEF HandleFinal
<1>19. CASE Assess
  BY <1>19 DEF Assess
<1>20. CASE Continue
  BY <1>20 DEF Continue
<1>21. CASE FinishSuccess
  BY <1>21 DEF FinishSuccess
<1>22. CASE FinishStopped
  BY <1>22 DEF FinishStopped
<1>23. CASE Ask
  BY <1>23 DEF Ask
<1>24. CASE RequestStop
  BY <1>24 DEF RequestStop
<1>25. CASE Expire
  BY <1>25 DEF Expire
<1>26. CASE Raise
  BY <1>26 DEF Raise
<1>27. CASE Reset
  BY <1>27 DEF Reset
<1>28. CASE UNCHANGED vars
  BY <1>28
<1>29. QED
  BY <1>1, <1>2, <1>3, <1>4, <1>5, <1>6, <1>7, <1>8, <1>9, <1>10, <1>11, <1>12,
     <1>13, <1>14, <1>15, <1>16, <1>17, <1>18, <1>19, <1>20, <1>21, <1>22, <1>23,
     <1>24, <1>25, <1>26, <1>27, <1>28
  DEF Next, Step

\* What has started always fits in what is left of the tool budget.
LEMMA BudgetKept ==
    ASSUME TypeOK, Budget, InHand, Settled, [Next]_vars
    PROVE  Budget'
<1> USE LimitsAssumption DEF LimitsAssumption
<1>1. CASE Reconcile
  <2>1. /\ pc' = "init"
        /\ started' = IF started > 0 THEN started - 1 ELSE 0
        /\ tools' = IF started > 0 THEN tools + 1 ELSE tools
    BY <1>1 DEF Reconcile
  <2>2. tools + started <= MaxTools
    BY DEF Budget, ToolBudgetKept
  <2>3. tools' + started' <= MaxTools
    BY <2>1, <2>2, Numbers
  <2>4. QED
    BY <2>1, <2>3 DEF Budget, ToolBudgetKept
<1>2. CASE StartCall
  <2>1. /\ pc = "execute" /\ Admitted
        /\ owed = action.calls /\ started < owed
        /\ tools' = tools /\ started' = started + 1
    BY <1>2 DEF StartCall
  <2>2. tools + (started + 1) <= MaxTools
    <3>1. CASE action.calls = 1
      <4>1. owed = 1 /\ started = 0
        BY <2>1, <3>1, Numbers
      <4>2. tools < MaxTools
        BY <2>1, <3>1, <4>1 DEF Budget
      <4>3. QED
        BY <4>1, <4>2, Numbers
    <3>2. CASE tools + action.calls <= MaxTools
      BY <2>1, <3>2, Numbers
    <3>3. QED
      BY <2>1, <3>1, <3>2 DEF Admitted
  <2>3. started + 1 # 0
    BY Numbers
  <2>4. QED
    BY <2>1, <2>2, <2>3 DEF Budget, ToolBudgetKept
<1>3. CASE RejectCall
  <2>1. /\ pc = "execute" /\ owed' = owed - 1
        /\ UNCHANGED <<tools, started, action>>
    BY <1>3 DEF RejectCall, talk
  <2>2. owed <= action.calls
    BY <2>1 DEF InHand
  <2>3. ~(action.calls = 1 /\ owed - 1 = 1)
    BY <2>2, Numbers
  <2>4. QED
    BY <2>1, <2>3 DEF Budget, ToolBudgetKept
<1>4. CASE FinishCall
  <2>1. /\ started = owed /\ owed > 0
        /\ owed' = owed - 1 /\ started' = started - 1 /\ tools' = tools + 1
    BY <1>4 DEF FinishCall
  <2>2. tools + started <= MaxTools
    BY DEF Budget, ToolBudgetKept
  <2>3. tools' + started' <= MaxTools /\ ~(owed' = 1 /\ started' = 0)
    BY <2>1, <2>2, Numbers
  <2>4. QED
    BY <2>3 DEF Budget, ToolBudgetKept
<1>5. CASE Ask
  <2>1. /\ pc' = "init" /\ started' = started
        /\ tools' = IF run = "open" THEN tools ELSE 0
    BY <1>5 DEF Ask
  <2>2. tools + started <= MaxTools
    BY DEF Budget, ToolBudgetKept
  <2>3. 0 + started <= MaxTools
    BY <2>2, Numbers
  <2>4. QED
    BY <2>1, <2>2, <2>3 DEF Budget, ToolBudgetKept
<1>6. CASE Reset
  <2>1. pc' = "idle" /\ started' = 0 /\ tools' = tools + started
    BY <1>6 DEF Reset
  <2>2. tools + started <= MaxTools
    BY DEF Budget, ToolBudgetKept
  <2>3. tools' + started' <= MaxTools
    BY <2>1, <2>2, Numbers
  <2>4. QED
    BY <2>1, <2>3 DEF Budget, ToolBudgetKept
<1> USE DEF TypeOK, Budget, InHand, Settled, RunTyped, ToolBudgetKept, InAsk, Exhausted,
         Accepted, Admitted, WithAnswer, SettledBeforeTurn, theRun, theLoop, talk,
         outside, vars
<1>7. CASE Begin
  BY <1>7 DEF Begin
<1>8. CASE StopAtTop
  BY <1>8 DEF StopAtTop
<1>9. CASE Prepare
  BY <1>9 DEF Prepare
<1>10. CASE Send
  BY <1>10 DEF Send
<1>11. CASE Answer
  BY <1>11 DEF Answer
<1>12. CASE Overflow
  BY <1>12 DEF Overflow
<1>13. CASE TurnFails
  BY <1>13 DEF TurnFails
<1>14. CASE RecoverOverflow
  BY <1>14 DEF RecoverOverflow
<1>15. CASE HandleFailure
  BY <1>15 DEF HandleFailure
<1>16. CASE StopAfterAnswer
  BY <1>16 DEF StopAfterAnswer
<1>17. CASE HandleTool
  BY <1>17, BelowLimit DEF HandleTool
<1>18. CASE EndToolTurn
  BY <1>18 DEF EndToolTurn
<1>19. CASE HandleInvalid
  BY <1>19 DEF HandleInvalid
<1>20. CASE HandleFinal
  BY <1>20 DEF HandleFinal
<1>21. CASE Assess
  BY <1>21 DEF Assess
<1>22. CASE Continue
  BY <1>22 DEF Continue
<1>23. CASE FinishSuccess
  BY <1>23 DEF FinishSuccess
<1>24. CASE FinishStopped
  BY <1>24 DEF FinishStopped
<1>25. CASE RequestStop
  BY <1>25 DEF RequestStop
<1>26. CASE Expire
  BY <1>26 DEF Expire
<1>27. CASE Raise
  BY <1>27 DEF Raise
<1>28. CASE UNCHANGED vars
  BY <1>28
<1>29. QED
  BY <1>1, <1>2, <1>3, <1>4, <1>5, <1>6, <1>7, <1>8, <1>9, <1>10, <1>11, <1>12,
     <1>13, <1>14, <1>15, <1>16, <1>17, <1>18, <1>19, <1>20, <1>21, <1>22, <1>23,
     <1>24, <1>25, <1>26, <1>27, <1>28
  DEF Next, Step

\* Calls are owed results only while they are executed or recovered.
LEMMA SettledKept ==
    ASSUME TypeOK, Settled, [Next]_vars
    PROVE  Settled'
<1> USE LimitsAssumption DEF LimitsAssumption
<1> USE DEF TypeOK, Settled, RunTyped, LoopTyped, SettledBeforeTurn, InAsk, Exhausted,
         Accepted, theRun, theLoop, talk, outside, vars
<1>1. CASE Reconcile
  BY <1>1 DEF Reconcile
<1>2. CASE Begin
  BY <1>2, NothingStarted DEF Begin
<1>3. CASE StopAtTop
  BY <1>3 DEF StopAtTop
<1>4. CASE Prepare
  BY <1>4 DEF Prepare
<1>5. CASE Send
  BY <1>5 DEF Send
<1>6. CASE Answer
  BY <1>6 DEF Answer
<1>7. CASE Overflow
  BY <1>7 DEF Overflow
<1>8. CASE TurnFails
  BY <1>8 DEF TurnFails
<1>9. CASE RecoverOverflow
  BY <1>9 DEF RecoverOverflow
<1>10. CASE HandleFailure
  BY <1>10 DEF HandleFailure
<1>11. CASE StopAfterAnswer
  BY <1>11 DEF StopAfterAnswer
<1>12. CASE HandleTool
  BY <1>12 DEF HandleTool
<1>13. CASE StartCall
  BY <1>13 DEF StartCall
<1>14. CASE RejectCall
  BY <1>14 DEF RejectCall
<1>15. CASE FinishCall
  BY <1>15 DEF FinishCall
<1>16. CASE EndToolTurn
  BY <1>16, NothingStarted DEF EndToolTurn
<1>17. CASE HandleInvalid
  BY <1>17 DEF HandleInvalid
<1>18. CASE HandleFinal
  BY <1>18 DEF HandleFinal
<1>19. CASE Assess
  BY <1>19 DEF Assess
<1>20. CASE Continue
  BY <1>20 DEF Continue
<1>21. CASE FinishSuccess
  BY <1>21 DEF FinishSuccess
<1>22. CASE FinishStopped
  BY <1>22 DEF FinishStopped
<1>23. CASE Ask
  BY <1>23 DEF Ask
<1>24. CASE RequestStop
  BY <1>24 DEF RequestStop
<1>25. CASE Expire
  BY <1>25 DEF Expire
<1>26. CASE Raise
  BY <1>26 DEF Raise
<1>27. CASE Reset
  BY <1>27 DEF Reset
<1>28. CASE UNCHANGED vars
  BY <1>28
<1>29. QED
  BY <1>1, <1>2, <1>3, <1>4, <1>5, <1>6, <1>7, <1>8, <1>9, <1>10, <1>11, <1>12,
     <1>13, <1>14, <1>15, <1>16, <1>17, <1>18, <1>19, <1>20, <1>21, <1>22, <1>23,
     <1>24, <1>25, <1>26, <1>27, <1>28
  DEF Next, Step

\* A counter at its limit, or an exhausted budget met again, is on its way out.
LEMMA LimitsKept ==
    ASSUME TypeOK, Limits, Conversation, Settled, [Next]_vars
    PROVE  Limits'
<1> USE LimitsAssumption DEF LimitsAssumption
<1>1. CASE HandleInvalid
  <2>1. /\ pc = "answered" /\ pc' = "continue" /\ blocks' = blocks
        /\ stop' = IF invalids' >= InvalidLimit THEN "invalid_output_limit" ELSE ""
    BY <1>1 DEF HandleInvalid, Accepted
  <2>2. blocks # BlockLimit
    BY <2>1 DEF Limits
  <2>3. invalids' = InvalidLimit => stop' # ""
    <3>1. InvalidLimit >= InvalidLimit
      OBVIOUS
    <3>2. QED
      BY <2>1, <3>1
  <2>4. stop' # "tool_execution_limit"
    BY <2>1
  <2>5. QED
    BY <2>1, <2>2, <2>3, <2>4 DEF Limits, LastWordBeforeBudgetStop
<1>2. CASE Assess
  <2>1. pc = "final" /\ UNCHANGED <<invalids, snapshot>>
    BY <1>2 DEF Assess
  <2>2. invalids # InvalidLimit /\ blocks # BlockLimit /\ stop # "tool_execution_limit"
    BY <2>1 DEF Limits
  <2>3. \/ pc' = "success" /\ UNCHANGED <<blocks, stop>>
        \/ blocks' = blocks + 1 /\ pc' = "finish" /\ stop' = "completion_block_limit"
        \/ blocks' = blocks + 1 /\ ~(blocks' >= BlockLimit) /\ pc' = "continue" /\ stop' = ""
    BY <1>2 DEF Assess
  <2>4. blocks' = blocks + 1 /\ ~(blocks' >= BlockLimit) => blocks' # BlockLimit
    BY Numbers
  <2>5. QED
    BY <2>1, <2>2, <2>3, <2>4 DEF Limits, LastWordBeforeBudgetStop
<1> USE DEF TypeOK, Limits, Conversation, RunTyped, LoopTyped, TalkTyped,
         LastWordBeforeBudgetStop, Requestable, InAsk, Stopped, StopReason,
         OutsideTyped, Exhausted, Surface, Accepted, Recordable, WithAnswer, theRun,
         theLoop, talk, outside, vars
<1>3. CASE Reconcile
  BY <1>3 DEF Reconcile
<1>4. CASE Begin
  BY <1>4 DEF Begin
<1>5. CASE StopAtTop
  BY <1>5 DEF StopAtTop
<1>6. CASE Prepare
  BY <1>6 DEF Prepare
<1>7. CASE Send
  BY <1>7 DEF Send
<1>8. CASE Answer
  BY <1>8 DEF Answer
<1>9. CASE Overflow
  BY <1>9 DEF Overflow
<1>10. CASE TurnFails
  BY <1>10 DEF TurnFails
<1>11. CASE RecoverOverflow
  BY <1>11 DEF RecoverOverflow
<1>12. CASE HandleFailure
  BY <1>12 DEF HandleFailure
<1>13. CASE StopAfterAnswer
  BY <1>13 DEF StopAfterAnswer
<1>14. CASE HandleTool
  BY <1>14 DEF HandleTool
<1>15. CASE StartCall
  BY <1>15 DEF StartCall
<1>16. CASE RejectCall
  BY <1>16 DEF RejectCall
<1>17. CASE FinishCall
  BY <1>17 DEF FinishCall
<1>18. CASE EndToolTurn
  BY <1>18 DEF EndToolTurn
<1>19. CASE HandleFinal
  BY <1>19 DEF HandleFinal
<1>20. CASE Continue
  BY <1>20 DEF Continue
<1>21. CASE FinishSuccess
  BY <1>21 DEF FinishSuccess
<1>22. CASE FinishStopped
  BY <1>22 DEF FinishStopped
<1>23. CASE Ask
  BY <1>23 DEF Ask
<1>24. CASE RequestStop
  BY <1>24 DEF RequestStop
<1>25. CASE Expire
  BY <1>25 DEF Expire
<1>26. CASE Raise
  BY <1>26 DEF Raise
<1>27. CASE Reset
  BY <1>27 DEF Reset
<1>28. CASE UNCHANGED vars
  BY <1>28
<1>29. QED
  BY <1>1, <1>2, <1>3, <1>4, <1>5, <1>6, <1>7, <1>8, <1>9, <1>10, <1>11, <1>12,
     <1>13, <1>14, <1>15, <1>16, <1>17, <1>18, <1>19, <1>20, <1>21, <1>22, <1>23,
     <1>24, <1>25, <1>26, <1>27, <1>28
  DEF Next, Step

\* An ask begins between Runs, with everything empty.
LEMMA InitOK == Init => IInv
<1> SUFFICES ASSUME Init PROVE IInv
  OBVIOUS
<1>1. TypeOK
  <2>1. /\ 0 \in Nat /\ 0 \in 0 .. 0 /\ 0 \in 0 .. MaxBatch + 1
        /\ 0 \in 0 .. MaxTurns /\ 0 \in 0 .. InvalidLimit /\ 0 \in 0 .. BlockLimit
        /\ 0 \in 0 .. MaxRaises
    BY LimitsAssumption DEF LimitsAssumption
  <2>2. RunTyped
    BY <2>1 DEF Init, RunTyped
  <2>3. LoopTyped
    BY <2>1 DEF Init, LoopTyped, PCs
  <2>4. TalkTyped
    BY <2>1 DEF Init, TalkTyped, NoSession, NoAction
  <2>5. OutsideTyped
    BY <2>1 DEF Init, OutsideTyped
  <2>6. QED
    BY <2>2, <2>3, <2>4, <2>5 DEF TypeOK
<1>2. Conversation /\ InHand
  BY DEF Init, Conversation, InHand, NoLateWork, NoAction, WithAnswer
<1>3. Budget
  <2>1. 0 + 0 <= MaxTools
    BY LimitsAssumption DEF LimitsAssumption
  <2>2. QED
    BY <2>1 DEF Init, Budget, ToolBudgetKept
<1>4. Settled
  BY DEF Init, Settled, SettledBeforeTurn, InAsk
<1>5. Limits
  BY LimitsAssumption DEF LimitsAssumption, Init, Limits, LastWordBeforeBudgetStop
<1>6. QED
  BY <1>1, <1>2, <1>3, <1>4, <1>5 DEF IInv

\* Every step keeps every part of the inductive invariant.
LEMMA NextOK == IInv /\ [Next]_vars => IInv'
<1> SUFFICES ASSUME IInv, [Next]_vars PROVE IInv'
  OBVIOUS
<1>1. TypeOK /\ Conversation /\ InHand /\ Budget /\ Settled /\ Limits
  BY DEF IInv
<1>2. TypeOK'
  BY <1>1, RunTypedKept, LoopTypedKept, TalkTypedKept, OutsideTypedKept DEF TypeOK
<1>3. Conversation' /\ InHand' /\ Budget' /\ Settled' /\ Limits'
  BY <1>1, ConversationKept, InHandKept, BudgetKept, SettledKept, LimitsKept
<1>4. QED
  BY <1>2, <1>3 DEF IInv

\* The inductive invariant holds for every value of the limits: of the agent
\* loop's counters, conversation, answer in hand and owed calls together.
THEOREM LoopInvariance == Spec => []IInv
BY InitOK, NextOK, PTL DEF Spec

\* The variables of an ask, of its Run and of its conversation keep their types
\* and ranges: no counter of AgentLoop.run passes the limit it is compared with.
THEOREM LoopTypes == Spec => []TypeOK
<1>1. IInv => TypeOK
  BY DEF IInv
<1>2. QED
  BY <1>1, LoopInvariance, PTL

\* No request continues a conversation that is owed outputs or was begun with
\* other tools, and every answer gets as many results as it has calls
\* (_prepare_prompt, record_action_results).
THEOREM RequestsStayPaired == Spec => []RequestIsPaired
<1>1. IInv => RequestIsPaired
  <2> SUFFICES ASSUME IInv PROVE RequestIsPaired
    OBVIOUS
  <2>1. pc = "send" =>
            /\ session.calls = 0 /\ session.tools \in {"none", snapshot}
            /\ snapshot = Surface
    BY DEF IInv, Conversation
  <2>2. ASSUME pc = "continue" PROVE Recordable
    <3>1. session.calls = IF action.kind = "invalid" THEN 0 ELSE action.calls
      BY <2>2 DEF IInv, Conversation, WithAnswer
    <3>2. action.calls >= 1 /\ (action.kind # "tool" => action.calls = 1)
      BY <2>2 DEF IInv, InHand, WithAnswer
    <3>3. action.calls \in 0 .. MaxBatch + 1 /\ action.calls > 0 /\ ~(0 > 0)
      BY <3>2, Numbers, LimitsAssumption DEF IInv, LimitsAssumption
    <3>4. QED
      BY <3>1, <3>2, <3>3 DEF Recordable, Results
  <2>3. QED
    BY <2>1, <2>2 DEF RequestIsPaired
<1>2. QED
  BY <1>1, LoopInvariance, PTL

\* No Run passes max_tool_executions, over single calls, batches, interrupted
\* turns and resumed asks (_handle_tool_turn, _batch_policy_error).
THEOREM ToolBudget == Spec => []ToolBudgetKept
<1>1. IInv => ToolBudgetKept
  BY DEF IInv, Budget
<1>2. QED
  BY <1>1, LoopInvariance, PTL

\* Outside of the execution and the recovery of calls none is owed a result, so
\* the Run Log refuses no line of the loop.
THEOREM TurnsStartSettled == Spec => []SettledBeforeTurn
<1>1. IInv => SettledBeforeTurn
  BY DEF IInv, Settled
<1>2. QED
  BY <1>1, LoopInvariance, PTL

\* The budget stops a Run only after a turn whose only tool was submit_final.
THEOREM BudgetStopHasLastWord == Spec => []LastWordBeforeBudgetStop
<1>1. IInv => LastWordBeforeBudgetStop
  BY DEF IInv, Limits
<1>2. QED
  BY <1>1, LoopInvariance, PTL

\* An answer that arrives after a stop was requested is never acted upon.
THEOREM LateAnswersAreDropped == Spec => []NoLateWork
<1>1. IInv => NoLateWork
  BY DEF IInv, InHand
<1>2. QED
  BY <1>1, LoopInvariance, PTL

\* When a turn begins nothing is owed to the Provider nor to the Run Log: the two
\* sides of one tool transaction are settled together.
THEOREM TurnsBeginSettled == Spec => []TurnsAreSettled
<1>1. RequestIsPaired /\ SettledBeforeTurn => TurnsAreSettled
  BY DEF TurnsAreSettled
<1>2. QED
  BY <1>1, RequestsStayPaired, TurnsStartSettled, PTL

\* The tool budget is kept, and the Run that uses it up is asked for a last word.
THEOREM TheBudgetIsHonoured == Spec => []BudgetIsHonoured
<1>1. ToolBudgetKept /\ LastWordBeforeBudgetStop => BudgetIsHonoured
  BY DEF BudgetIsHonoured
<1>2. QED
  BY <1>1, ToolBudget, BudgetStopHasLastWord, PTL

\* A step that ends the ask leaves the Run open only after an exception, without a
\* request to stop, or at the second overflow in a row.
LEMMA ResetEndsRunKept ==
    ASSUME TypeOK, RequestIsPaired, ResetEndsRun, [Next]_vars
    PROVE  ResetEndsRun'
<1>1. CASE HandleFailure
  <2>1. CASE Stopped
    BY <1>1, <2>1 DEF HandleFailure, ResetEndsRun
  <2>2. CASE ~Stopped
    BY <1>1, <2>2 DEF HandleFailure, ResetEndsRun, Stopped, outside
  <2>3. QED
    BY <2>1, <2>2
<1>2. CASE RecoverOverflow
  BY <1>2 DEF RecoverOverflow, ResetEndsRun
<1>3. CASE Continue
  <2>1. pc = "continue" /\ (action.high \/ Recordable)
    BY <1>3 DEF Continue, RequestIsPaired
  <2>2. pc' \in {"top", "finish"}
    BY <1>3, <2>1 DEF Continue
  <2>3. QED
    BY <2>2 DEF ResetEndsRun
<1>4. CASE FinishSuccess \/ FinishStopped
  BY <1>4 DEF FinishSuccess, FinishStopped, ResetEndsRun
<1>5. CASE Raise
  <2>1. raises \in 0 .. MaxRaises /\ raises' = raises + 1
    BY <1>5 DEF Raise, TypeOK, OutsideTyped
  <2>2. raises' # 0
    BY <2>1, LimitsAssumption DEF LimitsAssumption
  <2>3. QED
    BY <2>2 DEF ResetEndsRun
<1>6. CASE Reset
  BY <1>6 DEF Reset, ResetEndsRun
<1>7. CASE RequestStop \/ Expire
  BY <1>7 DEF RequestStop, Expire, ResetEndsRun, InAsk
<1>8. CASE Ask \/ Reconcile \/ Begin \/ StopAtTop \/ Prepare \/ Answer \/ Overflow
  BY <1>8 DEF Ask, Reconcile, Begin, StopAtTop, Prepare, Answer, Overflow, ResetEndsRun
<1>9. CASE Send \/ TurnFails \/ StopAfterAnswer \/ HandleInvalid \/ HandleFinal \/ Assess
  BY <1>9 DEF Send, TurnFails, StopAfterAnswer, HandleInvalid, HandleFinal, Assess,
              Accepted, ResetEndsRun
<1>10. CASE HandleTool \/ StartCall \/ RejectCall \/ FinishCall \/ EndToolTurn
  BY <1>10 DEF HandleTool, StartCall, RejectCall, FinishCall, EndToolTurn, Accepted,
               ResetEndsRun
<1>11. CASE UNCHANGED vars
  BY <1>11 DEF vars, theRun, theLoop, talk, outside, ResetEndsRun
<1>12. QED
  BY <1>1, <1>2, <1>3, <1>4, <1>5, <1>6, <1>7, <1>8, <1>9, <1>10, <1>11
     DEF Next, Step

\* A Run that was asked to reset while it ran, and met no exception, is not left
\* open: whatever the loop was doing, it ends at finish_stopped or at a success
\* (request_reset, AgentLoop.run) - the second overflow in a row apart.
THEOREM ResetsEndTheRun == Spec => []ResetEndsRun
<1>1. Init => ResetEndsRun
  BY DEF Init, ResetEndsRun
<1>2. TypeOK /\ RequestIsPaired /\ ResetEndsRun /\ [Next]_vars => ResetEndsRun'
  BY ResetEndsRunKept
<1>3. QED
  BY <1>1, <1>2, LoopTypes, RequestsStayPaired, PTL DEF Spec
================================================================================
