------------------------- MODULE ProviderClientProofs --------------------------
(****************************************************************************)
(* The inductive invariant of one request of ProviderClient and the         *)
(* theorems that follow from it, for any timeouts and any number of         *)
(* redirects, requests and calls.                                           *)
(****************************************************************************)
EXTENDS ProviderClient, FiniteSetTheorems, TLAPS

\* The types of a request, and those of the conversation.
RequestTypes ==
    /\ pc \in States
    /\ now \in Nat /\ deadline \in Nat /\ attemptDeadline \in Nat /\ span \in Nat
    /\ connectBy \in Nat /\ sentAt \in Nat /\ failedAt \in Nat
    /\ attempt \in 0..Attempts
    /\ redirects \in 0..MaxRedirects
    /\ body \in [says : Failures \union Answers \union {"nothing"}, cut : Cuts]
    /\ failure \in Failures \union {"none", "transport"}
    /\ outcome \in Outcomes

Items == {"user", "other", "call", "output"} \X (CallIds \union {NoId})

ConversationTypes ==
    /\ input \in Seq(Items)
    /\ pending \in Seq(CallIds)
    /\ turns \in 0..MaxTurns

\* How far the clock may be at each place of an attempt.  Only a connect after a
\* redirect has a timeout that may lie behind the deadline.
ClockShape ==
    /\ pc = "attempt" => now <= deadline
    /\ pc \in {"connect", "exchange", "read", "decode"} => attemptDeadline <= deadline
    /\ pc = "connect" => /\ now <= connectBy
                         /\ redirects = 0 => connectBy = attemptDeadline
    /\ pc \in {"exchange", "read"} => now <= attemptDeadline
    /\ pc = "read" /\ body.cut = "timer" => attemptDeadline <= now
    /\ pc = "sleep" => now <= failedAt + Delay(attempt)

\* What is known of the attempt before, where the next one is on its way.
RetryShape ==
    /\ pc = "failing" => failedAt = now
    /\ pc \in {"attempt", "sleep"} => attempt < Attempts
    /\ pc = "sleep" => failure \in {"transient", "transport"}
    /\ pc = "attempt" /\ attempt > 0 =>
          /\ failure \in {"transient", "transport"}
          /\ failedAt + Delay(attempt) <= now
          /\ failedAt + Delay(attempt) < deadline

\* What is said of a request, without the conversation it belongs to.
RequestInv ==
    /\ RequestTypes /\ ClockShape /\ RetryShape
    /\ OverdueOnlyConnecting /\ NothingSentLate /\ RetriesAreJustified /\ CutBodyIsNotUsed

-----------------------------------------------------------------------------
(* The request *)

USE TimeAssumption, BoundAssumption DEF TimeAssumption, BoundAssumption

LEMMA RequestBegins == Init => RequestInv
BY DEF Init, RequestInv, RequestTypes, ClockShape, RetryShape, OverdueOnlyConnecting,
   NothingSentLate, RetriesAreJustified, CutBodyIsNotUsed, States, Attempts, NoBody, Cuts,
   Outcomes, Failures, Answers, Delay

LEMMA CompleteActionKeeps == RequestInv /\ CompleteAction => RequestInv'
<1> SUFFICES ASSUME RequestInv, CompleteAction PROVE RequestInv'
  OBVIOUS
<1>1. deadline' \in Nat /\ now' = 0 /\ pc' = "attempt" /\ attempt' = 0
  BY DEF CompleteAction, Minimum
<1>2. QED
  BY <1>1 DEF CompleteAction, RequestInv, RequestTypes, ClockShape, RetryShape,
     OverdueOnlyConnecting, NothingSentLate, RetriesAreJustified, CutBodyIsNotUsed, States,
     Attempts, Outcomes, Delay

LEMMA BetweenRequestsKeeps == RequestInv /\ (RecordResults \/ Reset) => RequestInv'
BY DEF RecordResults, Reset, ResetActionSession, RequestInv, RequestTypes, ClockShape, RetryShape,
   OverdueOnlyConnecting, NothingSentLate, RetriesAreJustified, CutBodyIsNotUsed, States,
   Outcomes, Delay

LEMMA BeginAttemptKeeps == RequestInv /\ BeginAttempt => RequestInv'
<1> SUFFICES ASSUME RequestInv, BeginAttempt PROVE RequestInv'
  OBVIOUS
<1>1. CASE deadline <= now
  BY <1>1 DEF BeginAttempt, Ended, RequestInv, RequestTypes, ClockShape, RetryShape,
     OverdueOnlyConnecting, NothingSentLate, RetriesAreJustified, CutBodyIsNotUsed, States,
     Attempts, Outcomes, Delay, NoBody, Cuts
<1>2. CASE now < deadline
  <2>1. AttemptTimeout \in Nat /\ now + AttemptTimeout <= deadline
    BY <1>2 DEF AttemptTimeout, Minimum, RequestInv, RequestTypes
  <2>2. QED
    BY <1>2, <2>1 DEF BeginAttempt, RequestInv, RequestTypes, ClockShape, RetryShape,
       OverdueOnlyConnecting, NothingSentLate, RetriesAreJustified, CutBodyIsNotUsed, States,
       Attempts, Outcomes, Delay, NoBody, Cuts
<1>3. QED
  BY <1>1, <1>2 DEF RequestInv, RequestTypes

LEMMA ExchangeKeeps ==
    RequestInv /\ (Connected \/ ConnectFails \/ Redirected \/ Disconnected) => RequestInv'
BY DEF Connected, ConnectFails, Redirected, Disconnected, TimerArmed, Failing, RequestInv,
   RequestTypes, ClockShape, RetryShape, OverdueOnlyConnecting, NothingSentLate,
   RetriesAreJustified, CutBodyIsNotUsed, States, Attempts, Outcomes, Failures, Delay

LEMMA RespondsKeeps ==
    ASSUME NEW says \in Failures \union Answers, NEW cut \in Cuts, RequestInv, Responds(says, cut)
    PROVE  RequestInv'
BY DEF Responds, RequestInv, RequestTypes, ClockShape, RetryShape, OverdueOnlyConnecting,
   NothingSentLate, RetriesAreJustified, CutBodyIsNotUsed, States, Attempts, Outcomes, Delay

LEMMA ReadBodyKeeps == RequestInv /\ ReadBody => RequestInv'
<1> SUFFICES ASSUME RequestInv, ReadBody PROVE RequestInv'
  OBVIOUS
<1>1. body.says \in Failures => Judged \subseteq Failures
  BY DEF Judged, Failures
<1>2. ReadInTime => body.cut # "timer" /\ now < deadline
  BY DEF ReadBody, ReadInTime, RequestInv, RequestTypes, ClockShape
<1>3. CASE /\ ReadInTime /\ body.says \in Failures /\ UNCHANGED outcome
           /\ \E how \in Judged : Failing(how)
  BY <1>1, <1>2, <1>3 DEF ReadBody, Failing, RequestInv, RequestTypes, ClockShape, RetryShape,
     OverdueOnlyConnecting, NothingSentLate, RetriesAreJustified, CutBodyIsNotUsed, States,
     Attempts, Outcomes, Delay
<1>4. CASE \/ ReadInTime /\ pc' = "decode" /\ UNCHANGED <<failure, failedAt, outcome>>
           \/ Failing("transport") /\ UNCHANGED outcome
           \/ Ended("failed") /\ UNCHANGED <<failure, failedAt>>
  BY <1>2, <1>4 DEF ReadBody, ReadInTime, Failing, Ended, RequestInv, RequestTypes, ClockShape,
     RetryShape, OverdueOnlyConnecting, NothingSentLate, RetriesAreJustified, CutBodyIsNotUsed,
     States, Attempts, Outcomes, Failures, Delay
<1>5. QED
  BY <1>3, <1>4 DEF ReadBody

LEMMA RetryKeeps == RequestInv /\ (GiveUpOrRetry \/ Slept) => RequestInv'
BY DEF GiveUpOrRetry, Slept, Ended, Retryable, AttemptsLeft, DelayFits, RequestInv, RequestTypes,
   ClockShape, RetryShape, OverdueOnlyConnecting, NothingSentLate, RetriesAreJustified,
   CutBodyIsNotUsed, States, Attempts, Outcomes, Failures, Delay

LEMMA DecodeKeeps == RequestInv /\ Decode => RequestInv'
<1> SUFFICES ASSUME RequestInv, Decode PROVE RequestInv'
  OBVIOUS
<1>1. pc' = "idle" /\ outcome' \in Outcomes
  BY DEF Decode, Accept, Reject, Ended, Outcomes
<1>2. QED
  BY <1>1 DEF Decode, RequestInv, RequestTypes, ClockShape, RetryShape, OverdueOnlyConnecting,
     NothingSentLate, RetriesAreJustified, CutBodyIsNotUsed, States

LEMMA TickKeeps == RequestInv /\ Tick => RequestInv'
BY DEF Tick, WaitsUntil, RequestInv, RequestTypes, ClockShape, RetryShape, OverdueOnlyConnecting,
   NothingSentLate, RetriesAreJustified, CutBodyIsNotUsed, States, Attempts, Outcomes, Delay

-----------------------------------------------------------------------------
(* The conversation *)

LEMMA ItemTypes ==
    /\ Item("user", NoId) \in Items /\ Item("other", NoId) \in Items
    /\ \A id \in CallIds : Item("call", id) \in Items /\ Item("output", id) \in Items
BY DEF Item, Items

\* What an answer adds to the conversation is made of items, and waits for calls.
LEMMA AnswerTypes ==
    ASSUME NEW ids \in CallLists
    PROVE  ids \in Seq(CallIds) /\ CallItems(ids) \in Seq(Items)
<1>1. PICK n \in 1..MaxCalls : ids \in [1..n -> CallIds]
  BY DEF CallLists
<1>2. ids \in Seq(CallIds) /\ Len(ids) = n
  BY <1>1
<1>3. \A i \in 1..Len(ids) : Item("call", ids[i]) \in Items
  BY <1>1, <1>2, ItemTypes
<1>4. CallItems(ids) \in [1..Len(ids) -> Items]
  BY <1>3 DEF CallItems
<1>5. Len(ids) \in Nat
  BY <1>2
<1>6. QED
  BY <1>2, <1>4, <1>5

LEMMA ConversationBegins == Init => ConversationTypes
BY DEF Init, ConversationTypes

LEMMA ConversationKeeps == ConversationTypes /\ [Next]_vars => ConversationTypes'
<1> SUFFICES ASSUME ConversationTypes, [Next]_vars PROVE ConversationTypes'
  OBVIOUS
<1>1. CASE CompleteAction
  <2>1. <<Item("user", NoId)>> \in Seq(Items)
    BY ItemTypes
  <2>2. input' \in Seq(Items) /\ turns' \in 0..MaxTurns
    BY <1>1, <2>1 DEF CompleteAction, ConversationTypes
  <2>3. QED
    BY <1>1, <2>2 DEF CompleteAction, ConversationTypes
<1>2. CASE RecordResults
  <2>1. <<Item("user", NoId)>> \in Seq(Items)
    BY ItemTypes
  <2>2. \A i \in 1..Len(pending) : Item("output", pending[i]) \in Items
    BY ItemTypes DEF ConversationTypes
  <2>3. [i \in 1..Len(pending) |-> Item("output", pending[i])] \in [1..Len(pending) -> Items]
    BY <2>2
  <2>4. Len(pending) \in Nat
    BY DEF ConversationTypes
  <2>5. [i \in 1..Len(pending) |-> Item("output", pending[i])] \in Seq(Items)
    BY <2>3, <2>4
  <2>6. QED
    BY <1>2, <2>1, <2>5 DEF RecordResults, ConversationTypes
<1>3. CASE Reset
  BY <1>3 DEF Reset, ResetActionSession, ConversationTypes
<1>4. CASE Decode
  <2>1. PICK ids \in CallLists, others \in {<<>>, <<Item("other", NoId)>>} :
            \/ input' = input \o others \o CallItems(ids) /\ pending' = ids
            \/ input' = input \o others /\ pending' = <<>>
            \/ UNCHANGED <<input, pending>>
    BY <1>4 DEF Decode, Accept, Reject
  <2>2. others \in Seq(Items)
    <3>1. <<>> \in Seq(Items)
      OBVIOUS
    <3>2. <<Item("other", NoId)>> \in Seq(Items)
      BY ItemTypes
    <3>3. QED
      BY <3>1, <3>2
  <2>3. ids \in Seq(CallIds) /\ CallItems(ids) \in Seq(Items)
    BY AnswerTypes
  <2>4. turns' = turns
    BY <1>4 DEF Decode
  <2>5. input \o others \in Seq(Items)
    BY <2>2 DEF ConversationTypes
  <2>6. (input \o others) \o CallItems(ids) \in Seq(Items)
    BY <2>3, <2>5
  <2>7. <<>> \in Seq(CallIds)
    OBVIOUS
  <2>8. QED
    BY <2>1, <2>3, <2>4, <2>5, <2>6, <2>7 DEF ConversationTypes
<1>5. CASE UNCHANGED sessionVars
  BY <1>5 DEF sessionVars, ConversationTypes
<1>6. QED
  BY <1>1, <1>2, <1>3, <1>4, <1>5 DEF Next, vars, sessionVars, BeginAttempt, Connected,
     ConnectFails, Redirected, Responds, Disconnected, ReadBody, GiveUpOrRetry, Slept, Tick

-----------------------------------------------------------------------------
(* Counting items.  The n-th item of a kind is found by counting, so what a   *)
(* conversation becomes is known from what an appended block adds to counts.  *)

\* Counts of a prefix exist and grow with it.
LEMMA CountFacts ==
    ASSUME NEW s \in Seq(Items), NEW kind, NEW m \in Nat, NEW n \in Nat, m <= n
    PROVE  /\ IsFiniteSet({i \in 1..n : s[i][1] = kind})
           /\ Count(s, kind, m) \in Nat /\ Count(s, kind, n) \in Nat
           /\ Count(s, kind, m) <= Count(s, kind, n)
<1> DEFINE S(k) == {i \in 1..k : s[i][1] = kind}
<1>1. IsFiniteSet(1..n)
  BY FS_Interval
<1>2. S(n) \in SUBSET (1..n) /\ S(m) \in SUBSET S(n)
  OBVIOUS
<1>3. IsFiniteSet(S(n))
  BY <1>1, <1>2, FS_Subset
<1>4. IsFiniteSet(S(m)) /\ Cardinality(S(m)) <= Cardinality(S(n))
  BY <1>2, <1>3, FS_Subset
<1>5. QED
  BY <1>3, <1>4, FS_CardinalityType DEF Count

LEMMA CountsOf ==
    ASSUME NEW s \in Seq(Items), NEW kind
    PROVE  /\ Len(s) \in Nat /\ Count(s, kind, Len(s)) \in Nat
           /\ IsFiniteSet({i \in 1..Len(s) : s[i][1] = kind})
           /\ \A i \in 1..Len(s) : /\ Count(s, kind, i) \in Nat
                                   /\ Count(s, kind, i) <= Count(s, kind, Len(s))
<1>1. Len(s) \in Nat
  OBVIOUS
<1>2. \A i \in 1..Len(s) : i \in Nat /\ i <= Len(s)
  BY <1>1
<1>3. Count(s, kind, Len(s)) \in Nat /\ IsFiniteSet({i \in 1..Len(s) : s[i][1] = kind})
  <2>1. Len(s) <= Len(s)
    BY <1>1
  <2>2. QED
    BY <1>1, <2>1, CountFacts, Zenon
<1>4. ASSUME NEW i \in 1..Len(s)
      PROVE  Count(s, kind, i) \in Nat /\ Count(s, kind, i) <= Count(s, kind, Len(s))
  BY <1>1, <1>2, CountFacts
<1>5. QED
  BY <1>1, <1>3, <1>4

\* Counts of what was there stay.
\* Two sequences of items, one after the other.
LEMMA Joined ==
    ASSUME NEW s \in Seq(Items), NEW t \in Seq(Items)
    PROVE  /\ s \o t \in Seq(Items) /\ Len(s) \in Nat /\ Len(t) \in Nat
           /\ Len(s \o t) = Len(s) + Len(t)
OBVIOUS

LEMMA CountStays ==
    ASSUME NEW s \in Seq(Items), NEW t \in Seq(Items), NEW kind, NEW n \in 0..Len(s)
    PROVE  Count(s \o t, kind, n) = Count(s, kind, n)
<1>1. \A i \in 1..n : (s \o t)[i] = s[i]
  OBVIOUS
<1>2. QED
  BY <1>1 DEF Count

\* A block without the kind adds nothing.
LEMMA CountOfOthers ==
    ASSUME NEW s \in Seq(Items), NEW t \in Seq(Items), NEW kind, NEW k \in 0..Len(t),
           \A i \in 1..Len(t) : t[i][1] # kind
    PROVE  Count(s \o t, kind, Len(s) + k) = Count(s, kind, Len(s))
<1>1. \A i \in 1..Len(s) : (s \o t)[i] = s[i]
  OBVIOUS
<1>2. \A i \in 1..(Len(s) + k) : i > Len(s) => (s \o t)[i][1] # kind
  <2>1. ASSUME NEW i \in 1..(Len(s) + k), i > Len(s) PROVE (s \o t)[i] = t[i - Len(s)]
    BY <2>1
  <2>2. ASSUME NEW i \in 1..(Len(s) + k), i > Len(s) PROVE i - Len(s) \in 1..Len(t)
    BY <2>2
  <2>3. QED
    BY <2>1, <2>2
<1>3. {i \in 1..(Len(s) + k) : (s \o t)[i][1] = kind} = {i \in 1..Len(s) : s[i][1] = kind}
  BY <1>1, <1>2
<1>4. QED
  BY <1>3 DEF Count

\* A block of the kind adds one with each of its items.
LEMMA CountOfBlock ==
    ASSUME NEW s \in Seq(Items), NEW t \in Seq(Items), NEW kind, NEW k \in 0..Len(t),
           \A i \in 1..Len(t) : t[i][1] = kind
    PROVE  Count(s \o t, kind, Len(s) + k) = Count(s, kind, Len(s)) + k
<1> DEFINE S == {i \in 1..Len(s) : s[i][1] = kind}
           T == (Len(s) + 1)..(Len(s) + k)
<1>1. \A i \in 1..Len(s) : (s \o t)[i] = s[i]
  OBVIOUS
<1>2. \A i \in T : (s \o t)[i][1] = kind
  <2>1. ASSUME NEW i \in T PROVE (s \o t)[i] = t[i - Len(s)] /\ i - Len(s) \in 1..Len(t)
    OBVIOUS
  <2>2. QED
    BY <2>1
<1>3. {i \in 1..(Len(s) + k) : (s \o t)[i][1] = kind} = S \cup T
  <2>1. 1..(Len(s) + k) = (1..Len(s)) \cup T
    OBVIOUS
  <2>2. QED
    BY <1>1, <1>2, <2>1
<1>4. IsFiniteSet(S) /\ Cardinality(S) \in Nat
  BY CountsOf, FS_CardinalityType
<1>5. IsFiniteSet(T) /\ Cardinality(T) = k
  <2>1. Len(s) + 1 \in Int /\ Len(s) + k \in Int
    OBVIOUS
  <2>2. /\ IsFiniteSet(T)
        /\ Cardinality(T) = IF Len(s) + 1 > Len(s) + k THEN 0
                            ELSE (Len(s) + k) - (Len(s) + 1) + 1
    BY <2>1, FS_Interval
  <2>3. QED
    BY <2>2
<1>6. S \cap T = {}
  OBVIOUS
<1>7. Cardinality(S \cup T) = Cardinality(S) + k
  <2>1. Cardinality(S \cup T) = Cardinality(S) + Cardinality(T) - Cardinality(S \cap T)
    BY <1>4, <1>5, FS_Union
  <2>2. Cardinality(S \cap T) = 0
    BY <1>6, FS_EmptySet
  <2>3. QED
    BY <1>4, <1>5, <2>1, <2>2
<1>8. QED
  BY <1>3, <1>7 DEF Count

-----------------------------------------------------------------------------
(* What each block does to the pairs.                                         *)

\* An item that is neither a call nor an output.
LEMMA PairedWithOthers ==
    ASSUME NEW s \in Seq(Items), NEW t \in Seq(Items), NEW waiting \in Seq(CallIds),
           \A i \in 1..Len(t) : t[i][1] \notin {"call", "output"}, Paired(s, waiting)
    PROVE  Paired(s \o t, waiting)
<1> DEFINE u == s \o t
<1>1. u \in Seq(Items) /\ Len(u) = Len(s) + Len(t)
  OBVIOUS
<1>2. \A kind \in {"call", "output"} : Count(u, kind, Len(u)) = Count(s, kind, Len(s))
  <2>1. ASSUME NEW kind \in {"call", "output"}
        PROVE  Count(s \o t, kind, Len(s) + Len(t)) = Count(s, kind, Len(s))
    <3>1. Len(t) \in 0..Len(t) /\ \A i \in 1..Len(t) : t[i][1] # kind
      OBVIOUS
    <3>2. QED
      BY <3>1, CountOfOthers
  <2>2. QED
    BY <1>1, <2>1
<1>3. \A i \in 1..Len(u) : u[i][1] \in {"call", "output"} => i \in 1..Len(s) /\ u[i] = s[i]
  <2>1. ASSUME NEW i \in 1..Len(u), i \notin 1..Len(s)
        PROVE  u[i] = t[i - Len(s)] /\ i - Len(s) \in 1..Len(t)
    BY <1>1, <2>1
  <2>2. ASSUME NEW i \in 1..Len(u), i \in 1..Len(s) PROVE u[i] = s[i]
    BY <2>2
  <2>3. QED
    BY <2>1, <2>2
<1>4. \A kind : \A i \in 1..Len(s) : Count(u, kind, i) = Count(s, kind, i)
  <2>1. \A i \in 1..Len(s) : i \in 0..Len(s)
    BY Joined
  <2>2. QED
    BY <2>1, CountStays, SMT
<1>6. Len(s) \in Nat /\ Len(t) \in Nat
  BY Joined
<1> HIDE DEF u
<1>5. QED
  BY <1>1, <1>2, <1>3, <1>4, <1>6 DEF Paired, u

\* The calls of an answer, when none waits.
LEMMA PairedWithCalls ==
    ASSUME NEW s \in Seq(Items), NEW ids \in Seq(CallIds), CallItems(ids) \in Seq(Items),
           Paired(s, <<>>)
    PROVE  Paired(s \o CallItems(ids), ids)
<1> DEFINE t == CallItems(ids)
           u == s \o t
<1>1. /\ u \in Seq(Items) /\ Len(t) = Len(ids) /\ Len(u) = Len(s) + Len(ids)
      /\ \A k \in 1..Len(ids) : t[k][1] = "call" /\ t[k][2] = ids[k]
  <2>1. t \in Seq(Items) /\ t = [k \in 1..Len(ids) |-> Item("call", ids[k])]
    BY DEF CallItems
  <2>2. \A c : Item("call", c)[1] = "call" /\ Item("call", c)[2] = c
    BY DEF Item
  <2>3. Len(ids) \in Nat /\ DOMAIN t = 1..Len(ids)
    BY <2>1
  <2>4. \A k \in 1..Len(ids) : t[k][1] = "call" /\ t[k][2] = ids[k]
    <3>1. \A k \in 1..Len(ids) : t[k] = Item("call", ids[k])
      BY <2>1
    <3>2. QED
      BY <2>2, <3>1
  <2>5. Len(t) = Len(ids)
    BY <2>1, <2>3
  <2>6. u \in Seq(Items) /\ Len(u) = Len(s) + Len(t)
    <3> HIDE DEF t
    <3> QED
      BY <2>1
  <2>7. QED
    BY <2>4, <2>5, <2>6
<1>2. Count(u, "output", Len(u)) = Count(s, "output", Len(s))
  <2>1. t \in Seq(Items) /\ Len(t) \in 0..Len(t)
    OBVIOUS
  <2>2. \A k \in 1..Len(t) : t[k][1] # "output"
    BY <1>1
  <2> HIDE DEF t, u
  <2>3. Count(s \o t, "output", Len(s) + Len(t)) = Count(s, "output", Len(s))
    BY <2>1, <2>2, CountOfOthers
  <2>4. QED
    BY <1>1, <2>3 DEF u
<1>3. \A k \in 0..Len(ids) : Count(u, "call", Len(s) + k) = Count(s, "call", Len(s)) + k
  BY <1>1, CountOfBlock
<1>4. \A kind : \A i \in 1..Len(s) : Count(u, kind, i) = Count(s, kind, i)
  <2>1. \A i \in 1..Len(s) : i \in 0..Len(s)
    BY Joined
  <2>2. QED
    BY <2>1, CountStays, SMT
<1>5. \A i \in 1..Len(s) : u[i] = s[i]
  OBVIOUS
<1>6. \A i \in 1..Len(u) : i \notin 1..Len(s) =>
          i - Len(s) \in 1..Len(ids) /\ u[i] = t[i - Len(s)]
  BY <1>1
<1>7. Count(s, "call", Len(s)) = Count(s, "output", Len(s))
  <2>1. Count(s, "output", Len(s)) \in Nat
    BY CountsOf
  <2>2. QED
    BY <2>1 DEF Paired
<1>8. /\ Count(s, "call", Len(s)) \in Nat
      /\ \A i \in 1..Len(s) : Count(s, "call", i) \in Nat /\ Count(s, "output", i) \in Nat
      /\ \A i \in 1..Len(s) : /\ Count(s, "call", i) <= Count(s, "call", Len(s))
                              /\ Count(s, "output", i) <= Count(s, "output", Len(s))
  BY CountsOf
<1>9. Count(u, "call", Len(u)) = Count(u, "output", Len(u)) + Len(ids)
  BY <1>1, <1>2, <1>3, <1>7
<1>10. ASSUME NEW i \in 1..Len(u), u[i][1] = "call",
              NEW j \in 1..Len(u), u[j][1] = "output", Count(u, "output", j) = Count(u, "call", i)
       PROVE  i < j /\ u[j][2] = u[i][2]
  <2>1. j \in 1..Len(s)
    BY <1>1, <1>6, <1>10
  <2>2. i \in 1..Len(s)
    <3>1. ASSUME i \notin 1..Len(s)
          PROVE  FALSE
      <4> DEFINE k == i - Len(s)
      <4>1. k \in 1..Len(ids) /\ i = Len(s) + k
        BY <1>6, <3>1
      <4>2. Count(u, "call", i) = Count(s, "call", Len(s)) + k
        BY <1>3, <4>1, k \in 0..Len(ids)
      <4>3. Count(u, "output", j) <= Count(s, "call", Len(s))
        BY <1>4, <1>7, <1>8, <2>1
      <4>4. QED
        BY <1>8, <1>10, <4>1, <4>2, <4>3
    <3>2. QED
      BY <3>1
  <2>3. QED
    BY <1>4, <1>5, <1>10, <2>1, <2>2 DEF Paired
<1>11. ASSUME NEW i \in 1..Len(u), u[i][1] = "call", NEW k \in 1..Len(ids),
              Count(u, "call", i) = Count(u, "output", Len(u)) + k
       PROVE  u[i][2] = ids[k]
  <2>1. i \notin 1..Len(s)
    BY <1>2, <1>4, <1>7, <1>8, <1>11
  <2> DEFINE h == i - Len(s)
  <2>2. h \in 1..Len(ids) /\ i = Len(s) + h /\ u[i] = t[h]
    BY <1>6, <2>1
  <2>3. Count(u, "call", i) = Count(s, "call", Len(s)) + h
    BY <1>3, <2>2, h \in 0..Len(ids)
  <2>4. h = k
    <3> DEFINE a == Count(s, "call", Len(s))
               b == Count(u, "output", Len(u))
    <3>1. a \in Nat /\ a = b
      BY <1>2, <1>7, <1>8
    <3>2. a + h = b + k
      BY <1>11, <2>3
    <3>3. h \in Int /\ k \in Int
      BY <2>2
    <3> HIDE DEF a, b, h
    <3>4. QED
      BY <3>1, <3>2, <3>3
  <2>5. QED
    BY <1>1, <2>2, <2>4
<1>12. QED
  BY <1>9, <1>10, <1>11 DEF Paired

\* The outputs of the calls that wait.
LEMMA PairedWithOutputs ==
    ASSUME NEW s \in Seq(Items), NEW waiting \in Seq(CallIds), NEW t \in Seq(Items),
           Len(t) = Len(waiting),
           \A k \in 1..Len(t) : t[k][1] = "output" /\ t[k][2] = waiting[k],
           Paired(s, waiting)
    PROVE  Paired(s \o t, <<>>)
<1> DEFINE u == s \o t
<1>1. u \in Seq(Items) /\ Len(u) = Len(s) + Len(t)
  BY Joined, Zenon
<1>2. Count(u, "call", Len(u)) = Count(s, "call", Len(s))
  <2>1. Len(t) \in 0..Len(t)
    BY Joined
  <2>4. \A i \in 1..Len(t) : t[i][1] # "call"
    OBVIOUS
  <2>5. \A k \in 0..Len(t) : Count(s \o t, "call", Len(s) + k) = Count(s, "call", Len(s))
    BY <2>4, CountOfOthers, SMT
  <2>2. Count(s \o t, "call", Len(s) + Len(t)) = Count(s, "call", Len(s))
    BY <2>1, <2>5, Zenon
  <2>3. QED
    BY <1>1, <2>2
<1>3. \A k \in 0..Len(t) : Count(u, "output", Len(s) + k) = Count(s, "output", Len(s)) + k
  BY CountOfBlock
<1>4. \A kind : \A i \in 1..Len(s) : Count(u, kind, i) = Count(s, kind, i)
  <2>1. \A i \in 1..Len(s) : i \in 0..Len(s)
    BY Joined
  <2>2. QED
    BY <2>1, CountStays, SMT
<1>5. \A i \in 1..Len(s) : u[i] = s[i]
  OBVIOUS
<1>6. \A i \in 1..Len(u) : i \notin 1..Len(s) =>
          /\ i - Len(s) \in 1..Len(t) /\ u[i] = t[i - Len(s)] /\ i > Len(s)
  BY <1>1
<1>7. Count(s, "call", Len(s)) = Count(s, "output", Len(s)) + Len(t)
  BY DEF Paired
<1>8. Count(s, "output", Len(s)) \in Nat
  BY CountsOf
<1>9. Count(u, "call", Len(u)) = Count(u, "output", Len(u)) + Len(<<>>)
  BY <1>1, <1>2, <1>3, <1>7, <1>8
<1>10. ASSUME NEW i \in 1..Len(u), u[i][1] = "call",
              NEW j \in 1..Len(u), u[j][1] = "output", Count(u, "output", j) = Count(u, "call", i)
       PROVE  i < j /\ u[j][2] = u[i][2]
  <2>1. i \in 1..Len(s) /\ s[i] = u[i] /\ Count(s, "call", i) = Count(u, "call", i)
    BY <1>4, <1>5, <1>6, <1>10
  <2>2. CASE j \in 1..Len(s)
    BY <1>4, <1>5, <1>10, <2>1, <2>2 DEF Paired
  <2>3. CASE j \notin 1..Len(s)
    <3>1. PICK k \in 1..Len(t) : j = Len(s) + k /\ u[j] = t[k]
      BY <1>6, <2>3
    <3>2. Count(s, "call", i) = Count(s, "output", Len(s)) + k
      BY <1>3, <1>10, <2>1, <3>1
    <3>3. s[i][2] = waiting[k]
      BY <1>10, <2>1, <3>2 DEF Paired
    <3>4. QED
      BY <2>1, <3>1, <3>3
  <2>4. QED
    BY <2>2, <2>3
<1>11. Paired(u, <<>>)
  <2> HIDE DEF u
  <2>1. \A k : k \notin 1..Len(<<>>)
    OBVIOUS
  <2>2. QED
    BY <1>9, <1>10, <2>1 DEF Paired
<1>12. QED
  BY <1>11

\* Only an answer makes calls wait, and a request begins when none does.
ConversationInv ==
    /\ ConversationTypes /\ ConversationIsPaired
    /\ pc # "idle" => pending = <<>>

LEMMA PairsBegin == Init => ConversationInv
<1> SUFFICES ASSUME Init PROVE ConversationInv
  OBVIOUS
<1>1. input = <<>> /\ pending = <<>> /\ pc = "idle"
  BY DEF Init
<1>2. \A kind : Count(<<>>, kind, 0) = 0
  BY FS_EmptySet DEF Count
<1>3. Paired(<<>>, <<>>)
  BY <1>2 DEF Paired
<1>4. QED
  BY <1>1, <1>3, ConversationBegins DEF ConversationInv, ConversationIsPaired, Distinct

LEMMA PairsKeep == ConversationInv /\ [Next]_vars => ConversationInv'
<1> SUFFICES ASSUME ConversationInv, [Next]_vars PROVE ConversationInv'
  OBVIOUS
<1>0. ConversationTypes'
  BY ConversationKeeps DEF ConversationInv
<1>t. /\ input \in Seq(Items) /\ pending \in Seq(CallIds) /\ <<>> \in Seq(CallIds)
      /\ Paired(input, pending) /\ Distinct(pending) /\ Distinct(<<>>)
  BY DEF ConversationInv, ConversationIsPaired, ConversationTypes, Distinct
<1>u. /\ <<Item("user", NoId)>> \in Seq(Items) /\ <<Item("other", NoId)>> \in Seq(Items)
      /\ <<>> \in Seq(Items)
  BY ItemTypes
<1>v. \A t \in {<<>>, <<Item("user", NoId)>>, <<Item("other", NoId)>>} :
          \A i \in 1..Len(t) : t[i][1] \notin {"call", "output"}
  BY DEF Item
<1>e. Paired(<<>>, <<>>)
  <2>1. \A kind : Count(<<>>, kind, 0) = 0
    BY FS_EmptySet DEF Count
  <2>2. QED
    BY <2>1 DEF Paired
<1>1. CASE CompleteAction
  <2>1. input' = IF input = <<>> THEN <<>> \o <<Item("user", NoId)>> ELSE input
    BY <1>1, <1>u DEF CompleteAction
  <2>2. pending = <<>> /\ pending' = <<>>
    BY <1>1 DEF CompleteAction
  <2>3. Paired(<<>> \o <<Item("user", NoId)>>, <<>>)
    BY <1>t, <1>u, <1>v, <1>e, PairedWithOthers
  <2>4. QED
    BY <1>0, <1>t, <2>1, <2>2, <2>3 DEF ConversationInv, ConversationIsPaired
<1>2. CASE RecordResults
  <2> DEFINE outputs == [i \in 1..Len(pending) |-> Item("output", pending[i])]
  <2>1. pending' = <<>>
    BY <1>2 DEF RecordResults
  <2>2. CASE pending = <<>>
    <3>1. input' = input \o <<Item("user", NoId)>>
      BY <1>2, <2>2 DEF RecordResults
    <3>2. Paired(input', <<>>)
      BY <1>t, <1>u, <1>v, <2>2, <3>1, PairedWithOthers
    <3>3. QED
      BY <1>0, <1>t, <2>1, <3>2 DEF ConversationInv, ConversationIsPaired
  <2>3. CASE pending # <<>>
    <3>1. input' = input \o outputs
      BY <1>2, <2>3 DEF RecordResults
    <3>2. \A i \in 1..Len(pending) : Item("output", pending[i]) \in Items
      BY <1>t, ItemTypes
    <3>3. outputs \in Seq(Items) /\ Len(outputs) = Len(pending)
      <4>1. Len(pending) \in Nat /\ outputs \in [1..Len(pending) -> Items]
        BY <1>t, <3>2
      <4>2. QED
        BY <4>1
    <3>4. \A k \in 1..Len(outputs) : outputs[k][1] = "output" /\ outputs[k][2] = pending[k]
      BY <3>3 DEF Item
    <3>5. Paired(input', <<>>)
      BY <1>t, <3>1, <3>3, <3>4, PairedWithOutputs
    <3>6. QED
      BY <1>0, <1>t, <2>1, <3>5 DEF ConversationInv, ConversationIsPaired
  <2>4. QED
    BY <2>2, <2>3
<1>3. CASE Reset
  BY <1>0, <1>3, <1>t, <1>e DEF Reset, ResetActionSession, ConversationInv, ConversationIsPaired
<1>4. CASE Decode
  <2>1. pc' = "idle" /\ pending = <<>>
    BY <1>4 DEF Decode, Accept, Reject, Ended, ConversationInv
  <2>2. PICK ids \in CallLists, others \in {<<>>, <<Item("other", NoId)>>} :
            \/ input' = input \o others \o CallItems(ids) /\ pending' = ids /\ Distinct(ids)
            \/ input' = input \o others /\ pending' = <<>>
            \/ UNCHANGED <<input, pending>>
    BY <1>4 DEF Decode, Accept, Reject, Usable
  <2>3. others \in Seq(Items) /\ input \o others \in Seq(Items)
    <3>1. others \in Seq(Items)
      BY <1>u
    <3>2. QED
      BY <1>t, <3>1
  <2>4. Paired(input \o others, <<>>)
    BY <1>t, <1>v, <2>1, <2>3, PairedWithOthers
  <2>5. ids \in Seq(CallIds) /\ CallItems(ids) \in Seq(Items)
    BY AnswerTypes
  <2>6. Paired((input \o others) \o CallItems(ids), ids)
    BY <2>3, <2>4, <2>5, PairedWithCalls
  <2>7. QED
    BY <1>0, <1>t, <2>1, <2>2, <2>4, <2>6 DEF ConversationInv, ConversationIsPaired
<1>5. CASE UNCHANGED sessionVars /\ (pc' # "idle" => pc # "idle")
  BY <1>0, <1>5 DEF sessionVars, ConversationInv, ConversationIsPaired
<1>6. QED
  BY <1>1, <1>2, <1>3, <1>4, <1>5 DEF Next, vars, sessionVars, BeginAttempt, Connected,
     ConnectFails, Redirected, Responds, Disconnected, ReadBody, GiveUpOrRetry, Slept, Tick

-----------------------------------------------------------------------------
(* Theorems *)

\* The inductive invariant: the types, the deadlines every place of a request keeps,
\* and what is known of the attempt before.
THEOREM RequestInvariance == Spec => [](RequestInv /\ ConversationTypes)
<1>1. Init => RequestInv /\ ConversationTypes
  BY RequestBegins, ConversationBegins
<1>2. RequestInv /\ [Next]_vars => RequestInv'
  <2> SUFFICES ASSUME RequestInv, [Next]_vars PROVE RequestInv'
    OBVIOUS
  <2>1. CASE UNCHANGED vars
    BY <2>1 DEF vars, RequestInv, RequestTypes, ClockShape, RetryShape, OverdueOnlyConnecting,
       NothingSentLate, RetriesAreJustified, CutBodyIsNotUsed
  <2>2. CASE Next
    BY <2>2, CompleteActionKeeps, BetweenRequestsKeeps, BeginAttemptKeeps, ExchangeKeeps,
       RespondsKeeps, ReadBodyKeeps, RetryKeeps, DecodeKeeps, TickKeeps DEF Next
  <2>3. QED
    BY <2>1, <2>2
<1>3. QED
  BY <1>1, <1>2, ConversationKeeps, PTL DEF Spec

\* All attempts, delays and redirects of a request keep the one deadline of the ask,
\* whatever the timeouts are (_request_with_retry, _open_response).
THEOREM DeadlinesAreKept == Spec => []RequestsKeepTime
<1>1. RequestInv /\ ConversationTypes => RequestsKeepTime
  BY DEF RequestInv, RequestTypes, ConversationTypes, Items, RequestsKeepTime, TypeOK
<1>2. QED
  BY <1>1, RequestInvariance, PTL

\* No body that the client's own timer cut is decoded or believed, at whatever
\* moment the timer acts (ReadBody's second look at the deadline).
THEOREM CutBodiesAreDropped == Spec => []CutBodyIsNotUsed
<1>1. RequestInv => CutBodyIsNotUsed
  BY DEF RequestInv
<1>2. QED
  BY <1>1, RequestInvariance, PTL

\* What is sent to the Provider has one output for each of its calls, after it and in
\* their order, and the calls of the last answer are those that wait, over any number
\* of answers, corrections, failed requests and resets (_decode_response,
\* record_action_results).
THEOREM ConversationsStayPaired == Spec => []ConversationIsPaired
<1>1. ConversationInv => ConversationIsPaired
  BY DEF ConversationInv
<1>2. QED
  BY <1>1, PairsBegin, PairsKeep, PTL DEF Spec
===============================================================================
