------------------------- MODULE ObservationBatchProofs -------------------------
(****************************************************************************)
(* Proofs about ObservationBatch, for any order of call ids, any limits and *)
(* any number of faults, and without any hypothesis: every append is        *)
(* accepted, what the log says of a call is true, the budget is kept,       *)
(* nothing runs outside its batch, and the log keeps RunContract.           *)
(****************************************************************************)
EXTENDS ObservationBatch, FiniteSetTheorems, TLAPS

(****************************************************************************)
(* The inductive invariant.  A result is true because the loop that writes  *)
(* it is where its future is: so the invariant says, for every place main   *)
(* can be, how far the protocol has come in the batch, and what the pool    *)
(* may hold of it then.                                                     *)
(****************************************************************************)
BatchCalls == {batch[i] : i \in DOMAIN batch}
Known == {c \in Calls : answer[c] # "-" \/ InSeq(c, protocol.pending)}
Ran == {c \in Calls : answer[c] \in {"failed", "completed"}}
Busy == With("queued") \cup With("running")

Typed ==
    /\ main \in Phases
    /\ protocol \in Protocol
    /\ answer \in [Calls -> {"-", "not_started", "failed", "completed"}]
    /\ batch \in Seq(Calls) /\ at \in Nat
    /\ task \in [Calls -> {"none", "queued", "running", "done"}]
    /\ value \in [Calls -> Values]
    /\ stop \in BOOLEAN /\ faults \in 0 .. MaxFaults

\* The transaction: distinct calls, started up to the ordinal, answered up to
\* the results.
Shape ==
    /\ protocol.pending \in Seq(Calls) /\ Distinct(protocol.pending)
    /\ protocol.ordinal <= Len(protocol.pending)
    /\ protocol.results <= Len(protocol.pending)
    /\ protocol.results = Len(protocol.pending) => protocol.pending = <<>>
    /\ protocol.started = {protocol.pending[i] : i \in 1 .. protocol.ordinal}

Answered ==
    \A i \in DOMAIN protocol.pending :
        answer[protocol.pending[i]] # "-" <=> i <= protocol.results

\* Ids are handed out in their order, and none twice.
Prefix == \E n \in 0 .. Len(Order) : Known = {Order[i] : i \in 1 .. n}

\* The pool never had a call that is not in the log as started.
Unstarted(c) ==
    \/ c \notin Known
    \/ InSeq(c, protocol.pending) /\ c \notin protocol.started
    \/ answer[c] = "not_started"

NotYet == \A c \in Calls : Unstarted(c) => task[c] = "none" /\ value[c] = "-"

\* What is in the pool still owes its result, or was failed by the reconciler.
Working ==
    \A c \in Busy : answer[c] = "failed" \/ (answer[c] = "-" /\ c \in protocol.started)

Finished == \A c \in Calls : answer[c] = "completed" => value[c] \in {"ok", "effect"}

Data == Shape /\ Answered /\ Prefix /\ NotYet /\ Working /\ Finished /\ BudgetKept

InABatch == {"preparing", "rejecting", "starting", "recording"} \cup Pooled

\* How far the protocol has come in the batch, by the loop main is in.
Progress ==
    /\ main = "new" => protocol = EmptyProtocol
    /\ main # "new" => protocol.user
    /\ protocol.terminal <=> main = "closed"
    /\ main \in {"idle", "closed"} => protocol.pending = <<>>
    /\ main = "recovering" => protocol.pending # <<>> /\ batch = <<>>
    /\ main \in InABatch => protocol.pending = batch
    /\ main \in InABatch \ {"joining"} => at < Len(batch)
    /\ main = "preparing" => at = 0 /\ protocol.ordinal = 0 /\ protocol.results = 0
    /\ main = "rejecting" => protocol.ordinal = 0 /\ protocol.results = at
    /\ main = "starting" => protocol.ordinal = at /\ protocol.results = 0
    /\ main \in Pooled => protocol.ordinal = Len(batch) /\ protocol.results = 0
    /\ main = "recording" => protocol.ordinal = Len(batch) /\ protocol.results = at

\* Until the second fault the pool is busy only while main is inside the `with`.
Confined ==
    /\ faults < 2 => \A c \in Busy : main \in Pooled /\ InSeq(c, batch)
    /\ main \in {"joining", "raised"} => faults > 0
    /\ main = "collecting" => \A i \in 1 .. at : task[batch[i]] = "done"
    /\ main = "recording" => \A i \in DOMAIN batch : task[batch[i]] = "done"

Admitted ==
    main \in {"starting", "recording"} \cup Pooled
        => Cardinality(Ran \cup BatchCalls) <= Budget

OInv == Typed /\ Data /\ Progress /\ Confined /\ Admitted /\ SiblingsSurvive

(****************************************************************************)
(* The order of the ids.                                                    *)
(****************************************************************************)
LEMMA OrderFacts ==
    /\ Order \in Seq(CallIds) /\ Order \in Seq(Calls) /\ Distinct(Order)
    /\ Len(Order) \in Nat /\ DOMAIN Order = 1 .. Len(Order)
    /\ IsFiniteSet(Calls) /\ Calls \subseteq CallIds
<1>1. Order \in Seq(CallIds) /\ Distinct(Order)
  BY BatchAssumption DEF BatchAssumption
<1>2. Len(Order) \in Nat /\ DOMAIN Order = 1 .. Len(Order)
  BY <1>1
<1>3. \A i \in 1 .. Len(Order) : Order[i] \in Calls
  BY <1>2 DEF Calls
<1>4. Order \in Seq(Calls) /\ Calls \subseteq CallIds
  <2>1. \A i \in 1 .. Len(Order) : Order[i] \in CallIds
    BY <1>1, <1>2
  <2>2. Calls \subseteq CallIds
    BY <1>2, <2>1 DEF Calls
  <2>3. Order \in Seq(Calls)
    BY <1>1, <1>2, <1>3
  <2>. QED  BY <2>2, <2>3
<1>5. IsFiniteSet(1 .. Len(Order))
  BY <1>2, FS_Interval
<1>6. IsFiniteSet(Calls)
  <2>. DEFINE f == [i \in 1 .. Len(Order) |-> Order[i]]
  <2>1. f \in Surjection(1 .. Len(Order), Calls)
    BY <1>2, <1>3 DEF Surjection, Calls
  <2>. QED  BY <1>5, <2>1, FS_Surjection
<1>. QED
  BY <1>1, <1>2, <1>4, <1>6

\* The first n ids are n ids.
LEMMA FirstIds ==
    ASSUME NEW n \in 0 .. Len(Order)
    PROVE  Cardinality({Order[i] : i \in 1 .. n}) = n
<1>. DEFINE T == {Order[i] : i \in 1 .. n}
            f == [i \in 1 .. n |-> Order[i]]
<1>1. n \in Nat /\ n <= Len(Order)
  BY OrderFacts
<1>2. \A i, j \in 1 .. n : Order[i] = Order[j] => i = j
  BY <1>1, OrderFacts DEF Distinct
<1>3. f \in Bijection(1 .. n, T)
  BY <1>2 DEF Bijection, Injection, Surjection, IsInjective
<1>4. ExistsBijection(1 .. n, T)
  BY <1>3 DEF ExistsBijection
<1>. QED
  BY <1>1, <1>4, FS_CountingElements

\* A sequence has at most as many members as places.
LEMMA MembersBound ==
    ASSUME NEW s \in Seq(Calls)
    PROVE  /\ IsFiniteSet({s[i] : i \in DOMAIN s})
           /\ Cardinality({s[i] : i \in DOMAIN s}) <= Len(s)
<1>. DEFINE T == {s[i] : i \in DOMAIN s}
            f == [i \in 1 .. Len(s) |-> s[i]]
<1>1. Len(s) \in Nat /\ DOMAIN s = 1 .. Len(s)
  OBVIOUS
<1>2. f \in Surjection(1 .. Len(s), T)
  BY <1>1 DEF Surjection
<1>3. IsFiniteSet(1 .. Len(s)) /\ Cardinality(1 .. Len(s)) = Len(s)
  <2>. DEFINE n == Len(s)
  <2>1. n \in Nat
    BY <1>1
  <2>. HIDE DEF n
  <2>2. 1 \in Int /\ n \in Int
    BY <2>1
  <2>3. IsFiniteSet(1 .. n) /\ Cardinality(1 .. n) = IF 1 > n THEN 0 ELSE n - 1 + 1
    BY <2>2, FS_Interval, Zenon
  <2>4. IsFiniteSet(1 .. n) /\ Cardinality(1 .. n) = n
    BY <2>1, <2>3
  <2>. QED  BY <2>4 DEF n
<1>. QED
  BY <1>2, <1>3, FS_Surjection

(****************************************************************************)
(* What an append does to the protocol state.                               *)
(****************************************************************************)

LEMMA Begun ==
    ASSUME NEW p \in Protocol, NEW ids \in Seq(CallIds), NEW q, q = BeginCalls(p, ids)
    PROVE  /\ q \in Protocol /\ q.user = p.user /\ q.terminal = p.terminal
           /\ q.pending = ids /\ q.started = {} /\ q.ordinal = 0 /\ q.results = 0
BY DEF BeginCalls, Protocol

\* A start is the next of the transaction.
LEMMA AppliedStart ==
    ASSUME NEW p \in Protocol, Distinct(p.pending), p.ordinal < Len(p.pending),
           NEW c, c = p.pending[p.ordinal + 1]
    PROVE  /\ Applied(p, Started(c)) \in Protocol
           /\ Applied(p, Started(c)).user = p.user
           /\ Applied(p, Started(c)).terminal = p.terminal
           /\ Applied(p, Started(c)).pending = p.pending
           /\ Applied(p, Started(c)).results = p.results
           /\ Applied(p, Started(c)).ordinal = p.ordinal + 1
           /\ Applied(p, Started(c)).started = p.started \cup {c}
           /\ Position(c, p.pending) = p.ordinal + 1
<1>1. /\ p.pending \in Seq(CallIds) /\ p.ordinal \in Nat /\ Len(p.pending) \in Nat
      /\ DOMAIN p.pending = 1 .. Len(p.pending) /\ p.started \in SUBSET CallIds
  BY DEF Protocol
<1>2. p.ordinal + 1 \in DOMAIN p.pending /\ c \in CallIds
  BY <1>1
<1>3. \A j \in DOMAIN p.pending : p.pending[j] = c => j = p.ordinal + 1
  BY <1>2 DEF Distinct
<1>4. Position(c, p.pending) = p.ordinal + 1
  BY <1>1, <1>2, <1>3 DEF Position
<1>5. Started(c).kind = "tool_started" /\ Started(c).calls[1] = c
  BY DEF Started, Plain
<1>6. Applied(p, Started(c))
         = [p EXCEPT !.started = @ \cup {c}, !.ordinal = p.ordinal + 1]
  BY <1>4, <1>5 DEF Applied
<1>. DEFINE q == Applied(p, Started(c))
<1>. HIDE DEF q
<1>7. q = [p EXCEPT !.started = @ \cup {c}, !.ordinal = p.ordinal + 1]
  BY <1>6 DEF q
<1>8. p.started \cup {c} \in SUBSET CallIds /\ p.ordinal + 1 \in Nat
  BY <1>1, <1>2
<1>9. /\ q \in Protocol /\ q.user = p.user /\ q.terminal = p.terminal
      /\ q.pending = p.pending /\ q.results = p.results
      /\ q.ordinal = p.ordinal + 1 /\ q.started = p.started \cup {c}
  BY <1>7, <1>8 DEF Protocol
<1>. QED
  BY <1>4, <1>9 DEF q

\* A result is one more, and the last one ends the transaction.
LEMMA AppliedResult ==
    ASSUME NEW p \in Protocol, NEW c, NEW x, NEW f
    PROVE  /\ Applied(p, Result(c, x, f)) \in Protocol
           /\ Applied(p, Result(c, x, f)).user = p.user
           /\ Applied(p, Result(c, x, f)).terminal = p.terminal
           /\ p.results + 1 = Len(p.pending) =>
                /\ Applied(p, Result(c, x, f)).pending = <<>>
                /\ Applied(p, Result(c, x, f)).started = {}
                /\ Applied(p, Result(c, x, f)).ordinal = 0
                /\ Applied(p, Result(c, x, f)).results = 0
           /\ p.results + 1 # Len(p.pending) =>
                /\ Applied(p, Result(c, x, f)).pending = p.pending
                /\ Applied(p, Result(c, x, f)).started = p.started
                /\ Applied(p, Result(c, x, f)).ordinal = p.ordinal
                /\ Applied(p, Result(c, x, f)).results = p.results + 1
<1>1. Result(c, x, f).kind = "tool_result"
  BY DEF Result
<1>2. Applied(p, Result(c, x, f)) = IF p.results + 1 = Len(p.pending)
                                    THEN BeginCalls(p, <<>>)
                                    ELSE [p EXCEPT !.results = @ + 1]
  BY <1>1 DEF Applied
<1>3. p.results + 1 \in Nat
  BY DEF Protocol
<1>4. CASE p.results + 1 = Len(p.pending)
  <2>. DEFINE q == Applied(p, Result(c, x, f))
  <2>1. q = BeginCalls(p, <<>>) /\ <<>> \in Seq(CallIds)
    BY <1>2, <1>4
  <2>. HIDE DEF q
  <2>2. /\ q \in Protocol /\ q.user = p.user /\ q.terminal = p.terminal
        /\ q.pending = <<>> /\ q.started = {} /\ q.ordinal = 0 /\ q.results = 0
    BY <2>1 DEF BeginCalls, Protocol
  <2>. QED  BY <1>4, <2>2 DEF q
<1>5. CASE p.results + 1 # Len(p.pending)
  BY <1>2, <1>3, <1>5 DEF Protocol
<1>. QED
  BY <1>4, <1>5

\* A request begins a transaction.
LEMMA AppliedRequest ==
    ASSUME NEW p \in Protocol, NEW ids \in Seq(CallIds)
    PROVE  /\ Applied(p, Requested(ids)) \in Protocol
           /\ Applied(p, Requested(ids)).user = p.user
           /\ Applied(p, Requested(ids)).terminal = p.terminal
           /\ Applied(p, Requested(ids)).pending = ids
           /\ Applied(p, Requested(ids)).started = {}
           /\ Applied(p, Requested(ids)).ordinal = 0
           /\ Applied(p, Requested(ids)).results = 0
           /\ Requested(ids).kind = "tool_calls"
<1>1. Requested(ids).kind = "tool_calls" /\ Requested(ids).calls = ids
  BY DEF Requested, Plain
<1>2. Applied(p, Requested(ids)) = BeginCalls(p, ids)
  BY <1>1 DEF Applied
<1>. QED
  BY <1>1, <1>2, Begun

LEMMA AppliedPlain ==
    ASSUME NEW p \in Protocol, NEW k \in {"user_message", "terminal"}
    PROVE  /\ Plain(k).kind = k
           /\ Applied(p, Plain(k)) \in Protocol
           /\ Applied(p, Plain(k)).user = (IF k = "user_message" THEN TRUE ELSE p.user)
           /\ Applied(p, Plain(k)).terminal = (IF k = "terminal" THEN TRUE ELSE p.terminal)
           /\ Applied(p, Plain(k)).pending = p.pending
           /\ Applied(p, Plain(k)).started = p.started
           /\ Applied(p, Plain(k)).ordinal = p.ordinal
           /\ Applied(p, Plain(k)).results = p.results
<1>1. Plain(k).kind = k
  BY DEF Plain
<1>2. CASE k = "user_message"
  <2>1. Applied(p, Plain(k)) = [p EXCEPT !.user = TRUE]
    BY <1>1, <1>2 DEF Applied
  <2>. QED  BY <1>1, <1>2, <2>1 DEF Protocol
<1>3. CASE k = "terminal"
  <2>1. Applied(p, Plain(k)) = [p EXCEPT !.terminal = TRUE]
    BY <1>1, <1>3 DEF Applied
  <2>. QED  BY <1>1, <1>3, <2>1 DEF Protocol
<1>. QED
  BY <1>2, <1>3

\* A part of a sequence.
LEMMA Section ==
    ASSUME NEW S, NEW s \in Seq(S), NEW k \in Nat, NEW n \in Nat, k + n <= Len(s)
    PROVE  /\ SubSeq(s, k + 1, k + n) \in Seq(S)
           /\ Len(SubSeq(s, k + 1, k + n)) = n
           /\ \A i \in 1 .. n : /\ SubSeq(s, k + 1, k + n)[i] = s[k + i]
                               /\ SubSeq(s, k + 1, k + n)[i] \in S
<1>1. Len(s) \in Nat /\ DOMAIN s = 1 .. Len(s)
  OBVIOUS
<1>2. \A i \in 1 .. n : k + 1 + i - 1 = k + i /\ k + i \in 1 .. Len(s)
  BY <1>1
<1>3. \A i \in 1 .. n : s[k + i] \in S
  BY <1>1, <1>2
<1>4. \A i \in k + 1 .. k + n : s[i] \in S
  BY <1>1
<1>5. SubSeq(s, k + 1, k + n) \in Seq(S)
  BY <1>1, <1>4
<1>6. Len(SubSeq(s, k + 1, k + n)) = n
  BY <1>1
<1>7. \A i \in 1 .. n : SubSeq(s, k + 1, k + n)[i] = s[k + i]
  BY <1>1, <1>2
<1>. QED
  BY <1>3, <1>5, <1>6, <1>7

\* pending_tool_calls, and the first of them.
LEMMA Owed ==
    ASSUME NEW p \in Protocol, p.results <= Len(p.pending)
    PROVE  /\ PendingCalls(p) \in Seq(CallIds)
           /\ Len(PendingCalls(p)) = Len(p.pending) - p.results
           /\ p.results < Len(p.pending) =>
                PendingCalls(p)[1] = p.pending[p.results + 1] /\ PendingCalls(p) # <<>>
           /\ \A i \in 1 .. Len(p.pending) - p.results :
                 PendingCalls(p)[i] = p.pending[p.results + i]
<1>1. /\ p.pending \in Seq(CallIds) /\ p.results \in Nat /\ Len(p.pending) \in Nat
      /\ DOMAIN p.pending = 1 .. Len(p.pending)
  BY DEF Protocol
<1>2. /\ PendingCalls(p) \in Seq(CallIds)
      /\ Len(PendingCalls(p)) = Len(p.pending) - p.results
      /\ \A i \in 1 .. Len(p.pending) - p.results :
            PendingCalls(p)[i] = p.pending[p.results + i]
  <2>. DEFINE s == p.pending
              k == p.results
              n == Len(p.pending) - p.results
  <2>1. /\ s \in Seq(CallIds) /\ k \in Nat /\ n \in Nat
        /\ k + n = Len(s) /\ k + n <= Len(s)
    BY <1>1
  <2>2. PendingCalls(p) = SubSeq(s, k + 1, k + n)
    BY <2>1 DEF PendingCalls
  <2>. HIDE DEF s, k, n
  <2>3. /\ SubSeq(s, k + 1, k + n) \in Seq(CallIds)
        /\ Len(SubSeq(s, k + 1, k + n)) = n
        /\ \A i \in 1 .. n : /\ SubSeq(s, k + 1, k + n)[i] = s[k + i]
                            /\ SubSeq(s, k + 1, k + n)[i] \in CallIds
    BY <2>1, Section, Zenon
  <2>4. /\ PendingCalls(p) \in Seq(CallIds) /\ Len(PendingCalls(p)) = n
        /\ \A i \in 1 .. n : PendingCalls(p)[i] = s[k + i]
    BY <2>2, <2>3, Zenon
  <2>. QED  BY <2>4 DEF s, k, n
<1>3. ASSUME p.results < Len(p.pending)
      PROVE  1 \in 1 .. Len(p.pending) - p.results
  BY <1>1, <1>3
<1>. QED
  BY <1>1, <1>2, <1>3

(****************************************************************************)
(* What main appends next is true, and the protocol check accepts it.       *)
(****************************************************************************)
Due == protocol.pending[protocol.results + 1]

Says(x) ==
    /\ x \in {"not_started", "failed", "completed"}
    /\ x = "not_started" <=> Due \notin protocol.started
    /\ x = "completed" => value[Due] \in {"ok", "effect"} /\ task[Due] = "done"

LEMMA Transaction ==
    ASSUME Typed, Shape
    PROVE  /\ protocol \in Protocol
           /\ protocol.pending \in Seq(Calls) /\ protocol.pending \in Seq(CallIds)
           /\ DOMAIN protocol.pending = 1 .. Len(protocol.pending)
           /\ Len(protocol.pending) \in Nat
           /\ protocol.ordinal \in Nat /\ protocol.results \in Nat
           /\ \A i \in 1 .. Len(protocol.pending) : protocol.pending[i] \in Calls
           /\ protocol.started \subseteq Calls
BY DEF Typed, Shape, Protocol

LEMMA NextStart ==
    ASSUME OInv, main = "starting"
    PROVE  /\ protocol.ordinal < Len(protocol.pending)
           /\ NextEvent = Started(protocol.pending[protocol.ordinal + 1])
BY DEF OInv, Progress, InABatch, Pooled, NextEvent

LEMMA NextResult ==
    ASSUME OInv, main \in {"rejecting", "recording", "recovering"}
    PROVE  /\ protocol.results < Len(protocol.pending)
           /\ \E x, f : NextEvent = Result(Due, x, f) /\ Says(x)
<1>. USE DEF OInv, Data
<1>1. Typed /\ Shape /\ Progress /\ Confined
  OBVIOUS
<1>2. CASE main = "rejecting"
  <2>1. /\ protocol.pending = batch /\ protocol.results = at /\ at < Len(batch)
        /\ protocol.ordinal = 0
    BY <1>1, <1>2 DEF Progress, InABatch
  <2>2. protocol.started = {}
    BY <1>1, <2>1 DEF Shape
  <2>3. NextEvent = Result(Due, "not_started", "none")
    BY <1>2, <2>1 DEF NextEvent, Due
  <2>4. Says("not_started")
    BY <2>2 DEF Says
  <2>. QED  BY <2>1, <2>3, <2>4
<1>3. CASE main = "recording"
  <2>1. /\ protocol.pending = batch /\ protocol.results = at /\ at < Len(batch)
        /\ protocol.ordinal = Len(batch)
    BY <1>1, <1>3 DEF Progress, InABatch
  <2>2. at + 1 \in 1 .. Len(batch) /\ DOMAIN batch = 1 .. Len(batch)
    BY <1>1, <2>1, Transaction
  <2>3. Due \in protocol.started /\ task[Due] = "done"
    BY <1>1, <1>3, <2>1, <2>2 DEF Shape, Confined, Due
  <2>4. NextEvent = Outcome(Due)
    BY <1>3, <2>1 DEF NextEvent, Due
  <2>5. CASE value[Due] = "ok"
    BY <2>1, <2>3, <2>4, <2>5 DEF Outcome, Says
  <2>6. CASE value[Due] = "effect"
    BY <2>1, <2>3, <2>4, <2>6 DEF Outcome, Says
  <2>7. CASE value[Due] # "ok" /\ value[Due] # "effect"
    BY <2>1, <2>3, <2>4, <2>7 DEF Outcome, Says
  <2>. QED  BY <2>5, <2>6, <2>7
<1>4. CASE main = "recovering"
  <2>1. protocol.results < Len(protocol.pending)
    BY <1>1, <1>4, Transaction DEF Progress, Shape
  <2>2. PendingCalls(protocol)[1] = Due
    BY <1>1, <2>1, Transaction, Owed DEF Due
  <2>3. NextEvent = Reconciled(Due)
    BY <1>4, <2>2 DEF NextEvent
  <2>4. CASE Due \in protocol.started
    BY <2>1, <2>3, <2>4 DEF Reconciled, Says
  <2>5. CASE Due \notin protocol.started
    BY <2>1, <2>3, <2>5 DEF Reconciled, Says
  <2>. QED  BY <2>4, <2>5
<1>. QED
  BY <1>2, <1>3, <1>4

LEMMA NextAllowed ==
    ASSUME OInv, main \in {"rejecting", "starting", "recording", "recovering"}
    PROVE  Allowed(protocol, NextEvent)
<1>. USE DEF OInv, Data
<1>1. protocol.user /\ ~protocol.terminal
  BY DEF Progress
<1>2. CASE main = "starting"
  <2>. DEFINE c == protocol.pending[protocol.ordinal + 1]
  <2>1. /\ protocol.ordinal < Len(protocol.pending) /\ NextEvent = Started(c)
        /\ protocol.results = 0
    BY <1>2, NextStart DEF Progress
  <2>2. Position(c, protocol.pending) = protocol.ordinal + 1
    BY <2>1, Transaction, AppliedStart DEF Shape
  <2>3. protocol.ordinal + 1 \in DOMAIN protocol.pending
    BY <2>1, Transaction
  <2>4. c \notin protocol.started
    <3>1. \A i \in 1 .. protocol.ordinal : i \in DOMAIN protocol.pending
      BY <2>1, Transaction
    <3>2. \A i \in 1 .. protocol.ordinal : protocol.pending[i] # c
      BY <2>3, <3>1, Transaction DEF Shape, Distinct
    <3>. QED  BY <3>2 DEF Shape
  <2>5. Started(c).kind = "tool_started" /\ Started(c).calls[1] = c
    BY DEF Started, Plain
  <2>6. MayStart(protocol, c)
    BY <2>1, <2>2, <2>3, <2>4, Transaction DEF MayStart, InSeq
  <2>. HIDE DEF c
  <2>. QED  BY <1>1, <2>1, <2>5, <2>6 DEF Allowed
<1>3. CASE main # "starting"
  <2>1. PICK x, f : NextEvent = Result(Due, x, f) /\ Says(x)
    BY <1>3, NextResult
  <2>2. /\ Result(Due, x, f).kind = "tool_result" /\ Result(Due, x, f).calls[1] = Due
        /\ Result(Due, x, f).exec = x
    BY DEF Result
  <2>3. MayFinish(protocol, Due, x)
    BY <1>3, <2>1, NextResult DEF MayFinish, Says, Due
  <2>. QED  BY <1>1, <2>1, <2>2, <2>3 DEF Allowed
<1>. QED
  BY <1>2, <1>3

(****************************************************************************)
(* What a result and a start do to the data.                                *)
(****************************************************************************)
LEMMA ResultKeepsData ==
    ASSUME Typed, Data, protocol.results < Len(protocol.pending),
           NEW x, NEW f, Says(x), Log(Result(Due, x, f)), UNCHANGED <<task, value>>
    PROVE  /\ protocol' \in Protocol
           /\ answer' \in [Calls -> {"-", "not_started", "failed", "completed"}]
           /\ Data'
           /\ Ran' \subseteq Ran \cup protocol.started
           /\ Known' = Known
           /\ protocol'.user = protocol.user /\ protocol'.terminal = protocol.terminal
           /\ protocol.results + 1 = Len(protocol.pending) => protocol'.pending = <<>>
           /\ protocol.results + 1 # Len(protocol.pending) =>
                /\ protocol'.pending = protocol.pending
                /\ protocol'.ordinal = protocol.ordinal
                /\ protocol'.results = protocol.results + 1
<1>. USE DEF Data
<1>1. /\ protocol' = Applied(protocol, Result(Due, x, f))
      /\ answer' = [answer EXCEPT ![Due] = x]
      /\ task' = task /\ value' = value
  BY DEF Log, Result
<1>. DEFINE n == Len(protocol.pending)
            last == protocol.results + 1 = n
<1>2. /\ protocol.pending \in Seq(Calls) /\ n \in Nat
      /\ DOMAIN protocol.pending = 1 .. n
      /\ protocol.ordinal \in Nat /\ protocol.results \in Nat
      /\ \A i \in 1 .. n : protocol.pending[i] \in Calls
      /\ protocol.started \subseteq Calls
      /\ protocol.results + 1 \in 1 .. n
  BY Transaction
<1>3. Due \in Calls /\ x \in {"not_started", "failed", "completed"}
  BY <1>2 DEF Due, Says
<1>4. /\ answer' \in [Calls -> {"-", "not_started", "failed", "completed"}]
      /\ answer'[Due] = x /\ \A c \in Calls \ {Due} : answer'[c] = answer[c]
  BY <1>1, <1>3 DEF Typed
<1>5. /\ protocol' \in Protocol
      /\ protocol'.user = protocol.user /\ protocol'.terminal = protocol.terminal
      /\ last => protocol'.pending = <<>> /\ protocol'.started = {}
                 /\ protocol'.ordinal = 0 /\ protocol'.results = 0
      /\ ~last => /\ protocol'.pending = protocol.pending
                  /\ protocol'.started = protocol.started
                  /\ protocol'.ordinal = protocol.ordinal
                  /\ protocol'.results = protocol.results + 1
  BY <1>1, AppliedResult DEF Typed
<1>6. \A i \in 1 .. n : protocol.pending[i] = Due <=> i = protocol.results + 1
  BY <1>2 DEF Shape, Distinct, Due
<1>7. Shape'
  <2>1. CASE last
    <3>0. <<>> \in Seq(Calls) /\ Len(<<>>) = 0 /\ Distinct(<<>>)
      BY DEF Distinct
    <3>1. /\ protocol'.pending \in Seq(Calls) /\ Len(protocol'.pending) = 0
          /\ Distinct(protocol'.pending)
      BY <1>5, <2>1, <3>0
    <3>2. {protocol'.pending[i] : i \in 1 .. protocol'.ordinal} = {}
      BY <1>5, <2>1
    <3>. QED  BY <1>5, <2>1, <3>1, <3>2 DEF Shape
  <2>2. CASE ~last
    <3>1. /\ protocol'.pending = protocol.pending /\ protocol'.started = protocol.started
          /\ protocol'.ordinal = protocol.ordinal
          /\ protocol'.results = protocol.results + 1
      BY <1>5, <2>2
    <3>2. /\ protocol'.results <= Len(protocol.pending)
          /\ protocol'.results # Len(protocol.pending)
      BY <1>2, <2>2, <3>1
    <3>. QED  BY <3>1, <3>2 DEF Shape
  <2>. QED  BY <2>1, <2>2
<1>8. Answered'
  <2>1. CASE last
    BY <1>5, <2>1 DEF Answered
  <2>2. CASE ~last
    <3>. SUFFICES ASSUME NEW i \in 1 .. n
                  PROVE  answer'[protocol.pending[i]] # "-" <=> i <= protocol.results + 1
      BY <1>2, <1>5, <2>2 DEF Answered
    <3>1. CASE i = protocol.results + 1
      BY <1>2, <1>3, <1>4, <1>6, <3>1
    <3>2. CASE i # protocol.results + 1
      <4>1. answer'[protocol.pending[i]] = answer[protocol.pending[i]]
        BY <1>2, <1>4, <1>6, <3>2
      <4>2. answer[protocol.pending[i]] # "-" <=> i <= protocol.results
        BY <1>2 DEF Answered
      <4>. QED  BY <1>2, <3>2, <4>1, <4>2
    <3>. QED  BY <3>1, <3>2
  <2>. QED  BY <2>1, <2>2
<1>9. \A i \in 1 .. n : last => answer'[protocol.pending[i]] # "-"
  <2>. SUFFICES ASSUME NEW i \in 1 .. n, last PROVE answer'[protocol.pending[i]] # "-"
    OBVIOUS
  <2>1. CASE i = protocol.results + 1
    BY <1>3, <1>4, <1>6, <2>1
  <2>2. CASE i # protocol.results + 1
    <3>1. i <= protocol.results
      BY <1>2, <2>2
    <3>. QED  BY <1>2, <1>4, <1>6, <2>2, <3>1 DEF Answered
  <2>. QED  BY <2>1, <2>2
<1>10. \A c \in Calls :
         (answer'[c] # "-" \/ InSeq(c, protocol'.pending))
           <=> (answer[c] # "-" \/ InSeq(c, protocol.pending))
  <2>. SUFFICES ASSUME NEW c \in Calls
                PROVE  (answer'[c] # "-" \/ InSeq(c, protocol'.pending))
                         <=> (answer[c] # "-" \/ InSeq(c, protocol.pending))
    OBVIOUS
  <2>1. InSeq(Due, protocol.pending)
    BY <1>2 DEF Due, InSeq
  <2>2. answer'[Due] # "-"
    BY <1>3, <1>4
  <2>3. CASE last
    <3>1. ~InSeq(c, protocol'.pending)
      BY <1>5, <2>3 DEF InSeq
    <3>2. InSeq(c, protocol.pending) => answer'[c] # "-"
      BY <1>2, <1>9, <2>3 DEF InSeq
    <3>3. c # Due => answer'[c] = answer[c]
      BY <1>4
    <3>. QED  BY <2>1, <2>2, <3>1, <3>2, <3>3
  <2>4. CASE ~last
    BY <1>4, <1>5, <2>1, <2>2, <2>4
  <2>. QED  BY <2>3, <2>4
<1>11. Known' = Known
  BY <1>10 DEF Known, Calls
<1>12. Prefix'
  BY <1>11 DEF Prefix
<1>13. \A c \in Calls : c \in protocol'.started => c \in protocol.started
  BY <1>5
<1>14. NotYet'
  <2>. SUFFICES ASSUME NEW c \in Calls, Unstarted(c)'
                PROVE  task[c] = "none" /\ value[c] = "-"
    BY <1>1 DEF NotYet, Calls
  <2>1. CASE c \notin Known'
    BY <1>11, <2>1 DEF NotYet, Unstarted
  <2>2. CASE InSeq(c, protocol'.pending) /\ c \notin protocol'.started
    <3>1. ~last
      BY <1>5, <2>2 DEF InSeq
    <3>. QED  BY <1>5, <2>2, <3>1 DEF NotYet, Unstarted
  <2>3. CASE answer'[c] = "not_started"
    <3>1. CASE c = Due
      <4>1. c \notin protocol.started /\ InSeq(c, protocol.pending)
        BY <1>2, <1>3, <1>4, <2>3, <3>1 DEF Says, InSeq, Due
      <4>. QED  BY <4>1 DEF NotYet, Unstarted
    <3>2. CASE c # Due
      BY <1>4, <2>3, <3>2 DEF NotYet, Unstarted
    <3>. QED  BY <3>1, <3>2
  <2>. QED  BY <2>1, <2>2, <2>3 DEF Unstarted
<1>15. Working'
  <2>0. Busy' = Busy /\ Busy \subseteq Calls
    BY <1>1 DEF Busy, With, Calls
  <2>. SUFFICES ASSUME NEW c \in Busy
                PROVE  answer'[c] = "failed" \/ (answer'[c] = "-" /\ c \in protocol'.started)
    BY <2>0 DEF Working
  <2>1. c \in Calls /\ task[c] \in {"queued", "running"}
    BY <2>0 DEF Busy, With
  <2>2. CASE c = Due
    <3>1. x # "completed"
      BY <2>1, <2>2 DEF Says
    <3>2. x # "not_started"
      <4>. SUFFICES ASSUME x = "not_started" PROVE FALSE
        OBVIOUS
      <4>1. c \notin protocol.started /\ InSeq(c, protocol.pending)
        BY <1>2, <2>2 DEF Says, InSeq, Due
      <4>. QED  BY <2>1, <4>1 DEF NotYet, Unstarted
    <3>. QED  BY <1>3, <1>4, <2>2, <3>1, <3>2
  <2>3. CASE c # Due
    <3>1. answer'[c] = answer[c]
      BY <1>4, <2>1, <2>3
    <3>2. CASE answer[c] = "failed"
      BY <3>1, <3>2
    <3>3. CASE answer[c] = "-" /\ c \in protocol.started
      <4>1. PICK i \in 1 .. protocol.ordinal : protocol.pending[i] = c
        BY <3>3 DEF Shape
      <4>2. i \in 1 .. n
        BY <1>2, <4>1 DEF Shape
      <4>3. ~last
        BY <1>9, <3>1, <3>3, <4>1, <4>2
      <4>. QED  BY <1>5, <3>1, <3>3, <4>3
    <3>. QED  BY <3>2, <3>3 DEF Working
  <2>. QED  BY <2>2, <2>3
<1>16. Finished'
  BY <1>1, <1>3, <1>4 DEF Finished, Says, Calls
<1>17. Ran' \subseteq Ran \cup protocol.started
  <2>. SUFFICES ASSUME NEW c \in Calls, answer'[c] \in {"failed", "completed"}
                PROVE  c \in Ran \cup protocol.started
    BY DEF Ran, Calls
  <2>1. CASE c = Due
    BY <1>4, <2>1, <1>3 DEF Says
  <2>2. CASE c # Due
    BY <1>4, <2>2 DEF Ran
  <2>. QED  BY <2>1, <2>2
<1>18. BudgetKept'
  <2>1. Ran' \cup protocol'.started \in SUBSET (Ran \cup protocol.started)
    BY <1>5, <1>17
  <2>2. IsFiniteSet(Ran \cup protocol.started)
    <3>1. Ran \cup protocol.started \in SUBSET Calls
      BY <1>2 DEF Ran
    <3>. QED  BY <3>1, OrderFacts, FS_Subset
  <2>3. Cardinality(Ran' \cup protocol'.started) <= Cardinality(Ran \cup protocol.started)
    BY <2>1, <2>2, FS_Subset
  <2>4. /\ Cardinality(Ran \cup protocol.started) \in Nat
        /\ Cardinality(Ran' \cup protocol'.started) \in Nat
    BY <2>1, <2>2, FS_Subset, FS_CardinalityType
  <2>5. Cardinality(Ran \cup protocol.started) <= Budget
    BY DEF BudgetKept, Ran
  <2>6. Cardinality(Ran' \cup protocol'.started) <= Budget
    BY <2>3, <2>4, <2>5, BatchAssumption DEF BatchAssumption
  <2>. QED  BY <2>6 DEF BudgetKept, Ran
<1>. QED
  BY <1>4, <1>5, <1>7, <1>8, <1>11, <1>12, <1>14, <1>15, <1>16, <1>17, <1>18

\* A start is counted before it is made: the batch it is of was admitted.
LEMMA StartKeepsData ==
    ASSUME Typed, Data, protocol.ordinal < Len(protocol.pending), protocol.results = 0,
           Cardinality(Ran \cup {protocol.pending[i] : i \in DOMAIN protocol.pending})
               <= Budget,
           Log(Started(protocol.pending[protocol.ordinal + 1])), UNCHANGED <<task, value>>
    PROVE  /\ protocol' \in Protocol /\ answer' = answer /\ Data' /\ Known' = Known
           /\ protocol'.user = protocol.user /\ protocol'.terminal = protocol.terminal
           /\ protocol'.pending = protocol.pending /\ protocol'.results = 0
           /\ protocol'.ordinal = protocol.ordinal + 1
<1>. USE DEF Data
<1>. DEFINE c == protocol.pending[protocol.ordinal + 1]
            n == Len(protocol.pending)
<1>1. protocol' = Applied(protocol, Started(c)) /\ answer' = answer
      /\ task' = task /\ value' = value
  BY DEF Log, Started, Plain
<1>2. /\ protocol.pending \in Seq(Calls) /\ n \in Nat
      /\ DOMAIN protocol.pending = 1 .. n
      /\ protocol.ordinal \in Nat /\ protocol.results \in Nat
      /\ \A i \in 1 .. n : protocol.pending[i] \in Calls
      /\ protocol.started \subseteq Calls
      /\ protocol.ordinal + 1 \in 1 .. n
  BY Transaction
<1>3. /\ protocol' \in Protocol
      /\ protocol'.user = protocol.user /\ protocol'.terminal = protocol.terminal
      /\ protocol'.pending = protocol.pending /\ protocol'.results = protocol.results
      /\ protocol'.ordinal = protocol.ordinal + 1
      /\ protocol'.started = protocol.started \cup {c}
  <2>1. /\ protocol \in Protocol /\ Distinct(protocol.pending)
        /\ protocol.ordinal < Len(protocol.pending)
    BY DEF Typed, Shape
  <2>. DEFINE q == Applied(protocol, Started(c))
  <2>2. /\ q \in Protocol /\ q.user = protocol.user /\ q.terminal = protocol.terminal
        /\ q.pending = protocol.pending /\ q.results = protocol.results
        /\ q.ordinal = protocol.ordinal + 1 /\ q.started = protocol.started \cup {c}
    BY <2>1, AppliedStart
  <2>. QED  BY <1>1, <2>2
<1>4. protocol'.started = {protocol.pending[i] : i \in 1 .. protocol'.ordinal}
  <2>. DEFINE s == protocol.pending
              A == 1 .. protocol.ordinal
              k == protocol.ordinal + 1
  <2>1. 1 .. protocol'.ordinal = A \cup {k}
    BY <1>2, <1>3
  <2>2. protocol.started = {s[i] : i \in A}
    BY DEF Shape
  <2>3. protocol'.pending = s /\ protocol'.started = protocol.started \cup {s[k]}
    BY <1>3
  <2>. HIDE DEF s, A, k
  <2>4. {s[i] : i \in A \cup {k}} = {s[i] : i \in A} \cup {s[k]}
    OBVIOUS
  <2>. QED  BY <2>1, <2>2, <2>3, <2>4 DEF s
<1>5. Shape'
  BY <1>2, <1>3, <1>4 DEF Shape
<1>6. Known' = Known
  BY <1>1, <1>3 DEF Known, Calls
<1>7. Answered' /\ Prefix' /\ Finished'
  BY <1>1, <1>3, <1>6 DEF Answered, Prefix, Finished, Calls
<1>8. NotYet'
  BY <1>1, <1>3, <1>6 DEF NotYet, Unstarted, Calls
<1>9. Working'
  BY <1>1, <1>3 DEF Working, Busy, With, Calls
<1>10. BudgetKept'
  <2>. DEFINE B == {protocol.pending[i] : i \in DOMAIN protocol.pending}
  <2>1. protocol'.started \subseteq B
    <3>1. \A i \in 1 .. protocol.ordinal + 1 : i \in DOMAIN protocol.pending
      BY <1>2
    <3>. QED  BY <1>3, <1>4, <3>1
  <2>2. Ran' = Ran
    BY <1>1 DEF Ran, Calls
  <2>3. IsFiniteSet(Ran \cup B)
    <3>1. Ran \cup B \in SUBSET Calls
      BY <1>2 DEF Ran
    <3>. QED  BY <3>1, OrderFacts, FS_Subset
  <2>4. Ran' \cup protocol'.started \in SUBSET (Ran \cup B)
    BY <2>1, <2>2
  <2>5. /\ Cardinality(Ran \cup B) \in Nat
        /\ Cardinality(Ran' \cup protocol'.started) \in Nat
        /\ Cardinality(Ran' \cup protocol'.started) <= Cardinality(Ran \cup B)
    BY <2>3, <2>4, FS_Subset, FS_CardinalityType
  <2>6. Cardinality(Ran \cup B) <= Budget
    OBVIOUS
  <2>. HIDE DEF B
  <2>7. Cardinality(Ran' \cup protocol'.started) <= Budget
    BY <2>5, <2>6, BatchAssumption DEF BatchAssumption
  <2>. QED  BY <2>7 DEF BudgetKept, Ran
<1>. QED
  BY <1>1, <1>3, <1>5, <1>6, <1>7, <1>8, <1>9, <1>10

\* A response brings new ids, of which nothing was ever run.
LEMMA RequestKeepsData ==
    ASSUME Typed, Data, protocol.pending = <<>>,
           NEW n \in 2 .. MaxRequested, Used + n <= Len(Order),
           batch' = SubSeq(Order, Used + 1, Used + n), Log(Requested(batch')),
           UNCHANGED <<task, value>>
    PROVE  /\ protocol' \in Protocol /\ answer' = answer /\ Data'
           /\ batch' \in Seq(Calls) /\ Len(batch') = n /\ n \in Nat /\ n > 1
           /\ protocol'.user = protocol.user /\ protocol'.terminal = protocol.terminal
           /\ protocol'.pending = batch' /\ protocol'.results = 0 /\ protocol'.ordinal = 0
           /\ protocol'.started = {}
<1>. USE DEF Data
<1>1. n \in Nat /\ n > 1
  BY BatchAssumption DEF BatchAssumption
<1>2. PICK k \in 0 .. Len(Order) : Known = {Order[i] : i \in 1 .. k}
  BY DEF Prefix
<1>3. Used = k /\ k \in Nat
  <2>1. Used = Cardinality(Known)
    BY DEF Used, Known
  <2>. QED  BY <1>2, <2>1, FirstIds
<1>4. k + n \in 0 .. Len(Order)
  BY <1>1, <1>3, OrderFacts
<1>. PICK b : b = batch'
  OBVIOUS
<1>5. /\ b \in Seq(Calls) /\ b \in Seq(CallIds) /\ Len(b) = n
      /\ DOMAIN b = 1 .. n
      /\ \A i \in 1 .. n : b[i] = Order[k + i] /\ b[i] \in Calls
  <2>1. b = SubSeq(Order, k + 1, k + n)
    BY <1>3
  <2>2. Order \in Seq(Calls) /\ Len(Order) \in Nat
    BY OrderFacts
  <2>3. k + n <= Len(Order) /\ k + 1 \in Nat /\ k + n \in Nat
    BY <1>1, <1>3, <1>4, <2>2
  <2>4. /\ SubSeq(Order, k + 1, k + n) \in Seq(Calls)
        /\ Len(SubSeq(Order, k + 1, k + n)) = n
        /\ \A i \in 1 .. n : /\ SubSeq(Order, k + 1, k + n)[i] = Order[k + i]
                            /\ SubSeq(Order, k + 1, k + n)[i] \in Calls
    BY <1>1, <1>3, <2>2, <2>3, Section, Zenon
  <2>5. b \in Seq(Calls) /\ Len(b) = n /\ \A i \in 1 .. n : b[i] = Order[k + i] /\ b[i] \in Calls
    BY <2>1, <2>4, Zenon
  <2>6. DOMAIN b = 1 .. n
    BY <2>5
  <2>7. Calls \subseteq CallIds
    BY OrderFacts
  <2>8. b \in Seq(CallIds)
    BY <1>1, <2>5, <2>6, <2>7
  <2>. QED  BY <2>5, <2>6, <2>8, Zenon
<1>6. protocol' = Applied(protocol, Requested(b)) /\ answer' = answer
      /\ task' = task /\ value' = value
  BY DEF Log, Requested, Plain
<1>7. /\ protocol' \in Protocol
      /\ protocol'.user = protocol.user /\ protocol'.terminal = protocol.terminal
      /\ protocol'.pending = b /\ protocol'.results = 0 /\ protocol'.ordinal = 0
      /\ protocol'.started = {}
  <2>1. protocol \in Protocol /\ b \in Seq(CallIds) /\ protocol' = Applied(protocol, Requested(b))
    BY <1>5, <1>6 DEF Typed
  <2>. QED  BY <2>1, AppliedRequest
<1>8. Distinct(b)
  <2>1. \A i \in 1 .. n : k + i \in DOMAIN Order
    <3>1. Len(Order) \in Nat /\ DOMAIN Order = 1 .. Len(Order)
      BY OrderFacts
    <3>. QED  BY <1>1, <1>3, <1>4, <3>1
  <2>2. ASSUME NEW i \in DOMAIN b, NEW j \in DOMAIN b, b[i] = b[j] PROVE i = j
    <3>1. i \in 1 .. n /\ j \in 1 .. n
      BY <1>5, <2>2
    <3>2. Order[k + i] = Order[k + j] /\ k + i \in DOMAIN Order /\ k + j \in DOMAIN Order
      BY <1>5, <2>1, <2>2, <3>1
    <3>3. k + i = k + j
      BY <3>2, OrderFacts DEF Distinct
    <3>. QED  BY <1>1, <1>3, <3>1, <3>3
  <2>. QED  BY <2>2 DEF Distinct
<1>9. Shape'
  <2>1. {protocol'.pending[i] : i \in 1 .. 0} = {}
    OBVIOUS
  <2>2. Len(b) # 0 /\ 0 <= Len(b)
    <3>1. Len(b) = n
      BY <1>5
    <3>2. n # 0 /\ 0 <= n
      BY <1>1
    <3>. QED  BY <3>1, <3>2, Zenon
  <2>. QED  BY <1>5, <1>7, <1>8, <2>1, <2>2 DEF Shape
<1>10. \A i \in 1 .. n : b[i] \notin Known
  <2>. SUFFICES ASSUME NEW i \in 1 .. n, b[i] \in Known PROVE FALSE
    OBVIOUS
  <2>1. PICK j \in 1 .. k : Order[j] = Order[k + i]
    BY <1>2, <1>5
  <2>2. j \in DOMAIN Order /\ k + i \in DOMAIN Order /\ j # k + i
    <3>1. Len(Order) \in Nat /\ DOMAIN Order = 1 .. Len(Order)
      BY OrderFacts
    <3>. QED  BY <1>1, <1>3, <1>4, <3>1
  <2>. QED  BY <2>1, <2>2, OrderFacts DEF Distinct
<1>11. \A c \in Calls : ~InSeq(c, protocol.pending)
  BY DEF InSeq
<1>12. Answered'
  <2>1. \A i \in 1 .. n : answer[b[i]] = "-"
    BY <1>5, <1>10 DEF Known
  <2>2. \A i \in 1 .. n : ~(i <= 0)
    BY <1>1
  <2>3. DOMAIN b = 1 .. n
    BY <1>5
  <2>4. \A i \in DOMAIN b : answer'[b[i]] = "-" /\ ~(i <= 0)
    BY <1>6, <2>1, <2>2, <2>3, Zenon
  <2>. QED  BY <1>7, <2>4 DEF Answered
<1>13. Known' = Known \cup {b[i] : i \in 1 .. n}
  <2>1. \A c : InSeq(c, protocol'.pending) <=> c \in {b[i] : i \in 1 .. n}
    BY <1>5, <1>7 DEF InSeq
  <2>2. {b[i] : i \in 1 .. n} \subseteq Calls
    BY <1>5
  <2>3. Known' = {c \in Calls : answer[c] # "-" \/ InSeq(c, protocol'.pending)}
    BY <1>6 DEF Known, Calls
  <2>4. Known = {c \in Calls : answer[c] # "-"}
    BY <1>11 DEF Known
  <2>. QED  BY <2>1, <2>2, <2>3, <2>4
<1>14. Prefix'
  <2>1. {b[i] : i \in 1 .. n} = {Order[i] : i \in k + 1 .. k + n}
    <3>1. \A i \in k + 1 .. k + n : i - k \in 1 .. n /\ k + (i - k) = i
      BY <1>1, <1>3
    <3>2. \A i \in 1 .. n : k + i \in k + 1 .. k + n
      BY <1>1, <1>3
    <3>3. \A i \in k + 1 .. k + n : Order[i] = b[i - k]
      BY <1>5, <3>1
    <3>4. {b[i] : i \in 1 .. n} \subseteq {Order[i] : i \in k + 1 .. k + n}
      BY <1>5, <3>2
    <3>5. \A i \in k + 1 .. k + n : \E j \in 1 .. n : Order[i] = b[j]
      BY <3>1, <3>3
    <3>6. {Order[i] : i \in k + 1 .. k + n} \subseteq {b[i] : i \in 1 .. n}
      <4>. SUFFICES ASSUME NEW x \in {Order[i] : i \in k + 1 .. k + n}
                    PROVE  x \in {b[i] : i \in 1 .. n}
        BY Zenon
      <4>1. PICK i \in k + 1 .. k + n : x = Order[i]
        BY Zenon
      <4>2. PICK j \in 1 .. n : x = b[j]
        BY <3>5, <4>1, Zenon
      <4>. QED  BY <4>2
    <3>. QED  BY <3>4, <3>6
  <2>2. 1 .. k + n = (1 .. k) \cup (k + 1 .. k + n)
    BY <1>1, <1>3
  <2>3. Known' = {Order[i] : i \in 1 .. k + n}
    BY <1>2, <1>13, <2>1, <2>2
  <2>. QED  BY <1>4, <2>3 DEF Prefix
<1>15. NotYet'
  <2>. SUFFICES ASSUME NEW c \in Calls, Unstarted(c)'
                PROVE  task[c] = "none" /\ value[c] = "-"
    BY <1>6 DEF NotYet, Calls
  <2>1. CASE c \notin Known'
    BY <1>13, <2>1 DEF NotYet, Unstarted
  <2>2. CASE InSeq(c, protocol'.pending)
    <3>1. \E i \in 1 .. n : c = b[i]
      BY <1>5, <1>7, <2>2 DEF InSeq
    <3>2. c \notin Known
      BY <1>10, <3>1
    <3>. QED  BY <3>2 DEF NotYet, Unstarted
  <2>3. CASE answer'[c] = "not_started"
    BY <1>6, <2>3 DEF NotYet, Unstarted
  <2>. QED  BY <2>1, <2>2, <2>3 DEF Unstarted
<1>16. protocol.started = {}
  BY Transaction DEF Shape
<1>17. Working' /\ Finished'
  BY <1>6, <1>16 DEF Working, Finished, Busy, With, Calls
<1>18. BudgetKept'
  BY <1>6, <1>7, <1>16 DEF BudgetKept, Calls
<1>. QED
  BY <1>1, <1>5, <1>6, <1>7, <1>9, <1>12, <1>14, <1>15, <1>17, <1>18

\* A message that opens or closes the Run touches none of it.
LEMMA PlainKeepsData ==
    ASSUME Typed, Data, NEW k \in {"user_message", "terminal"}, Log(Plain(k)),
           UNCHANGED <<task, value>>
    PROVE  /\ protocol' \in Protocol /\ answer' = answer /\ Data'
           /\ protocol'.user = (IF k = "user_message" THEN TRUE ELSE protocol.user)
           /\ protocol'.terminal = (IF k = "terminal" THEN TRUE ELSE protocol.terminal)
           /\ protocol'.pending = protocol.pending
           /\ protocol'.ordinal = protocol.ordinal /\ protocol'.results = protocol.results
<1>. USE DEF Data
<1>1. protocol' = Applied(protocol, Plain(k)) /\ answer' = answer
      /\ task' = task /\ value' = value
  BY DEF Log, Plain
<1>2. /\ protocol' \in Protocol
      /\ protocol'.user = (IF k = "user_message" THEN TRUE ELSE protocol.user)
      /\ protocol'.terminal = (IF k = "terminal" THEN TRUE ELSE protocol.terminal)
      /\ protocol'.pending = protocol.pending /\ protocol'.started = protocol.started
      /\ protocol'.ordinal = protocol.ordinal /\ protocol'.results = protocol.results
  BY <1>1, AppliedPlain DEF Typed
<1>3. Known' = Known
  BY <1>1, <1>2 DEF Known, Calls
<1>4. Shape' /\ Answered' /\ Prefix'
  BY <1>1, <1>2, <1>3 DEF Shape, Answered, Prefix
<1>5. NotYet'
  BY <1>1, <1>2, <1>3 DEF NotYet, Unstarted, Calls
<1>6. Working' /\ Finished' /\ BudgetKept'
  BY <1>1, <1>2 DEF Working, Finished, BudgetKept, Busy, With, Calls
<1>. QED
  BY <1>1, <1>2, <1>4, <1>5, <1>6

\* What neither writes to the log nor touches the pool leaves the data as it is.
LEMMA QuietKeepsData ==
    ASSUME Data, UNCHANGED <<protocol, answer, task, value>>
    PROVE  Data' /\ Known' = Known /\ Ran' = Ran /\ Busy' = Busy
<1>. USE DEF Data
<1>1. protocol' = protocol /\ answer' = answer /\ task' = task /\ value' = value
  OBVIOUS
<1>2. Known' = Known /\ Ran' = Ran /\ Busy' = Busy
  BY <1>1 DEF Known, Ran, Busy, With, Calls
<1>3. Shape' /\ Answered' /\ Prefix'
  BY <1>1, <1>2 DEF Shape, Answered, Prefix
<1>4. NotYet'
  BY <1>1, <1>2 DEF NotYet, Unstarted, Calls
<1>5. Working' /\ Finished' /\ BudgetKept'
  BY <1>1, <1>2 DEF Working, Finished, BudgetKept, Calls
<1>. QED
  BY <1>2, <1>3, <1>4, <1>5

(****************************************************************************)
(* The steps.                                                               *)
(****************************************************************************)
LEMMA InitOInv == Init => OInv
<1>. SUFFICES ASSUME Init PROVE OInv
  OBVIOUS
<1>. USE DEF Init
<1>1. /\ protocol \in Protocol /\ protocol.pending = <<>> /\ protocol.started = {}
      /\ protocol.ordinal = 0 /\ protocol.results = 0 /\ ~protocol.terminal
  BY DEF EmptyProtocol, Protocol
<1>2. Typed
  <2>1. main \in Phases
    BY DEF Phases
  <2>4. batch \in Seq(Calls) /\ at \in Nat
    OBVIOUS
  <2>5. stop \in BOOLEAN
    OBVIOUS
  <2>2. faults \in 0 .. MaxFaults
    BY BatchAssumption DEF BatchAssumption
  <2>3. /\ answer \in [Calls -> {"-", "not_started", "failed", "completed"}]
        /\ task \in [Calls -> {"none", "queued", "running", "done"}]
        /\ value \in [Calls -> Values]
    BY DEF Values
  <2>. QED  BY <1>1, <2>1, <2>2, <2>3, <2>4, <2>5 DEF Typed
<1>3. Known = {} /\ Busy = {}
  BY <1>1 DEF Known, InSeq, Busy, With
<1>4. Shape
  <2>1. protocol.pending \in Seq(Calls) /\ Len(protocol.pending) = 0
        /\ Distinct(protocol.pending)
    BY <1>1 DEF Distinct
  <2>2. {protocol.pending[i] : i \in 1 .. protocol.ordinal} = {}
    BY <1>1
  <2>. QED  BY <1>1, <2>1, <2>2 DEF Shape
<1>5. Answered /\ NotYet /\ Working /\ Finished
  BY <1>1, <1>3 DEF Answered, NotYet, Working, Finished
<1>6. Prefix
  <2>1. {Order[i] : i \in 1 .. 0} = {} /\ 0 \in 0 .. Len(Order)
    BY OrderFacts
  <2>. QED  BY <1>3, <2>1 DEF Prefix
<1>7. BudgetKept
  <2>1. Ran \cup protocol.started = {}
    BY <1>1 DEF Ran
  <2>2. Cardinality(Ran \cup protocol.started) = 0
    BY <2>1, FS_EmptySet
  <2>3. BudgetKept <=> Cardinality(Ran \cup protocol.started) <= Budget
    BY DEF BudgetKept, Ran
  <2>. QED  BY <2>2, <2>3, BatchAssumption DEF BatchAssumption
<1>8. Progress
  BY <1>1 DEF Progress, InABatch, Pooled
<1>9. Confined /\ Admitted /\ SiblingsSurvive
  BY <1>3 DEF Confined, Admitted, SiblingsSurvive, Pooled
<1>. QED
  BY <1>2, <1>4, <1>5, <1>6, <1>7, <1>8, <1>9 DEF OInv, Data

\* What was admitted stays admitted.
LEMMA StaysAdmitted ==
    ASSUME Typed, Cardinality(Ran \cup BatchCalls) <= Budget,
           Ran' \subseteq Ran \cup BatchCalls, batch' = batch
    PROVE  Cardinality(Ran' \cup BatchCalls') <= Budget
<1>1. BatchCalls' = BatchCalls
  BY DEF BatchCalls
<1>2. Ran \cup BatchCalls \in SUBSET Calls
  BY DEF Ran, BatchCalls, Typed
<1>3. IsFiniteSet(Ran \cup BatchCalls)
  BY <1>2, OrderFacts, FS_Subset
<1>4. Ran' \cup BatchCalls' \in SUBSET (Ran \cup BatchCalls)
  BY <1>1
<1>5. /\ Cardinality(Ran \cup BatchCalls) \in Nat
      /\ Cardinality(Ran' \cup BatchCalls') \in Nat
      /\ Cardinality(Ran' \cup BatchCalls') <= Cardinality(Ran \cup BatchCalls)
  BY <1>3, <1>4, FS_Subset, FS_CardinalityType
<1>. QED
  BY <1>5, BatchAssumption DEF BatchAssumption

\* An interrupt or a result in the pool.
LEMMA WorkerKeepsOInv ==
    ASSUME OInv, NEW c \in Busy, NEW s \in {"running", "done"}, NEW v \in Values,
           task' = [task EXCEPT ![c] = s],
           value' = value \/ value' = [value EXCEPT ![c] = v],
           v = "interrupted" => stop \/ ~InSeq(c, batch),
           UNCHANGED <<main, protocol, answer, batch, at, stop, faults>>
    PROVE  OInv'
<1>. USE DEF OInv, Data
<1>0. /\ main' = main /\ protocol' = protocol /\ answer' = answer /\ batch' = batch
      /\ at' = at /\ stop' = stop /\ faults' = faults
  OBVIOUS
<1>1. c \in Calls
  BY DEF Busy, With
<1>2. /\ task' \in [Calls -> {"none", "queued", "running", "done"}]
      /\ task'[c] = s /\ \A d \in Calls \ {c} : task'[d] = task[d]
  BY <1>1 DEF Typed
<1>3. value' \in [Calls -> Values] /\ \A d \in Calls \ {c} : value'[d] = value[d]
  BY <1>1 DEF Typed
<1>4. Typed'
  BY <1>0, <1>2, <1>3 DEF Typed, Calls
<1>5. Known' = Known /\ Ran' = Ran /\ BatchCalls' = BatchCalls
  BY <1>0 DEF Known, Ran, BatchCalls, Calls
<1>6. Busy' \subseteq Busy
  BY <1>1, <1>2 DEF Busy, With, Calls
<1>7. Shape' /\ Answered' /\ Prefix'
  <2>1. Shape'
    BY <1>0 DEF Shape
  <2>2. Answered'
    BY <1>0 DEF Answered
  <2>3. Prefix'
    BY <1>5 DEF Prefix
  <2>. QED  BY <2>1, <2>2, <2>3
<1>16. BudgetKept'
  BY <1>0 DEF BudgetKept, Calls
<1>8. ~Unstarted(c) /\ answer[c] # "completed"
  <2>1. task[c] # "none"
    BY DEF Busy, With
  <2>. QED  BY <1>1, <2>1 DEF NotYet, Working
<1>9. NotYet'
  <2>1. \A d \in Calls : Unstarted(d)' <=> Unstarted(d)
    BY <1>0, <1>5 DEF Unstarted
  <2>2. \A d \in Calls : Unstarted(d) => task'[d] = "none" /\ value'[d] = "-"
    BY <1>2, <1>3, <1>8 DEF NotYet
  <2>. QED  BY <2>1, <2>2 DEF NotYet, Calls
<1>10. Working'
  BY <1>0, <1>6 DEF Working
<1>11. Finished'
  BY <1>0, <1>3, <1>8 DEF Finished, Calls
<1>12. Progress'
  BY <1>0 DEF Progress
<1>13. Confined'
  <2>1. \A d \in Calls : task[d] = "done" => task'[d] = "done"
    BY <1>1, <1>2 DEF Busy, With
  <2>2. \A i \in DOMAIN batch : batch[i] \in Calls
    BY DEF Typed
  <2>3. main = "collecting" => \A i \in 1 .. at : i \in DOMAIN batch
    BY DEF Typed, Progress, InABatch, Pooled
  <2>4. main = "collecting" => \A i \in 1 .. at : task'[batch[i]] = "done"
    BY <2>1, <2>2, <2>3 DEF Confined
  <2>5. main = "recording" => \A i \in DOMAIN batch : task'[batch[i]] = "done"
    BY <2>1, <2>2 DEF Confined
  <2>6. faults < 2 => \A d \in Busy' : main \in Pooled /\ InSeq(d, batch)
    BY <1>6 DEF Confined
  <2>. QED  BY <1>0, <2>4, <2>5, <2>6 DEF Confined
<1>14. Admitted'
  BY <1>0, <1>5 DEF Admitted
<1>15. SiblingsSurvive'
  <2>. SUFFICES ASSUME ~stop, faults = 0, NEW d \in Calls PROVE value'[d] # "interrupted"
    BY <1>0 DEF SiblingsSurvive, Calls
  <2>1. InSeq(c, batch)
    BY DEF Confined
  <2>2. v # "interrupted"
    BY <2>1
  <2>3. value[d] # "interrupted"
    BY DEF SiblingsSurvive
  <2>. QED  BY <1>1, <1>3, <2>2, <2>3 DEF Typed
<1>. QED
  BY <1>4, <1>7, <1>9, <1>10, <1>11, <1>12, <1>13, <1>14, <1>15, <1>16

LEMMA WorkerStepKeepsOInv == ASSUME OInv, Worker PROVE OInv'
<1>1. PICK c \in Calls : Take(c) \/ Finish(c)
  BY DEF Worker
<1>2. CASE Take(c)
  <2>1. c \in Busy
    BY <1>2 DEF Take, Busy, With
  <2>. QED  BY <1>2, <2>1, WorkerKeepsOInv DEF Take, Values
<1>3. CASE Finish(c)
  <2>1. c \in Busy
    BY <1>3 DEF Finish, Busy, With
  <2>2. PICK v \in Values \ {"-"} : /\ v = "interrupted" => stop \/ ~InSeq(c, batch)
                                    /\ value' = [value EXCEPT ![c] = v]
    BY <1>3 DEF Finish
  <2>. QED  BY <1>3, <2>1, <2>2, WorkerKeepsOInv DEF Finish
<1>. QED
  BY <1>1, <1>2, <1>3

\* A step that writes nothing and leaves the pool alone keeps what is not about
\* where main is.
LEMMA QuietKeepsTyped ==
    ASSUME OInv, UNCHANGED <<protocol, answer, task, value>>,
           main' \in Phases, batch' \in Seq(Calls), at' \in Nat, stop' \in BOOLEAN,
           faults' \in 0 .. MaxFaults, Progress', Confined', Admitted', SiblingsSurvive'
    PROVE  OInv'
<1>1. Data'
  BY QuietKeepsData DEF OInv
<1>2. Typed'
  BY DEF OInv, Typed, Calls
<1>. QED
  BY <1>1, <1>2 DEF OInv

LEMMA PrepareKeepsOInv == ASSUME OInv, Prepare PROVE OInv'
<1>. USE DEF OInv, Data
<1>1. PICK unfit \in BOOLEAN :
         /\ main = "preparing"
         /\ main' = IF Admits(unfit) THEN "starting" ELSE "rejecting"
         /\ UNCHANGED <<protocol, answer, batch, at, task, value, stop, faults>>
  BY DEF Prepare
<1>2. /\ main' \in {"starting", "rejecting"} /\ main' \in Phases
      /\ main' = "starting" => Admits(unfit)
  BY <1>1 DEF Phases
<1>3. Progress'
  BY <1>1, <1>2 DEF Progress, InABatch, Pooled
<1>4. Busy' = Busy /\ Ran' = Ran /\ BatchCalls' = BatchCalls
  BY <1>1 DEF Busy, With, Ran, BatchCalls, Calls
<1>5. Confined'
  BY <1>1, <1>2, <1>4 DEF Confined, Pooled
<1>6. Admitted'
  <2>. SUFFICES ASSUME Admits(unfit) PROVE Cardinality(Ran \cup BatchCalls) <= Budget
    BY <1>2, <1>4 DEF Admitted, Pooled
  <2>1. Executed = Cardinality(Ran)
    <3>1. {c \in Calls : answer[c] \notin {"-", "not_started"}} = Ran
      BY DEF Ran, Typed
    <3>. QED  BY <3>1 DEF Executed
  <2>2. IsFiniteSet(Ran)
    <3>1. Ran \in SUBSET Calls
      BY DEF Ran
    <3>. QED  BY <3>1, OrderFacts, FS_Subset
  <2>3. IsFiniteSet(BatchCalls) /\ Cardinality(BatchCalls) <= Len(batch)
    BY MembersBound DEF Typed, BatchCalls
  <2>4. /\ Cardinality(Ran \cup BatchCalls)
             = Cardinality(Ran) + Cardinality(BatchCalls) - Cardinality(Ran \cap BatchCalls)
        /\ IsFiniteSet(Ran \cap BatchCalls) /\ IsFiniteSet(Ran \cup BatchCalls)
    BY <2>2, <2>3, FS_Union, FS_Intersection
  <2>5. /\ Cardinality(Ran) \in Nat /\ Cardinality(BatchCalls) \in Nat
        /\ Cardinality(Ran \cap BatchCalls) \in Nat
    BY <2>2, <2>3, <2>4, FS_CardinalityType
  <2>6. Cardinality(Ran) + Len(batch) <= Budget /\ Len(batch) \in Nat
    BY <2>1 DEF Admits, Typed
  <2>. QED  BY <2>3, <2>4, <2>5, <2>6, BatchAssumption DEF BatchAssumption
<1>7. SiblingsSurvive'
  BY <1>1 DEF SiblingsSurvive, Calls
<1>. QED
  BY <1>1, <1>2, <1>3, <1>5, <1>6, <1>7, QuietKeepsTyped DEF Typed

LEMMA NextPlace ==
    ASSUME NEW a \in Nat, NEW n \in Nat, a < n, NEW b,
           a + 1 # n => b = a + 1, a + 1 = n => b = 0
    PROVE  b \in Nat /\ b < n /\ (a + 1 # n => a + 1 < n)
OBVIOUS

\* The next place of main after a loop.
LEMMA Advances ==
    ASSUME Advance,
           main \in {"rejecting", "starting", "submitting", "collecting", "recording"}
    PROVE  /\ at + 1 # Len(batch) => main' = main /\ at' = at + 1
           /\ at + 1 = Len(batch) =>
                /\ at' = 0
                /\ main \in {"rejecting", "recording"} => main' = "idle"
                /\ main = "starting" => main' = "submitting"
                /\ main = "submitting" => main' = "collecting"
                /\ main = "collecting" => main' = "recording"
BY DEF Advance, After

LEMMA CollectKeepsOInv == ASSUME OInv, Collect PROVE OInv'
<1>. USE DEF OInv, Data
<1>1. /\ main = "collecting" /\ task[batch[at + 1]] = "done" /\ Advance
      /\ protocol' = protocol /\ answer' = answer /\ batch' = batch
      /\ task' = task /\ value' = value /\ stop' = stop /\ faults' = faults
  BY DEF Collect
<1>2. /\ at + 1 # Len(batch) => main' = "collecting" /\ at' = at + 1
      /\ at + 1 = Len(batch) => main' = "recording" /\ at' = 0
  BY <1>1, Advances
<1>3. /\ at \in Nat /\ Len(batch) \in Nat /\ DOMAIN batch = 1 .. Len(batch)
      /\ at < Len(batch)
  BY <1>1 DEF Typed, Progress, InABatch, Pooled
<1>4. main' \in {"collecting", "recording"} /\ main' \in Phases /\ at' \in Nat
      /\ at' < Len(batch)
  <2>1. main' \in {"collecting", "recording"}
    BY <1>2
  <2>2. at' \in Nat /\ at' < Len(batch)
    BY <1>2, <1>3, NextPlace, Zenon
  <2>. QED  BY <2>1, <2>2 DEF Phases, Pooled
<1>5. Progress'
  BY <1>1, <1>2, <1>3, <1>4 DEF Progress, InABatch, Pooled
<1>6. Busy' = Busy /\ Ran' = Ran /\ BatchCalls' = BatchCalls
  BY <1>1 DEF Busy, With, Ran, BatchCalls, Calls
<1>7. \A i \in 1 .. at + 1 : task[batch[i]] = "done"
  BY <1>1, <1>3 DEF Confined
<1>8. Confined'
  <2>1. CASE at + 1 # Len(batch)
    BY <1>1, <1>2, <1>6, <1>7, <2>1 DEF Confined, Pooled
  <2>2. CASE at + 1 = Len(batch)
    <3>1. \A i \in DOMAIN batch : task[batch[i]] = "done"
      BY <1>3, <1>7, <2>2
    <3>2. faults < 2 => Busy = {}
      <4>. SUFFICES ASSUME faults < 2, NEW c \in Busy PROVE FALSE
        OBVIOUS
      <4>1. InSeq(c, batch)
        BY DEF Confined
      <4>2. task[c] = "done"
        BY <3>1, <4>1 DEF InSeq
      <4>. QED  BY <4>2 DEF Busy, With
    <3>. QED  BY <1>1, <1>2, <1>6, <2>2, <3>1, <3>2 DEF Confined, Pooled
  <2>. QED  BY <2>1, <2>2
<1>9. Admitted'
  BY <1>1, <1>6 DEF Admitted, Pooled
<1>10. SiblingsSurvive'
  BY <1>1 DEF SiblingsSurvive, Calls
<1>. QED
  BY <1>1, <1>4, <1>5, <1>8, <1>9, <1>10, QuietKeepsTyped DEF Typed

LEMMA SubmitKeepsOInv == ASSUME OInv, Submit PROVE OInv'
<1>. USE DEF OInv, Data
<1>. DEFINE c == batch[at + 1]
<1>1. /\ main = "submitting" /\ task' = [task EXCEPT ![c] = "queued"] /\ Advance
      /\ protocol' = protocol /\ answer' = answer /\ batch' = batch
      /\ value' = value /\ stop' = stop /\ faults' = faults
  BY DEF Submit
<1>2. /\ at + 1 # Len(batch) => main' = "submitting" /\ at' = at + 1
      /\ at + 1 = Len(batch) => main' = "collecting" /\ at' = 0
  BY <1>1, Advances
<1>3. /\ at \in Nat /\ Len(batch) \in Nat /\ DOMAIN batch = 1 .. Len(batch)
      /\ at < Len(batch) /\ batch \in Seq(Calls)
      /\ protocol.pending = batch /\ protocol.ordinal = Len(batch) /\ protocol.results = 0
  BY <1>1 DEF Typed, Progress, InABatch, Pooled
<1>4. c \in Calls /\ at + 1 \in 1 .. Len(batch)
  BY <1>3
<1>5. c \in protocol.started /\ InSeq(c, batch) /\ answer[c] = "-"
  BY <1>3, <1>4 DEF Shape, InSeq, Answered
<1>. HIDE DEF c
<1>6. /\ task' \in [Calls -> {"none", "queued", "running", "done"}]
      /\ task'[c] = "queued" /\ \A d \in Calls \ {c} : task'[d] = task[d]
  BY <1>1, <1>4 DEF Typed
<1>7. main' \in {"submitting", "collecting"} /\ main' \in Phases /\ at' \in Nat
      /\ at' < Len(batch)
  <2>1. main' \in {"submitting", "collecting"}
    BY <1>2
  <2>2. at' \in Nat /\ at' < Len(batch)
    BY <1>2, <1>3, NextPlace, Zenon
  <2>. QED  BY <2>1, <2>2 DEF Phases, Pooled
<1>8. Typed'
  BY <1>1, <1>6, <1>7 DEF Typed, Calls
<1>9. Known' = Known /\ Ran' = Ran /\ BatchCalls' = BatchCalls
  BY <1>1 DEF Known, Ran, BatchCalls, Calls
<1>10. Busy' \subseteq Busy \cup {c}
  BY <1>4, <1>6 DEF Busy, With, Calls
<1>11. Shape' /\ Answered' /\ Prefix' /\ Finished'
  BY <1>1, <1>9, Zenon DEF Shape, Answered, Prefix, Finished, Calls
<1>12. BudgetKept'
  BY <1>1 DEF BudgetKept, Calls
<1>13. ~Unstarted(c)
  BY <1>3, <1>4, <1>5 DEF Unstarted, Known
<1>14. NotYet'
  <2>1. \A d \in Calls : Unstarted(d)' <=> Unstarted(d)
    BY <1>1, <1>9 DEF Unstarted
  <2>2. \A d \in Calls : Unstarted(d) => task'[d] = "none" /\ value'[d] = "-"
    BY <1>1, <1>6, <1>13 DEF NotYet
  <2>. QED  BY <2>1, <2>2 DEF NotYet, Calls
<1>15. Working'
  BY <1>1, <1>5, <1>10 DEF Working
<1>16. Progress'
  BY <1>1, <1>2, <1>3, <1>7, Zenon DEF Progress, InABatch, Pooled
<1>17. Confined'
  <2>1. faults < 2 => \A d \in Busy' : main' \in Pooled /\ InSeq(d, batch)
    BY <1>5, <1>7, <1>10 DEF Confined, Pooled
  <2>. QED  BY <1>1, <1>2, <1>7, <2>1 DEF Confined
<1>18. Admitted'
  BY <1>1, <1>9 DEF Admitted, Pooled
<1>19. SiblingsSurvive'
  BY <1>1 DEF SiblingsSurvive, Calls
<1>. QED
  BY <1>8, <1>11, <1>12, <1>14, <1>15, <1>16, <1>17, <1>18, <1>19

LEMMA InABatchNow ==
    ASSUME OInv, main \in {"rejecting", "starting", "recording"}
    PROVE  /\ protocol.pending = batch /\ at \in Nat /\ Len(batch) \in Nat
           /\ DOMAIN batch = 1 .. Len(batch) /\ at < Len(batch)
BY DEF OInv, Typed, Progress, InABatch, Pooled

\* An append of main, and the loop it is in goes on: with the log as it now is,
\* and with the place in the batch that says so.
LEMMA RecordKeepsOInv == ASSUME OInv, Record PROVE OInv'
<1>. USE DEF OInv, Data
<1>1. /\ main \in {"rejecting", "starting", "recording"} /\ Log(NextEvent) /\ Advance
      /\ batch' = batch /\ task' = task /\ value' = value /\ stop' = stop
      /\ faults' = faults
  BY DEF Record
<1>2. /\ protocol.pending = batch /\ at \in Nat /\ Len(batch) \in Nat
      /\ DOMAIN batch = 1 .. Len(batch) /\ at < Len(batch)
      /\ protocol.user /\ ~protocol.terminal
  BY <1>1, InABatchNow DEF Progress
<1>3. BatchCalls' = BatchCalls /\ Busy' = Busy
  BY <1>1 DEF BatchCalls, Busy, With, Calls
<1>4. /\ at + 1 # Len(batch) => main' = main /\ at' = at + 1
      /\ at + 1 = Len(batch) =>
           /\ at' = 0
           /\ main \in {"rejecting", "recording"} => main' = "idle"
           /\ main = "starting" => main' = "submitting"
  BY <1>1, Advances
<1>5. at' \in Nat /\ (at + 1 # Len(batch) => at + 1 < Len(batch))
  <2>1. at \in Nat /\ Len(batch) \in Nat /\ at < Len(batch)
    BY <1>2
  <2>2. /\ at + 1 # Len(batch) => at' = at + 1
        /\ at + 1 = Len(batch) => at' = 0
    BY <1>4
  <2>. QED  BY <2>1, <2>2, NextPlace, Zenon
<1>6. at + 1 # Len(batch) => at + 1 < Len(batch)
  BY <1>5
<1>7. SiblingsSurvive'
  BY <1>1 DEF SiblingsSurvive, Calls
<1>8. main' \in Phases
  BY <1>1, <1>4 DEF Phases, Pooled
<1>9. CASE main = "starting"
  <2>1. /\ protocol.ordinal < Len(protocol.pending)
        /\ NextEvent = Started(protocol.pending[protocol.ordinal + 1])
        /\ protocol.ordinal = at /\ protocol.results = 0
    BY <1>9, NextStart DEF Progress
  <2>2. Cardinality(Ran \cup {protocol.pending[i] : i \in DOMAIN protocol.pending}) <= Budget
    BY <1>2, <1>9 DEF Admitted, BatchCalls
  <2>3. /\ protocol' \in Protocol /\ answer' = answer /\ Data'
        /\ protocol'.user = protocol.user /\ protocol'.terminal = protocol.terminal
        /\ protocol'.pending = protocol.pending /\ protocol'.results = 0
        /\ protocol'.ordinal = protocol.ordinal + 1
    BY <1>1, <2>1, <2>2, StartKeepsData
  <2>4. Typed'
    BY <1>1, <1>5, <1>8, <2>3 DEF Typed, Calls
  <2>5. Ran' = Ran
    BY <2>3 DEF Ran, Calls
  <2>6. CASE at + 1 # Len(batch)
    <3>1. Progress'
      BY <1>1, <1>2, <1>4, <1>6, <1>9, <2>1, <2>3, <2>6, Zenon DEF Progress, InABatch, Pooled
    <3>2. Confined' /\ Admitted'
      BY <1>1, <1>3, <1>4, <1>9, <2>5, <2>6 DEF Confined, Admitted, Pooled
    <3>. QED  BY <1>7, <2>3, <2>4, <3>1, <3>2
  <2>7. CASE at + 1 = Len(batch)
    <3>0. main' = "submitting" /\ at' = 0 /\ protocol'.ordinal = Len(batch)
      BY <1>4, <1>9, <2>1, <2>3, <2>7
    <3>1. Progress'
      BY <1>1, <1>2, <2>3, <3>0 DEF Progress, InABatch, Pooled
    <3>2. Confined' /\ Admitted'
      BY <1>1, <1>3, <1>9, <2>5, <3>0 DEF Confined, Admitted, Pooled
    <3>. QED  BY <1>7, <2>3, <2>4, <3>1, <3>2
  <2>. QED  BY <2>6, <2>7
<1>10. CASE main \in {"rejecting", "recording"}
  <2>1. protocol.results = at /\ protocol.ordinal \in {0, Len(batch)}
        /\ (main = "rejecting" => protocol.ordinal = 0)
        /\ (main = "recording" => protocol.ordinal = Len(batch))
    BY <1>10 DEF Progress
  <2>2. /\ protocol.results < Len(protocol.pending)
        /\ \E x, f : NextEvent = Result(Due, x, f) /\ Says(x)
    BY <1>10, NextResult
  <2>3. PICK x, f : NextEvent = Result(Due, x, f) /\ Says(x)
    BY <2>2
  <2>4. /\ protocol' \in Protocol
        /\ answer' \in [Calls -> {"-", "not_started", "failed", "completed"}]
        /\ Data'
        /\ Ran' \subseteq Ran \cup protocol.started
        /\ protocol'.user = protocol.user /\ protocol'.terminal = protocol.terminal
        /\ at + 1 = Len(batch) => protocol'.pending = <<>>
        /\ at + 1 # Len(batch) => /\ protocol'.pending = protocol.pending
                                  /\ protocol'.ordinal = protocol.ordinal
                                  /\ protocol'.results = protocol.results + 1
    <3>1. Typed /\ Data /\ Log(Result(Due, x, f)) /\ UNCHANGED <<task, value>>
      BY <1>1, <2>3
    <3>2. protocol.results = at /\ Len(protocol.pending) = Len(batch)
      BY <1>2, <2>1
    <3>. QED  BY <2>2, <2>3, <3>1, <3>2, ResultKeepsData, Zenon
  <2>5. Typed'
    BY <1>1, <1>5, <1>8, <2>4 DEF Typed, Calls
  <2>6. CASE at + 1 # Len(batch)
    <3>0. /\ main' = main /\ at' = at + 1 /\ at' < Len(batch) /\ protocol'.pending = batch
          /\ protocol'.ordinal = protocol.ordinal /\ protocol'.results = at'
      <4>1. main' = main /\ at' = at + 1 /\ at + 1 < Len(batch)
        BY <1>4, <1>6, <2>6
      <4>2. protocol.pending = batch /\ protocol.results = at
        BY <1>2, <2>1
      <4>. QED  BY <2>4, <2>6, <4>1, <4>2, Zenon
    <3>1. Progress'
      BY <1>1, <1>2, <1>10, <2>1, <2>4, <3>0 DEF Progress, InABatch, Pooled
    <3>2. Confined'
      BY <1>1, <1>3, <1>10, <3>0 DEF Confined, Pooled
    <3>3. Admitted'
      <4>. SUFFICES ASSUME main = "recording"
                    PROVE  Cardinality(Ran' \cup BatchCalls') <= Budget
        BY <1>10, <3>0 DEF Admitted, Pooled
      <4>1. protocol.started \subseteq BatchCalls
        BY <1>2, <2>1 DEF Shape, BatchCalls
      <4>. QED  BY <1>1, <2>4, <4>1, StaysAdmitted DEF Admitted
    <3>. QED  BY <1>7, <2>4, <2>5, <3>1, <3>2, <3>3
  <2>7. CASE at + 1 = Len(batch)
    <3>0. main' = "idle" /\ protocol'.pending = <<>>
      BY <1>4, <1>10, <2>4, <2>7
    <3>1. Progress'
      BY <1>1, <1>2, <2>4, <3>0, Zenon DEF Progress, InABatch, Pooled
    <3>2. Confined' /\ Admitted'
      BY <1>1, <1>3, <1>10, <3>0 DEF Confined, Admitted, Pooled
    <3>. QED  BY <1>7, <2>4, <2>5, <3>1, <3>2
  <2>. QED  BY <2>6, <2>7
<1>. QED
  BY <1>1, <1>9, <1>10

\* The same append, and main goes no further.
LEMMA InterruptAppendedKeepsOInv == ASSUME OInv, InterruptAppended PROVE OInv'
<1>. USE DEF OInv, Data
<1>1. /\ main \in {"rejecting", "starting", "recording", "recovering"}
      /\ faults < MaxFaults /\ faults' = faults + 1 /\ Log(NextEvent) /\ main' = "raised"
      /\ batch' = batch /\ at' = at /\ task' = task /\ value' = value /\ stop' = stop
  BY DEF InterruptAppended
<1>2. protocol.user /\ ~protocol.terminal
  BY <1>1 DEF Progress
<1>3. faults' \in 0 .. MaxFaults /\ faults' > 0 /\ (faults' < 2 => faults < 2)
  BY <1>1, BatchAssumption DEF Typed, BatchAssumption
<1>4. /\ protocol' \in Protocol /\ Data'
      /\ answer' \in [Calls -> {"-", "not_started", "failed", "completed"}]
      /\ protocol'.user = protocol.user /\ protocol'.terminal = protocol.terminal
  <2>1. CASE main = "starting"
    <3>1. /\ protocol.ordinal < Len(protocol.pending)
          /\ NextEvent = Started(protocol.pending[protocol.ordinal + 1])
          /\ protocol.results = 0 /\ protocol.pending = batch
      BY <2>1, NextStart, InABatchNow DEF Progress
    <3>2. Cardinality(Ran \cup {protocol.pending[i] : i \in DOMAIN protocol.pending})
              <= Budget
      BY <2>1, <3>1 DEF Admitted, BatchCalls
    <3>. QED  BY <1>1, <3>1, <3>2, StartKeepsData DEF Typed
  <2>2. CASE main # "starting"
    <3>1. /\ protocol.results < Len(protocol.pending)
          /\ \E x, f : NextEvent = Result(Due, x, f) /\ Says(x)
      BY <1>1, <2>2, NextResult
    <3>2. PICK x, f : NextEvent = Result(Due, x, f) /\ Says(x)
      BY <3>1
    <3>. QED  BY <1>1, <3>1, <3>2, ResultKeepsData
  <2>. QED  BY <2>1, <2>2
<1>5. Typed'
  BY <1>1, <1>3, <1>4 DEF Typed, Phases, Calls
<1>6. Progress'
  BY <1>1, <1>2, <1>4 DEF Progress, InABatch, Pooled
<1>7. Busy' = Busy
  BY <1>1 DEF Busy, With, Calls
<1>8. Confined' /\ Admitted'
  BY <1>1, <1>3, <1>7 DEF Confined, Admitted, Pooled
<1>9. SiblingsSurvive'
  BY <1>1, <1>3 DEF SiblingsSurvive
<1>. QED
  BY <1>4, <1>5, <1>6, <1>8, <1>9

LEMMA RecoverKeepsOInv == ASSUME OInv, Recover PROVE OInv'
<1>. USE DEF OInv, Data
<1>1. /\ main = "recovering" /\ Log(NextEvent)
      /\ main' = IF Len(PendingCalls(protocol)) = 1 THEN "idle" ELSE main
      /\ batch' = batch /\ at' = at /\ task' = task /\ value' = value /\ stop' = stop
      /\ faults' = faults
  BY DEF Recover
<1>2. protocol.user /\ ~protocol.terminal /\ batch = <<>>
  BY <1>1 DEF Progress
<1>3. /\ protocol.results < Len(protocol.pending)
      /\ \E x, f : NextEvent = Result(Due, x, f) /\ Says(x)
  BY <1>1, NextResult
<1>4. PICK x, f : NextEvent = Result(Due, x, f) /\ Says(x)
  BY <1>3
<1>5. /\ protocol' \in Protocol
      /\ answer' \in [Calls -> {"-", "not_started", "failed", "completed"}]
      /\ Data'
      /\ protocol'.user = protocol.user /\ protocol'.terminal = protocol.terminal
      /\ protocol.results + 1 = Len(protocol.pending) => protocol'.pending = <<>>
      /\ protocol.results + 1 # Len(protocol.pending) =>
           protocol'.pending = protocol.pending
  BY <1>1, <1>3, <1>4, ResultKeepsData
<1>6. Len(PendingCalls(protocol)) = 1 <=> protocol.results + 1 = Len(protocol.pending)
  <2>1. Len(PendingCalls(protocol)) = Len(protocol.pending) - protocol.results
    BY <1>3, Owed, Transaction
  <2>. QED  BY <2>1, Transaction
<1>7. main' \in {"idle", "recovering"} /\ main' \in Phases
  BY <1>1 DEF Phases
<1>8. /\ main' = "idle" => protocol'.pending = <<>>
      /\ main' = "recovering" => protocol'.pending # <<>>
  BY <1>1, <1>5, <1>6 DEF Progress
<1>9. Typed'
  BY <1>1, <1>5, <1>7 DEF Typed, Calls
<1>10. Progress'
  BY <1>1, <1>2, <1>5, <1>7, <1>8 DEF Progress, InABatch, Pooled
<1>11. Busy' = Busy
  BY <1>1 DEF Busy, With, Calls
<1>12. Confined' /\ Admitted'
  BY <1>1, <1>7, <1>11 DEF Confined, Admitted, Pooled
<1>13. SiblingsSurvive'
  BY <1>1 DEF SiblingsSurvive, Calls
<1>. QED
  BY <1>5, <1>9, <1>10, <1>12, <1>13

LEMMA OpenCloseKeepsOInv == ASSUME OInv, Open \/ Close PROVE OInv'
<1>. USE DEF OInv, Data
<1>1. PICK k \in {"user_message", "terminal"} :
         /\ k = "user_message" => main = "new" /\ main' = "idle"
         /\ k = "terminal" => main = "idle" /\ main' = "closed"
         /\ Log(Plain(k))
         /\ UNCHANGED <<batch, at, task, value, stop, faults>>
  BY DEF Open, Close
<1>2. /\ protocol' \in Protocol /\ answer' = answer /\ Data'
      /\ protocol'.user = (IF k = "user_message" THEN TRUE ELSE protocol.user)
      /\ protocol'.terminal = (IF k = "terminal" THEN TRUE ELSE protocol.terminal)
      /\ protocol'.pending = protocol.pending
  BY <1>1, PlainKeepsData
<1>3. Busy' = Busy
  BY <1>1 DEF Busy, With, Calls
<1>4. /\ main \in {"new", "idle"} /\ main' \in {"idle", "closed"} /\ main' \in Phases
      /\ protocol'.pending = <<>> /\ protocol'.user
      /\ protocol'.terminal <=> main' = "closed"
  <2>1. CASE k = "user_message"
    BY <1>1, <1>2, <2>1 DEF Progress, EmptyProtocol, Phases
  <2>2. CASE k = "terminal"
    BY <1>1, <1>2, <2>2 DEF Progress, Phases
  <2>. QED  BY <2>1, <2>2
<1>5. Typed'
  BY <1>1, <1>2, <1>4 DEF Typed, Calls
<1>6. Progress'
  BY <1>4 DEF Progress, InABatch, Pooled
<1>7. Confined' /\ Admitted'
  BY <1>1, <1>3, <1>4 DEF Confined, Admitted, Pooled
<1>8. SiblingsSurvive'
  BY <1>1 DEF SiblingsSurvive, Calls
<1>. QED
  BY <1>2, <1>5, <1>6, <1>7, <1>8

LEMMA RequestKeepsOInv == ASSUME OInv, Request PROVE OInv'
<1>. USE DEF OInv, Data
<1>1. PICK n \in 2 .. MaxRequested :
        /\ main = "idle" /\ Used + n <= Len(Order)
        /\ batch' = SubSeq(Order, Used + 1, Used + n)
        /\ Log(Requested(batch'))
        /\ main' = "preparing" /\ at' = 0
        /\ UNCHANGED <<task, value, stop, faults>>
  BY DEF Request
<1>2. protocol.pending = <<>> /\ protocol.user /\ ~protocol.terminal
  BY <1>1 DEF Progress
<1>3. /\ protocol' \in Protocol /\ answer' = answer /\ Data'
      /\ batch' \in Seq(Calls) /\ Len(batch') = n /\ n \in Nat /\ n > 1
      /\ protocol'.user = protocol.user /\ protocol'.terminal = protocol.terminal
      /\ protocol'.pending = batch' /\ protocol'.results = 0 /\ protocol'.ordinal = 0
  BY <1>1, <1>2, RequestKeepsData
<1>4. Busy' = Busy
  BY <1>1 DEF Busy, With, Calls
<1>5. Typed'
  BY <1>1, <1>3 DEF Typed, Phases, Calls
<1>6. 0 < Len(batch')
  BY <1>3
<1>7. Progress'
  BY <1>1, <1>2, <1>3, <1>6 DEF Progress, InABatch, Pooled
<1>8. Confined' /\ Admitted'
  BY <1>1, <1>4 DEF Confined, Admitted, Pooled
<1>9. SiblingsSurvive'
  BY <1>1 DEF SiblingsSurvive, Calls
<1>. QED
  BY <1>3, <1>5, <1>7, <1>8, <1>9

LEMMA JoinKeepsOInv == ASSUME OInv, Join PROVE OInv'
<1>. USE DEF OInv, Data
<1>1. /\ main = "joining" /\ Busy = {} /\ main' = "raised"
      /\ UNCHANGED <<protocol, answer, batch, at, task, value, stop, faults>>
  BY DEF Join, Joined, Busy
<1>2. Busy' = Busy
  BY <1>1 DEF Busy, With, Calls
<1>3. Progress'
  BY <1>1 DEF Progress, InABatch, Pooled
<1>4. Confined' /\ Admitted'
  BY <1>1, <1>2 DEF Confined, Admitted, Pooled
<1>5. SiblingsSurvive'
  BY <1>1 DEF SiblingsSurvive, Calls
<1>6. main' \in Phases /\ batch' \in Seq(Calls) /\ at' \in Nat /\ faults' \in 0 .. MaxFaults
  BY <1>1 DEF Typed, Phases
<1>7. stop' \in BOOLEAN
  BY <1>1 DEF Typed
<1>. QED
  BY <1>1, <1>3, <1>4, <1>5, <1>6, <1>7, QuietKeepsTyped

LEMMA RequestStopKeepsOInv == ASSUME OInv, RequestStop PROVE OInv'
<1>. USE DEF OInv, Data
<1>1. /\ stop' = TRUE
      /\ UNCHANGED <<main, protocol, answer, batch, at, task, value, faults>>
  BY DEF RequestStop
<1>2. Busy' = Busy /\ Ran' = Ran /\ BatchCalls' = BatchCalls
  BY <1>1 DEF Busy, With, Ran, BatchCalls, Calls
<1>3. Progress' /\ Confined' /\ Admitted'
  BY <1>1, <1>2 DEF Progress, Confined, Admitted
<1>4. SiblingsSurvive'
  BY <1>1 DEF SiblingsSurvive
<1>5. main' \in Phases /\ batch' \in Seq(Calls) /\ at' \in Nat /\ faults' \in 0 .. MaxFaults
  BY <1>1 DEF Typed
<1>6. stop' \in BOOLEAN
  BY <1>1
<1>. QED
  BY <1>1, <1>3, <1>4, <1>5, <1>6, QuietKeepsTyped

\* The first interrupt inside the `with` waits; any other leaves the ask.
LEMMA InterruptKeepsOInv == ASSUME OInv, Interrupt PROVE OInv'
<1>. USE DEF OInv, Data
<1>1. /\ main \notin {"new", "raised", "closed"} /\ faults < MaxFaults
      /\ faults' = faults + 1
      /\ main' = IF main \in Pooled \ {"joining"} THEN "joining" ELSE "raised"
      /\ UNCHANGED <<protocol, answer, batch, at, task, value, stop>>
  BY DEF Interrupt
<1>2. faults' \in 0 .. MaxFaults /\ faults' > 0 /\ (faults' < 2 => faults < 2)
      /\ (faults > 0 => ~(faults' < 2))
  BY <1>1, BatchAssumption DEF Typed, BatchAssumption
<1>3. Busy' = Busy /\ Ran' = Ran /\ BatchCalls' = BatchCalls
  BY <1>1 DEF Busy, With, Ran, BatchCalls, Calls
<1>4. protocol.user /\ ~protocol.terminal
  BY <1>1 DEF Progress
<1>5. Progress'
  BY <1>1, <1>4 DEF Progress, InABatch, Pooled
<1>6. Confined'
  <2>1. CASE main \in Pooled \ {"joining"}
    BY <1>1, <1>2, <1>3, <2>1 DEF Confined, Pooled
  <2>2. CASE main = "joining"
    BY <1>1, <1>2, <1>3, <2>2 DEF Confined, Pooled
  <2>3. CASE main \notin Pooled
    BY <1>1, <1>2, <1>3, <2>3 DEF Confined, Pooled
  <2>. QED  BY <2>1, <2>2, <2>3
<1>7. Admitted'
  BY <1>1, <1>3 DEF Admitted, Pooled
<1>8. SiblingsSurvive'
  BY <1>2 DEF SiblingsSurvive
<1>9. main' \in Phases /\ batch' \in Seq(Calls) /\ at' \in Nat
  BY <1>1 DEF Typed, Phases, Pooled
<1>10. stop' \in BOOLEAN
  BY <1>1 DEF Typed
<1>. QED
  BY <1>1, <1>2, <1>5, <1>6, <1>7, <1>8, <1>9, <1>10, QuietKeepsTyped

\* The pool of a process that is gone is gone with it.
LEMMA CrashKeepsOInv == ASSUME OInv, Crash PROVE OInv'
<1>. USE DEF OInv, Data
<1>1. /\ main \notin {"new", "closed"} /\ faults < MaxFaults /\ faults' = faults + 1
      /\ main' = "raised" /\ task' = [c \in Calls |-> "none"]
      /\ protocol' = protocol /\ answer' = answer /\ batch' = batch /\ at' = at
      /\ value' = value /\ stop' = stop
  BY DEF Crash
<1>2. faults' \in 0 .. MaxFaults /\ faults' > 0
  BY <1>1, BatchAssumption DEF Typed, BatchAssumption
<1>3. Known' = Known /\ Busy' = {}
  BY <1>1 DEF Known, Busy, With, Calls
<1>4. protocol.user /\ ~protocol.terminal
  BY <1>1 DEF Progress
<1>5. Shape' /\ Answered' /\ Prefix' /\ Finished'
  BY <1>1, <1>3 DEF Shape, Answered, Prefix, Finished, Calls
<1>6. BudgetKept'
  BY <1>1 DEF BudgetKept, Calls
<1>7. NotYet' /\ Working'
  BY <1>1, <1>3 DEF NotYet, Working, Unstarted, Calls
<1>8. Typed'
  BY <1>1, <1>2 DEF Typed, Phases, Calls
<1>9. Progress'
  BY <1>1, <1>4 DEF Progress, InABatch, Pooled
<1>10. Confined' /\ Admitted'
  BY <1>1, <1>2, <1>3 DEF Confined, Admitted, Pooled
<1>11. SiblingsSurvive'
  BY <1>2 DEF SiblingsSurvive
<1>. QED
  BY <1>5, <1>6, <1>7, <1>8, <1>9, <1>10, <1>11

LEMMA ResumeKeepsOInv == ASSUME OInv, Resume PROVE OInv'
<1>. USE DEF OInv, Data
<1>1. /\ main = "raised"
      /\ main' = IF PendingCalls(protocol) = <<>> THEN "idle" ELSE "recovering"
      /\ stop' = FALSE /\ batch' = <<>> /\ at' = 0
      /\ UNCHANGED <<protocol, answer, task, value, faults>>
  BY DEF Resume
<1>2. protocol.user /\ ~protocol.terminal /\ faults > 0
  BY <1>1 DEF Progress, Confined
<1>3. PendingCalls(protocol) = <<>> <=> protocol.pending = <<>>
  <2>1. /\ Len(PendingCalls(protocol)) = Len(protocol.pending) - protocol.results
        /\ PendingCalls(protocol) \in Seq(CallIds)
        /\ protocol.results < Len(protocol.pending) => PendingCalls(protocol) # <<>>
    BY Owed DEF Typed, Shape
  <2>2. CASE protocol.pending = <<>>
    <3>1. protocol.results = 0 /\ Len(protocol.pending) = 0
      BY <2>2, Transaction DEF Shape
    <3>. QED  BY <2>1, <2>2, <3>1
  <2>3. CASE protocol.pending # <<>>
    BY <2>1, <2>3, Transaction DEF Shape
  <2>. QED  BY <2>2, <2>3
<1>4. main' \in {"idle", "recovering"} /\ main' \in Phases
  BY <1>1 DEF Phases
<1>5. Busy' = Busy
  BY <1>1 DEF Busy, With, Calls
<1>6. Progress'
  BY <1>1, <1>2, <1>3, <1>4 DEF Progress, InABatch, Pooled
<1>7. faults < 2 => Busy = {}
  BY <1>1 DEF Confined, Pooled
<1>8. Confined' /\ Admitted'
  BY <1>1, <1>4, <1>5, <1>7 DEF Confined, Admitted, Pooled
<1>9. SiblingsSurvive'
  BY <1>1, <1>2 DEF SiblingsSurvive, Typed
<1>10. batch' \in Seq(Calls) /\ at' \in Nat /\ faults' \in 0 .. MaxFaults
  BY <1>1 DEF Typed
<1>11. stop' \in BOOLEAN
  BY <1>1
<1>. QED
  BY <1>1, <1>4, <1>6, <1>8, <1>9, <1>10, <1>11, QuietKeepsTyped

LEMMA StepKeepsOInv == ASSUME OInv, [Next]_vars PROVE OInv'
<1>1. CASE Open \/ Close
  BY <1>1, OpenCloseKeepsOInv
<1>2. CASE Request
  BY <1>2, RequestKeepsOInv
<1>3. CASE Prepare
  BY <1>3, PrepareKeepsOInv
<1>4. CASE Record
  BY <1>4, RecordKeepsOInv
<1>5. CASE Submit
  BY <1>5, SubmitKeepsOInv
<1>6. CASE Collect
  BY <1>6, CollectKeepsOInv
<1>7. CASE Join
  BY <1>7, JoinKeepsOInv
<1>8. CASE Worker
  BY <1>8, WorkerStepKeepsOInv
<1>9. CASE RequestStop
  BY <1>9, RequestStopKeepsOInv
<1>10. CASE Interrupt
  BY <1>10, InterruptKeepsOInv
<1>11. CASE InterruptAppended
  BY <1>11, InterruptAppendedKeepsOInv
<1>12. CASE Crash
  BY <1>12, CrashKeepsOInv
<1>13. CASE Resume
  BY <1>13, ResumeKeepsOInv
<1>14. CASE Recover
  BY <1>14, RecoverKeepsOInv
<1>15. CASE UNCHANGED vars
  <2>1. /\ main' = main /\ protocol' = protocol /\ answer' = answer /\ batch' = batch
        /\ at' = at /\ task' = task /\ value' = value /\ stop' = stop /\ faults' = faults
    BY <1>15 DEF vars
  <2>2. Busy' = Busy /\ Ran' = Ran /\ BatchCalls' = BatchCalls
    BY <2>1 DEF Busy, With, Ran, BatchCalls, Calls
  <2>3. Progress' /\ Confined' /\ Admitted' /\ SiblingsSurvive'
    BY <2>1, <2>2 DEF OInv, Progress, Confined, Admitted, SiblingsSurvive, Calls
  <2>4. main' \in Phases /\ batch' \in Seq(Calls) /\ at' \in Nat /\ faults' \in 0 .. MaxFaults
    BY <2>1 DEF OInv, Typed
  <2>5. stop' \in BOOLEAN
    BY <2>1 DEF OInv, Typed
  <2>. QED  BY <2>1, <2>3, <2>4, <2>5, QuietKeepsTyped
<1>. QED
  BY <1>1, <1>2, <1>3, <1>4, <1>5, <1>6, <1>7, <1>8, <1>9, <1>10, <1>11, <1>12,
     <1>13, <1>14, <1>15 DEF Next, Main

\* Wherever main, the pool and the log are, they are there together
\* (execute_pending_batch, reconcile_interrupted).
THEOREM BatchInvariance == Spec => []OInv
<1>1. OInv /\ [Next]_vars => OInv'
  BY StepKeepsOInv
<1>. QED
  BY InitOInv, <1>1, PTL DEF Spec

\* Every append of the batch code and of the reconciler is accepted by the protocol
\* check, the log says of each call what happened to it, siblings are not cancelled,
\* and the executions it counts are within max_tool_executions, for any limits and
\* after any number of interrupts, failed appends and crashes (_observation_outcome,
\* _batch_policy_error, reconcile_interrupted).
THEOREM LogsStaySound == Spec => []LogIsSound
<1>1. OInv => LogIsSound
  <2>. SUFFICES ASSUME OInv PROVE LogIsSound
    OBVIOUS
  <2>. USE DEF OInv, Data
  <2>1. WellFormed(protocol)
    <3>1. \A c \in protocol.started : \E i \in 1 .. protocol.ordinal : protocol.pending[i] = c
      BY DEF Shape
    <3>. QED  BY <3>1 DEF WellFormed, Shape
  <2>2. main \in DOMAIN After => at < Len(batch)
    BY DEF After, Progress, InABatch, Pooled
  <2>3. TypeOK
    BY <2>1, <2>2 DEF TypeOK, Typed
  <2>4. NeverRefused
    BY NextAllowed DEF NeverRefused
  <2>5. ResultsAreTrue
    BY DEF ResultsAreTrue, Finished, NotYet, Unstarted
  <2>. QED  BY <2>3, <2>4, <2>5 DEF LogIsSound
<1>. QED
  BY BatchInvariance, <1>1, PTL

\* An observation that runs is in the log as started, and until main has been
\* interrupted twice it runs inside the `with` of its own batch, before any result
\* (execute_pending_batch and its ThreadPoolExecutor).
THEOREM WorkersStayInside == Spec => []NothingRunsOutside
<1>1. OInv => NothingRunsOutside
  <2>. SUFFICES ASSUME OInv, NEW c \in With("running")
                PROVE  /\ c \in protocol.started \/ answer[c] = "failed"
                       /\ faults < 2 => /\ main \in Pooled /\ InSeq(c, batch)
                                        /\ \A i \in DOMAIN batch : answer[batch[i]] = "-"
    BY DEF NothingRunsOutside
  <2>. USE DEF OInv, Data
  <2>1. c \in Busy
    BY DEF Busy
  <2>2. c \in protocol.started \/ answer[c] = "failed"
    BY <2>1 DEF Working
  <2>3. ASSUME main \in Pooled
        PROVE  \A i \in DOMAIN batch : answer[batch[i]] = "-"
    <3>1. protocol.pending = batch /\ protocol.results = 0
      BY <2>3 DEF Progress, InABatch
    <3>2. \A i \in DOMAIN batch : ~(i <= 0)
      BY DEF Typed
    <3>. QED  BY <3>1, <3>2 DEF Answered
  <2>. QED  BY <2>1, <2>2, <2>3 DEF Confined
<1>. QED
  BY BatchInvariance, <1>1, PTL

(****************************************************************************)
(* The contract of a Run, seen from the log.                                *)
(****************************************************************************)
View == [r \in {"r"} |-> TheRun]

LEMMA InitView == Init => Contract!Init
<1>. SUFFICES ASSUME Init PROVE Contract!Init
  OBVIOUS
<1>1. /\ protocol \in Protocol /\ protocol.results = 0 /\ protocol.pending = <<>>
      /\ ~protocol.user /\ ~protocol.terminal /\ protocol.started = {}
  BY DEF Init, EmptyProtocol, Protocol
<1>2. PendingCalls(protocol) = <<>>
  BY <1>1 DEF PendingCalls
<1>3. TheRun = [phase |-> "absent", owed |-> <<>>, started |-> {}]
  BY <1>1, <1>2 DEF TheRun
<1>. QED
  BY <1>3 DEF Contract!Init

LEMMA OpenClosesRun ==
    ASSUME OInv, Open \/ Close
    PROVE  Contract!Next
<1>. USE DEF OInv, Data
<1>1. CASE Open
  <2>1. protocol = EmptyProtocol /\ Log(Plain("user_message")) /\ UNCHANGED <<task, value>>
    BY <1>1 DEF Open, Progress
  <2>2. /\ protocol'.user /\ ~protocol'.terminal /\ ~protocol.user /\ ~protocol.terminal
        /\ protocol' = [protocol EXCEPT !.user = TRUE]
    BY <2>1 DEF EmptyProtocol, Log, Applied, Plain
  <2>3. PendingCalls(protocol') = PendingCalls(protocol) /\ protocol'.started = protocol.started
    BY <2>2 DEF PendingCalls, Typed, Protocol
  <2>4. /\ TheRun = [phase |-> "absent", owed |-> PendingCalls(protocol),
                     started |-> protocol.started]
        /\ TheRun' = [phase |-> "open", owed |-> PendingCalls(protocol),
                      started |-> protocol.started]
    BY <2>2, <2>3 DEF TheRun
  <2>5. TheRun.phase = "absent" /\ TheRun' = [TheRun EXCEPT !.phase = "open"]
    BY <2>4
  <2>6. View' = [View EXCEPT !["r"].phase = "open"]
    BY <2>5 DEF View
  <2>. QED  BY <2>5, <2>6 DEF View, Contract!Next, Contract!Open
<1>2. CASE Close
  <2>1. /\ protocol.pending = <<>> /\ protocol.user /\ ~protocol.terminal
        /\ Log(Plain("terminal")) /\ UNCHANGED <<task, value>>
    BY <1>2 DEF Close, Progress
  <2>2. protocol'.terminal /\ protocol' = [protocol EXCEPT !.terminal = TRUE]
    BY <2>1 DEF Log, Applied, Plain, Typed, Protocol
  <2>3. PendingCalls(protocol') = PendingCalls(protocol) /\ protocol'.started = protocol.started
    BY <2>2 DEF PendingCalls, Typed, Protocol
  <2>4. PendingCalls(protocol) = <<>>
    <3>1. protocol.results = 0
      BY <2>1, Transaction DEF Shape
    <3>. QED  BY <2>1, <3>1 DEF PendingCalls
  <2>5. /\ TheRun = [phase |-> "open", owed |-> <<>>, started |-> protocol.started]
        /\ TheRun' = [phase |-> "closed", owed |-> <<>>, started |-> protocol.started]
    BY <2>1, <2>2, <2>3, <2>4 DEF TheRun
  <2>6. /\ TheRun.phase = "open" /\ TheRun.owed = <<>>
        /\ TheRun' = [TheRun EXCEPT !.phase = "closed"]
    BY <2>5
  <2>7. View' = [View EXCEPT !["r"].phase = "closed"]
    BY <2>6 DEF View
  <2>. QED  BY <2>6, <2>7 DEF View, Contract!Next, Contract!Close
<1>. QED
  BY <1>1, <1>2

LEMMA OwedChanges ==
    ASSUME NEW o, NEW new, NEW s, NEW v, v = [phase |-> "open", owed |-> o, started |-> s],
           NEW w, w = [phase |-> "open", owed |-> new, started |-> s]
    PROVE  w = [v EXCEPT !.owed = new]
OBVIOUS

LEMMA RequestAsks == ASSUME OInv, Request PROVE Contract!Next
<1>. USE DEF OInv, Data
<1>1. PICK n \in 2 .. MaxRequested :
        /\ main = "idle" /\ Used + n <= Len(Order)
        /\ batch' = SubSeq(Order, Used + 1, Used + n)
        /\ Log(Requested(batch'))
        /\ UNCHANGED <<task, value>>
  BY DEF Request
<1>2. protocol.pending = <<>> /\ protocol.user /\ ~protocol.terminal
  BY <1>1 DEF Progress
<1>3. /\ protocol' \in Protocol /\ Len(batch') > 0
      /\ protocol'.user /\ ~protocol'.terminal
      /\ protocol'.pending = batch' /\ protocol'.results = 0 /\ protocol'.started = {}
  <2>1. /\ protocol' \in Protocol /\ Len(batch') = n /\ n \in Nat /\ n > 1
        /\ protocol'.user = protocol.user /\ protocol'.terminal = protocol.terminal
        /\ protocol'.pending = batch' /\ protocol'.results = 0 /\ protocol'.started = {}
    BY <1>1, <1>2, RequestKeepsData
  <2>2. Len(batch') > 0
    BY <2>1
  <2>. QED  BY <1>2, <2>1, <2>2
<1>4. /\ PendingCalls(protocol') \in Seq(CallIds)
      /\ Len(PendingCalls(protocol')) = Len(batch')
  BY <1>3, Owed
<1>5. PendingCalls(protocol') # <<>>
  BY <1>3, <1>4
<1>6. PendingCalls(protocol) = <<>> /\ protocol.started = {}
  <2>1. protocol.results = 0 /\ protocol.ordinal = 0
    BY <1>2, Transaction DEF Shape
  <2>. QED  BY <1>2, <2>1 DEF PendingCalls, Shape
<1>7. /\ TheRun = [phase |-> "open", owed |-> <<>>, started |-> {}]
      /\ TheRun' = [phase |-> "open", owed |-> PendingCalls(protocol'), started |-> {}]
  BY <1>2, <1>3, <1>6 DEF TheRun
<1>8. /\ TheRun.phase = "open" /\ TheRun.owed = <<>>
      /\ TheRun'.owed = PendingCalls(protocol')
      /\ TheRun' = [TheRun EXCEPT !.owed = PendingCalls(protocol')]
  <2>1. TheRun.phase = "open" /\ TheRun.owed = <<>> /\ TheRun'.owed = PendingCalls(protocol')
    BY <1>7
  <2>2. PICK v, w, old, new, s : /\ v = TheRun /\ w = TheRun'
                                  /\ old = <<>> /\ new = PendingCalls(protocol') /\ s = {}
    OBVIOUS
  <2>3. /\ v = [phase |-> "open", owed |-> old, started |-> s]
        /\ w = [phase |-> "open", owed |-> new, started |-> s]
    BY <1>7, <2>2, Zenon
  <2>4. w = [v EXCEPT !.owed = new]
    BY <2>3
  <2>5. TheRun' = [TheRun EXCEPT !.owed = PendingCalls(protocol')]
    BY <2>2, <2>4, Zenon
  <2>. QED  BY <2>1, <2>5
<1>9. /\ View'["r"].owed = PendingCalls(protocol')
      /\ View' = [View EXCEPT !["r"].owed = PendingCalls(protocol')]
  BY <1>8 DEF View
<1>. QED
  BY <1>4, <1>5, <1>8, <1>9 DEF View, Contract!Next, Contract!Request

LEMMA StartStarts ==
    ASSUME OInv, main = "starting", Log(NextEvent), UNCHANGED <<task, value>>
    PROVE  Contract!Next
<1>. USE DEF OInv, Data
<1>. DEFINE k == protocol.ordinal + 1
            c == protocol.pending[k]
<1>1. /\ protocol.ordinal < Len(protocol.pending) /\ NextEvent = Started(c)
      /\ protocol.results = 0 /\ protocol.user /\ ~protocol.terminal
  BY NextStart DEF Progress
<1>2. protocol' = Applied(protocol, Started(c))
  BY <1>1 DEF Log
<1>3. /\ protocol' \in Protocol
      /\ protocol'.user = protocol.user /\ protocol'.terminal = protocol.terminal
      /\ protocol'.pending = protocol.pending /\ protocol'.results = protocol.results
      /\ protocol'.started = protocol.started \cup {c}
  <2>1. /\ protocol \in Protocol /\ Distinct(protocol.pending)
        /\ protocol.ordinal < Len(protocol.pending)
    BY <1>1 DEF Typed, Shape
  <2>. DEFINE q == Applied(protocol, Started(c))
  <2>2. /\ q \in Protocol /\ q.user = protocol.user /\ q.terminal = protocol.terminal
        /\ q.pending = protocol.pending /\ q.results = protocol.results
        /\ q.started = protocol.started \cup {c}
    BY <2>1, AppliedStart
  <2>. QED  BY <1>2, <2>2
<1>4. PendingCalls(protocol') = PendingCalls(protocol)
  BY <1>3 DEF PendingCalls
<1>5. /\ DOMAIN protocol.pending = 1 .. Len(protocol.pending)
      /\ Len(protocol.pending) \in Nat /\ protocol.ordinal \in Nat
      /\ k \in 1 .. Len(protocol.pending)
  BY <1>1, Transaction
<1>6. /\ DOMAIN PendingCalls(protocol) = DOMAIN protocol.pending
      /\ \A i \in DOMAIN protocol.pending : PendingCalls(protocol)[i] = protocol.pending[i]
  <2>1. /\ PendingCalls(protocol) \in Seq(CallIds)
        /\ Len(PendingCalls(protocol)) = Len(protocol.pending) - protocol.results
        /\ \A i \in 1 .. Len(protocol.pending) - protocol.results :
              PendingCalls(protocol)[i] = protocol.pending[protocol.results + i]
    BY Owed DEF Typed, Shape
  <2>2. Len(protocol.pending) - protocol.results = Len(protocol.pending)
        /\ \A i \in 1 .. Len(protocol.pending) : protocol.results + i = i
    BY <1>1, <1>5
  <2>. QED  BY <1>5, <2>1, <2>2
<1>7. \A j \in DOMAIN protocol.pending : j >= k => protocol.pending[j] \notin protocol.started
  <2>. SUFFICES ASSUME NEW j \in DOMAIN protocol.pending, j >= k,
                       protocol.pending[j] \in protocol.started
                PROVE  FALSE
    OBVIOUS
  <2>1. PICK i \in 1 .. protocol.ordinal : protocol.pending[i] = protocol.pending[j]
    BY DEF Shape
  <2>2. i \in DOMAIN protocol.pending /\ i # j
    BY <1>5, <2>1
  <2>. QED  BY <2>1, <2>2 DEF Shape, Distinct
<1>8. /\ TheRun = [phase |-> "open", owed |-> PendingCalls(protocol),
                   started |-> protocol.started]
      /\ TheRun' = [phase |-> "open", owed |-> PendingCalls(protocol),
                    started |-> protocol.started \cup {c}]
  BY <1>1, <1>3, <1>4 DEF TheRun
<1>. HIDE DEF k, c
<1>9. /\ TheRun.phase = "open" /\ TheRun.owed = PendingCalls(protocol)
      /\ TheRun.started = protocol.started
      /\ TheRun' = [TheRun EXCEPT !.started = @ \cup {c}]
  BY <1>8
<1>10. k \in DOMAIN TheRun.owed /\ TheRun.owed[k] = c
  BY <1>5, <1>6, <1>9 DEF c
<1>11. \A j \in DOMAIN TheRun.owed : j >= k => TheRun.owed[j] \notin TheRun.started
  BY <1>6, <1>7, <1>9
<1>12. View' = [View EXCEPT !["r"].started = @ \cup {View["r"].owed[k]}]
  BY <1>9, <1>10 DEF View
<1>13. Contract!Start("r")
  BY <1>9, <1>10, <1>11, <1>12 DEF View, Contract!Start
<1>. QED
  BY <1>13 DEF Contract!Next

LEMMA ResultSettles ==
    ASSUME OInv, main \in {"rejecting", "recording", "recovering"}, Log(NextEvent)
    PROVE  Contract!Next
<1>. USE DEF OInv, Data
<1>. DEFINE n == Len(protocol.pending) - protocol.results
            old == PendingCalls(protocol)
            new == PendingCalls(protocol')
<1>1. /\ protocol.results < Len(protocol.pending)
      /\ \E x, f : NextEvent = Result(Due, x, f) /\ Says(x)
      /\ protocol.user /\ ~protocol.terminal
  BY NextResult DEF Progress
<1>2. PICK x, f : NextEvent = Result(Due, x, f)
  BY <1>1
<1>3. /\ protocol' \in Protocol
      /\ protocol'.user = protocol.user /\ protocol'.terminal = protocol.terminal
      /\ protocol.results + 1 = Len(protocol.pending) =>
           protocol'.pending = <<>> /\ protocol'.started = {} /\ protocol'.results = 0
      /\ protocol.results + 1 # Len(protocol.pending) =>
           /\ protocol'.pending = protocol.pending
           /\ protocol'.started = protocol.started
           /\ protocol'.results = protocol.results + 1
  BY <1>2, AppliedResult DEF Log, Typed
<1>4. /\ Len(protocol.pending) \in Nat /\ protocol.results \in Nat /\ n \in Nat /\ n > 0
  BY <1>1, Transaction
<1>5. /\ old \in Seq(CallIds) /\ Len(old) = n /\ old # <<>>
      /\ \A i \in 1 .. n : old[i] = protocol.pending[protocol.results + i]
  BY <1>1, Owed DEF Typed, Shape
<1>6. new = Tail(old) /\ protocol'.started = (IF Len(old) = 1 THEN {} ELSE protocol.started)
  <2>1. CASE protocol.results + 1 = Len(protocol.pending)
    <3>1. n = 1
      BY <1>4, <2>1
    <3>2. Tail(old) = <<>>
      BY <1>5, <3>1
    <3>3. new = <<>>
      BY <1>3, <2>1 DEF PendingCalls
    <3>. QED  BY <1>3, <1>5, <2>1, <3>1, <3>2, <3>3
  <2>2. CASE protocol.results + 1 # Len(protocol.pending)
    <3>1. n # 1 /\ protocol.results + 1 <= Len(protocol.pending)
      BY <1>1, <1>4, <2>2
    <3>2. /\ new \in Seq(CallIds) /\ Len(new) = Len(protocol'.pending) - protocol'.results
          /\ \A i \in 1 .. Len(protocol'.pending) - protocol'.results :
                new[i] = protocol'.pending[protocol'.results + i]
      <4>1. protocol' \in Protocol /\ protocol'.results <= Len(protocol'.pending)
        BY <1>3, <2>2, <3>1
      <4>. QED  BY <4>1, Owed
    <3>3. Len(new) = n - 1
      BY <1>3, <1>4, <2>2, <3>2
    <3>4. /\ Tail(old) \in Seq(CallIds) /\ Len(Tail(old)) = n - 1
          /\ \A i \in 1 .. n - 1 : Tail(old)[i] = old[i + 1]
      <4>1. old \in Seq(CallIds) /\ Len(old) = n /\ n \in Nat \ {0} /\ old # <<>>
        BY <1>4, <1>5
      <4>. HIDE DEF old, n
      <4>. QED  BY <4>1
    <3>5. \A i \in 1 .. n - 1 : new[i] = Tail(old)[i]
      <4>. SUFFICES ASSUME NEW i \in 1 .. n - 1 PROVE new[i] = Tail(old)[i]
        OBVIOUS
      <4>. DEFINE r == protocol.results
                  l == Len(protocol.pending)
      <4>t. r \in Nat /\ l \in Nat /\ n = l - r
        BY <1>4
      <4>. HIDE DEF r, l, n
      <4>a. i + 1 \in 1 .. n /\ r + (i + 1) = r + 1 + i /\ l - (r + 1) = n - 1
        BY <1>4, <4>t
      <4>1. i + 1 \in 1 .. n /\ protocol.results + (i + 1) = protocol.results + 1 + i
            /\ Len(protocol.pending) - (protocol.results + 1) = n - 1
        BY <4>a, Zenon DEF r, l
      <4>2. new[i] = protocol.pending[protocol.results + 1 + i]
        BY <1>3, <2>2, <3>2, <4>1
      <4>3. old[i + 1] = protocol.pending[protocol.results + 1 + i]
        BY <1>5, <4>1
      <4>. QED  BY <3>4, <4>2, <4>3
    <3>6. new = Tail(old)
      BY <3>2, <3>3, <3>4, <3>5
    <3>. QED  BY <1>3, <1>5, <2>2, <3>1, <3>6
  <2>. QED  BY <2>1, <2>2
<1>7. /\ TheRun = [phase |-> "open", owed |-> old, started |-> protocol.started]
      /\ TheRun' = [phase |-> "open", owed |-> new, started |-> protocol'.started]
  BY <1>1, <1>3 DEF TheRun
<1>. HIDE DEF old, new, n
<1>8. TheRun.phase = "open" /\ TheRun.owed = old /\ TheRun.started = protocol.started
  BY <1>7
<1>9. TheRun' = [TheRun EXCEPT !.owed = Tail(TheRun.owed),
                               !.started = IF Len(TheRun.owed) = 1 THEN {}
                                           ELSE TheRun.started]
  <2>. DEFINE s == IF Len(TheRun.owed) = 1 THEN {} ELSE TheRun.started
              l == Tail(TheRun.owed)
  <2>1. TheRun' = [phase |-> "open", owed |-> l, started |-> s]
    BY <1>6, <1>7, <1>8
  <2>. HIDE DEF s, l
  <2>. DEFINE u == [phase |-> "open", owed |-> l, started |-> protocol.started]
  <2>2. u = [TheRun EXCEPT !.owed = l]
    BY <1>7, Z3
  <2>3. TheRun' = [u EXCEPT !.started = s]
    BY <2>1, Z3
  <2>4. TheRun' = [TheRun EXCEPT !.owed = l, !.started = s]
    BY <2>2, <2>3, Zenon
  <2>. QED  BY <2>4 DEF s, l
<1>10. View' = [View EXCEPT !["r"].owed = Tail(@),
                            !["r"].started = IF Len(View["r"].owed) = 1 THEN {} ELSE @]
  BY <1>9 DEF View
<1>11. Contract!Settle("r")
  BY <1>5, <1>8, <1>10 DEF View, Contract!Settle
<1>. QED
  BY <1>11 DEF Contract!Next

LEMMA StepView == ASSUME OInv, [Next]_vars PROVE [Contract!Next]_View
<1>1. CASE protocol' = protocol
  BY <1>1 DEF View, TheRun
<1>2. CASE Open \/ Close
  BY <1>2, OpenClosesRun
<1>3. CASE Request
  BY <1>3, RequestAsks
<1>4. CASE Record \/ InterruptAppended \/ Recover
  <2>1. /\ main \in {"rejecting", "starting", "recording", "recovering"} /\ Log(NextEvent)
        /\ UNCHANGED <<task, value>>
    BY <1>4 DEF Record, InterruptAppended, Recover
  <2>. QED  BY <2>1, StartStarts, ResultSettles
<1>5. Prepare \/ Submit \/ Collect \/ Join \/ Worker \/ RequestStop \/ Interrupt \/ Crash
      \/ Resume \/ UNCHANGED vars => protocol' = protocol
  BY DEF Prepare, Submit, Collect, Join, Worker, Take, Finish, RequestStop, Interrupt, Crash,
         Resume, vars
<1>. QED
  BY <1>1, <1>2, <1>3, <1>4, <1>5 DEF Next, Main

\* Seen from the Run Log, batches keep the contract of a Run: starts in order and
\* before any result, one result for each call in order, nothing after the close
\* (execute_pending_batch, _RunProtocol).
THEOREM BatchesKeepTheContract == Spec => ContractHolds
<1>1. OInv /\ [Next]_vars => [Contract!Next]_View
  BY StepView
<1>. QED
  BY BatchInvariance, InitView, <1>1, PTL DEF Spec, ContractHolds, Contract!Spec, View

=============================================================================
