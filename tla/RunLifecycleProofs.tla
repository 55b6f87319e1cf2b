--------------------------- MODULE RunLifecycleProofs --------------------------
(****************************************************************************)
(* Proofs about RunLifecycle, for any Runs, call ids and fault bounds, and  *)
(* a Provider that may or may not repeat call ids.  The one hypothesis of   *)
(* them all is that reload_current_run itself does not raise                *)
(* (~ReloadMayFail): without it a second exception leaves MemoryIsCurrent   *)
(* false.  RecoveryNeverSticks adds a second one, ~ReuseIds: a repeated     *)
(* call id is what EverStarted mistakes for a start.                        *)
(****************************************************************************)
EXTENDS RunLifecycle, TLAPS

(****************************************************************************)
(* The protocol.                                                            *)
(****************************************************************************)

\* What the callers append: a request names distinct calls, at least one; a
\* start and a result name one call.
Fitting(e) ==
    /\ e \in Event
    /\ e.kind = "tool_calls" => e.calls # <<>> /\ Distinct(e.calls)
    /\ e.kind \in {"tool_started", "tool_result"} =>
           DOMAIN e.calls = {1} /\ e.calls[1] \in CallIds

Sound(p) == p \in Protocol /\ WellFormed(p)

\* list.index finds the call it is asked for, when it is there; distinct calls
\* have one position.
LEMMA PositionFinds ==
    ASSUME NEW ids \in Seq(CallIds), Distinct(ids), NEW c, InSeq(c, ids)
    PROVE  /\ Position(c, ids) \in DOMAIN ids
           /\ ids[Position(c, ids)] = c
<1>1. PICK k \in DOMAIN ids : ids[k] = c
  BY DEF InSeq
<1>2. \A j \in DOMAIN ids : ids[j] = c => k <= j
  BY <1>1 DEF Distinct
<1>. QED
  BY <1>1, <1>2 DEF Position

LEMMA EmptyProtocolSound == Sound(EmptyProtocol)
BY DEF Sound, EmptyProtocol, Protocol, WellFormed, Distinct

\* pending_tool_calls answers call ids, one for every missing result.
LEMMA PendingCallsType ==
    ASSUME NEW p, Sound(p)
    PROVE  /\ PendingCalls(p) \in Seq(CallIds)
           /\ Len(PendingCalls(p)) = Len(p.pending) - p.results
           /\ \A i \in 1 .. Len(p.pending) - p.results :
                 PendingCalls(p)[i] = p.pending[p.results + i]
BY DEF PendingCalls, Sound, WellFormed, Protocol

\* A transaction begins, or is cleared, well formed.
LEMMA BeginCallsSound ==
    ASSUME NEW p, Sound(p), NEW ids \in Seq(CallIds), Distinct(ids)
    PROVE  Sound(BeginCalls(p, ids))
<1>. DEFINE q == BeginCalls(p, ids)
<1>1. /\ q \in Protocol
      /\ q.pending = ids /\ q.started = {} /\ q.ordinal = 0 /\ q.results = 0
  BY DEF Sound, Protocol, BeginCalls
<1>2. Len(ids) \in Nat /\ (Len(ids) = 0 => ids = <<>>)
  OBVIOUS
<1>3. WellFormed(q)
  BY <1>1, <1>2 DEF WellFormed
<1>. QED
  BY <1>1, <1>3 DEF Sound

\* apply keeps the protocol state well formed.
LEMMA AppliedSound ==
    ASSUME NEW p, Sound(p), NEW e, Fitting(e), Allowed(p, e)
    PROVE  Sound(Applied(p, e))
<1>1. e \in Event /\ e.kind \in Kinds
  BY DEF Fitting, Event
<1>2. CASE e.kind \in {"user_message", "terminal", "note"}
  BY <1>2 DEF Applied, Sound, Protocol, WellFormed
<1>3. CASE e.kind = "tool_calls"
  <2>1. e.calls \in Seq(CallIds) /\ Distinct(e.calls)
    BY <1>1, <1>3 DEF Fitting, Event
  <2>2. Applied(p, e) = BeginCalls(p, e.calls)
    BY <1>3 DEF Applied
  <2>. QED  BY <2>1, <2>2, BeginCallsSound
<1>4. CASE e.kind = "tool_started"
  <2>. DEFINE c == e.calls[1]
              k == Position(c, p.pending)
              q == Applied(p, e)
  <2>1. c \in CallIds /\ InSeq(c, p.pending) /\ k > p.ordinal
    BY <1>1, <1>4 DEF Fitting, Allowed, MayStart
  <2>2. k \in DOMAIN p.pending /\ p.pending[k] = c
    BY <2>1, PositionFinds DEF Sound, Protocol, WellFormed
  <2>3. q = [p EXCEPT !.started = @ \cup {c}, !.ordinal = k]
    BY <1>4 DEF Applied
  <2>4. k \in Nat /\ k <= Len(p.pending)
    BY <2>2 DEF Sound, Protocol
  <2>5. /\ q \in Protocol
        /\ q.pending = p.pending /\ q.results = p.results
        /\ q.started = p.started \cup {c} /\ q.ordinal = k
    <3>. DEFINE t == p.started \cup {c}
                a == [p EXCEPT !.started = t]
    <3>1. p \in Protocol /\ t \in SUBSET CallIds
      BY <2>1 DEF Sound, Protocol
    <3>2. q = [a EXCEPT !.ordinal = k]
      BY <2>3, <3>1 DEF Protocol
    <3>. HIDE DEF c, k, t
    <3>3. /\ a \in Protocol /\ a.pending = p.pending /\ a.results = p.results
          /\ a.started = t
      BY <3>1 DEF Protocol
    <3>. HIDE DEF a, q
    <3>4. /\ q \in Protocol /\ q.pending = a.pending /\ q.results = a.results
          /\ q.started = a.started /\ q.ordinal = k
      BY <2>4, <3>2, <3>3 DEF Protocol
    <3>. QED  BY <3>3, <3>4 DEF t
  <2>6. \A d \in q.started : \E i \in 1 .. q.ordinal : q.pending[i] = d
    BY <2>1, <2>2, <2>4, <2>5 DEF Sound, Protocol, WellFormed
  <2>. QED  BY <2>4, <2>5, <2>6 DEF Sound, WellFormed
<1>5. CASE e.kind = "tool_result"
  <2>1. p.results < Len(p.pending)
    BY <1>5 DEF Allowed, MayFinish
  <2>2. CASE p.results + 1 = Len(p.pending)
    <3>1. Applied(p, e) = BeginCalls(p, <<>>)
      BY <1>5, <2>2 DEF Applied
    <3>2. <<>> \in Seq(CallIds) /\ Distinct(<<>>)
      BY DEF Distinct
    <3>. QED  BY <3>1, <3>2, BeginCallsSound
  <2>3. CASE p.results + 1 # Len(p.pending)
    <3>1. Applied(p, e) = [p EXCEPT !.results = @ + 1]
      BY <1>5, <2>3 DEF Applied
    <3>2. Applied(p, e) \in Protocol
      BY <3>1 DEF Sound, Protocol
    <3>3. p.results + 1 < Len(p.pending)
      BY <2>1, <2>3 DEF Sound, Protocol
    <3>. QED  BY <3>1, <3>2, <3>3 DEF Sound, Protocol, WellFormed
  <2>. QED  BY <2>2, <2>3
<1>. QED
  BY <1>1, <1>2, <1>3, <1>4, <1>5 DEF Kinds

(****************************************************************************)
(* The inductive invariant.  MemoryIsCurrent is not inductive by itself: a  *)
(* reload must find a log to read, so the Run in memory has one from the    *)
(* first append on, every log is readable, and the Run that is being        *)
(* created starts from the empty log.                                       *)
(****************************************************************************)
EmptyLogs == \A r \in Runs : log[r] = <<>> => facts[r] = EmptyProtocol

Creating ==
    pc = "create" => /\ mem.run # NoRun /\ log[mem.run] = <<>>
                     /\ Current(mem) /\ Projected(mem)

Reloadable ==
    pc \in Attached \cup {"recover", "idle", "unpoint"} /\ mem.run # NoRun
        => log[mem.run] # <<>>

Dropping == pc = "drop" => mem.run = NoRun

IInv ==
    /\ TypeOK
    /\ MemoryIsCurrent
    /\ LogsReadable
    /\ EmptyLogs
    /\ Creating
    /\ Reloadable
    /\ Dropping

LEMMA BlankTyped == Blank \in Memory /\ Sound(Blank.proto) /\ Blank.run = NoRun
<1>1. Blank \in Memory
  BY EmptyProtocolSound DEF Blank, Memory, Sound
<1>. QED
  BY <1>1, EmptyProtocolSound DEF Blank

LEMMA VacantTyped ==
    ASSUME NEW m \in Memory
    PROVE  /\ Vacant(m) \in Memory
           /\ Sound(Vacant(m).proto)
           /\ Vacant(m).run = NoRun
BY BlankTyped, EmptyProtocolSound DEF Vacant, Memory, Blank

\* append_event extends one log by the next number, and a replay of the longer
\* log is the state apply yields.
LEMMA WriteExtends ==
    ASSUME TypeOK, LogsReadable, EmptyLogs,
           NEW r \in Runs, mem.run = r, Current(mem),
           NEW e, Fitting(e), Allowed(mem.proto, e), Write(r, e)
    PROVE  /\ log' \in [Runs -> Seq(Event)] /\ log'[r] = Append(log[r], Line(r, e))
           /\ log'[r] # <<>> /\ Len(log'[r]) = Len(log[r]) + 1
           /\ torn' \in [Runs -> BOOLEAN] /\ torn'[r] = FALSE
           /\ facts' \in [Runs -> Protocol] /\ facts'[r] = Applied(facts[r], e)
           /\ \A q \in Runs : WellFormed(facts'[q])
           /\ \A q \in Runs \ {r} : log'[q] = log[q] /\ facts'[q] = facts[q]
           /\ Line(r, e) \in Event
           /\ LogsReadable'
           /\ EmptyLogs'
<1>. DEFINE l == Line(r, e)
<1>1. e \in Event /\ log[r] \in Seq(Event) /\ mem.cursor = Len(log[r]) /\ ~torn[r]
  BY DEF Fitting, TypeOK, Current
<1>2. l \in Event /\ l.seq = Len(log[r]) + 1
  <2>1. l = [e EXCEPT !.seq = Len(log[r]) + 1]
    BY <1>1 DEF Line
  <2>2. Len(log[r]) + 1 \in Nat
    BY <1>1
  <2>. HIDE DEF l
  <2>. QED  BY <1>1, <2>1, <2>2 DEF Event
<1>3. /\ log' \in [Runs -> Seq(Event)] /\ log'[r] = Append(log[r], l)
      /\ \A q \in Runs \ {r} : log'[q] = log[q]
  BY <1>1, <1>2 DEF Write, TypeOK
<1>4. log'[r] # <<>> /\ Len(log'[r]) = Len(log[r]) + 1
  BY <1>1, <1>2, <1>3
<1>5. torn' \in [Runs -> BOOLEAN] /\ torn'[r] = FALSE
  BY DEF Write, TypeOK
<1>6. Sound(Applied(facts[r], e))
  BY AppliedSound DEF TypeOK, Sound, Current
<1>7. /\ facts' \in [Runs -> Protocol] /\ facts'[r] = Applied(facts[r], e)
      /\ \A q \in Runs \ {r} : facts'[q] = facts[q]
  BY <1>6 DEF Write, TypeOK, Sound
<1>8. \A q \in Runs : WellFormed(facts'[q])
  BY <1>6, <1>7 DEF TypeOK, Sound
<1>9. LogsReadable'
  <2>1. Readable(log'[r])
    BY <1>1, <1>2, <1>3 DEF LogsReadable, Readable
  <2>. QED  BY <2>1, <1>3 DEF LogsReadable
<1>10. EmptyLogs'
  BY <1>3, <1>4, <1>7 DEF EmptyLogs
<1>. QED
  BY <1>2, <1>3, <1>4, <1>5, <1>7, <1>8, <1>9, <1>10

\* The copies an append updates stay typed, at whichever of them it stopped.
LEMMA CopiesTyped ==
    ASSUME TypeOK, NEW r \in Runs, mem.run = r,
           NEW e, Fitting(e), Allowed(mem.proto, e), Line(r, e) \in Event,
           NEW m \in {mem, CursorMoved(mem), Logged(mem, r, e), Noted(mem, r, e)}
    PROVE  m \in Memory /\ Sound(m.proto) /\ m.run = r
<1>1. mem \in Memory /\ Sound(mem.proto)
  BY DEF TypeOK, Memory, Sound
<1>2. Sound(Applied(mem.proto, e)) /\ Applied(mem.proto, e) \in Protocol
  BY <1>1, AppliedSound DEF Sound
<1>3. /\ CursorMoved(mem) \in Memory
      /\ CursorMoved(mem).proto = mem.proto /\ CursorMoved(mem).run = r
      /\ CursorMoved(mem).log = mem.log
  BY <1>1 DEF CursorMoved, Memory
<1>4. /\ Logged(mem, r, e) \in Memory
      /\ Logged(mem, r, e).proto = Applied(mem.proto, e) /\ Logged(mem, r, e).run = r
  <2>1. Append(mem.log, Line(r, e)) \in Seq(Event)
    BY <1>1 DEF Memory
  <2>2. Logged(mem, r, e) = [CursorMoved(mem) EXCEPT
                               !.log = Append(mem.log, Line(r, e)),
                               !.proto = Applied(mem.proto, e)]
    BY <1>3 DEF Logged
  <2>. QED  BY <1>2, <1>3, <2>1, <2>2 DEF Memory
<1>5. /\ Noted(mem, r, e) \in Memory
      /\ Noted(mem, r, e).proto = Applied(mem.proto, e) /\ Noted(mem, r, e).run = r
  BY <1>4 DEF Noted, Memory
<1>. QED
  BY <1>1, <1>2, <1>3, <1>4, <1>5

\* Where no results are being recovered, the projection is behind by nothing.
LEMMA ProjectedIsCaughtUp ==
    ASSUME mem \in Memory, Projected(mem), ~Recovering
    PROVE  mem.seen = Len(mem.log)
<1>1. mem.seen \in Nat /\ Len(mem.log) \in Nat /\ mem.seen <= Len(mem.log)
  BY DEF Memory, Projected
<1>2. CASE mem.seen # Len(mem.log)
  <2>1. mem.seen + 1 \in mem.seen + 1 .. Len(mem.log)
    BY <1>1, <1>2
  <2>. QED  BY <2>1 DEF Projected
<1>. QED  BY <1>2

\* A projection that has seen the whole log is behind by nothing, wherever it is.
LEMMA CaughtUpIsProjected ==
    ASSUME NEW m, m.seen \in Nat, m.seen = Len(m.log)
    PROVE  Projected(m)
<1>1. m.seen + 1 .. Len(m.log) = {} /\ m.seen <= Len(m.log)
  OBVIOUS
<1>. QED  BY <1>1 DEF Projected

LEMMA CaughtUpNext ==
    ASSUME mem'.seen \in Nat, mem'.seen = Len(mem'.log)
    PROVE  Projected(mem)'
<1>1. mem'.seen + 1 .. Len(mem'.log) = {} /\ mem'.seen <= Len(mem'.log)
  OBVIOUS
<1>. QED  BY <1>1 DEF Projected

\* What an append may rely on where results are recovered: it goes on there with a
\* result, or it follows them all.
InOrder(e, next) ==
    Recovering => IF e.kind = "tool_result" THEN next = pc ELSE mem.seen = Len(mem.log)

\* A line more is a line that the projection sees, or another recovered result.
LEMMA KeptIsProjected ==
    ASSUME mem \in Memory, NEW r, NEW e, NEW next, InOrder(e, next), Projected(mem),
           pc' = next, mem' = Kept(mem, r, e),
           Line(r, e) \in Event, Line(r, e).kind = e.kind
    PROVE  Projected(mem)'
<1>. DEFINE l == Line(r, e)
            n == Len(mem.log)
<1>1. /\ mem.seen \in Nat /\ n \in Nat /\ mem.log \in Seq(Event)
  BY DEF Memory
<1>2. /\ mem'.log = Append(mem.log, l)
      /\ mem'.seen = IF Recovering /\ e.kind = "tool_result" THEN mem.seen ELSE mem.seen + 1
  BY <1>1 DEF Kept, Noted, Logged, CursorMoved, Memory
<1>. HIDE DEF l
<1>3. /\ Len(mem'.log) = n + 1 /\ mem'.log[n + 1] = l
      /\ \A i \in 1 .. n : mem'.log[i] = mem.log[i]
  BY <1>1, <1>2 DEF l
<1>4. CASE Recovering /\ e.kind = "tool_result"
  <2>1. Recovering'
    BY <1>4 DEF InOrder, Recovering
  <2>2. mem.seen <= n
    BY DEF Projected
  <2>3. \A i \in mem.seen + 1 .. n + 1 : mem'.log[i].kind = "tool_result"
    <3>. SUFFICES ASSUME NEW i \in mem.seen + 1 .. n + 1
                  PROVE  mem'.log[i].kind = "tool_result"
      OBVIOUS
    <3>1. CASE i = n + 1
      BY <1>3, <1>4, <3>1 DEF l
    <3>2. CASE i # n + 1
      <4>1. i \in mem.seen + 1 .. n /\ i \in 1 .. n
        BY <1>1, <3>2
      <4>. QED  BY <1>3, <4>1 DEF Projected
    <3>. QED  BY <3>1, <3>2
  <2>4. mem'.seen <= Len(mem'.log)
    BY <1>1, <1>2, <1>3, <1>4, <2>2
  <2>5. mem'.seen + 1 .. Len(mem'.log) = mem.seen + 1 .. n + 1
    BY <1>2, <1>3, <1>4
  <2>. QED  BY <2>1, <2>3, <2>4, <2>5 DEF Projected
<1>5. CASE ~(Recovering /\ e.kind = "tool_result")
  <2>1. mem.seen = n
    BY <1>5, ProjectedIsCaughtUp DEF InOrder
  <2>2. mem'.seen = Len(mem'.log) /\ mem'.seen \in Nat
    BY <1>1, <1>2, <1>3, <1>5, <2>1
  <2>3. mem'.seen + 1 .. Len(mem'.log) = {} /\ mem'.seen <= Len(mem'.log)
    BY <2>2
  <2>. QED  BY <2>3 DEF Projected
<1>. QED  BY <1>4, <1>5

\* After a success the copies equal the disk; after anything else the process
\* is on its way to a reload, or gone.
LEMMA AttemptKeepsIInv ==
    ASSUME IInv, pc \in Attached \cup {"create"},
           NEW e, Fitting(e),
           NEW next \in Attached \cup {"unpoint"}, Attempt(e, next), InOrder(e, next),
           altered' \in BOOLEAN, ran' \in [CallIds -> Nat]
    PROVE  IInv'
<1>. DEFINE r == mem.run
<1>1. /\ r \in Runs /\ Current(mem) /\ Projected(mem)
      /\ mem \in Memory /\ Sound(mem.proto)
  BY DEF IInv, MemoryIsCurrent, Creating, TypeOK, Memory, Sound
<1>2. pointer' = pointer /\ pointerRaises' = pointerRaises
  BY DEF Attempt
<1>3. \A m \in Memory : AfterRaise(m) \in {m, Vacant(m)}
  BY DEF AfterRaise
<1>4. pc # "create" => log[r] # <<>>
  BY <1>1, ConstantsAssumption DEF IInv, Reloadable, ConstantsAssumption
<1>5. CASE /\ ~Allowed(mem.proto, e)
           /\ mem' = AfterRaise(mem) /\ pc' = "recover"
           /\ UNCHANGED <<disk, raises, crashes>>
  <2>1. mem' \in Memory /\ WellFormed(mem'.proto) /\ (mem'.run # NoRun => mem'.run = r)
    BY <1>1, <1>3, <1>5, VacantTyped DEF Sound
  <2>2. TypeOK'
    BY <1>2, <1>5, <2>1 DEF IInv, TypeOK, disk, PCs
  <2>3. Reloadable'
    BY <1>4, <1>5, <2>1, VacantTyped, <1>1 DEF AfterRaise, Reloadable, disk
  <2>4. MemoryIsCurrent' /\ Creating' /\ Dropping'
    BY <1>5 DEF MemoryIsCurrent, Creating, Dropping, Attached
  <2>5. LogsReadable' /\ EmptyLogs'
    BY <1>5 DEF IInv, LogsReadable, EmptyLogs, disk
  <2>. QED  BY <2>2, <2>3, <2>4, <2>5 DEF IInv
<1>6. CASE /\ Allowed(mem.proto, e) /\ Write(r, e)
           /\ mem' = Kept(mem, r, e) /\ pc' = next
           /\ UNCHANGED <<raises, crashes>>
  <2>1. /\ log' \in [Runs -> Seq(Event)] /\ log'[r] = Append(log[r], Line(r, e))
        /\ log'[r] # <<>> /\ Len(log'[r]) = Len(log[r]) + 1
        /\ torn' \in [Runs -> BOOLEAN] /\ torn'[r] = FALSE
        /\ facts' \in [Runs -> Protocol] /\ facts'[r] = Applied(facts[r], e)
        /\ \A q \in Runs : WellFormed(facts'[q])
        /\ Line(r, e) \in Event
        /\ LogsReadable' /\ EmptyLogs'
    BY <1>1, <1>6, WriteExtends DEF IInv
  <2>2. mem' \in Memory /\ Sound(mem'.proto) /\ mem'.run = r
    BY <1>1, <1>6, <2>1, CopiesTyped DEF IInv, Kept
  <2>3. /\ mem'.log = Append(mem.log, Line(r, e))
        /\ mem'.proto = Applied(mem.proto, e)
        /\ mem'.cursor = mem.cursor + 1
    BY <1>1, <1>6 DEF Kept, Noted, Logged, CursorMoved, Memory
  <2>4. Current(mem)' /\ Projected(mem)'
    <3>1. Line(r, e).kind = e.kind
      BY DEF Fitting, Event, Line
    <3>2. Projected(mem)'
      BY <1>1, <1>6, <2>1, <3>1, KeptIsProjected
    <3>. QED  BY <1>1, <2>1, <2>2, <2>3, <3>2 DEF Current
  <2>5. TypeOK'
    BY <1>2, <1>6, <2>1, <2>2 DEF IInv, TypeOK, PCs, Attached, Sound
  <2>6. mem'.run # NoRun
    BY <1>1, <2>2, ConstantsAssumption DEF ConstantsAssumption
  <2>7. MemoryIsCurrent' /\ Reloadable'
    BY <2>1, <2>2, <2>4, <2>6 DEF MemoryIsCurrent, Reloadable
  <2>8. Creating' /\ Dropping'
    BY <1>6 DEF Creating, Dropping, Attached
  <2>. QED  BY <2>1, <2>5, <2>7, <2>8 DEF IInv
<1>7. CASE /\ Allowed(mem.proto, e) /\ raises' = raises + 1
           /\ torn' \in {torn, [torn EXCEPT ![r] = TRUE]}
           /\ mem' = AfterRaise(mem) /\ pc' = "recover"
           /\ UNCHANGED <<log, facts, crashes>>
  <2>1. mem' \in Memory /\ WellFormed(mem'.proto) /\ (mem'.run # NoRun => mem'.run = r)
    BY <1>1, <1>3, <1>7, VacantTyped DEF Sound
  <2>2. TypeOK'
    <3>1. torn' \in [Runs -> BOOLEAN]
      BY <1>7 DEF IInv, TypeOK
    <3>. QED  BY <1>2, <1>7, <2>1, <3>1 DEF IInv, TypeOK, PCs
  <2>3. Reloadable'
    BY <1>4, <1>7, <2>1, VacantTyped, <1>1 DEF AfterRaise, Reloadable
  <2>4. MemoryIsCurrent' /\ Creating' /\ Dropping'
    BY <1>7 DEF MemoryIsCurrent, Creating, Dropping, Attached
  <2>5. LogsReadable' /\ EmptyLogs'
    BY <1>7 DEF IInv, LogsReadable, EmptyLogs
  <2>. QED  BY <2>2, <2>3, <2>4, <2>5 DEF IInv
<1>8. CASE /\ Allowed(mem.proto, e) /\ raises' = raises + 1
           /\ Write(r, e)
           /\ \E m \in {mem, CursorMoved(mem), Logged(mem, r, e)} : mem' = AfterRaise(m)
           /\ pc' = "recover" /\ UNCHANGED crashes
  <2>1. /\ log' \in [Runs -> Seq(Event)]
        /\ log'[r] # <<>>
        /\ torn' \in [Runs -> BOOLEAN]
        /\ facts' \in [Runs -> Protocol]
        /\ \A q \in Runs : WellFormed(facts'[q])
        /\ Line(r, e) \in Event
        /\ LogsReadable' /\ EmptyLogs'
    BY <1>1, <1>8, WriteExtends DEF IInv
  <2>2. PICK m \in {mem, CursorMoved(mem), Logged(mem, r, e)} : mem' = AfterRaise(m)
    BY <1>8
  <2>3. m \in Memory /\ Sound(m.proto) /\ m.run = r
    BY <1>1, <1>8, <2>1, CopiesTyped DEF IInv
  <2>4. mem' \in Memory /\ WellFormed(mem'.proto) /\ (mem'.run # NoRun => mem'.run = r)
    BY <1>3, <2>2, <2>3, VacantTyped DEF Sound
  <2>5. TypeOK'
    BY <1>2, <1>8, <2>1, <2>4 DEF IInv, TypeOK, PCs
  <2>6. Reloadable'
    BY <2>1, <2>4 DEF Reloadable
  <2>7. MemoryIsCurrent' /\ Creating' /\ Dropping'
    BY <1>8 DEF MemoryIsCurrent, Creating, Dropping, Attached
  <2>. QED  BY <2>1, <2>5, <2>6, <2>7 DEF IInv
<1>9. CASE /\ Allowed(mem.proto, e)
           /\ torn' = [torn EXCEPT ![r] = TRUE]
           /\ Die /\ UNCHANGED <<log, facts, raises>>
  <2>1. TypeOK'
    BY <1>1, <1>2, <1>9, BlankTyped DEF IInv, TypeOK, Die, PCs, Sound
  <2>2. MemoryIsCurrent' /\ Creating' /\ Dropping' /\ Reloadable'
    BY <1>9 DEF Die, MemoryIsCurrent, Creating, Dropping, Reloadable, Attached
  <2>3. LogsReadable' /\ EmptyLogs'
    BY <1>9 DEF IInv, LogsReadable, EmptyLogs
  <2>. QED  BY <2>1, <2>2, <2>3 DEF IInv
<1>. QED
  BY <1>5, <1>6, <1>7, <1>8, <1>9 DEF Attempt

LEMMA InstalledIsCurrent ==
    ASSUME TypeOK, NEW m \in Memory, NEW r \in Runs
    PROVE  LET n == Installed(m, r) IN
           /\ n \in Memory /\ Sound(n.proto) /\ n.run = r
           /\ n.log = log[r] /\ n.proto = facts[r]
           /\ n.seen = Len(log[r]) /\ n.cursor = Len(log[r])
           /\ n.pointer = m.pointer
<1>1. /\ log[r] \in Seq(Event) /\ Len(log[r]) \in Nat
      /\ facts[r] \in Protocol /\ WellFormed(facts[r])
  BY DEF TypeOK
<1>. QED
  BY <1>1 DEF Installed, Memory, Sound

\* A reload installs what the disk holds, with the tail repaired.
LEMMA ReloadKeepsIInv ==
    ASSUME IInv, mem.run \in Runs, log[mem.run] # <<>>, ReloadCurrent
    PROVE  IInv'
<1>. DEFINE r == mem.run
<1>1. /\ mem' = Installed(mem, r)
      /\ pc' \in {"idle", "repoint"}
      /\ torn' \in [Runs -> BOOLEAN] /\ torn'[r] = FALSE
      /\ UNCHANGED <<log, facts, pointer, altered, ran, raises, pointerRaises, crashes>>
  BY DEF IInv, LogsReadable, ReloadCurrent, Repaired, TypeOK, work
<1>2. /\ mem' \in Memory /\ WellFormed(mem'.proto) /\ mem'.run = r /\ r # NoRun
      /\ Current(mem)' /\ Projected(mem)'
  <2>1. /\ mem \in Memory /\ log \in [Runs -> Seq(Event)]
        /\ \A s \in Runs : Sound(facts[s])
    BY DEF IInv, TypeOK, Sound
  <2>2. TypeOK /\ r \in Runs /\ r # NoRun
    BY ConstantsAssumption DEF IInv, ConstantsAssumption
  <2>. DEFINE m == Installed(mem, r)
  <2>3. /\ m \in Memory /\ Sound(m.proto) /\ m.run = r /\ m.log = log[r] /\ m.proto = facts[r]
        /\ m.seen = Len(log[r]) /\ m.cursor = Len(log[r])
    BY <2>1, <2>2, InstalledIsCurrent
  <2>. HIDE DEF m
  <2>4. /\ mem' = m /\ log' = log /\ facts' = facts /\ torn'[r] = FALSE
    BY <1>1 DEF m
  <2>. HIDE DEF r
  <2>5. mem'.seen \in Nat /\ mem'.seen = Len(mem'.log)
    BY <2>1, <2>2, <2>3, <2>4 DEF Memory
  <2>6. Projected(mem)'
    BY <2>5, CaughtUpNext
  <2>. QED  BY <2>2, <2>3, <2>4, <2>6 DEF Sound, Current
<1>3. TypeOK'
  BY <1>1, <1>2 DEF IInv, TypeOK, PCs
<1>4. MemoryIsCurrent' /\ Reloadable'
  BY <1>1, <1>2 DEF MemoryIsCurrent, Reloadable
<1>5. Creating' /\ Dropping'
  BY <1>1 DEF Creating, Dropping
<1>6. LogsReadable' /\ EmptyLogs'
  BY <1>1 DEF IInv, LogsReadable, EmptyLogs
<1>. QED
  BY <1>3, <1>4, <1>5, <1>6 DEF IInv

\* Startup installs a whole Run, or none.
LEMMA LoadKeepsIInv ==
    ASSUME IInv, NEW m \in Memory, Sound(m.proto), LoadResumable(m)
    PROVE  IInv'
<1>1. /\ torn' \in [Runs -> BOOLEAN]
      /\ UNCHANGED <<log, facts, pointer, altered, ran, raises, pointerRaises, crashes>>
  BY DEF IInv, LoadResumable, Repaired, TypeOK, work
<1>2. \/ /\ mem'.run = NoRun /\ mem' \in Memory /\ WellFormed(mem'.proto)
         /\ pc' \in {"down", "idle", "drop"}
      \/ /\ mem'.run \in Runs /\ mem' \in Memory /\ WellFormed(mem'.proto)
         /\ Current(mem)' /\ Projected(mem)' /\ log[mem'.run] # <<>>
         /\ pc' \in {"idle", "adopt"}
  <2>1. \A n \in Memory : [n EXCEPT !.boot = FALSE] \in Memory
    BY DEF Memory
  <2>2. /\ Vacant(m) \in Memory /\ Vacant(m).run = NoRun /\ Sound(Vacant(m).proto)
    BY VacantTyped
  <2>3. CASE m.pointer # NoRun
    <3>1. m.pointer \in Runs /\ torn'[m.pointer] = FALSE
      BY <2>3 DEF Memory, LoadResumable, Repaired, IInv, TypeOK
    <3>2. CASE log[m.pointer] = <<>>
      BY <2>2, <2>3, <3>2, BlankTyped DEF LoadResumable, Sound
    <3>3. CASE log[m.pointer] # <<>> /\ facts[m.pointer].terminal
      BY <2>2, <2>3, <3>1, <3>3 DEF LoadResumable, IInv, LogsReadable, Sound
    <3>4. CASE log[m.pointer] # <<>> /\ ~facts[m.pointer].terminal
      <4>. DEFINE n == Installed(m, m.pointer)
      <4>1. mem' = [n EXCEPT !.boot = FALSE] /\ pc' = "idle"
        BY <2>3, <3>1, <3>4 DEF LoadResumable, IInv, LogsReadable
      <4>2. /\ n \in Memory /\ Sound(n.proto) /\ n.run = m.pointer
            /\ n.log = log[m.pointer] /\ n.proto = facts[m.pointer]
            /\ n.seen = Len(log[m.pointer]) /\ n.cursor = Len(log[m.pointer])
        BY <3>1, InstalledIsCurrent DEF IInv
      <4>. HIDE DEF n
      <4>3. /\ mem' \in Memory /\ mem'.run = n.run /\ mem'.log = n.log
            /\ mem'.proto = n.proto /\ mem'.seen = n.seen /\ mem'.cursor = n.cursor
        BY <4>1, <4>2 DEF Memory
      <4>. QED
        BY <1>1, <3>1, <3>4, <4>1, <4>2, <4>3, CaughtUpNext DEF Current, Sound, Memory
    <3>. QED  BY <3>2, <3>3, <3>4
  <2>4. CASE m.pointer = NoRun
    <3>1. \A r \in Runs : torn'[r] = FALSE
      BY <2>4 DEF LoadResumable, Repaired
    <3>2. CASE mem' = [Vacant(m) EXCEPT !.boot = FALSE] /\ pc' = "idle"
      BY <2>1, <2>2, <3>2 DEF Sound, Memory
    <3>3. ASSUME NEW r \in Runs, Unfinished(r), mem' = Installed(m, r), pc' = "adopt"
          PROVE  /\ mem'.run \in Runs /\ mem' \in Memory /\ WellFormed(mem'.proto)
                 /\ Current(mem)' /\ Projected(mem)' /\ log[mem'.run] # <<>>
      <4>1. log[r] # <<>>
        BY <3>3 DEF IInv, EmptyLogs, Unfinished, EmptyProtocol
      <4>. QED
        BY <1>1, <3>1, <3>3, <4>1, InstalledIsCurrent, CaughtUpNext
        DEF IInv, Current, Sound, Memory
    <3>. QED  BY <2>4, <3>2, <3>3 DEF LoadResumable, ActiveRuns
  <2>. QED  BY <2>3, <2>4
<1>3. TypeOK'
  BY <1>1, <1>2 DEF IInv, TypeOK, PCs
<1>4. MemoryIsCurrent' /\ Reloadable' /\ Creating' /\ Dropping'
  BY <1>1, <1>2, ConstantsAssumption
  DEF MemoryIsCurrent, Reloadable, Creating, Dropping, Attached, ConstantsAssumption
<1>5. LogsReadable' /\ EmptyLogs'
  BY <1>1 DEF IInv, LogsReadable, EmptyLogs
<1>. QED
  BY <1>3, <1>4, <1>5 DEF IInv

(****************************************************************************)
(* Every event the actions append is fitting.                               *)
(****************************************************************************)
LEMMA PlainFits ==
    ASSUME NEW kind \in {"user_message", "note", "terminal"}
    PROVE  Fitting(Plain(kind))
BY DEF Fitting, Plain, Event, Kinds, ExecutionStates, EffectStates

LEMMA CallFits ==
    ASSUME NEW c \in CallIds,
           NEW exec \in ExecutionStates, NEW effect \in EffectStates
    PROVE  Fitting(Started(c)) /\ Fitting(Result(c, exec, effect))
<1>1. <<c>> \in Seq(CallIds) /\ DOMAIN <<c>> = {1} /\ <<c>>[1] = c
  OBVIOUS
<1>. QED
  BY <1>1 DEF Fitting, Started, Result, Plain, Event, Kinds, ExecutionStates,
              EffectStates

\* A Provider turn asks for distinct calls, at least one.
LEMMA ToolTurnFits ==
    ASSUME NEW ids \in ToolTurns
    PROVE  Fitting(Requested(ids))
<1>1. ids \in Seq(CallIds) /\ ids # <<>> /\ Distinct(ids)
  <2>1. CASE \E c \in CallIds : ids = <<c>>
    BY <2>1 DEF Distinct
  <2>2. CASE ids \in Observers \X Observers /\ ids[1] # ids[2]
    <3>1. PICK a \in CallIds, b \in CallIds : ids = <<a, b>> /\ a # b
      BY <2>2 DEF Observers
    <3>2. ids \in Seq(CallIds) /\ ids # <<>>
      BY <3>1
    <3>3. DOMAIN ids = {1, 2} /\ ids[1] = a /\ ids[2] = b
      BY <3>1
    <3>. QED  BY <3>1, <3>2, <3>3 DEF Distinct
  <2>3. \/ \E c \in CallIds : ids = <<c>>
        \/ ids \in Observers \X Observers /\ ids[1] # ids[2]
    BY Zenon DEF ToolTurns
  <2>. QED  BY <2>1, <2>2, <2>3
<1>. QED
  BY <1>1 DEF Fitting, Requested, Plain, Event, Kinds, ExecutionStates, EffectStates

\* reconcile_interrupted and the Tool Runtime answer the first owed call.
LEMMA OwedFits ==
    ASSUME IInv, Owed # <<>>
    PROVE  /\ Head(Owed) \in CallIds
           /\ Fitting(Interrupted(Head(Owed)))
           /\ Fitting(Result(Head(Owed), "not_started", "none"))
           /\ \A o \in Outcomes(Head(Owed)) : Fitting(Result(Head(Owed), o[1], o[2]))
<1>1. Owed \in Seq(CallIds)
  BY PendingCallsType DEF Owed, IInv, TypeOK, Memory, Sound
<1>2. Head(Owed) \in CallIds
  BY <1>1
<1>. DEFINE c == Head(Owed)
<1>. HIDE DEF c
<1>3. \A exec \in ExecutionStates, effect \in EffectStates :
          Fitting(Result(c, exec, effect))
  BY <1>2, CallFits DEF c
<1>4. Fitting(Interrupted(c)) /\ Fitting(Result(c, "not_started", "none"))
  BY <1>3 DEF Interrupted, ExecutionStates, EffectStates
<1>5. \A o \in Outcomes(c) : o[1] \in ExecutionStates /\ o[2] \in EffectStates
  BY DEF Outcomes, ExecutionStates, EffectStates
<1>. QED
  BY <1>2, <1>3, <1>4, <1>5 DEF c

(****************************************************************************)
(* The steps.                                                               *)
(****************************************************************************)
LEMMA InitIInv == Init => IInv
<1>. SUFFICES ASSUME Init PROVE IInv
  OBVIOUS
<1>1. TypeOK
  <2>1. log \in [Runs -> Seq(Event)] /\ torn \in [Runs -> BOOLEAN]
    BY DEF Init
  <2>2. facts \in [Runs -> Protocol] /\ \A r \in Runs : WellFormed(facts[r])
    BY EmptyProtocolSound DEF Init, Sound
  <2>3. mem \in Memory /\ WellFormed(mem.proto)
    BY BlankTyped DEF Init, Sound
  <2>4. ran \in [CallIds -> Nat] /\ altered \in BOOLEAN
    BY DEF Init
  <2>. QED  BY <2>1, <2>2, <2>3, <2>4 DEF Init, TypeOK, PCs
<1>2. MemoryIsCurrent /\ Creating /\ Reloadable /\ Dropping
  BY DEF Init, MemoryIsCurrent, Creating, Reloadable, Dropping, Attached
<1>3. LogsReadable /\ EmptyLogs
  BY DEF Init, LogsReadable, Readable, EmptyLogs
<1>. QED
  BY <1>1, <1>2, <1>3 DEF IInv

LEMMA SetPointerKeepsIInv ==
    ASSUME IInv, SetPointer \/ SetPointerRaises
    PROVE  IInv'
<1>1. /\ pc \in Attached \cup {"drop", "unpoint"}
      /\ pc' \in {"reconcile", "idle", "recover", "down"}
      /\ pc' = "reconcile" => pc = "point" /\ SetPointer
      /\ UNCHANGED <<log, torn, facts, altered, ran, raises, crashes>>
      /\ pointerRaises' \in Nat
  BY DEF SetPointer, SetPointerRaises, disk, work, Attached, IInv, TypeOK
<1>2. PointerTarget \in Runs \cup {NoRun} /\ pointer' \in Runs \cup {NoRun}
  BY <1>1 DEF PointerTarget, SetPointer, SetPointerRaises, IInv, TypeOK, Memory
<1>3. /\ mem' \in Memory /\ WellFormed(mem'.proto)
      /\ \/ mem'.run = NoRun /\ (pc' = "reconcile" => mem.run = NoRun)
         \/ /\ mem'.run = mem.run /\ mem'.log = mem.log /\ mem'.proto = mem.proto
            /\ mem'.seen = mem.seen /\ mem'.cursor = mem.cursor
  <2>1. CASE SetPointer
    <3>. DEFINE m == [mem EXCEPT !.pointer = PointerTarget]
    <3>1. /\ m \in Memory /\ m.run = mem.run /\ m.log = mem.log
          /\ m.proto = mem.proto /\ m.seen = mem.seen /\ m.cursor = mem.cursor
      BY <1>2 DEF IInv, TypeOK, Memory
    <3>. HIDE DEF m
    <3>2. CASE pc \in {"clearReset", "unpoint"}
      BY <1>1, <2>1, <3>1, <3>2, VacantTyped DEF SetPointer, AfterPointer, m, Sound
    <3>3. CASE pc \notin {"clearReset", "unpoint"}
      <4>1. mem' = [m EXCEPT !.boot = FALSE]
        BY <2>1, <3>3 DEF SetPointer, AfterPointer, m
      <4>. QED  BY <3>1, <4>1 DEF Memory, IInv, TypeOK
    <3>. QED  BY <3>2, <3>3
  <2>2. CASE SetPointerRaises
    BY <1>1, <2>2, BlankTyped DEF SetPointerRaises, SetPointer, IInv, TypeOK, Sound
  <2>. QED  BY <2>1, <2>2
<1>4. TypeOK'
  BY <1>1, <1>2, <1>3 DEF IInv, TypeOK, PCs
<1>5. mem.run # NoRun
          => /\ Current(mem) /\ log[mem.run] # <<>>
             /\ mem.seen \in Nat /\ mem.seen = Len(mem.log)
  <2>1. mem.run # NoRun => Current(mem) /\ Projected(mem) /\ log[mem.run] # <<>>
    BY <1>1 DEF IInv, MemoryIsCurrent, Reloadable, Dropping, Attached
  <2>2. ~Recovering
    BY DEF SetPointer, SetPointerRaises, Recovering
  <2>. QED  BY <2>1, <2>2, ProjectedIsCaughtUp DEF IInv, TypeOK, Memory
<1>6. MemoryIsCurrent' /\ Reloadable'
  <2>1. mem'.run # NoRun => Current(mem)' /\ Projected(mem)' /\ log'[mem'.run] # <<>>
    BY <1>1, <1>3, <1>5, CaughtUpNext DEF Current
  <2>2. pc' = "reconcile" => mem.run # NoRun
    BY <1>1 DEF IInv, MemoryIsCurrent, Attached
  <2>. QED  BY <1>1, <1>3, <2>1, <2>2 DEF MemoryIsCurrent, Reloadable, Attached
<1>7. Creating' /\ Dropping'
  BY <1>1 DEF Creating, Dropping
<1>8. LogsReadable' /\ EmptyLogs'
  BY <1>1 DEF IInv, LogsReadable, EmptyLogs
<1>. QED
  BY <1>4, <1>6, <1>7, <1>8 DEF IInv

LEMMA BootKeepsIInv == ASSUME IInv, Boot PROVE IInv'
<1>. DEFINE m == [Blank EXCEPT !.pointer = pointer, !.boot = TRUE]
<1>1. m \in Memory /\ Sound(m.proto)
  BY BlankTyped DEF IInv, TypeOK, Memory, Sound
<1>. QED
  BY <1>1, LoadKeepsIInv DEF Boot

LEMMA RecoverKeepsIInv == ASSUME IInv, ~ReloadMayFail, Recover PROVE IInv'
<1>1. CASE mem.run = NoRun /\ LoadResumable(mem)
  BY <1>1, LoadKeepsIInv DEF IInv, TypeOK, Sound, Memory
<1>2. CASE pc = "recover" /\ mem.run # NoRun /\ ReloadCurrent
  BY <1>2, ReloadKeepsIInv DEF IInv, TypeOK, Memory, Reloadable
<1>. QED
  BY <1>1, <1>2 DEF Recover, ReloadRaises

LEMMA AskKeepsIInv == ASSUME IInv, Ask PROVE IInv'
<1>1. pc = "idle"
  BY DEF Ask
<1>2. CASE Stale(mem)
  <2>1. mem.run \in Runs /\ log[mem.run] # <<>>
    BY <1>1, <1>2 DEF Stale, IInv, TypeOK, Memory, Reloadable
  <2>. QED  BY <1>2, <2>1, ReloadKeepsIInv DEF Ask
<1>3. CASE ~Stale(mem) /\ Resumable(mem)
  <2>1. /\ mem' = [mem EXCEPT !.resumed = TRUE] /\ pc' \in {"reconcile", "point"}
        /\ UNCHANGED <<disk, pointer, work, raises, pointerRaises, crashes>>
        /\ mem.run # NoRun
    BY <1>3 DEF Ask, Resumable
  <2>2. /\ mem' \in Memory /\ mem'.run = mem.run /\ mem'.log = mem.log
        /\ mem'.proto = mem.proto /\ mem'.seen = mem.seen /\ mem'.cursor = mem.cursor
    BY <2>1 DEF IInv, TypeOK, Memory
  <2>3. TypeOK'
    BY <2>1, <2>2 DEF IInv, TypeOK, PCs, disk, work
  <2>4. MemoryIsCurrent' /\ Reloadable'
    <3>1. Current(mem) /\ Projected(mem)
      BY <1>1, <2>1 DEF IInv, MemoryIsCurrent
    <3>2. mem'.seen \in Nat /\ mem'.seen = Len(mem'.log)
      BY <1>1, <2>2, <3>1, ProjectedIsCaughtUp DEF Recovering, IInv, TypeOK, Memory
    <3>3. Current(mem)' /\ Projected(mem)'
      BY <2>1, <2>2, <3>1, <3>2, CaughtUpNext DEF Current, disk
    <3>. QED
      BY <1>1, <2>1, <2>2, <3>3 DEF IInv, MemoryIsCurrent, Reloadable, disk
  <2>5. Creating' /\ Dropping' /\ LogsReadable' /\ EmptyLogs'
    BY <2>1 DEF IInv, Creating, Dropping, LogsReadable, EmptyLogs, disk
  <2>. QED  BY <2>3, <2>4, <2>5 DEF IInv
<1>4. CASE ~Stale(mem) /\ ~Resumable(mem)
  <2>1. PICK r \in Runs : /\ log[r] = <<>> /\ ~torn[r]
                          /\ mem' = [Vacant(mem) EXCEPT !.run = r]
    BY <1>4 DEF Ask
  <2>2. /\ pc' = "create"
        /\ UNCHANGED <<disk, pointer, work, raises, pointerRaises, crashes>>
    BY <1>4 DEF Ask
  <2>3. /\ mem' \in Memory /\ mem'.run = r /\ mem'.log = <<>>
        /\ mem'.proto = EmptyProtocol /\ mem'.seen = 0 /\ mem'.cursor = 0
    BY <2>1, BlankTyped DEF Vacant, Blank, Memory, IInv, TypeOK
  <2>4. TypeOK'
    BY <2>2, <2>3, EmptyProtocolSound DEF IInv, TypeOK, PCs, disk, work, Sound
  <2>5. facts[r] = EmptyProtocol /\ r # NoRun
    BY <2>1, ConstantsAssumption DEF IInv, EmptyLogs, ConstantsAssumption
  <2>6. Creating'
    BY <2>1, <2>2, <2>3, <2>5, CaughtUpNext DEF Creating, Current, disk, IInv, TypeOK
  <2>7. MemoryIsCurrent' /\ Reloadable' /\ Dropping'
    BY <2>2 DEF MemoryIsCurrent, Reloadable, Dropping, Attached
  <2>8. LogsReadable' /\ EmptyLogs'
    BY <2>2 DEF IInv, LogsReadable, EmptyLogs, disk
  <2>. QED  BY <2>4, <2>6, <2>7, <2>8 DEF IInv
<1>. QED
  BY <1>2, <1>3, <1>4

\* The kind of each event, and its calls.
LEMMA EventKinds ==
    /\ \A kind \in {"user_message", "note", "terminal"} : Plain(kind).kind = kind
    /\ \A c : Started(c).kind = "tool_started" /\ Started(c).calls = <<c>>
    /\ \A c, exec, effect : /\ Result(c, exec, effect).kind = "tool_result"
                            /\ Result(c, exec, effect).calls = <<c>>
                            /\ Result(c, exec, effect).effect = effect
    /\ \A ids : Requested(ids).kind = "tool_calls" /\ Requested(ids).calls = ids
BY DEF Plain, Started, Result, Requested

LEMMA InterruptedKind == ASSUME NEW c PROVE Interrupted(c).kind = "tool_result"
BY EventKinds DEF Interrupted

\* The appends of a request and of a recovery, one per action: each attempts one
\* fitting event from a point at which the copies are current.
Attempting(e, next) ==
    /\ Fitting(e)
    /\ next \in Attached \cup {"unpoint"}
    /\ InOrder(e, next)
    /\ Attempt(e, next)

\* What stands for the projection where an append follows the recovered results.
LEMMA NotBehind ==
    ASSUME IInv, pc \in Attached, ~Behind(mem)
    PROVE  mem.seen = Len(mem.log)
<1>1. Projected(mem) /\ mem.seen \in Nat /\ Len(mem.log) \in Nat
  BY DEF IInv, MemoryIsCurrent, TypeOK, Memory
<1>. QED  BY <1>1 DEF Projected, Behind

LEMMA AppendsAttempt ==
    ASSUME IInv,
           \/ Create \/ Reconcile \/ Announce \/ TakeNote \/ ToolTurn \/ RejectTool
           \/ StartTool \/ FinishTool \/ Finish \/ StopReset
    PROVE  /\ pc \in Attached \cup {"create"}
           /\ altered' \in BOOLEAN /\ ran' \in [CallIds -> Nat]
           /\ \E e, next : Attempting(e, next)
<1>. USE DEF work, Attempting, InOrder, Recovering
<1>0. altered \in BOOLEAN /\ ran \in [CallIds -> Nat]
  BY DEF IInv, TypeOK
<1>1. CASE Create
  BY <1>0, <1>1, PlainFits DEF Create, Attached
<1>2. CASE Reconcile
  BY <1>0, <1>2, OwedFits, InterruptedKind DEF Reconcile, Attached
<1>3. CASE Announce
  BY <1>0, <1>3, PlainFits, NotBehind DEF Announce, Attached, Plain
<1>4. CASE TakeNote
  BY <1>0, <1>4, PlainFits DEF TakeNote, Attached
<1>5. CASE ToolTurn
  <2>1. PICK ids \in ToolTurns :
            /\ Attempt(Requested(ids), "call")
            /\ ran' = [c \in CallIds |-> IF InSeq(c, ids) THEN 0 ELSE ran[c]]
    BY <1>5 DEF ToolTurn
  <2>2. ran' \in [CallIds -> Nat]
    BY <1>0, <2>1
  <2>. QED
    BY <1>0, <1>5, <2>1, <2>2, ToolTurnFits DEF ToolTurn, Attached
<1>6. CASE RejectTool
  BY <1>0, <1>6, OwedFits DEF RejectTool, Attached
<1>7. CASE StartTool
  <2>. DEFINE k == mem.proto.ordinal + 1
  <2>1. mem.proto.pending \in Seq(CallIds) /\ mem.proto.ordinal \in Nat
    BY DEF IInv, TypeOK, Memory, Protocol
  <2>2. mem.proto.ordinal < Len(mem.proto.pending)
    BY <1>7 DEF StartTool
  <2>3. mem.proto.pending[k] \in CallIds
    BY <2>1, <2>2
  <2>4. Fitting(Started(mem.proto.pending[k]))
    BY <2>3, CallFits DEF ExecutionStates, EffectStates
  <2>. QED
    BY <1>0, <1>7, <2>4 DEF StartTool, Attached
<1>8. CASE FinishTool
  BY <1>0, <1>8, OwedFits DEF FinishTool, Attached
<1>9. CASE Finish
  BY <1>0, <1>9, PlainFits DEF Finish, Attached
<1>10. CASE StopReset
  BY <1>0, <1>10, PlainFits, NotBehind DEF StopReset, Attached, Plain
<1>. QED
  BY <1>1, <1>2, <1>3, <1>4, <1>5, <1>6, <1>7, <1>8, <1>9, <1>10

LEMMA AppendKeepsIInv ==
    ASSUME IInv,
           \/ Create \/ Reconcile \/ Announce \/ TakeNote \/ ToolTurn \/ RejectTool
           \/ StartTool \/ FinishTool \/ Finish \/ StopReset
    PROVE  IInv'
<1>1. PICK e, next : Attempting(e, next)
  BY AppendsAttempt
<1>2. /\ pc \in Attached \cup {"create"}
      /\ altered' \in BOOLEAN /\ ran' \in [CallIds -> Nat]
  BY AppendsAttempt
<1>. QED
  BY <1>1, <1>2, AttemptKeepsIInv DEF Attempting

\* Only the projection moves, to the end of the log.
LEMMA ApplyOutcomes ==
    ASSUME IInv, ApplyRecovered
    PROVE  /\ pc \in {"reconcile", "reset"} /\ pc' = pc
           /\ mem' \in Memory /\ mem'.run = mem.run /\ mem'.pointer = mem.pointer
           /\ mem'.log = mem.log /\ mem'.proto = mem.proto /\ mem'.cursor = mem.cursor
           /\ mem'.seen \in Nat /\ mem'.seen = Len(mem'.log)
           /\ UNCHANGED <<log, torn, facts, pointer, altered, ran, raises, pointerRaises,
                          crashes>>
<1>1. mem \in Memory /\ Len(mem.log) \in Nat
  BY DEF IInv, TypeOK, Memory
<1>. QED  BY <1>1 DEF ApplyRecovered, Recovering, Memory, disk, work

LEMMA OtherStepsKeepIInv ==
    ASSUME IInv, RunTool \/ Interrupt \/ ApplyRecovered \/ Reset \/ Crash
    PROVE  IInv'
<1>1. CASE Crash
  <2>1. TypeOK'
    BY <1>1, BlankTyped DEF Crash, Die, IInv, TypeOK, PCs, disk, work, Sound
  <2>2. MemoryIsCurrent' /\ Creating' /\ Reloadable' /\ Dropping'
    BY <1>1 DEF Crash, Die, MemoryIsCurrent, Creating, Reloadable, Dropping, Attached
  <2>3. LogsReadable' /\ EmptyLogs'
    BY <1>1 DEF Crash, disk, IInv, LogsReadable, EmptyLogs
  <2>. QED  BY <2>1, <2>2, <2>3 DEF IInv
<1>2. CASE RunTool \/ Interrupt \/ Reset
  <2>1. /\ pc \in {"reconcile", "announce", "reset", "loop", "call", "run", "result", "idle"}
        /\ pc' \in {"result", "recover", "reset", "unpoint"}
        /\ pc' \in {"result", "reset", "unpoint"} => pc \in {"run", "idle"}
        /\ UNCHANGED <<log, torn, facts, pointer, mem, pointerRaises, crashes>>
        /\ raises' \in {raises, raises + 1}
        /\ pc' = "reset" => mem.run # NoRun
        /\ pc' = "result" => pc = "run"
    <3>1. CASE RunTool
      BY <3>1 DEF RunTool, disk
    <3>2. CASE Interrupt
      BY <3>2 DEF Interrupt, disk
    <3>3. CASE Reset
      BY <3>3 DEF Reset, Resumable, disk
    <3>. QED  BY <1>2, <3>1, <3>2, <3>3
  <2>2. altered' \in BOOLEAN /\ ran' \in [CallIds -> Nat]
    BY <1>2 DEF RunTool, Interrupt, Reset, work, IInv, TypeOK
  <2>3. TypeOK'
    <3>1. raises' \in Nat
      BY <2>1 DEF IInv, TypeOK
    <3>. QED  BY <2>1, <2>2, <3>1 DEF IInv, TypeOK, PCs
  <2>4. mem.run # NoRun => Current(mem) /\ Projected(mem) /\ log[mem.run] # <<>>
    BY <2>1 DEF IInv, MemoryIsCurrent, Reloadable, Attached
  <2>5. MemoryIsCurrent' /\ Reloadable'
    <3>1. pc' # "recover" /\ mem.run # NoRun => Projected(mem)'
      <4>. SUFFICES ASSUME pc' # "recover", mem.run # NoRun PROVE Projected(mem)'
        OBVIOUS
      <4>1. ~Recovering
        BY <2>1 DEF Recovering
      <4>2. mem.seen \in Nat /\ mem.seen = Len(mem.log)
        BY <2>4, <4>1, ProjectedIsCaughtUp DEF IInv, TypeOK, Memory
      <4>. QED  BY <2>1, <4>2, CaughtUpNext
    <3>2. mem.run # NoRun => Current(mem)'
      BY <2>1, <2>4 DEF Current
    <3>3. pc' \in Attached => mem.run # NoRun
      BY <2>1 DEF IInv, MemoryIsCurrent, Attached
    <3>. QED  BY <2>1, <2>4, <3>1, <3>2, <3>3 DEF MemoryIsCurrent, Reloadable, Attached
  <2>6. Creating' /\ Dropping' /\ LogsReadable' /\ EmptyLogs'
    BY <2>1 DEF IInv, Creating, Dropping, LogsReadable, EmptyLogs
  <2>. QED  BY <2>3, <2>5, <2>6 DEF IInv
<1>3. CASE ApplyRecovered
  <2>1. TypeOK'
    BY <1>3, ApplyOutcomes DEF IInv, TypeOK
  <2>2. mem.run # NoRun /\ Current(mem) /\ log[mem.run] # <<>>
    BY <1>3, ApplyOutcomes DEF IInv, MemoryIsCurrent, Reloadable, Attached
  <2>3. MemoryIsCurrent' /\ Reloadable'
    BY <1>3, <2>2, ApplyOutcomes, CaughtUpNext DEF MemoryIsCurrent, Reloadable, Current
  <2>4. Creating' /\ Dropping' /\ LogsReadable' /\ EmptyLogs'
    BY <1>3, ApplyOutcomes DEF IInv, Creating, Dropping, LogsReadable, EmptyLogs
  <2>. QED  BY <2>1, <2>3, <2>4 DEF IInv
<1>. QED
  BY <1>1, <1>2, <1>3

LEMMA StepKeepsIInv ==
    ASSUME IInv, ~ReloadMayFail, [Next]_vars
    PROVE  IInv'
<1>1. CASE Next
  BY <1>1, SetPointerKeepsIInv, BootKeepsIInv, RecoverKeepsIInv, AskKeepsIInv,
     AppendKeepsIInv, OtherStepsKeepIInv
  DEF Next
<1>2. CASE UNCHANGED vars
  BY <1>2 DEF vars, IInv, TypeOK, MemoryIsCurrent, Current, Projected,
              Recovering, LogsReadable, EmptyLogs, Creating, Reloadable, Dropping
<1>. QED
  BY <1>1, <1>2

\* The inductive invariant holds of every behaviour in which no reload fails.
THEOREM Invariance == ~ReloadMayFail => (Spec => []IInv)
<1>. SUFFICES ASSUME ~ReloadMayFail PROVE Spec => []IInv
  OBVIOUS
<1>1. IInv /\ [Next]_vars => IInv'
  BY StepKeepsIInv
<1>. QED
  BY InitIInv, <1>1, PTL DEF Spec

\* Every variable, and the protocol state of every Run on disk and in memory,
\* has its type and its shape: distinct owed calls, starts up to the ordinal.
THEOREM TypeCorrect == ~ReloadMayFail => (Spec => []TypeOK)
<1>. SUFFICES ASSUME ~ReloadMayFail PROVE Spec => []TypeOK
  OBVIOUS
<1>1. IInv => TypeOK
  BY DEF IInv
<1>. QED
  BY Invariance, <1>1, PTL

\* reload_current_run does its job: whatever an append raised or a crash cut,
\* the process that may append again holds exactly what the disk holds, and has
\* projected all of it but the results it is recovering.
THEOREM MemoryStaysCurrent == ~ReloadMayFail => (Spec => []MemoryIsCurrent)
<1>. SUFFICES ASSUME ~ReloadMayFail PROVE Spec => []MemoryIsCurrent
  OBVIOUS
<1>1. IInv => MemoryIsCurrent
  BY DEF IInv
<1>. QED
  BY Invariance, <1>1, PTL

\* No Run Log ever becomes unreadable: read_events finds contiguous numbers.
THEOREM LogsStayReadable == ~ReloadMayFail => (Spec => []LogsReadable)
<1>. SUFFICES ASSUME ~ReloadMayFail PROVE Spec => []LogsReadable
  OBVIOUS
<1>1. IInv => LogsReadable
  BY DEF IInv
<1>. QED
  BY Invariance, <1>1, PTL

(****************************************************************************)
(* RunLifecycle implements RunContract.                                     *)
(****************************************************************************)
View == [r \in Runs |-> RunView(facts[r])]

\* The only steps that change a log, or what a replay of it yields, are appends of
\* a fitting event the Run's protocol allows.
LEMMA EveryWrite ==
    ASSUME IInv, Next
    PROVE  \/ UNCHANGED <<log, facts>>
           \/ \E e : /\ mem.run \in Runs /\ Sound(facts[mem.run])
                     /\ Fitting(e) /\ Allowed(facts[mem.run], e)
                     /\ Write(mem.run, e)
<1>1. CASE \/ Create \/ Reconcile \/ Announce \/ TakeNote \/ ToolTurn \/ RejectTool
           \/ StartTool \/ FinishTool \/ Finish \/ StopReset
  <2>1. pc \in Attached \cup {"create"}
    BY <1>1, AppendsAttempt
  <2>2. PICK e, next : Attempting(e, next)
    BY <1>1, AppendsAttempt
  <2>3. mem.run \in Runs /\ facts[mem.run] = mem.proto /\ Sound(facts[mem.run])
    BY <2>1 DEF IInv, MemoryIsCurrent, Creating, Current, TypeOK, Memory, Sound
  <2>4. UNCHANGED <<log, facts>> \/ (Allowed(mem.proto, e) /\ Write(mem.run, e))
    BY <2>2 DEF Attempting, Attempt, disk
  <2>. QED  BY <2>2, <2>3, <2>4 DEF Attempting
<1>2. CASE \/ Boot \/ Ask \/ SetPointer \/ SetPointerRaises \/ Recover
           \/ RunTool \/ Interrupt \/ ApplyRecovered \/ Reset \/ Crash
  BY <1>2 DEF Boot, Ask, SetPointer, SetPointerRaises, Recover, RunTool, Interrupt, ApplyRecovered,
              Reset, Crash, LoadResumable, ReloadCurrent, ReloadRaises, disk
<1>. QED
  BY <1>1, <1>2 DEF Next

\* The pointer moves to the Run in memory, whose log is durable, or to none; and
\* no log ever shrinks.
LEMMA StepKeepsPointer ==
    ASSUME IInv, IInv', PointerIsLoadable, [Next]_vars
    PROVE  PointerIsLoadable'
<1>1. \A r \in Runs : log[r] # <<>> => log'[r] # <<>>
  <2>1. CASE UNCHANGED <<log, facts>>
    BY <2>1
  <2>2. CASE \E e : /\ mem.run \in Runs /\ Sound(facts[mem.run])
                    /\ Fitting(e) /\ Allowed(facts[mem.run], e)
                    /\ Write(mem.run, e)
    <3>1. PICK e : mem.run \in Runs /\ Write(mem.run, e)
      BY <2>2
    <3>2. /\ log \in [Runs -> Seq(Event)]
          /\ log' = [log EXCEPT ![mem.run] = Append(@, Line(mem.run, e))]
      BY <3>1 DEF Write, IInv, TypeOK
    <3>3. log'[mem.run] \in Seq(Event)
      BY <3>1 DEF IInv, TypeOK
    <3>4. Len(log'[mem.run]) = Len(log[mem.run]) + 1
      BY <3>1, <3>2
    <3>. QED  BY <3>1, <3>2, <3>3, <3>4
  <2>. QED  BY <2>1, <2>2, EveryWrite DEF vars
<1>2. \/ pointer' = pointer
      \/ pointer' = NoRun
      \/ /\ pc \in Attached /\ pointer' = mem.run
         /\ UNCHANGED log
  <2>1. CASE SetPointer \/ SetPointerRaises
    BY <2>1 DEF SetPointer, SetPointerRaises, PointerTarget, Attached, disk
  <2>2. CASE \/ Create \/ Reconcile \/ Announce \/ TakeNote \/ ToolTurn \/ RejectTool
             \/ StartTool \/ FinishTool \/ Finish \/ StopReset
    BY <2>2, AppendsAttempt DEF Attempting, Attempt
  <2>3. CASE \/ Boot \/ Ask \/ Recover \/ RunTool \/ Interrupt \/ ApplyRecovered \/ Reset \/ Crash
             \/ UNCHANGED vars
    BY <2>3 DEF Boot, Ask, Recover, RunTool, Interrupt, ApplyRecovered, Reset, Crash, LoadResumable,
                ReloadCurrent, ReloadRaises, vars
  <2>. QED  BY <2>1, <2>2, <2>3 DEF Next
<1>3. pointer' \in Runs \cup {NoRun}
  BY DEF IInv, TypeOK
<1>4. pc \in Attached => mem.run # NoRun /\ log[mem.run] # <<>>
  BY DEF IInv, MemoryIsCurrent, Reloadable
<1>. QED
  BY <1>1, <1>2, <1>3, <1>4 DEF PointerIsLoadable, IInv, LogsReadable

\* A Session never points at a Run that startup would refuse to load.
THEOREM PointerStaysLoadable == ~ReloadMayFail => (Spec => []PointerIsLoadable)
<1>. SUFFICES ASSUME ~ReloadMayFail PROVE Spec => []PointerIsLoadable
  OBVIOUS
<1>1. Init => PointerIsLoadable
  BY DEF Init, PointerIsLoadable
<1>2. IInv /\ IInv' /\ PointerIsLoadable /\ [Next]_vars => PointerIsLoadable'
  BY StepKeepsPointer
<1>. QED
  BY Invariance, <1>1, <1>2, PTL DEF Spec

(****************************************************************************)
(* The replay.  Replayed is defined by recursion over a log, and a log only *)
(* ever grows by one line: so the recursion is followed along the behaviour *)
(* instead of over the data.                                                *)
(****************************************************************************)

\* f gives the protocol state after every line of l.
Solves(f, l) ==
    f = [n \in 0 .. Len(l) |-> IF n = 0 THEN EmptyProtocol ELSE Applied(f[n - 1], l[n])]

\* Every way to replay l, and there is one, accepts each of its lines and ends in p.
Replays(l, p) ==
    /\ \E f : Solves(f, l)
    /\ \A f : Solves(f, l) =>
           /\ f[Len(l)] = p
           /\ \A i \in DOMAIN l : Allowed(f[i - 1], l[i])

ReplaysInv == \A r \in Runs : Replays(log[r], facts[r])

LEMMA ReplayedSolves ==
    ASSUME NEW l, \E f : Solves(f, l)
    PROVE  Solves(Replayed(l), l)
<1>1. Replayed(l) = CHOOSE f : Solves(f, l)
  BY DEF Replayed, Solves
<1>. HIDE DEF Solves
<1>. QED
  BY <1>1, Zenon

LEMMA ReplaysEmpty == Replays(<<>>, EmptyProtocol)
<1>. DEFINE g == [n \in 0 .. 0 |-> EmptyProtocol]
<1>1. Len(<<>>) = 0 /\ DOMAIN <<>> = {}
  OBVIOUS
<1>2. Solves(g, <<>>)
  BY DEF Solves
<1>3. ASSUME NEW f, Solves(f, <<>>) PROVE f[0] = EmptyProtocol
  BY <1>3 DEF Solves
<1>. HIDE DEF g
<1>. QED
  BY <1>1, <1>2, <1>3 DEF Replays

\* A line that the protocol accepts where the log ends extends the replay.
LEMMA ReplaysMore ==
    ASSUME NEW l \in Seq(Event), NEW p, Replays(l, p), NEW x \in Event, Allowed(p, x)
    PROVE  Replays(Append(l, x), Applied(p, x))
<1>. DEFINE k == Append(l, x)
            m == Len(l)
<1>1. /\ m \in Nat /\ Len(k) = m + 1 /\ DOMAIN l = 1 .. m /\ DOMAIN k = 1 .. m + 1
      /\ k[m + 1] = x /\ \A i \in 1 .. m : k[i] = l[i]
  OBVIOUS
<1>. HIDE DEF k, m
<1>2. 0 .. m + 1 = (0 .. m) \cup {m + 1} /\ m + 1 \notin 0 .. m
  BY <1>1
<1>3. \E g : Solves(g, k)
  <2>1. PICK f : Solves(f, l)
    BY DEF Replays
  <2>. DEFINE g == [n \in 0 .. m + 1 |-> IF n = m + 1 THEN Applied(f[m], x) ELSE f[n]]
  <2>2. \A n \in 0 .. m : f[n] = IF n = 0 THEN EmptyProtocol ELSE Applied(f[n - 1], l[n])
    BY <2>1 DEF Solves, m
  <2>3. ASSUME NEW n \in 0 .. m + 1
        PROVE  g[n] = IF n = 0 THEN EmptyProtocol ELSE Applied(g[n - 1], k[n])
    <3>1. CASE n = m + 1
      <4>1. m + 1 # 0 /\ m + 1 - 1 = m /\ m \in 0 .. m + 1 /\ m + 1 \in 0 .. m + 1 /\ m # m + 1
        BY <1>1
      <4>2. g[m + 1] = Applied(f[m], x) /\ g[m] = f[m]
        BY <4>1
      <4>. QED  BY <1>1, <3>1, <4>1, <4>2
    <3>2. CASE n # m + 1
      <4>1. n \in 0 .. m /\ g[n] = f[n]
        BY <1>1, <3>2
      <4>2. CASE n = 0
        BY <2>2, <4>1, <4>2
      <4>3. CASE n # 0
        <5>1. n - 1 \in 0 .. m /\ n - 1 \in 0 .. m + 1 /\ n - 1 # m + 1 /\ n \in 1 .. m
          BY <1>1, <4>1, <4>3
        <5>2. g[n - 1] = f[n - 1] /\ k[n] = l[n]
          BY <1>1, <5>1
        <5>. QED  BY <2>2, <4>1, <4>3, <5>2
      <4>. QED  BY <4>2, <4>3
    <3>. QED  BY <3>1, <3>2
  <2>4. DOMAIN g = 0 .. m + 1 /\ g = [n \in 0 .. m + 1 |-> g[n]]
    OBVIOUS
  <2>. HIDE DEF g
  <2>5. g = [n \in 0 .. m + 1 |-> IF n = 0 THEN EmptyProtocol ELSE Applied(g[n - 1], k[n])]
    BY <2>3, <2>4
  <2>. QED  BY <1>1, <2>5 DEF Solves
<1>4. ASSUME NEW g, Solves(g, k)
      PROVE  g[m + 1] = Applied(p, x) /\ \A i \in 1 .. m + 1 : Allowed(g[i - 1], k[i])
  <2>1. \A n \in 0 .. m + 1 :
            g[n] = IF n = 0 THEN EmptyProtocol ELSE Applied(g[n - 1], k[n])
    BY <1>1, <1>4 DEF Solves
  <2>. DEFINE f == [n \in 0 .. m |-> g[n]]
  <2>2. ASSUME NEW n \in 0 .. m
        PROVE  f[n] = IF n = 0 THEN EmptyProtocol ELSE Applied(f[n - 1], l[n])
    <3>1. n \in 0 .. m + 1 /\ f[n] = g[n]
      BY <1>1
    <3>2. CASE n = 0
      BY <2>1, <3>1, <3>2
    <3>3. CASE n # 0
      <4>1. n - 1 \in 0 .. m /\ n \in 1 .. m
        BY <1>1, <3>3
      <4>2. f[n - 1] = g[n - 1] /\ k[n] = l[n]
        BY <1>1, <4>1
      <4>. QED  BY <2>1, <3>1, <3>3, <4>2
    <3>. QED  BY <3>2, <3>3
  <2>3. \A i \in 0 .. m : f[i] = g[i]
    OBVIOUS
  <2>4. DOMAIN f = 0 .. m /\ f = [n \in 0 .. m |-> f[n]]
    OBVIOUS
  <2>. HIDE DEF f
  <2>5. f = [n \in 0 .. m |-> IF n = 0 THEN EmptyProtocol ELSE Applied(f[n - 1], l[n])]
    BY <2>2, <2>4
  <2>6. Solves(f, l)
    BY <2>5 DEF Solves, m
  <2>7. f[m] = p /\ \A i \in 1 .. m : Allowed(f[i - 1], l[i])
    BY <1>1, <2>6 DEF Replays, m
  <2>8. g[m] = p
    BY <1>1, <2>3, <2>7
  <2>9. g[m + 1] = Applied(p, x)
    <3>1. m + 1 \in 0 .. m + 1 /\ m + 1 # 0 /\ m + 1 - 1 = m
      BY <1>1
    <3>. QED  BY <1>1, <2>1, <2>8, <3>1
  <2>10. ASSUME NEW i \in 1 .. m + 1 PROVE Allowed(g[i - 1], k[i])
    <3>1. CASE i = m + 1
      BY <1>1, <2>8, <3>1
    <3>2. CASE i # m + 1
      <4>1. i \in 1 .. m /\ i - 1 \in 0 .. m
        BY <1>1, <3>2
      <4>. QED  BY <1>1, <2>3, <2>7, <4>1
    <3>. QED  BY <3>1, <3>2
  <2>. QED  BY <2>9, <2>10
<1>5. Replays(k, Applied(p, x))
  BY <1>1, <1>3, <1>4 DEF Replays
<1>. QED
  BY <1>5 DEF k

\* The number a line gets in the file is nothing to the protocol.
LEMMA LineIsTheEvent ==
    ASSUME NEW r, NEW e \in Event, NEW p
    PROVE  /\ Applied(p, Line(r, e)) = Applied(p, e)
           /\ Allowed(p, Line(r, e)) <=> Allowed(p, e)
<1>1. /\ Line(r, e).kind = e.kind /\ Line(r, e).calls = e.calls
      /\ Line(r, e).exec = e.exec
  BY DEF Line, Event
<1>. HIDE DEF Line
<1>2. Applied(p, Line(r, e)) = Applied(p, e)
  BY <1>1 DEF Applied
<1>3. Allowed(p, Line(r, e)) <=> Allowed(p, e)
  BY <1>1 DEF Allowed
<1>. QED
  BY <1>2, <1>3

LEMMA ReplaysInvKept == IInv /\ ReplaysInv /\ [Next]_vars => ReplaysInv'
<1>. SUFFICES ASSUME IInv, ReplaysInv, [Next]_vars PROVE ReplaysInv'
  OBVIOUS
<1>1. CASE UNCHANGED <<log, facts>>
  BY <1>1 DEF ReplaysInv
<1>2. CASE \E e : /\ mem.run \in Runs /\ Sound(facts[mem.run])
                  /\ Fitting(e) /\ Allowed(facts[mem.run], e)
                  /\ Write(mem.run, e)
  <2>. DEFINE r == mem.run
  <2>1. PICK e : r \in Runs /\ e \in Event /\ Allowed(facts[r], e) /\ Write(r, e)
    BY <1>2 DEF Fitting
  <2>. DEFINE x == Line(r, e)
  <2>2. /\ log'[r] = Append(log[r], x) /\ facts'[r] = Applied(facts[r], e)
        /\ \A s \in Runs \ {r} : log'[s] = log[s] /\ facts'[s] = facts[s]
        /\ log[r] \in Seq(Event)
    <3>1. /\ log \in [Runs -> Seq(Event)]
          /\ facts \in [Runs -> Protocol]
      BY DEF IInv, TypeOK
    <3>2. /\ log' = [log EXCEPT ![r] = Append(log[r], x)]
          /\ facts' = [facts EXCEPT ![r] = Applied(facts[r], e)]
      BY <2>1 DEF Write
    <3>. HIDE DEF x, r
    <3>3. log[r] \in Seq(Event)
      BY <2>1, <3>1
    <3>4. log'[r] = Append(log[r], x) /\ \A s \in Runs \ {r} : log'[s] = log[s]
      BY <2>1, <3>1, <3>2
    <3>5. facts'[r] = Applied(facts[r], e) /\ \A s \in Runs \ {r} : facts'[s] = facts[s]
      BY <2>1, <3>1, <3>2
    <3>. QED  BY <3>3, <3>4, <3>5
  <2>3. x \in Event
    <3>1. mem.cursor \in Nat
      BY DEF IInv, TypeOK, Memory
    <3>. QED  BY <2>1, <3>1 DEF Line, Event
  <2>4. Applied(facts[r], x) = Applied(facts[r], e) /\ Allowed(facts[r], x)
    BY <2>1, LineIsTheEvent
  <2>5. Replays(log[r], facts[r])
    BY <2>1 DEF ReplaysInv
  <2>. HIDE DEF x, r
  <2>6. Replays(log'[r], facts'[r])
    <3>1. Replays(Append(log[r], x), Applied(facts[r], x))
      BY <2>2, <2>3, <2>4, <2>5, ReplaysMore
    <3>. QED  BY <2>2, <2>4, <3>1
  <2>. QED  BY <2>2, <2>6 DEF ReplaysInv
<1>. QED
  BY <1>1, <1>2, EveryWrite DEF vars

\* Every log on disk replays, line by line, to the state the proofs speak of.
THEOREM LogsReplay == ~ReloadMayFail => (Spec => []LogsAreSound)
<1>. SUFFICES ASSUME ~ReloadMayFail PROVE Spec => []LogsAreSound
  OBVIOUS
<1>1. Init => ReplaysInv
  BY ReplaysEmpty DEF Init, ReplaysInv
<1>2. ReplaysInv => ReplayAgrees
  <2>. SUFFICES ASSUME ReplaysInv, NEW r \in Runs
                PROVE  /\ facts[r] = Replayed(log[r])[Len(log[r])]
                       /\ \A i \in DOMAIN log[r] : Allowed(Replayed(log[r])[i - 1], log[r][i])
    BY DEF ReplayAgrees
  <2>1. Replays(log[r], facts[r])
    BY DEF ReplaysInv
  <2>2. Solves(Replayed(log[r]), log[r])
    BY <2>1, ReplayedSolves DEF Replays
  <2>. QED  BY <2>1, <2>2 DEF Replays
<1>3. IInv /\ ReplaysInv => LogsAreSound
  BY <1>2 DEF IInv, LogsAreSound
<1>. QED
  BY <1>1, <1>3, Invariance, ReplaysInvKept, PTL DEF Spec

(****************************************************************************)
(* The contract.                                                            *)
(****************************************************************************)

\* The steps of the contract, seen from one Run.
Opens(v, w) == v.phase = "absent" /\ w = [v EXCEPT !.phase = "open"]

Asks(v, w) ==
    /\ v.phase = "open" /\ v.owed = <<>>
    /\ w.owed # <<>> /\ w.owed \in Seq(CallIds)
    /\ w = [v EXCEPT !.owed = w.owed]

Starts(v, w) ==
    /\ v.phase = "open"
    /\ \E i \in DOMAIN v.owed :
         /\ \A j \in DOMAIN v.owed : j >= i => v.owed[j] \notin v.started
         /\ w = [v EXCEPT !.started = @ \cup {v.owed[i]}]

Answers(v, w) ==
    /\ v.phase = "open" /\ v.owed # <<>>
    /\ w = [v EXCEPT !.owed = Tail(@),
                     !.started = IF Len(v.owed) = 1 THEN {} ELSE @]

Closes(v, w) ==
    v.phase = "open" /\ v.owed = <<>> /\ w = [v EXCEPT !.phase = "closed"]

\* What one applied event does to the view of its Run.
LEMMA AppliedView ==
    ASSUME NEW p, Sound(p), NEW e, Fitting(e), Allowed(p, e),
           NEW v, v = RunView(p), NEW w, w = RunView(Applied(p, e))
    PROVE  w = v \/ Opens(v, w) \/ Asks(v, w) \/ Starts(v, w) \/ Answers(v, w)
           \/ Closes(v, w)
<1>. DEFINE q == Applied(p, e)
            n == Len(p.pending) - p.results
<1>1. e \in Event /\ e.kind \in Kinds
  BY DEF Fitting, Event
<1>2. Sound(q)
  BY AppliedSound
<1>3. /\ PendingCalls(p) \in Seq(CallIds) /\ Len(PendingCalls(p)) = n
      /\ \A i \in 1 .. n : PendingCalls(p)[i] = p.pending[p.results + i]
  BY PendingCallsType
<1>4. /\ PendingCalls(q) \in Seq(CallIds)
      /\ Len(PendingCalls(q)) = Len(q.pending) - q.results
      /\ \A i \in 1 .. Len(q.pending) - q.results :
            PendingCalls(q)[i] = q.pending[q.results + i]
  BY <1>2, PendingCallsType
<1>5. ~p.terminal
  BY DEF Allowed
<1>6. /\ p.pending \in Seq(CallIds) /\ p.results \in Nat /\ p.ordinal \in Nat
      /\ p.results <= Len(p.pending) /\ p.ordinal <= Len(p.pending)
      /\ p.results = Len(p.pending) => p.pending = <<>>
  BY DEF Sound, Protocol, WellFormed
<1>7. ASSUME p.pending = <<>>
      PROVE  PendingCalls(p) = <<>> /\ p.started = {}
  BY <1>3, <1>6, <1>7 DEF Sound, WellFormed
<1>8. CASE e.kind = "note"
  BY <1>8 DEF Applied
<1>9. CASE e.kind = "user_message"
  <2>1. ~p.user /\ q = [p EXCEPT !.user = TRUE]
    BY <1>9 DEF Allowed, Applied
  <2>2. q.user /\ ~q.terminal /\ PendingCalls(q) = PendingCalls(p) /\ q.started = p.started
    BY <1>5, <2>1 DEF PendingCalls, Sound, Protocol
  <2>. QED  BY <2>1, <2>2 DEF RunView, Opens
<1>10. CASE e.kind = "tool_calls"
  <2>1. /\ p.user /\ p.pending = <<>> /\ e.calls # <<>> /\ e.calls \in Seq(CallIds)
        /\ q = BeginCalls(p, e.calls)
    BY <1>1, <1>10 DEF Allowed, Fitting, Applied, Event
  <2>2. /\ q.user /\ ~q.terminal /\ q.started = {} /\ q.pending = e.calls /\ q.results = 0
    BY <1>5, <2>1 DEF BeginCalls, Sound, Protocol
  <2>3. Len(PendingCalls(q)) > 0 /\ PendingCalls(q) # <<>>
    BY <1>4, <2>1, <2>2
  <2>4. v = [phase |-> "open", owed |-> <<>>, started |-> {}]
    BY <1>5, <1>7, <2>1 DEF RunView
  <2>5. w = [phase |-> "open", owed |-> PendingCalls(q), started |-> {}]
    BY <2>2 DEF RunView
  <2>. HIDE DEF q
  <2>6. v.phase = "open" /\ v.owed = <<>> /\ w.owed = PendingCalls(q)
    BY <2>4, <2>5
  <2>7. w = [v EXCEPT !.owed = PendingCalls(q)]
    BY <2>4, <2>5, Z3
  <2>8. Asks(v, w)
    BY <1>4, <2>3, <2>6, <2>7 DEF Asks
  <2>. QED  BY <2>8
<1>11. CASE e.kind = "terminal"
  <2>1. p.user /\ p.pending = <<>> /\ q = [p EXCEPT !.terminal = TRUE]
    BY <1>11 DEF Allowed, Applied
  <2>2. q.user /\ q.terminal /\ PendingCalls(q) = PendingCalls(p) /\ q.started = p.started
    BY <2>1 DEF PendingCalls, Sound, Protocol
  <2>. QED  BY <1>5, <1>7, <2>1, <2>2 DEF RunView, Closes
<1>12. CASE e.kind = "tool_started"
  <2>. DEFINE c == e.calls[1]
              k == Position(c, p.pending)
  <2>1. /\ p.user /\ p.results = 0 /\ InSeq(c, p.pending) /\ k > p.ordinal
        /\ q = [p EXCEPT !.started = @ \cup {c}, !.ordinal = k]
    BY <1>12 DEF Allowed, MayStart, Applied
  <2>2. k \in DOMAIN p.pending /\ p.pending[k] = c
    BY <2>1, PositionFinds DEF Sound, Protocol, WellFormed
  <2>3. \A j \in DOMAIN p.pending : j >= k => p.pending[j] \notin p.started
    <3>. SUFFICES ASSUME NEW j \in DOMAIN p.pending, j >= k, p.pending[j] \in p.started
                  PROVE  FALSE
      OBVIOUS
    <3>1. PICK i \in 1 .. p.ordinal : p.pending[i] = p.pending[j]
      BY DEF Sound, WellFormed
    <3>2. i \in DOMAIN p.pending /\ i < j
      BY <1>6, <2>1, <2>2, <3>1
    <3>. QED  BY <3>1, <3>2 DEF Sound, WellFormed, Distinct
  <2>4. q.user /\ ~q.terminal /\ PendingCalls(q) = PendingCalls(p)
        /\ q.started = p.started \cup {c}
    BY <1>5, <2>1 DEF PendingCalls, Sound, Protocol
  <2>5. /\ DOMAIN PendingCalls(p) = DOMAIN p.pending
        /\ \A i \in DOMAIN p.pending : PendingCalls(p)[i] = p.pending[i]
    BY <1>3, <1>6, <2>1
  <2>6. v.phase = "open" /\ v.owed = PendingCalls(p) /\ v.started = p.started
        /\ w = [v EXCEPT !.started = @ \cup {c}]
    BY <1>5, <2>1, <2>4 DEF RunView
  <2>. HIDE DEF q, c, k
  <2>7. /\ k \in DOMAIN v.owed /\ v.owed[k] = c
        /\ \A j \in DOMAIN v.owed : j >= k => v.owed[j] \notin v.started
    BY <2>2, <2>3, <2>5, <2>6
  <2>8. Starts(v, w)
    BY <2>6, <2>7 DEF Starts
  <2>. QED  BY <2>8
<1>13. CASE e.kind = "tool_result"
  <2>1. p.user /\ p.results < Len(p.pending)
    BY <1>13 DEF Allowed, MayFinish
  <2>2. n > 0 /\ PendingCalls(p) # <<>>
    BY <1>3, <1>6, <2>1
  <2>3. CASE p.results + 1 = Len(p.pending)
    <3>1. q = BeginCalls(p, <<>>)
      BY <1>13, <2>3 DEF Applied
    <3>2. /\ q.user /\ ~q.terminal /\ q.started = {} /\ q.pending = <<>> /\ q.results = 0
      BY <1>5, <2>1, <3>1 DEF BeginCalls, Sound, Protocol
    <3>3. PendingCalls(q) = <<>>
      BY <1>4, <3>2
    <3>4. Len(PendingCalls(p)) = 1 /\ Tail(PendingCalls(p)) = <<>>
      BY <1>3, <1>6, <2>3
    <3>5. /\ v = [phase |-> "open", owed |-> PendingCalls(p), started |-> p.started]
          /\ w = [phase |-> "open", owed |-> PendingCalls(q), started |-> q.started]
      BY <1>5, <2>1, <3>2 DEF RunView
    <3>. HIDE DEF q
    <3>6. v.phase = "open" /\ v.owed = PendingCalls(p) /\ v.started = p.started
      BY <3>5
    <3>7. w = [v EXCEPT !.owed = PendingCalls(q), !.started = q.started]
      <4>. DEFINE u == [phase |-> "open", owed |-> PendingCalls(q),
                        started |-> p.started]
      <4>1. u = [v EXCEPT !.owed = PendingCalls(q)]
        BY <3>5, Z3
      <4>2. w = [u EXCEPT !.started = q.started]
        BY <3>5, Z3
      <4>. QED  BY <4>1, <4>2, Zenon
    <3>8. /\ Tail(v.owed) = PendingCalls(q)
          /\ (IF Len(v.owed) = 1 THEN {} ELSE v.started) = q.started
      BY <3>2, <3>3, <3>4, <3>6
    <3>9. Answers(v, w)
      BY <2>2, <3>6, <3>7, <3>8, Zenon DEF Answers
    <3>. QED  BY <3>9
  <2>4. CASE p.results + 1 # Len(p.pending)
    <3>1. q = [p EXCEPT !.results = @ + 1]
      BY <1>13, <2>4 DEF Applied
    <3>2. /\ q.user /\ ~q.terminal /\ q.started = p.started
          /\ q.pending = p.pending /\ q.results = p.results + 1
      BY <1>5, <2>1, <3>1 DEF Sound, Protocol
    <3>3. PendingCalls(q) = Tail(PendingCalls(p))
      <4>1. /\ Tail(PendingCalls(p)) \in Seq(CallIds)
            /\ Len(Tail(PendingCalls(p))) = n - 1
            /\ \A i \in 1 .. n - 1 : Tail(PendingCalls(p))[i] = PendingCalls(p)[i + 1]
        BY <1>3, <1>6, <2>2
      <4>2. Len(PendingCalls(q)) = n - 1
        BY <1>4, <1>6, <3>2
      <4>3. \A i \in 1 .. n - 1 : PendingCalls(q)[i] = Tail(PendingCalls(p))[i]
        <5>. SUFFICES ASSUME NEW i \in 1 .. n - 1
                      PROVE  PendingCalls(q)[i] = Tail(PendingCalls(p))[i]
          OBVIOUS
        <5>1. PendingCalls(q)[i] = p.pending[p.results + 1 + i]
          BY <1>4, <1>6, <3>2
        <5>2. i + 1 \in 1 .. n /\ p.results + (i + 1) = p.results + 1 + i
          BY <1>6
        <5>3. PendingCalls(p)[i + 1] = p.pending[p.results + 1 + i]
          BY <1>3, <5>2
        <5>. QED  BY <4>1, <5>1, <5>3
      <4>. QED  BY <1>4, <4>1, <4>2, <4>3
    <3>4. Len(PendingCalls(p)) # 1
      BY <1>3, <1>6, <2>4
    <3>5. /\ v = [phase |-> "open", owed |-> PendingCalls(p), started |-> p.started]
          /\ w = [phase |-> "open", owed |-> PendingCalls(q), started |-> q.started]
      BY <1>5, <2>1, <3>2 DEF RunView
    <3>. HIDE DEF q
    <3>6. v.phase = "open" /\ v.owed = PendingCalls(p) /\ v.started = p.started
      BY <3>5
    <3>7. w = [v EXCEPT !.owed = PendingCalls(q), !.started = q.started]
      <4>. DEFINE u == [phase |-> "open", owed |-> PendingCalls(q),
                        started |-> p.started]
      <4>1. u = [v EXCEPT !.owed = PendingCalls(q)]
        BY <3>5, Z3
      <4>2. w = [u EXCEPT !.started = q.started]
        BY <3>5, Z3
      <4>. QED  BY <4>1, <4>2, Zenon
    <3>8. /\ Tail(v.owed) = PendingCalls(q)
          /\ (IF Len(v.owed) = 1 THEN {} ELSE v.started) = q.started
      BY <3>2, <3>3, <3>4, <3>6
    <3>9. Answers(v, w)
      BY <2>2, <3>6, <3>7, <3>8, Zenon DEF Answers
    <3>. QED  BY <3>9
  <2>. QED  BY <2>3, <2>4
<1>. QED
  BY <1>1, <1>8, <1>9, <1>10, <1>11, <1>12, <1>13 DEF Kinds

LEMMA InitView == Init => Contract!Init
<1>1. PendingCalls(EmptyProtocol) = <<>>
  BY EmptyProtocolSound, PendingCallsType DEF EmptyProtocol
<1>2. RunView(EmptyProtocol) = [phase |-> "absent", owed |-> <<>>, started |-> {}]
  BY <1>1 DEF RunView, EmptyProtocol
<1>3. Init => View = [r \in Runs |-> RunView(EmptyProtocol)]
  BY DEF Init, View
<1>. QED
  BY <1>2, <1>3 DEF Contract!Init, View

\* A step that applies one event to one Run is that Run's step of the contract.
LEMMA StepView ==
    ASSUME IInv, [Next]_vars
    PROVE  [Contract!Next]_View
<1>1. CASE facts' = facts
  BY <1>1 DEF View
<1>2. CASE \E e : /\ mem.run \in Runs /\ Sound(facts[mem.run])
                  /\ Fitting(e) /\ Allowed(facts[mem.run], e)
                  /\ Write(mem.run, e)
  <2>. DEFINE r == mem.run
  <2>1. PICK e : /\ r \in Runs /\ Sound(facts[r])
                 /\ Fitting(e) /\ Allowed(facts[r], e)
                 /\ facts' = [facts EXCEPT ![r] = Applied(@, e)]
    BY <1>2 DEF Write
  <2>. DEFINE v == View[r]
              w == View'[r]
  <2>2. v = RunView(facts[r]) /\ w = RunView(Applied(facts[r], e))
    BY <2>1 DEF View, IInv, TypeOK
  <2>3. w = v \/ Opens(v, w) \/ Asks(v, w) \/ Starts(v, w) \/ Answers(v, w)
        \/ Closes(v, w)
    BY <2>1, <2>2, AppliedView
  <2>4. View' = [View EXCEPT ![r] = w]
    BY <2>1 DEF View, IInv, TypeOK
  <2>5. View = [q \in Runs |-> RunView(facts[q])]
    BY DEF View
  <2>. HIDE DEF v, w
  <2>6. CASE w = v
    BY <2>4, <2>6, <2>1, <2>5 DEF v
  <2>7. CASE Opens(v, w)
    BY <2>1, <2>4, <2>7 DEF Opens, v, w, View, Contract!Next, Contract!Open
  <2>8. CASE Asks(v, w)
    BY <2>1, <2>4, <2>8 DEF Asks, v, w, View, Contract!Next, Contract!Request
  <2>9. CASE Starts(v, w)
    <3>1. PICK i \in DOMAIN v.owed :
              /\ v.phase = "open"
              /\ \A j \in DOMAIN v.owed : j >= i => v.owed[j] \notin v.started
              /\ w = [v EXCEPT !.started = @ \cup {v.owed[i]}]
      BY <2>9 DEF Starts
    <3>2. View' = [View EXCEPT ![r].started = @ \cup {View[r].owed[i]}]
      BY <2>1, <2>4, <3>1 DEF v, View
    <3>3. Contract!Start(r)
      BY <3>1, <3>2 DEF v, View, Contract!Start
    <3>. QED  BY <2>1, <3>3 DEF Contract!Next
  <2>10. CASE Answers(v, w)
    <3>1. View' = [View EXCEPT ![r].owed = Tail(@),
                               ![r].started = IF Len(View[r].owed) = 1 THEN {} ELSE @]
      BY <2>1, <2>4, <2>10 DEF Answers, v, View
    <3>2. Contract!Settle(r)
      BY <2>10, <3>1 DEF Answers, v, View, Contract!Settle
    <3>. QED  BY <2>1, <3>2 DEF Contract!Next
  <2>11. CASE Closes(v, w)
    BY <2>1, <2>4, <2>11 DEF Closes, v, w, View, Contract!Next, Contract!Close
  <2>. QED  BY <2>3, <2>6, <2>7, <2>8, <2>9, <2>10, <2>11
<1>. QED
  BY <1>1, <1>2, EveryWrite DEF vars

\* Every durable append is a step of the contract, for any number of crashes,
\* failed appends and failed Session writes.
THEOREM Implements == ~ReloadMayFail => (Spec => ContractHolds)
<1>. SUFFICES ASSUME ~ReloadMayFail PROVE Spec => ContractHolds
  OBVIOUS
<1>1. IInv /\ [Next]_vars => [Contract!Next]_View
  BY StepView
<1>. QED
  BY Invariance, InitView, <1>1, PTL DEF Spec, ContractHolds, Contract!Spec, View

(****************************************************************************)
(* The Session pointer and the executions.  These need more than IInv: what *)
(* every append is to the pointer, to the owed calls and to the Runners.    *)
(****************************************************************************)

\* What apply changes of a protocol state, by the kind of the event.
LEMMA AppliedParts ==
    ASSUME NEW p, Sound(p), NEW e, Fitting(e), Allowed(p, e), NEW q, q = Applied(p, e)
    PROVE  /\ ~p.terminal
           /\ p.user <=> e.kind # "user_message"
           /\ q.user
           /\ q.terminal <=> e.kind = "terminal"
           /\ e.kind = "tool_calls" =>
                  /\ p.pending = <<>> /\ q.pending = e.calls
                  /\ q.started = {} /\ q.ordinal = 0 /\ q.results = 0
           /\ e.kind = "tool_started" =>
                  /\ q.pending = p.pending /\ q.results = p.results
                  /\ q.started = p.started \cup {e.calls[1]}
                  /\ q.ordinal = Position(e.calls[1], p.pending)
           /\ e.kind = "tool_result" =>
                  \/ /\ q.pending = p.pending /\ q.results = p.results + 1
                     /\ q.started = p.started /\ q.ordinal = p.ordinal
                  \/ q.pending = <<>> /\ q.results = 0 /\ q.started = {} /\ q.ordinal = 0
           /\ e.kind \notin {"tool_calls", "tool_started", "tool_result"} =>
                  /\ p.pending = <<>> /\ q.pending = p.pending /\ q.results = p.results
                  /\ q.started = p.started /\ q.ordinal = p.ordinal
<1>1. e.kind \in Kinds /\ p \in Protocol
  BY DEF Fitting, Event, Sound
<1>2. /\ ~p.terminal /\ (p.user <=> e.kind # "user_message")
      /\ e.kind \notin {"tool_started", "tool_result"} => p.pending = <<>>
  BY DEF Allowed
<1>3. CASE e.kind = "tool_calls"
  <2>1. q = BeginCalls(p, e.calls)
    BY <1>3 DEF Applied
  <2>. QED  BY <1>1, <1>2, <1>3, <2>1 DEF BeginCalls, Protocol
<1>4. CASE e.kind = "tool_started"
  <2>1. q = [p EXCEPT !.started = @ \cup {e.calls[1]},
                      !.ordinal = Position(e.calls[1], p.pending)]
    BY <1>4 DEF Applied
  <2>. QED  BY <1>1, <1>2, <1>4, <2>1 DEF Protocol
<1>5. CASE e.kind = "tool_result"
  <2>1. q = BeginCalls(p, <<>>) \/ q = [p EXCEPT !.results = @ + 1]
    BY <1>5 DEF Applied
  <2>. QED  BY <1>1, <1>2, <1>5, <2>1 DEF BeginCalls, Protocol
<1>6. CASE e.kind \in {"user_message", "note", "terminal"}
  BY <1>1, <1>2, <1>6 DEF Applied, Protocol
<1>. QED
  BY <1>1, <1>3, <1>4, <1>5, <1>6 DEF Kinds

(****************************************************************************)
(* The Session pointer and its copy.                                        *)
(****************************************************************************)

\* The points between the pointer write of an ask and its terminal line.
Working == {"reconcile", "announce", "loop", "call", "run", "result"}

\* A pointer that is not the Run in memory, on disk or cached, is to a Run that
\* has ended; in an ask the disk points to the Run.
PointerShape ==
    /\ pc # "down" /\ pointer \notin {NoRun, mem.run} => facts[pointer].terminal
    /\ pc # "down" /\ mem.pointer # NoRun
           => pointer = mem.pointer \/ facts[mem.pointer].terminal
    /\ pc = "create" /\ pointer # NoRun => facts[pointer].terminal
    /\ pc \in Working => pointer = mem.run
    /\ pc \in {"clear", "clearReset", "unpoint"} /\ mem.run # NoRun
           => facts[mem.run].terminal

\* A log begins with the user's message.
Begun == \A r \in Runs : log[r] # <<>> => facts[r].user

\* Only the Run the Session points to owes results.
OwedShape ==
    \A r \in Runs : facts[r].pending # <<>>
        => pointer = r /\ facts[r].user /\ ~facts[r].terminal

NoneUnfinished == \A r \in Runs : ~Unfinished(r)

\* Without a failed write of the Session there is at most one unfinished Run, and
\* the pointer and the process know it.
Leading ==
    /\ pc # "down" => mem.pointer = pointer
    /\ \A q, r \in Runs : Unfinished(q) /\ Unfinished(r) => q = r
    /\ pointer # NoRun => \A r \in Runs : Unfinished(r) => r = pointer
    /\ mem.run # NoRun => \A r \in Runs : Unfinished(r) => r = mem.run
    /\ mem.run # NoRun => pointer \in {NoRun, mem.run}
    /\ pc = "idle" /\ mem.run = NoRun => NoneUnfinished
    /\ pc \in {"create", "clearReset", "unpoint", "drop"} => NoneUnfinished
    /\ pc = "adopt" => Unfinished(mem.run)
    /\ pc = "create" => pointer = NoRun
    /\ pc = "idle" /\ pointer # NoRun => pointer = mem.run /\ Unfinished(pointer)

PointerLeads == pointerRaises = 0 => Leading

PInv == PointerShape /\ Begun /\ OwedShape

(****************************************************************************)
(* What an append is to the pointer and to the owed calls.                  *)
(****************************************************************************)
Appending(e, next) ==
    /\ Fitting(e)
    /\ next \in (Attached \ {"adopt"}) \cup {"unpoint"}
    /\ next \in Working => pc \in Working
    /\ next \in {"clear", "clearReset", "unpoint"} => e.kind = "terminal"
    /\ e.kind = "tool_calls" => pc = "loop"
    /\ Attempt(e, next)

Appends ==
    \/ Create \/ Reconcile \/ Announce \/ TakeNote \/ ToolTurn \/ RejectTool
    \/ StartTool \/ FinishTool \/ Finish \/ StopReset

LEMMA AppendsAppend ==
    ASSUME IInv, Appends
    PROVE  /\ pc \in Attached \cup {"create"}
           /\ \E e, next : Appending(e, next)
<1>. USE DEF Appending
<1>1. CASE Create
  BY <1>1, PlainFits, EventKinds DEF Create, Attached, Working
<1>2. CASE Reconcile
  BY <1>2, OwedFits, InterruptedKind DEF Reconcile, Recovering, Attached, Working
<1>3. CASE Announce
  BY <1>3, PlainFits, EventKinds DEF Announce, Attached, Working
<1>4. CASE TakeNote
  BY <1>4, PlainFits, EventKinds DEF TakeNote, Attached, Working
<1>5. CASE ToolTurn
  <2>1. PICK ids \in ToolTurns : Attempt(Requested(ids), "call")
    BY <1>5 DEF ToolTurn
  <2>. QED
    BY <1>5, <2>1, ToolTurnFits, EventKinds DEF ToolTurn, Attached, Working
<1>6. CASE RejectTool
  BY <1>6, OwedFits, EventKinds DEF RejectTool, Attached, Working
<1>7. CASE StartTool
  <2>. DEFINE k == mem.proto.ordinal + 1
              c == mem.proto.pending[k]
  <2>1. mem.proto.pending \in Seq(CallIds) /\ mem.proto.ordinal \in Nat
    BY DEF IInv, TypeOK, Memory, Protocol
  <2>2. mem.proto.ordinal < Len(mem.proto.pending)
    BY <1>7 DEF StartTool
  <2>3. c \in CallIds
    BY <2>1, <2>2
  <2>4. Fitting(Started(c))
    BY <2>3, CallFits DEF ExecutionStates, EffectStates
  <2>5. /\ pc = "call"
        /\ Attempt(Started(c), IF k = Len(mem.proto.pending) THEN "run" ELSE "call")
    BY <1>7 DEF StartTool
  <2>. HIDE DEF c
  <2>. QED
    BY <2>4, <2>5, EventKinds DEF Attached, Working
<1>8. CASE FinishTool
  BY <1>8, OwedFits, EventKinds DEF FinishTool, Attached, Working
<1>9. CASE Finish
  BY <1>9, PlainFits, EventKinds DEF Finish, Attached, Working
<1>10. CASE StopReset
  BY <1>10, PlainFits, EventKinds DEF StopReset, Attached, Working
<1>. QED
  BY <1>1, <1>2, <1>3, <1>4, <1>5, <1>6, <1>7, <1>8, <1>9, <1>10 DEF Appends

\* Where an attempted append leaves log, memory and pc.
Wrote(r, e) ==
    /\ Allowed(facts[r], e)
    /\ log' = [log EXCEPT ![r] = Append(@, Line(r, e))]
    /\ facts' = [facts EXCEPT ![r] = Applied(@, e)]

LEMMA AttemptOutcomes ==
    ASSUME IInv, pc \in Attached \cup {"create"}, NEW e, Fitting(e), NEW next,
           Attempt(e, next)
    PROVE  /\ mem.run \in Runs /\ mem.run # NoRun
           /\ facts[mem.run] = mem.proto /\ log[mem.run] = mem.log /\ Sound(facts[mem.run])
           /\ pointer' = pointer /\ pointerRaises' = pointerRaises
           /\ UNCHANGED <<log, facts>> \/ Wrote(mem.run, e)
           /\ \/ /\ pc' = next /\ Wrote(mem.run, e)
                 /\ mem'.run = mem.run /\ mem'.pointer = mem.pointer
              \/ /\ pc' = "recover" /\ mem'.pointer = mem.pointer
                 /\ mem'.run = IF pc = "create" THEN NoRun ELSE mem.run
              \/ pc' = "down" /\ mem' = Blank /\ UNCHANGED <<log, facts>>
<1>. DEFINE r == mem.run
<1>1. /\ r \in Runs /\ r # NoRun /\ mem \in Memory /\ Sound(mem.proto)
      /\ facts[r] = mem.proto /\ log[r] = mem.log
  BY ConstantsAssumption
  DEF IInv, MemoryIsCurrent, Creating, Current, TypeOK, Memory, Sound, ConstantsAssumption
<1>2. pointer' = pointer /\ pointerRaises' = pointerRaises
  BY DEF Attempt
<1>3. \A m \in Memory :
          /\ AfterRaise(m).pointer = m.pointer
          /\ AfterRaise(m).run = IF pc = "create" THEN NoRun ELSE m.run
  BY DEF AfterRaise, Vacant, Blank, Memory
<1>4. CASE /\ ~Allowed(mem.proto, e)
           /\ mem' = AfterRaise(mem) /\ pc' = "recover"
           /\ UNCHANGED <<disk, raises, crashes>>
  BY <1>1, <1>2, <1>3, <1>4 DEF disk
<1>5. ASSUME Allowed(mem.proto, e), Write(r, e)
      PROVE  /\ Wrote(r, e)
             /\ \A m \in {mem, CursorMoved(mem), Logged(mem, r, e), Noted(mem, r, e)} :
                   m \in Memory /\ m.run = r /\ m.pointer = mem.pointer
  <2>1. Wrote(r, e)
    BY <1>1, <1>5 DEF Write, Wrote
  <2>2. Line(r, e) \in Event
    BY <1>1, <1>5, WriteExtends
       DEF IInv, MemoryIsCurrent, Creating
  <2>3. \A m \in {mem, CursorMoved(mem), Logged(mem, r, e), Noted(mem, r, e)} :
            m \in Memory /\ m.run = r
    BY <1>1, <1>5, <2>2, CopiesTyped DEF IInv
  <2>4. \A m \in {mem, CursorMoved(mem), Logged(mem, r, e), Noted(mem, r, e)} :
            m.pointer = mem.pointer
    BY <1>1 DEF CursorMoved, Logged, Noted, Memory
  <2>. QED  BY <2>1, <2>3, <2>4
<1>6. CASE /\ Allowed(mem.proto, e) /\ Write(r, e)
           /\ mem' = Kept(mem, r, e) /\ pc' = next
           /\ UNCHANGED <<raises, crashes>>
  BY <1>1, <1>2, <1>5, <1>6 DEF Kept
<1>7. CASE /\ Allowed(mem.proto, e) /\ raises' = raises + 1
           /\ mem' = AfterRaise(mem) /\ pc' = "recover"
           /\ UNCHANGED <<log, facts, crashes>>
  BY <1>1, <1>2, <1>3, <1>7
<1>8. CASE /\ Allowed(mem.proto, e) /\ raises' = raises + 1
           /\ Write(r, e)
           /\ \E m \in {mem, CursorMoved(mem), Logged(mem, r, e)} : mem' = AfterRaise(m)
           /\ pc' = "recover" /\ UNCHANGED crashes
  <2>1. PICK m \in {mem, CursorMoved(mem), Logged(mem, r, e)} : mem' = AfterRaise(m)
    BY <1>8
  <2>2. m \in Memory /\ m.run = r /\ m.pointer = mem.pointer
    BY <1>5, <1>8
  <2>. QED  BY <1>1, <1>2, <1>3, <1>5, <1>8, <2>1, <2>2
<1>9. CASE Allowed(mem.proto, e) /\ Die /\ UNCHANGED <<log, facts, raises>>
  BY <1>1, <1>2, <1>9 DEF Die
<1>. QED
  BY <1>4, <1>6, <1>7, <1>8, <1>9 DEF Attempt

\* What load_resumable_run installs, of a memory that has no Run.
LEMMA LoadOutcomes ==
    ASSUME IInv, NEW m \in Memory, LoadResumable(m)
    PROVE  /\ UNCHANGED <<log, facts, pointer, altered, ran, pointerRaises>>
           /\ \/ pc' = "down" /\ m.boot
              \/ /\ pc' = "idle" /\ mem'.run = NoRun /\ mem'.pointer = m.pointer
                 /\ m.pointer # NoRun /\ log[m.pointer] = <<>> /\ ~m.boot
              \/ /\ pc' = "drop" /\ mem'.run = NoRun /\ mem'.pointer = m.pointer
                 /\ m.pointer # NoRun /\ facts[m.pointer].terminal
              \/ /\ pc' = "idle" /\ mem'.run = m.pointer /\ mem'.pointer = m.pointer
                 /\ m.pointer # NoRun /\ log[m.pointer] # <<>> /\ ~facts[m.pointer].terminal
              \/ /\ pc' = "idle" /\ mem'.run = NoRun /\ mem'.pointer = m.pointer
                 /\ m.pointer = NoRun /\ NoneUnfinished
              \/ /\ pc' = "adopt" /\ mem'.run \in Runs /\ Unfinished(mem'.run)
                 /\ mem'.pointer = m.pointer /\ m.pointer = NoRun
<1>1. UNCHANGED <<log, facts, pointer, altered, ran, pointerRaises>>
  BY DEF LoadResumable, work
<1>2. /\ Vacant(m) \in Memory /\ Vacant(m).run = NoRun /\ Vacant(m).pointer = m.pointer
  BY VacantTyped DEF Vacant, Blank, Memory
<1>3. \A n \in Memory : /\ [n EXCEPT !.boot = FALSE].run = n.run
                        /\ [n EXCEPT !.boot = FALSE].pointer = n.pointer
  BY DEF Memory
<1>4. CASE m.pointer # NoRun
  <2>1. m.pointer \in Runs /\ Readable(log[m.pointer])
    BY <1>4 DEF Memory, IInv, LogsReadable
  <2>2. CASE log[m.pointer] = <<>>
    BY <1>1, <1>2, <1>4, <2>2 DEF LoadResumable
  <2>3. CASE log[m.pointer] # <<>> /\ facts[m.pointer].terminal
    BY <1>1, <1>2, <1>4, <2>1, <2>3 DEF LoadResumable
  <2>4. CASE log[m.pointer] # <<>> /\ ~facts[m.pointer].terminal
    <3>1. mem' = [Installed(m, m.pointer) EXCEPT !.boot = FALSE] /\ pc' = "idle"
      BY <1>4, <2>1, <2>4 DEF LoadResumable
    <3>2. LET n == Installed(m, m.pointer) IN
             n \in Memory /\ n.run = m.pointer /\ n.pointer = m.pointer
      BY <2>1, InstalledIsCurrent DEF IInv
    <3>. QED  BY <1>1, <1>3, <1>4, <2>4, <3>1, <3>2
  <2>. QED  BY <2>2, <2>3, <2>4
<1>5. CASE m.pointer = NoRun
  <2>1. ActiveRuns = {r \in Runs : Unfinished(r)}
    BY DEF ActiveRuns, IInv, LogsReadable
  <2>2. CASE /\ ActiveRuns = {} /\ mem' = [Vacant(m) EXCEPT !.boot = FALSE]
             /\ pc' = "idle"
    BY <1>1, <1>2, <1>3, <1>5, <2>1, <2>2 DEF NoneUnfinished
  <2>3. CASE \E r \in ActiveRuns : mem' = Installed(m, r) /\ pc' = "adopt"
    <3>1. PICK r \in Runs : Unfinished(r) /\ mem' = Installed(m, r) /\ pc' = "adopt"
      BY <2>1, <2>3
    <3>2. mem'.run = r /\ mem'.pointer = m.pointer
      BY <3>1, InstalledIsCurrent DEF IInv
    <3>. QED  BY <1>1, <1>5, <3>1, <3>2
  <2>. QED  BY <1>5, <2>2, <2>3 DEF LoadResumable
<1>. QED
  BY <1>4, <1>5

\* What reload_current_run leaves.
LEMMA ReloadOutcomes ==
    ASSUME IInv, mem.run \in Runs, log[mem.run] # <<>>, ReloadCurrent
    PROVE  /\ UNCHANGED <<log, facts, pointer, altered, ran, pointerRaises>>
           /\ mem'.run = mem.run /\ mem'.pointer = mem.pointer
           /\ pc' = IF mem.pointer = ExpectedPointer(mem.run) THEN "idle" ELSE "repoint"
<1>1. mem' = Installed(mem, mem.run)
  BY DEF ReloadCurrent, IInv, LogsReadable
<1>. QED
  BY <1>1, InstalledIsCurrent DEF ReloadCurrent, IInv, LogsReadable, TypeOK, work

\* What a write of the Session leaves, whether it raises or not.
LEMMA PointerOutcomes ==
    ASSUME IInv, SetPointer \/ SetPointerRaises
    PROVE  /\ pc \in {"point", "adopt", "repoint", "clear", "clearReset", "drop", "unpoint"}
           /\ UNCHANGED <<log, facts, altered, ran>>
           /\ pointer' \in {pointer, PointerTarget}
           /\ \/ pc' = "down"
              \/ /\ pc' = IF pc = "point" THEN "reconcile" ELSE "idle"
                 /\ SetPointer /\ pointer' = PointerTarget /\ mem'.pointer = PointerTarget
                 /\ mem'.run = IF pc \in {"clearReset", "unpoint"} THEN NoRun ELSE mem.run
              \/ pc' \in {"recover", "idle"} /\ mem' = mem /\ SetPointerRaises
<1>1. /\ pc \in {"point", "adopt", "repoint", "clear", "clearReset", "drop", "unpoint"}
      /\ UNCHANGED <<log, facts, altered, ran>>
      /\ pointer' \in {pointer, PointerTarget}
  BY DEF SetPointer, SetPointerRaises, disk, work
<1>2. CASE SetPointer
  <2>. DEFINE m == [mem EXCEPT !.pointer = PointerTarget]
  <2>1. PointerTarget \in Runs \cup {NoRun}
    BY DEF PointerTarget, IInv, TypeOK, Memory
  <2>2. m \in Memory /\ m.run = mem.run /\ m.pointer = PointerTarget
    BY <2>1 DEF IInv, TypeOK, Memory
  <2>3. mem' = AfterPointer(m)
    BY <1>2 DEF SetPointer
  <2>. HIDE DEF m
  <2>4. /\ AfterPointer(m).pointer = PointerTarget
        /\ AfterPointer(m).run = IF pc \in {"clearReset", "unpoint"} THEN NoRun ELSE mem.run
    BY <2>2 DEF AfterPointer, Vacant, Blank, Memory
  <2>. QED  BY <1>1, <1>2, <2>3, <2>4 DEF SetPointer
<1>3. CASE SetPointerRaises
  <2>1. CASE mem.boot
    BY <1>1, <1>3, <2>1 DEF SetPointerRaises
  <2>2. CASE ~mem.boot /\ pc \in {"clear", "clearReset"}
    BY <1>1, <1>3, <2>2 DEF SetPointerRaises
  <2>3. CASE ~mem.boot /\ pc \notin {"clear", "clearReset"}
    BY <1>1, <1>3, <2>3 DEF SetPointerRaises
  <2>. QED  BY <2>1, <2>2, <2>3
<1>. QED
  BY <1>1, <1>2, <1>3

\* An append changes one log and its replay, and never a Run that has ended.
LEMMA WroteParts ==
    ASSUME IInv, NEW r \in Runs, Sound(facts[r]), NEW e, Fitting(e), Wrote(r, e)
    PROVE  /\ \A s \in Runs \ {r} : facts'[s] = facts[s] /\ log'[s] = log[s]
           /\ facts'[r] = Applied(facts[r], e)
           /\ log'[r] = Append(log[r], Line(r, e))
           /\ ~facts[r].terminal
           /\ facts'[r].user
           /\ facts'[r].terminal <=> e.kind = "terminal"
           /\ facts'[r].pending # <<>> => e.kind = "tool_calls" \/ facts[r].pending # <<>>
<1>1. /\ \A s \in Runs \ {r} : facts'[s] = facts[s] /\ log'[s] = log[s]
      /\ facts'[r] = Applied(facts[r], e)
      /\ log'[r] = Append(log[r], Line(r, e))
  BY DEF Wrote, IInv, TypeOK
<1>. QED
  BY <1>1, AppliedParts DEF Wrote

LEMMA AppendsKeepPInv ==
    ASSUME IInv, PInv, Appends
    PROVE  PInv'
<1>. DEFINE r == mem.run
<1>1. PICK e, next : Appending(e, next)
  BY AppendsAppend
<1>2. /\ r \in Runs /\ r # NoRun /\ Sound(facts[r])
      /\ pointer' = pointer
      /\ UNCHANGED <<log, facts>> \/ Wrote(r, e)
      /\ \/ /\ pc' = next /\ Wrote(r, e)
            /\ mem'.run = r /\ mem'.pointer = mem.pointer
         \/ /\ pc' = "recover" /\ mem'.pointer = mem.pointer
            /\ mem'.run = IF pc = "create" THEN NoRun ELSE r
         \/ pc' = "down" /\ mem' = Blank /\ UNCHANGED <<log, facts>>
  BY <1>1, AppendsAppend, AttemptOutcomes DEF Appending
<1>3. ASSUME Wrote(r, e)
      PROVE  /\ \A s \in Runs \ {r} : facts'[s] = facts[s] /\ log'[s] = log[s]
             /\ ~facts[r].terminal /\ facts'[r].user
             /\ facts'[r].terminal <=> e.kind = "terminal"
             /\ facts'[r].pending # <<>> =>
                    e.kind = "tool_calls" \/ facts[r].pending # <<>>
             /\ facts'[r].pending # <<>> => e.kind # "terminal"
  <2>1. facts'[r].pending # <<>> => e.kind # "terminal"
    BY <1>1, <1>2, <1>3, AppliedParts, WroteParts DEF Appending, Wrote
  <2>. QED  BY <1>1, <1>2, <1>3, <2>1, WroteParts DEF Appending
<1>4. \A s \in Runs : facts[s].terminal => facts'[s].terminal
  BY <1>2, <1>3
<1>5. pointer \in Runs \cup {NoRun} /\ mem.pointer \in Runs \cup {NoRun}
  BY DEF IInv, TypeOK, Memory
<1>6. Begun'
  BY <1>2, <1>3 DEF PInv, Begun
<1>7. OwedShape'
  <2>1. ASSUME Wrote(r, e), facts'[r].pending # <<>>
        PROVE  pointer = r
    <3>1. CASE e.kind = "tool_calls"
      BY <1>1, <3>1 DEF Appending, PInv, PointerShape, Working
    <3>2. CASE facts[r].pending # <<>>
      BY <1>2, <3>2 DEF PInv, OwedShape
    <3>. QED  BY <1>3, <2>1, <3>1, <3>2
  <2>. QED  BY <1>2, <1>3, <2>1 DEF PInv, OwedShape
<1>8. PointerShape'
  <2>1. pc' # "down" /\ pointer' \notin {NoRun, mem'.run} => facts'[pointer'].terminal
    <3>1. pc # "down"
      BY AppendsAppend DEF Attached
    <3>. QED  BY <1>2, <1>4, <1>5, <3>1 DEF PInv, PointerShape
  <2>2. pc' # "down" /\ mem'.pointer # NoRun
           => pointer' = mem'.pointer \/ facts'[mem'.pointer].terminal
    <3>1. pc # "down"
      BY AppendsAppend DEF Attached
    <3>. QED  BY <1>2, <1>4, <1>5, <3>1 DEF PInv, PointerShape
  <2>3. pc' # "create"
    BY <1>1, <1>2 DEF Appending, Attached
  <2>4. pc' \in Working => pointer' = mem'.run
    BY <1>1, <1>2 DEF Appending, PInv, PointerShape, Working
  <2>5. pc' \in {"clear", "clearReset", "unpoint"} /\ mem'.run # NoRun
           => facts'[mem'.run].terminal
    BY <1>1, <1>2, <1>3 DEF Appending
  <2>. QED  BY <2>1, <2>2, <2>3, <2>4, <2>5 DEF PointerShape
<1>. QED
  BY <1>6, <1>7, <1>8 DEF PInv

\* What a Run in memory owes between asks and in them is what its replay says.
LEMMA InMemory ==
    ASSUME IInv, pc \in Attached \cup {"idle", "unpoint"}, mem.run # NoRun
    PROVE  mem.run \in Runs /\ mem.proto = facts[mem.run] /\ log[mem.run] # <<>>
BY DEF IInv, TypeOK, Memory, MemoryIsCurrent, Reloadable, Current

LEMMA PointerStepsKeepPInv ==
    ASSUME IInv, PInv, SetPointer \/ SetPointerRaises
    PROVE  PInv'
<1>1. /\ pc \in {"point", "adopt", "repoint", "clear", "clearReset", "drop", "unpoint"}
      /\ UNCHANGED <<log, facts>>
      /\ pointer' \in {pointer, PointerTarget}
      /\ \/ pc' = "down"
         \/ /\ pc' = IF pc = "point" THEN "reconcile" ELSE "idle"
            /\ pointer' = PointerTarget /\ mem'.pointer = PointerTarget
            /\ mem'.run = IF pc \in {"clearReset", "unpoint"} THEN NoRun ELSE mem.run
         \/ pc' \in {"recover", "idle"} /\ mem' = mem
  BY PointerOutcomes
<1>2. /\ pointer \in Runs \cup {NoRun} /\ mem.pointer \in Runs \cup {NoRun}
      /\ mem.run \in Runs \cup {NoRun}
  BY DEF IInv, TypeOK, Memory
<1>3. /\ pc \in {"point", "adopt"} => PointerTarget = mem.run
      /\ pc = "repoint" => PointerTarget = IF facts[mem.run].terminal THEN NoRun ELSE mem.run
      /\ pc \notin {"point", "adopt", "repoint"} => PointerTarget = NoRun
  BY <1>1, InMemory DEF PointerTarget, Attached, IInv, MemoryIsCurrent
<1>4. pc \in {"clear", "clearReset", "unpoint"} /\ mem.run # NoRun
          => facts[mem.run].terminal
  BY DEF PInv, PointerShape
<1>5. pc = "drop" => mem.run = NoRun
  BY DEF IInv, Dropping
<1>6. \A r \in Runs : facts[r].pending # <<>> => r = pointer /\ ~facts[r].terminal
  BY DEF PInv, OwedShape
<1>7. pc # "down" /\ pc' # "create"
  BY <1>1
<1>8. /\ pointer \notin {NoRun, mem.run} => facts[pointer].terminal
      /\ mem.pointer # NoRun => pointer = mem.pointer \/ facts[mem.pointer].terminal
  BY <1>7 DEF PInv, PointerShape
<1>9. Begun'
  BY <1>1 DEF PInv, Begun
<1>10. OwedShape'
  <2>1. ASSUME NEW r \in Runs, facts[r].pending # <<>>
        PROVE  PointerTarget = r
    <3>1. r = pointer /\ ~facts[r].terminal /\ r # NoRun
      BY <1>6, <2>1, ConstantsAssumption DEF ConstantsAssumption
    <3>2. r = mem.run
      BY <1>8, <3>1
    <3>. QED  BY <1>1, <1>3, <1>4, <1>5, <3>1, <3>2
  <2>. QED  BY <1>1, <2>1 DEF PInv, OwedShape
<1>11. PointerShape'
  <2>1. pc' # "down" /\ pointer' \notin {NoRun, mem'.run} => facts'[pointer'].terminal
    BY <1>1, <1>2, <1>3, <1>8
  <2>2. pc' # "down" /\ mem'.pointer # NoRun
           => pointer' = mem'.pointer \/ facts'[mem'.pointer].terminal
    BY <1>1, <1>2, <1>3, <1>4, <1>5, <1>8
  <2>3. pc' \in Working => pointer' = mem'.run
    BY <1>1, <1>3 DEF Working
  <2>4. pc' \notin {"clear", "clearReset", "unpoint"}
    BY <1>1
  <2>. QED  BY <1>7, <2>1, <2>2, <2>3, <2>4 DEF PointerShape
<1>. QED
  BY <1>9, <1>10, <1>11 DEF PInv

LEMMA LoadsKeepPInv ==
    ASSUME IInv, PInv, NEW m \in Memory, LoadResumable(m),
           \/ m.boot /\ m.pointer = pointer
           \/ m.pointer = mem.pointer /\ pc # "down" /\ mem.run = NoRun
    PROVE  PInv'
<1>1. /\ UNCHANGED <<log, facts, pointer>>
      /\ \/ pc' = "down" /\ m.boot
         \/ /\ pc' = "idle" /\ mem'.run = NoRun /\ mem'.pointer = m.pointer
            /\ m.pointer # NoRun /\ log[m.pointer] = <<>> /\ ~m.boot
         \/ /\ pc' = "drop" /\ mem'.run = NoRun /\ mem'.pointer = m.pointer
            /\ m.pointer # NoRun /\ facts[m.pointer].terminal
         \/ /\ pc' = "idle" /\ mem'.run = m.pointer /\ mem'.pointer = m.pointer
            /\ m.pointer # NoRun
         \/ /\ pc' = "idle" /\ mem'.run = NoRun /\ mem'.pointer = m.pointer
            /\ m.pointer = NoRun
         \/ /\ pc' = "adopt" /\ mem'.run \in Runs
            /\ mem'.pointer = m.pointer /\ m.pointer = NoRun
  BY LoadOutcomes
<1>2. PointerShape'
  BY <1>1 DEF PInv, PointerShape, Working
<1>. QED
  BY <1>1, <1>2 DEF PInv, Begun, OwedShape

\* A Run in memory that is not to be resumed has ended.
LEMMA NotResumable ==
    ASSUME IInv, Begun, pc \in Attached \cup {"idle", "unpoint"}, mem.run # NoRun
    PROVE  ~Resumable(mem) <=> facts[mem.run].terminal
BY InMemory DEF Resumable, Begun

LEMMA AskKeepsPInv == ASSUME IInv, PInv, Ask PROVE PInv'
<1>1. pc = "idle"
  BY DEF Ask
<1>2. /\ mem \in Memory
      /\ pointer \in Runs \cup {NoRun} /\ mem.pointer \in Runs \cup {NoRun}
      /\ pointer \notin {NoRun, mem.run} => facts[pointer].terminal
      /\ mem.pointer # NoRun => pointer = mem.pointer \/ facts[mem.pointer].terminal
  BY <1>1 DEF IInv, TypeOK, Memory, PInv, PointerShape
<1>3. CASE Stale(mem)
  <2>1. mem.run \in Runs /\ log[mem.run] # <<>>
    BY <1>1, <1>3, InMemory DEF Stale
  <2>2. /\ UNCHANGED <<log, facts, pointer>>
        /\ mem'.run = mem.run /\ mem'.pointer = mem.pointer
        /\ pc' \in {"idle", "repoint"}
    BY <1>3, <2>1, ReloadOutcomes DEF Ask
  <2>3. PointerShape'
    BY <1>2, <2>2 DEF PointerShape, Working
  <2>. QED  BY <2>2, <2>3 DEF PInv, Begun, OwedShape
<1>4. CASE ~Stale(mem) /\ Resumable(mem)
  <2>1. /\ mem' = [mem EXCEPT !.resumed = TRUE]
        /\ pc' = IF mem.pointer = mem.run THEN "reconcile" ELSE "point"
        /\ UNCHANGED <<log, facts, pointer>>
    BY <1>4 DEF Ask, disk
  <2>2. mem'.run = mem.run /\ mem'.pointer = mem.pointer
    BY <1>2, <2>1 DEF Memory
  <2>3. mem.run # NoRun /\ ~facts[mem.run].terminal
    BY <1>1, <1>4, NotResumable DEF Resumable, PInv
  <2>4. mem.pointer = mem.run => pointer = mem.run
    BY <1>2, <2>3
  <2>5. PointerShape'
    BY <1>2, <2>1, <2>2, <2>4 DEF PointerShape, Working
  <2>. QED  BY <2>1, <2>5 DEF PInv, Begun, OwedShape
<1>5. CASE ~Stale(mem) /\ ~Resumable(mem)
  <2>1. PICK r \in Runs : mem' = [Vacant(mem) EXCEPT !.run = r]
    BY <1>5 DEF Ask
  <2>2. pc' = "create" /\ UNCHANGED <<log, facts, pointer>>
    BY <1>5 DEF Ask, disk
  <2>3. mem'.pointer = mem.pointer
    BY <2>1 DEF Vacant, Blank
  <2>4. mem.run # NoRun => facts[mem.run].terminal
    BY <1>1, <1>5, NotResumable DEF PInv
  <2>5. pointer # NoRun => facts[pointer].terminal
    BY <1>2, <2>4
  <2>6. PointerShape'
    BY <1>2, <2>2, <2>3, <2>5 DEF PointerShape, Working
  <2>. QED  BY <2>2, <2>6 DEF PInv, Begun, OwedShape
<1>. QED
  BY <1>3, <1>4, <1>5

LEMMA RecoveryKeepsPInv == ASSUME IInv, PInv, ~ReloadMayFail, Recover \/ Boot PROVE PInv'
<1>1. CASE Boot
  <2>. DEFINE m == [Blank EXCEPT !.pointer = pointer, !.boot = TRUE]
  <2>1. m \in Memory
    BY BlankTyped DEF IInv, TypeOK, Memory
  <2>2. m.boot /\ m.pointer = pointer
    BY DEF Blank
  <2>3. LoadResumable(m)
    BY <1>1 DEF Boot
  <2>. QED  BY <2>1, <2>2, <2>3, LoadsKeepPInv
<1>2. CASE pc = "recover" /\ mem.run = NoRun /\ LoadResumable(mem)
  BY <1>2, LoadsKeepPInv DEF IInv, TypeOK
<1>3. CASE pc = "recover" /\ mem.run # NoRun /\ ReloadCurrent
  <2>1. mem.run \in Runs /\ log[mem.run] # <<>>
    BY <1>3 DEF IInv, TypeOK, Memory, Reloadable
  <2>2. /\ UNCHANGED <<log, facts, pointer>>
        /\ mem'.run = mem.run /\ mem'.pointer = mem.pointer
        /\ pc' \in {"idle", "repoint"}
    BY <1>3, <2>1, ReloadOutcomes
  <2>3. PointerShape'
    BY <1>3, <2>2 DEF PInv, PointerShape, Working
  <2>. QED  BY <2>2, <2>3 DEF PInv, Begun, OwedShape
<1>. QED
  BY <1>1, <1>2, <1>3 DEF Recover, ReloadRaises

LEMMA RestKeepsPInv ==
    ASSUME IInv, PInv, RunTool \/ Interrupt \/ ApplyRecovered \/ Reset \/ Crash \/ UNCHANGED vars
    PROVE  PInv'
<1>1. UNCHANGED <<log, facts, pointer>>
  BY DEF RunTool, Interrupt, ApplyRecovered, Reset, Crash, vars, disk
<1>2. CASE RunTool \/ Interrupt \/ Reset
  <2>1. /\ mem' = mem /\ pc # "down"
        /\ \/ pc = "run" /\ pc' = "result"
           \/ pc' \in {"recover", "reset"}
           \/ pc = "idle" /\ ~Resumable(mem) /\ pc' = "unpoint"
    BY <1>2 DEF RunTool, Interrupt, Reset
  <2>2. pc' = "unpoint" /\ mem.run # NoRun => facts[mem.run].terminal
    BY <2>1, NotResumable DEF PInv
  <2>3. PointerShape'
    BY <1>1, <2>1, <2>2 DEF PInv, PointerShape, Working
  <2>. QED  BY <1>1, <2>3 DEF PInv, Begun, OwedShape
<1>3. CASE Crash
  <2>1. PointerShape'
    BY <1>3 DEF Crash, Die, PointerShape, Working
  <2>. QED  BY <1>1, <2>1 DEF PInv, Begun, OwedShape
<1>4. CASE UNCHANGED vars
  BY <1>4 DEF vars, PInv, PointerShape, Begun, OwedShape
<1>5. CASE ApplyRecovered
  <2>1. PointerShape'
    BY <1>1, <1>5, ApplyOutcomes DEF PInv, PointerShape, Working
  <2>. QED  BY <1>1, <2>1 DEF PInv, Begun, OwedShape
<1>. QED
  BY <1>2, <1>3, <1>4, <1>5

LEMMA StepKeepsPInv ==
    ASSUME IInv, PInv, ~ReloadMayFail, [Next]_vars
    PROVE  PInv'
<1>1. CASE Appends
  BY <1>1, AppendsKeepPInv
<1>2. CASE SetPointer \/ SetPointerRaises
  BY <1>2, PointerStepsKeepPInv
<1>3. CASE Ask
  BY <1>3, AskKeepsPInv
<1>4. CASE Recover \/ Boot
  BY <1>4, RecoveryKeepsPInv
<1>5. CASE RunTool \/ Interrupt \/ ApplyRecovered \/ Reset \/ Crash \/ UNCHANGED vars
  BY <1>5, RestKeepsPInv
<1>. QED
  BY <1>1, <1>2, <1>3, <1>4, <1>5 DEF Next, Appends

LEMMA InitPInv == Init => PInv
BY DEF Init, PInv, PointerShape, Begun, OwedShape, EmptyProtocol, Blank, Working

(****************************************************************************)
(* The pointer leads to the Run that is unfinished.                         *)
(****************************************************************************)
LEMMA AppendsKeepLeading ==
    ASSUME IInv, PInv, Leading, Appends
    PROVE  Leading'
<1>. DEFINE r == mem.run
<1>1. PICK e, next : Appending(e, next)
  BY AppendsAppend
<1>2. /\ r \in Runs /\ r # NoRun /\ Sound(facts[r])
      /\ pointer' = pointer
      /\ UNCHANGED <<log, facts>> \/ Wrote(r, e)
      /\ \/ /\ pc' = next /\ Wrote(r, e)
            /\ mem'.run = r /\ mem'.pointer = mem.pointer
         \/ /\ pc' = "recover" /\ mem'.pointer = mem.pointer
            /\ mem'.run = IF pc = "create" THEN NoRun ELSE r
         \/ pc' = "down" /\ mem' = Blank /\ UNCHANGED <<log, facts>>
  BY <1>1, AppendsAppend, AttemptOutcomes DEF Appending
<1>3. pc \in Attached \cup {"create"}
  BY AppendsAppend
<1>4. Wrote(r, e) => /\ \A s \in Runs \ {r} : facts'[s] = facts[s]
                     /\ facts'[r].terminal <=> e.kind = "terminal"
  BY <1>1, <1>2, WroteParts DEF Appending
<1>5. \A s \in Runs \ {r} : ~Unfinished(s) /\ facts'[s] = facts[s]
  BY <1>2, <1>3, <1>4 DEF Leading, NoneUnfinished, Attached
<1>6. \A s \in Runs : Unfinished(s)' => s = r
  BY <1>5 DEF Unfinished
<1>7. mem'.run \in {r, NoRun} /\ pointer \in {NoRun, r}
  BY <1>2 DEF Leading, Blank
<1>8. pc' # "down" => mem'.pointer = pointer'
  BY <1>2, <1>3 DEF Leading, Attached
<1>9. pc' \in {"create", "clearReset", "unpoint", "drop"} => NoneUnfinished'
  <2>1. CASE pc' = next /\ next \in {"clearReset", "unpoint"}
    BY <1>1, <1>2, <1>4, <1>6, <2>1 DEF Appending, NoneUnfinished, Unfinished
  <2>2. CASE pc' \notin {"clearReset", "unpoint"}
    BY <1>1, <1>2, <2>2 DEF Appending, Attached
  <2>. QED  BY <1>2, <2>1, <2>2
<1>10. pc' \notin {"idle", "create"} /\ (pc' = "adopt" => FALSE)
  BY <1>1, <1>2 DEF Appending, Attached
<1>. QED
  BY <1>2, <1>6, <1>7, <1>8, <1>9, <1>10 DEF Leading, Unfinished

LEMMA PointerStepsKeepLeads ==
    ASSUME IInv, PInv, PointerLeads, SetPointer \/ SetPointerRaises
    PROVE  PointerLeads'
<1>1. CASE SetPointerRaises
  <2>1. pointerRaises' # 0
    BY <1>1 DEF SetPointerRaises, IInv, TypeOK
  <2>. QED  BY <2>1 DEF PointerLeads
<1>2. ASSUME SetPointer, pointerRaises' = 0
      PROVE  Leading'
  <2>1. pointerRaises = 0 /\ Leading
    BY <1>2 DEF SetPointer, PointerLeads
  <2>2. /\ pc \in {"point", "adopt", "repoint", "clear", "clearReset", "drop", "unpoint"}
        /\ UNCHANGED <<log, facts>>
        /\ pc' = IF pc = "point" THEN "reconcile" ELSE "idle"
        /\ pointer' = PointerTarget
    BY <1>2, PointerOutcomes DEF SetPointer
  <2>3. /\ mem'.pointer = PointerTarget
        /\ mem'.run = IF pc \in {"clearReset", "unpoint"} THEN NoRun ELSE mem.run
    <3>1. ~(pc' = "down")
      BY <2>2
    <3>2. SetPointerRaises => pointerRaises' # 0
      BY DEF SetPointerRaises, IInv, TypeOK
    <3>. QED  BY <1>2, <3>1, <3>2, PointerOutcomes
  <2>4. /\ pc \in {"point", "adopt"} => PointerTarget = mem.run
        /\ pc = "repoint" => PointerTarget = IF facts[mem.run].terminal THEN NoRun ELSE mem.run
        /\ pc \notin {"point", "adopt", "repoint"} => PointerTarget = NoRun
    BY <2>2, InMemory DEF PointerTarget, Attached, IInv, MemoryIsCurrent
  <2>5. /\ pc \in Attached => mem.run # NoRun /\ mem.run \in Runs /\ facts[mem.run].user
        /\ pc = "drop" => mem.run = NoRun
    BY InMemory DEF IInv, MemoryIsCurrent, PInv, Begun, Dropping
  <2>6. \A r \in Runs : Unfinished(r)' <=> Unfinished(r)
    BY <2>2 DEF Unfinished
  <2>7. pc \in {"point", "adopt", "repoint"} => mem'.run = mem.run /\ pointer' \in {NoRun, mem.run}
    BY <2>3, <2>4, <2>2
  <2>8. CASE pc \in {"point", "adopt", "repoint"}
    <3>1. pc # "point" /\ pointer' # NoRun => Unfinished(pointer)'
      BY <2>1, <2>2, <2>4, <2>5, <2>8 DEF Leading, Unfinished, Attached
    <3>. QED
      BY <2>1, <2>2, <2>3, <2>5, <2>6, <2>7, <2>8, <3>1 DEF Leading, Unfinished, Attached
  <2>9. CASE pc = "clear"
    BY <2>1, <2>2, <2>3, <2>4, <2>5, <2>6, <2>9 DEF Leading, Unfinished, Attached
  <2>10. CASE pc \in {"clearReset", "unpoint", "drop"}
    <3>1. NoneUnfinished' /\ pointer' = NoRun /\ mem'.run = NoRun /\ pc' = "idle"
          /\ mem'.pointer = NoRun
      BY <2>1, <2>2, <2>3, <2>4, <2>5, <2>6, <2>10 DEF Leading, NoneUnfinished
    <3>. QED  BY <3>1 DEF Leading, NoneUnfinished, Unfinished
  <2>. QED  BY <2>2, <2>8, <2>9, <2>10
<1>. QED
  BY <1>1, <1>2 DEF PointerLeads

LEMMA LoadsKeepLeading ==
    ASSUME IInv, PInv, PointerIsLoadable, Leading, NEW m \in Memory, LoadResumable(m),
           m.pointer = pointer
    PROVE  Leading'
<1>1. /\ UNCHANGED <<log, facts, pointer>>
      /\ \/ pc' = "down" /\ m.boot
         \/ /\ pc' = "drop" /\ mem'.run = NoRun /\ mem'.pointer = m.pointer
            /\ m.pointer # NoRun /\ facts[m.pointer].terminal
         \/ /\ pc' = "idle" /\ mem'.run = m.pointer /\ mem'.pointer = m.pointer
            /\ m.pointer # NoRun /\ log[m.pointer] # <<>> /\ ~facts[m.pointer].terminal
         \/ /\ pc' = "idle" /\ mem'.run = NoRun /\ mem'.pointer = m.pointer
            /\ m.pointer = NoRun /\ NoneUnfinished
         \/ /\ pc' = "adopt" /\ mem'.run \in Runs /\ Unfinished(mem'.run)
            /\ mem'.pointer = m.pointer /\ m.pointer = NoRun
  <2>1. m.pointer # NoRun => log[m.pointer] # <<>>
    BY DEF PointerIsLoadable, IInv, TypeOK
  <2>. QED  BY <2>1, LoadOutcomes
<1>2. \A r \in Runs : Unfinished(r)' <=> Unfinished(r)
  BY <1>1 DEF Unfinished
<1>3. pointer \in Runs \cup {NoRun}
  BY DEF IInv, TypeOK
<1>4. CASE pc' = "down" /\ m.boot
  <2>1. mem'.run = NoRun
    BY <1>4, BlankTyped, VacantTyped DEF LoadResumable
  <2>. QED  BY <1>1, <1>2, <1>4, <2>1 DEF Leading, Unfinished
<1>5. CASE pc' = "drop" /\ mem'.run = NoRun /\ mem'.pointer = m.pointer
           /\ m.pointer # NoRun /\ facts[m.pointer].terminal
  <2>1. NoneUnfinished'
    BY <1>1, <1>2, <1>5 DEF Leading, NoneUnfinished, Unfinished
  <2>. QED  BY <1>1, <1>5, <2>1 DEF Leading, NoneUnfinished
<1>6. CASE pc' = "idle" /\ mem'.run = m.pointer /\ mem'.pointer = m.pointer
           /\ m.pointer # NoRun /\ log[m.pointer] # <<>> /\ ~facts[m.pointer].terminal
  <2>1. Unfinished(pointer)'
    BY <1>1, <1>3, <1>6 DEF PInv, Begun, Unfinished
  <2>. QED  BY <1>1, <1>2, <1>6, <2>1 DEF Leading, Unfinished
<1>7. CASE pc' = "idle" /\ mem'.run = NoRun /\ mem'.pointer = m.pointer
           /\ m.pointer = NoRun /\ NoneUnfinished
  <2>1. NoneUnfinished'
    BY <1>1, <1>7 DEF NoneUnfinished, Unfinished
  <2>. QED  BY <1>1, <1>7, <2>1 DEF Leading, NoneUnfinished
<1>8. CASE pc' = "adopt" /\ mem'.run \in Runs /\ Unfinished(mem'.run)
           /\ mem'.pointer = m.pointer /\ m.pointer = NoRun
  BY <1>1, <1>2, <1>8 DEF Leading, Unfinished
<1>. QED
  BY <1>1, <1>4, <1>5, <1>6, <1>7, <1>8

LEMMA ReloadKeepsLeading ==
    ASSUME IInv, PInv, Leading, mem.run \in Runs, mem.run # NoRun, log[mem.run] # <<>>,
           pc # "down", ReloadCurrent
    PROVE  Leading'
<1>1. /\ UNCHANGED <<log, facts, pointer>>
      /\ mem'.run = mem.run /\ mem'.pointer = mem.pointer
      /\ pc' = IF mem.pointer = ExpectedPointer(mem.run) THEN "idle" ELSE "repoint"
  BY ReloadOutcomes
<1>2. \A r \in Runs : Unfinished(r)' <=> Unfinished(r)
  BY <1>1 DEF Unfinished
<1>3. facts[mem.run].user /\ mem.pointer = pointer
  BY DEF PInv, Begun, Leading
<1>4. pc' = "idle" /\ pointer # NoRun => pointer = mem.run /\ Unfinished(mem.run)
  BY <1>1, <1>3 DEF ExpectedPointer, Unfinished
<1>. QED
  BY <1>1, <1>2, <1>3, <1>4 DEF Leading, Unfinished

LEMMA AskKeepsLeading ==
    ASSUME IInv, PInv, Leading, Ask
    PROVE  Leading'
<1>1. pc = "idle"
  BY DEF Ask
<1>2. CASE Stale(mem)
  <2>1. mem.run \in Runs /\ mem.run # NoRun /\ log[mem.run] # <<>>
    BY <1>1, <1>2, InMemory DEF Stale
  <2>. QED  BY <1>1, <1>2, <2>1, ReloadKeepsLeading DEF Ask
<1>3. CASE ~Stale(mem) /\ Resumable(mem)
  <2>1. /\ mem' = [mem EXCEPT !.resumed = TRUE]
        /\ pc' \in {"reconcile", "point"}
        /\ UNCHANGED <<log, facts, pointer>>
    BY <1>3 DEF Ask, disk
  <2>2. mem'.run = mem.run /\ mem'.pointer = mem.pointer
    BY <2>1 DEF IInv, TypeOK, Memory
  <2>. QED  BY <1>1, <2>1, <2>2 DEF Leading, Unfinished
<1>4. CASE ~Stale(mem) /\ ~Resumable(mem)
  <2>1. PICK r \in Runs : mem' = [Vacant(mem) EXCEPT !.run = r]
    BY <1>4 DEF Ask
  <2>2. pc' = "create" /\ UNCHANGED <<log, facts, pointer>>
    BY <1>4 DEF Ask, disk
  <2>3. mem'.pointer = mem.pointer
    BY <2>1 DEF Vacant, Blank
  <2>4. mem.run # NoRun => facts[mem.run].terminal
    BY <1>1, <1>4, NotResumable DEF PInv
  <2>5. NoneUnfinished' /\ pointer = NoRun
    BY <1>1, <2>2, <2>4 DEF Leading, NoneUnfinished, Unfinished
  <2>. QED  BY <1>1, <2>2, <2>3, <2>5 DEF Leading, NoneUnfinished
<1>. QED
  BY <1>2, <1>3, <1>4

LEMMA RestKeepsLeading ==
    ASSUME IInv, PInv, Leading, RunTool \/ Interrupt \/ ApplyRecovered \/ Reset \/ Crash \/ UNCHANGED vars
    PROVE  Leading'
<1>1. UNCHANGED <<log, facts, pointer>>
  BY DEF RunTool, Interrupt, ApplyRecovered, Reset, Crash, vars, disk
<1>2. CASE RunTool \/ Interrupt \/ Reset
  <2>1. /\ mem' = mem /\ pc # "down"
        /\ \/ pc' \in {"result", "recover", "reset"}
           \/ pc = "idle" /\ ~Resumable(mem) /\ pc' = "unpoint"
    BY <1>2 DEF RunTool, Interrupt, Reset
  <2>2. pc' = "unpoint" => NoneUnfinished'
    <3>1. pc' = "unpoint" /\ mem.run # NoRun => facts[mem.run].terminal
      BY <2>1, NotResumable DEF PInv
    <3>. QED  BY <1>1, <2>1, <3>1 DEF Leading, NoneUnfinished, Unfinished
  <2>. QED  BY <1>1, <2>1, <2>2 DEF Leading, Unfinished
<1>3. CASE Crash
  BY <1>1, <1>3 DEF Crash, Die, Leading, Blank, Unfinished
<1>4. CASE UNCHANGED vars
  BY <1>4 DEF vars, Leading, NoneUnfinished, Unfinished
<1>5. CASE ApplyRecovered
  BY <1>1, <1>5, ApplyOutcomes DEF Leading, NoneUnfinished, Unfinished
<1>. QED
  BY <1>2, <1>3, <1>4, <1>5

LEMMA StepKeepsPointerLeads ==
    ASSUME IInv, PInv, PointerIsLoadable, PointerLeads, ~ReloadMayFail, [Next]_vars
    PROVE  PointerLeads'
<1>1. CASE SetPointer \/ SetPointerRaises
  BY <1>1, PointerStepsKeepLeads
<1>2. ASSUME ~(SetPointer \/ SetPointerRaises), pointerRaises' = 0
      PROVE  Leading'
  <2>1. pointerRaises' = pointerRaises
    <3>1. CASE Appends
      BY <3>1, AppendsAppend DEF Appending, Attempt
    <3>2. CASE ~Appends
      BY <1>2, <3>2 DEF Next, Appends, Boot, Ask, Recover, RunTool, Interrupt, ApplyRecovered, Reset, Crash,
                LoadResumable, ReloadCurrent, ReloadRaises, vars
    <3>. QED  BY <3>1, <3>2
  <2>2. Leading
    BY <1>2, <2>1 DEF PointerLeads
  <2>3. CASE Appends
    BY <2>2, <2>3, AppendsKeepLeading
  <2>4. CASE Ask
    BY <2>2, <2>4, AskKeepsLeading
  <2>5. CASE Boot
    <3>. DEFINE m == [Blank EXCEPT !.pointer = pointer, !.boot = TRUE]
    <3>1. m \in Memory /\ m.pointer = pointer
      BY BlankTyped DEF IInv, TypeOK, Memory, Blank
    <3>2. LoadResumable(m)
      BY <2>5 DEF Boot
    <3>. QED  BY <2>2, <3>1, <3>2, LoadsKeepLeading
  <2>6. CASE Recover
    <3>1. CASE mem.run = NoRun /\ LoadResumable(mem)
      <4>1. mem \in Memory /\ mem.pointer = pointer
        BY <2>2, <2>6 DEF IInv, TypeOK, Leading, Recover
      <4>. QED  BY <2>2, <3>1, <4>1, LoadsKeepLeading
    <3>2. CASE mem.run # NoRun /\ ReloadCurrent
      <4>1. mem.run \in Runs /\ log[mem.run] # <<>> /\ pc # "down"
        BY <2>6, <3>2 DEF IInv, TypeOK, Memory, Reloadable, Recover
      <4>. QED  BY <2>2, <3>2, <4>1, ReloadKeepsLeading
    <3>. QED  BY <2>6, <3>1, <3>2 DEF Recover, ReloadRaises
  <2>7. CASE RunTool \/ Interrupt \/ ApplyRecovered \/ Reset \/ Crash \/ UNCHANGED vars
    BY <2>2, <2>7, RestKeepsLeading
  <2>. QED  BY <1>2, <2>3, <2>4, <2>5, <2>6, <2>7 DEF Next, Appends
<1>. QED
  BY <1>1, <1>2 DEF PointerLeads

LEMMA InitPointerLeads == Init => PointerLeads
BY DEF Init, PointerLeads, Leading, NoneUnfinished, Unfinished, EmptyProtocol, Blank

LEMMA LeadsToNoOrphan == IInv /\ PointerLeads => NoOrphanWithoutPointerFault
<1>. SUFFICES ASSUME IInv, PointerLeads, pointerRaises = 0, pc = "idle",
                     NEW r \in Orphans
              PROVE  FALSE
  BY DEF NoOrphanWithoutPointerFault, NoOrphan
<1>1. r \in Runs /\ Unfinished(r) /\ r # mem.run
  BY DEF Orphans
<1>. QED
  BY <1>1 DEF PointerLeads, Leading, NoneUnfinished

\* The pointer of a Session leads to the Run that is to be resumed: whatever an append
\* raised, a crash cut or a reload repaired, it names no Run that load_resumable_run
\* would refuse, and, as long as no write of the Session raised, no unfinished Run of
\* the Session is out of its reach.
THEOREM PointerStaysRight == ~ReloadMayFail => (Spec => []PointerIsRight)
<1>. SUFFICES ASSUME ~ReloadMayFail PROVE Spec => []PointerIsRight
  OBVIOUS
<1>1. IInv /\ PInv /\ [Next]_vars => PInv'
  BY StepKeepsPInv
<1>2. IInv /\ PInv /\ PointerIsLoadable /\ PointerLeads /\ [Next]_vars => PointerLeads'
  BY StepKeepsPointerLeads
<1>3. IInv /\ PointerIsLoadable /\ PointerLeads => PointerIsRight
  BY LeadsToNoOrphan DEF PointerIsRight
<1>. QED
  BY Invariance, PointerStaysLoadable, InitPInv, InitPointerLeads, <1>1, <1>2, <1>3, PTL
  DEF Spec

(****************************************************************************)
(* Executions.  What ran, what started and what the log says of it.         *)
(****************************************************************************)
StartLogged(r, c) ==
    \E i \in DOMAIN log[r] :
        log[r][i].kind = "tool_started" /\ log[r][i].calls = <<c>>

\* The log holds the start of every call the protocol knows to have started; and,
\* when no call id is used twice in a Run, of no other owed call.
StartsLogged ==
    \A r \in Runs : \A c \in facts[r].started : StartLogged(r, c)

OnlyStartsLogged ==
    \A r \in Runs, c \in CallIds :
        InSeq(c, facts[r].pending) /\ StartLogged(r, c) => c \in facts[r].started

\* Starts are in the order of the calls, without a gap.
Ordered ==
    \A r \in Runs : \A i \in 1 .. facts[r].ordinal :
        facts[r].pending[i] \in facts[r].started

Turns == \A r \in Runs : facts[r].pending = <<>> \/ facts[r].pending \in ToolTurns

\* A call that ran has started, only once, and only one that may change the
\* workspace did; before the Runners no owed call has run.
RanShape ==
    /\ \A r \in Runs, c \in CallIds :
          InSeq(c, facts[r].pending) /\ ran[c] > 0
              => c \in facts[r].started /\ (altered => c \notin Observers)
    /\ \A c \in CallIds : ran[c] <= 1
    /\ pc \in {"call", "run"} =>
          \A c \in CallIds : InSeq(c, facts[mem.run].pending) => ran[c] = 0
    /\ pc = "run" =>
          /\ facts[mem.run].ordinal = Len(facts[mem.run].pending)
          /\ facts[mem.run].results = 0 /\ ~altered

XInv ==
    /\ StartsLogged /\ (ReuseIds \/ OnlyStartsLogged)
    /\ Ordered /\ Turns /\ RanShape

\* What the callers of append record of calls.
Recording(e, next) ==
    /\ Fitting(e) /\ Attempt(e, next)
    /\ \/ /\ e.kind \notin {"tool_calls", "tool_started"}
          /\ UNCHANGED <<altered, ran>>
          /\ next # "run" /\ (next = "call" => pc = "call")
       \/ /\ e.kind = "tool_calls" /\ e.calls \in ToolTurns
          /\ ReuseIds \/ \A i \in DOMAIN e.calls : e.calls[i] \notin UsedIds
          /\ ran' = [c \in CallIds |-> IF InSeq(c, e.calls) THEN 0 ELSE ran[c]]
          /\ altered' = altered /\ next = "call"
       \/ /\ e.kind = "tool_started" /\ pc = "call"
          /\ mem.proto.results = 0 /\ mem.proto.ordinal < Len(mem.proto.pending)
          /\ e.calls = <<mem.proto.pending[mem.proto.ordinal + 1]>>
          /\ next = IF mem.proto.ordinal + 1 = Len(mem.proto.pending) THEN "run" ELSE "call"
          /\ altered' = FALSE /\ ran' = ran

LEMMA AppendsRecord ==
    ASSUME IInv, Appends
    PROVE  \E e, next : Recording(e, next)
<1>. USE DEF Recording, work
<1>1. CASE Create
  BY <1>1, PlainFits, EventKinds DEF Create
<1>2. CASE Reconcile
  BY <1>2, OwedFits, InterruptedKind DEF Reconcile, Recovering
<1>3. CASE Announce
  BY <1>3, PlainFits, EventKinds DEF Announce
<1>4. CASE TakeNote
  BY <1>4, PlainFits, EventKinds DEF TakeNote
<1>5. CASE ToolTurn
  <2>1. PICK ids \in ToolTurns :
            /\ ReuseIds \/ \A i \in DOMAIN ids : ids[i] \notin UsedIds
            /\ Attempt(Requested(ids), "call")
            /\ ran' = [c \in CallIds |-> IF InSeq(c, ids) THEN 0 ELSE ran[c]]
    BY <1>5 DEF ToolTurn
  <2>2. altered' = altered
    BY <1>5 DEF ToolTurn
  <2>3. Fitting(Requested(ids)) /\ Requested(ids).kind = "tool_calls"
        /\ Requested(ids).calls = ids
    BY ToolTurnFits, EventKinds
  <2>. HIDE DEF Recording
  <2>4. Recording(Requested(ids), "call")
    <3>1. /\ Requested(ids).calls \in ToolTurns
          /\ ReuseIds \/ \A i \in DOMAIN Requested(ids).calls :
                            Requested(ids).calls[i] \notin UsedIds
          /\ ran' = [d \in CallIds |-> IF InSeq(d, Requested(ids).calls) THEN 0 ELSE ran[d]]
      BY <2>1, <2>3
    <3>. QED  BY <2>1, <2>2, <2>3, <3>1, Zenon DEF Recording
  <2>. QED  BY <2>4, Zenon
<1>6. CASE RejectTool
  <2>. DEFINE e == Result(Head(Owed), "not_started", "none")
              next == IF Len(Owed) = 1 THEN "loop" ELSE "call"
  <2>1. pc = "call" /\ Owed # <<>> /\ Attempt(e, next) /\ UNCHANGED <<altered, ran>>
    BY <1>6 DEF RejectTool
  <2>2. Fitting(e) /\ e.kind = "tool_result"
    <3>1. Fitting(e)
      BY <2>1, OwedFits
    <3>2. e.kind = "tool_result"
      BY EventKinds
    <3>. QED  BY <3>1, <3>2
  <2>3. next # "run"
    OBVIOUS
  <2>. HIDE DEF e, next, Recording
  <2>4. pc = "call"
    BY <2>1, Zenon
  <2>5. e.kind \notin {"tool_calls", "tool_started"}
    BY <2>2
  <2>6. Recording(e, next)
    BY <2>1, <2>2, <2>3, <2>4, <2>5, Zenon DEF Recording
  <2>. QED  BY <2>6, Zenon
<1>7. CASE StartTool
  <2>. DEFINE k == mem.proto.ordinal + 1
              c == mem.proto.pending[k]
  <2>1. mem.proto.pending \in Seq(CallIds) /\ mem.proto.ordinal \in Nat
    BY DEF IInv, TypeOK, Memory, Protocol
  <2>2. mem.proto.ordinal < Len(mem.proto.pending) /\ mem.proto.results = 0
    BY <1>7 DEF StartTool
  <2>3. c \in CallIds
    BY <2>1, <2>2
  <2>4. Fitting(Started(c)) /\ Started(c).kind = "tool_started" /\ Started(c).calls = <<c>>
    BY <2>3, CallFits, EventKinds DEF ExecutionStates, EffectStates
  <2>5. /\ pc = "call" /\ altered' = FALSE /\ ran' = ran
        /\ Attempt(Started(c), IF k = Len(mem.proto.pending) THEN "run" ELSE "call")
    BY <1>7 DEF StartTool
  <2>. DEFINE next == IF k = Len(mem.proto.pending) THEN "run" ELSE "call"
  <2>6. Recording(Started(c), next)
    BY <2>2, <2>4, <2>5, Zenon
  <2>. HIDE DEF c, k, next, Recording
  <2>. QED  BY <2>6, Zenon
<1>8. CASE FinishTool
  BY <1>8, OwedFits, EventKinds DEF FinishTool
<1>9. CASE Finish
  BY <1>9, PlainFits, EventKinds DEF Finish
<1>10. CASE StopReset
  BY <1>10, PlainFits, EventKinds DEF StopReset
<1>. QED
  BY <1>1, <1>2, <1>3, <1>4, <1>5, <1>6, <1>7, <1>8, <1>9, <1>10 DEF Appends

\* The line an append leaves at the end of the log.
LEMMA WroteLine ==
    ASSUME IInv, NEW r \in Runs, NEW e, Fitting(e), Wrote(r, e)
    PROVE  /\ Line(r, e).kind = e.kind /\ Line(r, e).calls = e.calls
           /\ Line(r, e).effect = e.effect
           /\ Len(log'[r]) = Len(log[r]) + 1
           /\ log'[r][Len(log[r]) + 1] = Line(r, e)
           /\ \A i \in DOMAIN log[r] : i \in DOMAIN log'[r] /\ log'[r][i] = log[r][i]
           /\ DOMAIN log'[r] = DOMAIN log[r] \cup {Len(log[r]) + 1}
           /\ \A s \in Runs \ {r} : log'[s] = log[s]
<1>1. Line(r, e).kind = e.kind /\ Line(r, e).calls = e.calls /\ Line(r, e).effect = e.effect
  BY DEF Fitting, Event, Line
<1>2. log[r] \in Seq(Event) /\ log'[r] = Append(log[r], Line(r, e))
      /\ \A s \in Runs \ {r} : log'[s] = log[s]
  BY DEF Wrote, IInv, TypeOK
<1>. HIDE DEF Line
<1>. QED
  BY <1>1, <1>2

LEMMA WroteStarts ==
    ASSUME IInv, NEW r \in Runs, NEW e, Fitting(e), Wrote(r, e), NEW c
    PROVE  StartLogged(r, c)' <=>
               StartLogged(r, c) \/ (e.kind = "tool_started" /\ e.calls = <<c>>)
<1>1. /\ Line(r, e).kind = e.kind /\ Line(r, e).calls = e.calls
      /\ log'[r][Len(log[r]) + 1] = Line(r, e)
      /\ \A i \in DOMAIN log[r] : i \in DOMAIN log'[r] /\ log'[r][i] = log[r][i]
      /\ DOMAIN log'[r] = DOMAIN log[r] \cup {Len(log[r]) + 1}
  BY WroteLine
<1>. QED
  BY <1>1 DEF StartLogged

\* One applied event, seen from the calls: what is owed and what has started.
LEMMA AppliedCalls ==
    ASSUME NEW p, Sound(p), NEW e, Fitting(e), Allowed(p, e), NEW q, q = Applied(p, e)
    PROVE  \/ /\ e.kind = "tool_calls"
              /\ q.pending = e.calls /\ q.started = {} /\ q.ordinal = 0 /\ q.results = 0
           \/ /\ e.kind = "tool_started"
              /\ q.pending = p.pending /\ q.results = p.results
              /\ q.started = p.started \cup {e.calls[1]}
              /\ q.ordinal = Position(e.calls[1], p.pending)
           \/ /\ e.kind \notin {"tool_calls", "tool_started"}
              /\ q.pending = p.pending /\ q.started = p.started /\ q.ordinal = p.ordinal
           \/ /\ e.kind \notin {"tool_calls", "tool_started"}
              /\ q.pending = <<>> /\ q.started = {} /\ q.ordinal = 0
<1>1. e.kind \in Kinds
  BY DEF Fitting, Event
<1>. QED
  BY <1>1, AppliedParts DEF Kinds

\* The calls of a request, once it is appended, and of every other line.
LEMMA AppendsKeepXInv ==
    ASSUME IInv, XInv, Appends
    PROVE  XInv'
<1>0. PICK r \in Runs : r = mem.run
  BY AppendsAppend, AttemptOutcomes DEF Appending
<1>. DEFINE p == facts[r]
            q == facts'[r]
<1>1. PICK e, next : Recording(e, next)
  BY AppendsRecord
<1>2. /\ r \in Runs /\ p = mem.proto /\ log[r] = mem.log /\ Sound(p)
      /\ UNCHANGED <<log, facts>> \/ Wrote(r, e)
      /\ \/ pc' = next /\ Wrote(r, e) /\ mem'.run = r
         \/ pc' \in {"recover", "down"}
  BY <1>0, <1>1, AppendsAppend, AttemptOutcomes DEF Recording
<1>3. /\ altered' => altered
      /\ \A c \in CallIds : ran'[c] \in {ran[c], 0}
  <2>1. altered' => altered
    BY <1>1, Zenon DEF Recording
  <2>2. \A c \in CallIds : ran'[c] \in {ran[c], 0}
    BY <1>1 DEF Recording
  <2>. QED  BY <2>1, <2>2
<1>6. \A c \in CallIds : ran[c] \in Nat /\ (ran'[c] > 0 => ran[c] > 0 /\ ran'[c] = ran[c])
  BY <1>3 DEF IInv, TypeOK
<1>4. CASE UNCHANGED <<log, facts>> /\ pc' \in {"recover", "down"}
  <2>1. StartsLogged' /\ (ReuseIds \/ OnlyStartsLogged') /\ Ordered' /\ Turns'
    BY <1>4 DEF XInv, StartsLogged, OnlyStartsLogged, Ordered, Turns, StartLogged
  <2>2. RanShape'
    <3>1. \A s \in Runs, c \in CallIds :
              InSeq(c, facts'[s].pending) /\ ran'[c] > 0
                  => c \in facts'[s].started /\ (altered' => c \notin Observers)
      BY <1>3, <1>4, <1>6 DEF XInv, RanShape
    <3>2. \A c \in CallIds : ran'[c] <= 1
      BY <1>3 DEF XInv, RanShape
    <3>. QED  BY <1>4, <3>1, <3>2 DEF RanShape
  <2>. QED  BY <2>1, <2>2 DEF XInv
<1>5. CASE Wrote(r, e)
  <2>1. /\ Allowed(p, e) /\ q = Applied(p, e)
        /\ \A s \in Runs \ {r} : facts'[s] = facts[s] /\ log'[s] = log[s]
    BY <1>1, <1>2, <1>5, WroteParts DEF Wrote, Recording
  <2>2. \/ /\ e.kind = "tool_calls"
           /\ q.pending = e.calls /\ q.started = {} /\ q.ordinal = 0 /\ q.results = 0
        \/ /\ e.kind = "tool_started"
           /\ q.pending = p.pending /\ q.results = p.results
           /\ q.started = p.started \cup {e.calls[1]}
           /\ q.ordinal = Position(e.calls[1], p.pending)
        \/ /\ e.kind \notin {"tool_calls", "tool_started"}
           /\ q.pending = p.pending /\ q.started = p.started /\ q.ordinal = p.ordinal
        \/ /\ e.kind \notin {"tool_calls", "tool_started"}
           /\ q.pending = <<>> /\ q.started = {} /\ q.ordinal = 0
    BY <1>1, <1>2, <2>1, AppliedCalls DEF Recording
  <2>3. /\ \A c : StartLogged(r, c)' <=>
                      StartLogged(r, c) \/ (e.kind = "tool_started" /\ e.calls = <<c>>)
        /\ \A s \in Runs \ {r} : \A c : StartLogged(s, c)' <=> StartLogged(s, c)
    <3>1. \A c : StartLogged(r, c)' <=>
                     StartLogged(r, c) \/ (e.kind = "tool_started" /\ e.calls = <<c>>)
      BY <1>1, <1>2, <1>5, WroteStarts, Zenon DEF Recording
    <3>2. \A s \in Runs \ {r} : \A c : StartLogged(s, c)' <=> StartLogged(s, c)
      BY <2>1 DEF StartLogged
    <3>. QED  BY <3>1, <3>2
  <2>4. ASSUME e.kind = "tool_started"
        PROVE  /\ e.calls = <<p.pending[p.ordinal + 1]>> /\ p.results = 0
               /\ e.calls[1] = p.pending[p.ordinal + 1]
               /\ p.ordinal + 1 \in DOMAIN p.pending
               /\ Position(e.calls[1], p.pending) = p.ordinal + 1
               /\ altered' = FALSE /\ ran' = ran /\ pc = "call"
               /\ next = IF p.ordinal + 1 = Len(p.pending) THEN "run" ELSE "call"
    <3>1. /\ e.calls = <<p.pending[p.ordinal + 1]>> /\ p.results = 0
          /\ p.ordinal < Len(p.pending)
          /\ altered' = FALSE /\ ran' = ran /\ pc = "call"
          /\ next = IF p.ordinal + 1 = Len(p.pending) THEN "run" ELSE "call"
      BY <1>1, <1>2, <2>4 DEF Recording
    <3>2. /\ p.pending \in Seq(CallIds) /\ p.ordinal \in Nat /\ Distinct(p.pending)
      BY <1>2 DEF Sound, Protocol, WellFormed
    <3>3. p.ordinal + 1 \in DOMAIN p.pending /\ e.calls[1] = p.pending[p.ordinal + 1]
      BY <3>1, <3>2
    <3>4. InSeq(e.calls[1], p.pending)
      BY <3>3 DEF InSeq
    <3>5. /\ Position(e.calls[1], p.pending) \in DOMAIN p.pending
          /\ p.pending[Position(e.calls[1], p.pending)] = e.calls[1]
      BY <3>2, <3>4, PositionFinds
    <3>6. Position(e.calls[1], p.pending) = p.ordinal + 1
      BY <3>2, <3>3, <3>5 DEF Distinct
    <3>. QED  BY <3>1, <3>3, <3>6
  <2>5. ASSUME e.kind = "tool_calls"
        PROVE  /\ e.calls \in ToolTurns /\ next = "call" /\ altered' = altered
               /\ \A c \in CallIds : InSeq(c, e.calls) => ran'[c] = 0
               /\ ReuseIds \/ \A c \in CallIds : InSeq(c, e.calls) => ~StartLogged(r, c)
    <3>1. /\ e.calls \in ToolTurns /\ next = "call" /\ altered' = altered
          /\ \A c \in CallIds : InSeq(c, e.calls) => ran'[c] = 0
          /\ ReuseIds \/ \A i \in DOMAIN e.calls : e.calls[i] \notin UsedIds
      BY <1>1, <2>5 DEF Recording
    <3>2. \A c : StartLogged(r, c) => c \in UsedIds
      <4>1. \A c : <<c>>[1] = c /\ 1 \in DOMAIN <<c>>
        OBVIOUS
      <4>. QED  BY <1>2, <4>1 DEF StartLogged, UsedIds
    <3>. QED  BY <3>1, <3>2 DEF InSeq
  <2>6. ASSUME e.kind \notin {"tool_calls", "tool_started"}
        PROVE  /\ altered' = altered /\ ran' = ran
               /\ next # "run" /\ (next = "call" => pc = "call")
    BY <1>1, <2>6 DEF Recording
  <2>7. StartsLogged'
    <3>1. \A c \in q.started : StartLogged(r, c)'
      BY <1>2, <2>2, <2>3, <2>4 DEF XInv, StartsLogged
    <3>. QED  BY <2>1, <2>3, <3>1 DEF XInv, StartsLogged
  <2>8. ReuseIds \/ OnlyStartsLogged'
    <3>. SUFFICES ASSUME OnlyStartsLogged, ~ReuseIds PROVE OnlyStartsLogged'
      BY DEF XInv
    <3>1. ASSUME NEW c \in CallIds, InSeq(c, q.pending), StartLogged(r, c)'
          PROVE  c \in q.started
      <4>1. CASE e.kind = "tool_calls"
        BY <2>2, <2>3, <2>5, <3>1, <4>1
      <4>2. CASE e.kind = "tool_started"
        <5>1. e.calls = <<c>> => e.calls[1] = c
          OBVIOUS
        <5>. QED  BY <1>2, <2>2, <2>3, <3>1, <4>2, <5>1 DEF OnlyStartsLogged
      <4>3. CASE e.kind \notin {"tool_calls", "tool_started"}
        <5>1. ~InSeq(c, <<>>)
          BY DEF InSeq
        <5>. QED  BY <1>2, <2>2, <2>3, <3>1, <4>3, <5>1 DEF OnlyStartsLogged
      <4>. QED  BY <4>1, <4>2, <4>3
    <3>. QED  BY <2>1, <2>3, <3>1 DEF OnlyStartsLogged
  <2>9. Ordered'
    <3>1. \A i \in 1 .. q.ordinal : q.pending[i] \in q.started
      <4>1. CASE e.kind = "tool_started"
        <5>1. p.ordinal \in Nat
          BY <1>2 DEF Sound, Protocol
        <5>2. /\ q.pending = p.pending /\ q.ordinal = p.ordinal + 1
              /\ q.started = p.started \cup {p.pending[p.ordinal + 1]}
          BY <2>2, <2>4, <4>1
        <5>3. \A i \in 1 .. p.ordinal : p.pending[i] \in p.started
          BY <1>2 DEF XInv, Ordered
        <5>4. \A i \in 1 .. p.ordinal + 1 : i \in 1 .. p.ordinal \/ i = p.ordinal + 1
          BY <5>1
        <5>. QED  BY <5>2, <5>3, <5>4
      <4>2. CASE e.kind # "tool_started"
        BY <1>2, <2>2, <4>2 DEF XInv, Ordered
      <4>. QED  BY <4>1, <4>2
    <3>. QED  BY <2>1, <3>1 DEF XInv, Ordered
  <2>10. Turns'
    <3>1. q.pending = <<>> \/ q.pending \in ToolTurns
      BY <1>2, <2>2, <2>5 DEF XInv, Turns
    <3>. QED  BY <2>1, <3>1 DEF XInv, Turns
  <2>11. RanShape'
    <3>0. \A c : ~InSeq(c, <<>>)
      BY DEF InSeq
    <3>1. \A s \in Runs, c \in CallIds :
              InSeq(c, facts'[s].pending) /\ ran'[c] > 0
                  => c \in facts'[s].started /\ (altered' => c \notin Observers)
      <4>1. ASSUME NEW c \in CallIds, InSeq(c, q.pending), ran'[c] > 0
            PROVE  c \in q.started /\ (altered' => c \notin Observers)
        <5>1. ran'[c] = ran[c]
          BY <1>3, <4>1
        <5>. QED
          BY <1>2, <1>3, <2>2, <2>5, <3>0, <4>1, <5>1 DEF XInv, RanShape
      <4>2. ASSUME NEW s \in Runs \ {r}, NEW c \in CallIds, InSeq(c, facts'[s].pending),
                   ran'[c] > 0
            PROVE  c \in facts'[s].started /\ (altered' => c \notin Observers)
        <5>1. ran'[c] = ran[c]
          BY <1>3, <4>2
        <5>. QED  BY <1>3, <2>1, <4>2, <5>1 DEF XInv, RanShape
      <4>. QED  BY <4>1, <4>2
    <3>2. \A c \in CallIds : ran'[c] <= 1
      BY <1>3 DEF XInv, RanShape
    <3>3. pc' \in {"call", "run"} =>
              pc' = next /\ mem'.run = r /\ (pc = "call" \/ e.kind = "tool_calls")
      BY <1>2, <2>2, <2>4, <2>6
    <3>4. pc' \in {"call", "run"} =>
              \A c \in CallIds : InSeq(c, facts'[mem'.run].pending) => ran'[c] = 0
      <4>1. pc = "call" => \A c \in CallIds : InSeq(c, p.pending) => ran[c] = 0
        BY <1>0 DEF XInv, RanShape
      <4>2. \/ e.kind = "tool_calls" /\ q.pending = e.calls
            \/ e.kind # "tool_calls" /\ q.pending \in {p.pending, <<>>}
        BY <2>2
      <4>3. e.kind = "tool_calls" => \A c \in CallIds : InSeq(c, e.calls) => ran'[c] = 0
        BY <2>5
      <4>. QED  BY <1>3, <3>0, <3>3, <4>1, <4>2, <4>3
    <3>5. pc' = "run" => e.kind = "tool_started"
      <4>1. e.kind = "tool_calls" => next = "call"
        BY <2>5
      <4>2. e.kind \notin {"tool_calls", "tool_started"} => next # "run"
        BY <2>6
      <4>. QED  BY <3>3, <4>1, <4>2
    <3>6. pc' = "run" => /\ facts'[mem'.run].ordinal = Len(facts'[mem'.run].pending)
                         /\ facts'[mem'.run].results = 0
      BY <2>2, <2>4, <3>3, <3>5
    <3>7. pc' = "run" => ~altered'
      BY <2>4, <3>5
    <3>. QED  BY <3>1, <3>2, <3>4, <3>6, <3>7, Zenon DEF RanShape
  <2>. QED  BY <2>7, <2>8, <2>9, <2>10, <2>11 DEF XInv
<1>. QED
  BY <1>2, <1>4, <1>5

\* The owed calls are calls of the transaction; before the first result, all of them.
LEMMA OwedCalls ==
    ASSUME IInv
    PROVE  LET p == mem.proto IN
           /\ p.pending \in Seq(CallIds) /\ Sound(p)
           /\ \A c : InSeq(c, Owed) => InSeq(c, p.pending)
           /\ p.results = 0 => \A c : InSeq(c, Owed) <=> InSeq(c, p.pending)
           /\ Owed # <<>> => /\ p.results < Len(p.pending) /\ p.pending # <<>>
                             /\ Head(Owed) = p.pending[p.results + 1]
                             /\ InSeq(Head(Owed), p.pending) /\ Head(Owed) \in CallIds
<1>. DEFINE p == mem.proto
            n == Len(p.pending) - p.results
<1>1. Sound(p)
  BY DEF IInv, TypeOK, Memory, Sound
<1>2. /\ p.pending \in Seq(CallIds) /\ p.results \in Nat /\ p.results <= Len(p.pending)
  BY <1>1 DEF Sound, Protocol, WellFormed
<1>3. /\ Owed \in Seq(CallIds) /\ Len(Owed) = n
      /\ \A i \in 1 .. n : Owed[i] = p.pending[p.results + i]
  BY <1>1, PendingCallsType DEF Owed
<1>4. DOMAIN Owed = 1 .. n /\ n \in Nat
  BY <1>2, <1>3
<1>5. \A i \in DOMAIN Owed : p.results + i \in DOMAIN p.pending
  BY <1>2, <1>4
<1>6. \A c : InSeq(c, Owed) => InSeq(c, p.pending)
  BY <1>3, <1>4, <1>5 DEF InSeq
<1>7. p.results = 0 => \A c : InSeq(c, p.pending) => InSeq(c, Owed)
  BY <1>2, <1>3, <1>4 DEF InSeq
<1>8. Owed # <<>> => /\ p.results < Len(p.pending) /\ p.pending # <<>>
                     /\ Head(Owed) = p.pending[p.results + 1]
                     /\ InSeq(Head(Owed), p.pending) /\ Head(Owed) \in CallIds
  <2>. SUFFICES ASSUME Owed # <<>>
                PROVE  /\ p.results < Len(p.pending) /\ p.pending # <<>>
                       /\ Head(Owed) = p.pending[p.results + 1]
                       /\ InSeq(Head(Owed), p.pending) /\ Head(Owed) \in CallIds
    OBVIOUS
  <2>1. n > 0 /\ Head(Owed) = Owed[1] /\ 1 \in DOMAIN Owed /\ Owed[1] \in CallIds
    BY <1>2, <1>3, <1>4
  <2>2. p.results < Len(p.pending) /\ p.pending # <<>> /\ p.results + 1 \in DOMAIN p.pending
    BY <1>2, <2>1
  <2>. QED  BY <1>3, <1>4, <2>1, <2>2 DEF InSeq
<1>. QED
  BY <1>1, <1>2, <1>6, <1>7, <1>8

\* The Runners: each owed call runs, once, and all of them have started.
LEMMA RunToolKeepsXInv ==
    ASSUME IInv, PInv, XInv, RunTool
    PROVE  XInv'
<1>1. /\ pc = "run" /\ pc' = "result" /\ UNCHANGED <<log, facts>>
      /\ ran' = [c \in CallIds |-> IF InSeq(c, Owed) THEN ran[c] + 1 ELSE ran[c]]
  BY DEF RunTool, disk
<1>2. /\ mem.run \in Runs /\ mem.proto = facts[mem.run] /\ pointer = mem.run
  BY <1>1, InMemory DEF IInv, MemoryIsCurrent, Attached, PInv, PointerShape, Working
<1>. DEFINE p == mem.proto
<1>3. /\ p.ordinal = Len(p.pending) /\ p.results = 0 /\ ~altered
      /\ \A c \in CallIds : InSeq(c, p.pending) => ran[c] = 0
      /\ \A i \in 1 .. p.ordinal : p.pending[i] \in p.started
      /\ p.pending = <<>> \/ p.pending \in ToolTurns
  BY <1>1, <1>2 DEF XInv, RanShape, Ordered, Turns
<1>4. /\ p.pending \in Seq(CallIds)
      /\ \A c : InSeq(c, Owed) <=> InSeq(c, p.pending)
  BY <1>3, OwedCalls
<1>5. \A c \in CallIds : ran[c] \in Nat /\ ran[c] <= 1
  BY DEF IInv, TypeOK, XInv, RanShape
<1>6. \A c \in CallIds : ran'[c] = IF InSeq(c, p.pending) THEN 1 ELSE ran[c]
  BY <1>1, <1>3, <1>4
<1>7. \A c \in CallIds : InSeq(c, p.pending) => c \in p.started
  BY <1>3, <1>4 DEF InSeq
<1>8. altered' => \A c \in CallIds : InSeq(c, p.pending) => c \notin Observers
  <2>1. altered' => \E i \in DOMAIN Owed : Owed[i] \notin Observers
    <3>1. CASE \A i \in DOMAIN Owed : Owed[i] \in Observers
      <4>1. altered' = altered
        BY <3>1 DEF RunTool
      <4>2. ~altered'
        BY <1>3, <4>1, Zenon
      <4>. QED  BY <4>2
    <3>. QED  BY <3>1
  <2>2. altered' => \E d : InSeq(d, p.pending) /\ d \notin Observers
    <3>1. \A i \in DOMAIN Owed : InSeq(Owed[i], Owed)
      BY DEF InSeq
    <3>. QED  BY <1>4, <2>1, <3>1
  <2>3. p.pending \in ToolTurns =>
            \/ \E d \in CallIds : p.pending = <<d>>
            \/ p.pending \in Observers \X Observers
    BY Zenon DEF ToolTurns
  <2>4. CASE p.pending = <<>>
    BY <2>2, <2>4 DEF InSeq
  <2>5. CASE \E d \in CallIds : p.pending = <<d>>
    BY <2>2, <2>5 DEF InSeq
  <2>6. CASE p.pending \in Observers \X Observers
    <3>1. PICK a \in Observers, b \in Observers : p.pending = <<a, b>>
      BY <2>6
    <3>2. DOMAIN p.pending = {1, 2} /\ p.pending[1] = a /\ p.pending[2] = b
      BY <3>1
    <3>3. \A d : InSeq(d, p.pending) => d \in Observers
      BY <3>2 DEF InSeq
    <3>. QED  BY <2>2, <3>3
  <2>. QED  BY <1>3, <2>3, <2>4, <2>5, <2>6
<1>9. \A r \in Runs \ {mem.run} : facts[r].pending = <<>>
  BY <1>2 DEF PInv, OwedShape
<1>10. \A r \in Runs, c \in CallIds :
          InSeq(c, facts'[r].pending) /\ ran'[c] > 0
              => c \in facts'[r].started /\ (altered' => c \notin Observers)
  <2>1. \A c : ~InSeq(c, <<>>)
    BY DEF InSeq
  <2>. QED  BY <1>1, <1>2, <1>7, <1>8, <1>9, <2>1
<1>11. \A c \in CallIds : ran'[c] <= 1
  BY <1>5, <1>6
<1>12. RanShape'
  BY <1>1, <1>10, <1>11 DEF RanShape
<1>. QED
  BY <1>1, <1>12 DEF XInv, StartsLogged, OnlyStartsLogged, StartLogged, Ordered, Turns

LEMMA RestKeepsXInv ==
    ASSUME IInv, XInv, [Next]_vars, ~Appends, ~RunTool
    PROVE  XInv'
<1>1. UNCHANGED <<log, facts, altered, ran>>
  BY DEF Next, Appends, Boot, Ask, SetPointer, SetPointerRaises, Recover, Interrupt,
         ApplyRecovered, Reset, Crash, LoadResumable, ReloadCurrent, ReloadRaises, vars, disk, work
<1>2. pc' \in {"call", "run"} => pc' = pc /\ mem' = mem
  <2>1. CASE SetPointer \/ SetPointerRaises
    BY <2>1 DEF SetPointer, SetPointerRaises
  <2>2. CASE Boot \/ Ask \/ Recover
    BY <2>2 DEF Boot, Ask, Recover, LoadResumable, ReloadCurrent, ReloadRaises
  <2>3. CASE Interrupt \/ ApplyRecovered \/ Reset \/ Crash \/ UNCHANGED vars
    BY <2>3 DEF Interrupt, ApplyRecovered, Recovering, Reset, Crash, Die, vars
  <2>. QED  BY <2>1, <2>2, <2>3 DEF Next, Appends
<1>3. RanShape'
  <2>1. \A r \in Runs, c \in CallIds :
            InSeq(c, facts'[r].pending) /\ ran'[c] > 0
                => c \in facts'[r].started /\ (altered' => c \notin Observers)
    BY <1>1, Zenon DEF XInv, RanShape
  <2>2. \A c \in CallIds : ran'[c] <= 1
    BY <1>1 DEF XInv, RanShape
  <2>3. pc' \in {"call", "run"} =>
            \A c \in CallIds : InSeq(c, facts'[mem'.run].pending) => ran'[c] = 0
    BY <1>1, <1>2 DEF XInv, RanShape
  <2>4. pc' = "run" => /\ facts'[mem'.run].ordinal = Len(facts'[mem'.run].pending)
                       /\ facts'[mem'.run].results = 0
    BY <1>1, <1>2 DEF XInv, RanShape
  <2>5. pc' = "run" => ~altered'
    BY <1>1, <1>2 DEF XInv, RanShape
  <2>. QED  BY <2>1, <2>2, <2>3, <2>4, <2>5, Zenon DEF RanShape
<1>. QED
  BY <1>1, <1>3 DEF XInv, StartsLogged, OnlyStartsLogged, StartLogged, Ordered, Turns

LEMMA StepKeepsXInv ==
    ASSUME IInv, PInv, XInv, [Next]_vars
    PROVE  XInv'
BY AppendsKeepXInv, RunToolKeepsXInv, RestKeepsXInv

LEMMA InitXInv == Init => XInv
<1>. SUFFICES ASSUME Init PROVE XInv
  OBVIOUS
<1>1. \A c : ~InSeq(c, <<>>)
  BY DEF InSeq
<1>2. \A r \in Runs : /\ facts[r].pending = <<>> /\ facts[r].started = {}
                       /\ facts[r].ordinal = 0
  BY DEF Init, EmptyProtocol
<1>3. StartsLogged /\ OnlyStartsLogged /\ Ordered /\ Turns
  BY <1>1, <1>2 DEF StartsLogged, OnlyStartsLogged, Ordered, Turns
<1>4. RanShape
  BY <1>1, <1>2 DEF RanShape, Init
<1>. QED
  BY <1>3, <1>4 DEF XInv

\* The strengthening the next theorems rest on: current copies, a pointer in step with
\* the unfinished Run, and logged starts in step with what the Runners did.
THEOREM Executions == ~ReloadMayFail => (Spec => [](IInv /\ PInv /\ XInv))
<1>. SUFFICES ASSUME ~ReloadMayFail PROVE Spec => [](IInv /\ PInv /\ XInv)
  OBVIOUS
<1>1. IInv /\ PInv /\ [Next]_vars => PInv'
  BY StepKeepsPInv
<1>2. IInv /\ PInv /\ XInv /\ [Next]_vars => XInv'
  BY StepKeepsXInv
<1>. QED
  BY Invariance, InitPInv, InitXInv, <1>1, <1>2, PTL DEF Spec

\* What the log says of an owed call's start is what the protocol knows of it.
LEMMA EverStartedKnows ==
    ASSUME IInv, XInv, pc \in Attached, NEW c \in CallIds, InSeq(c, mem.proto.pending)
    PROVE  /\ c \in mem.proto.started => EverStarted(c)
           /\ ~ReuseIds => (EverStarted(c) => c \in mem.proto.started)
<1>1. /\ mem.run \in Runs /\ mem.proto = facts[mem.run] /\ mem.log = log[mem.run]
  BY DEF IInv, MemoryIsCurrent, Current, TypeOK, Memory
<1>2. EverStarted(c) <=> StartLogged(mem.run, c)
  BY <1>1 DEF EverStarted, StartLogged
<1>. QED
  BY <1>1, <1>2 DEF XInv, StartsLogged, OnlyStartsLogged

LEMMA InvReconcilable ==
    IInv /\ PInv /\ XInv /\ ~ReuseIds => Reconcilable
<1>. SUFFICES ASSUME IInv, PInv, XInv, ~ReuseIds, pc \in {"reconcile", "reset"}, Owed # <<>>
              PROVE  Allowed(mem.proto, Interrupted(Head(Owed)))
  BY DEF Reconcilable, Recovering
<1>. DEFINE c == Head(Owed)
            p == mem.proto
<1>1. /\ mem.run \in Runs /\ p = facts[mem.run]
  BY InMemory DEF IInv, MemoryIsCurrent, Attached
<1>2. /\ p.results < Len(p.pending) /\ p.pending # <<>>
      /\ c = p.pending[p.results + 1] /\ InSeq(c, p.pending) /\ c \in CallIds
  BY OwedCalls
<1>3. p.user /\ ~p.terminal
  BY <1>1, <1>2 DEF PInv, OwedShape
<1>4. EverStarted(c) <=> c \in p.started
  BY <1>2, EverStartedKnows DEF Attached
<1>5. /\ Interrupted(c).kind = "tool_result" /\ Interrupted(c).calls[1] = c
      /\ Interrupted(c).exec = "not_started" <=> ~EverStarted(c)
  BY DEF Interrupted, Result
<1>. HIDE DEF c, p
<1>6. MayFinish(p, Interrupted(c).calls[1], Interrupted(c).exec)
  BY <1>2, <1>4, <1>5 DEF MayFinish
<1>. QED
  BY <1>3, <1>5, <1>6 DEF Allowed, p, c

\* Recovery never gets stuck: as long as no Provider repeats a call id within a Run,
\* the outcome reconcile_interrupted builds for the first owed call is one the Run's
\* protocol accepts, so an interrupted Run can always be resumed or reset.
THEOREM RecoveryNeverSticks == ~ReloadMayFail /\ ~ReuseIds => (Spec => []Reconcilable)
<1>. SUFFICES ASSUME ~ReloadMayFail, ~ReuseIds PROVE Spec => []Reconcilable
  OBVIOUS
<1>1. IInv /\ PInv /\ XInv => Reconcilable
  BY InvReconcilable
<1>. QED
  BY Executions, <1>1, PTL

\* What a call that ran in a changed workspace is recorded as.
LEMMA EffectsAreTold ==
    ASSUME IInv, XInv, pc \in Attached, Owed # <<>>,
           NEW c, c = Head(Owed), ran[c] > 0, altered
    PROVE  /\ mem.proto.started # {}
           /\ Interrupted(c).effect # "none"
           /\ \A o \in Outcomes(c) : o[2] # "none"
<1>1. mem.run \in Runs /\ mem.proto = facts[mem.run]
  BY DEF IInv, MemoryIsCurrent, Current, TypeOK, Memory
<1>2. InSeq(c, mem.proto.pending) /\ c \in CallIds
  BY OwedCalls
<1>3. c \in mem.proto.started /\ c \notin Observers
  BY <1>1, <1>2 DEF XInv, RanShape
<1>4. EverStarted(c)
  BY <1>2, <1>3, EverStartedKnows
<1>5. c \in Mutators \/ c \in Commands
  BY <1>2, <1>3 DEF Observers
<1>6. Interrupted(c).effect # "none"
  BY <1>4, <1>5, ConstantsAssumption DEF Interrupted, Result, ConstantsAssumption
<1>7. \A o \in Outcomes(c) : o[2] # "none"
  BY <1>5, ConstantsAssumption DEF Outcomes, ConstantsAssumption
<1>. QED
  BY <1>3, <1>6, <1>7

LEMMA StepTellsEffects ==
    ASSUME IInv, PInv, XInv, [Next]_vars, NEW r \in Runs, Settles(r)
    PROVE  LET result == log'[r][Len(log[r]) + 1]
               c == result.calls[1] IN
           ran[c] > 0 /\ altered => result.effect # "none"
<1>1. ASSUME NEW e, NEW next, Fitting(e), pc \in Attached \cup {"create"}, Attempt(e, next)
      PROVE  /\ r = mem.run
             /\ log'[r][Len(log[r]) + 1].kind = e.kind
             /\ log'[r][Len(log[r]) + 1].calls = e.calls
             /\ log'[r][Len(log[r]) + 1].effect = e.effect
  <2>1. /\ mem.run \in Runs
        /\ UNCHANGED <<log, facts>> \/ Wrote(mem.run, e)
    BY <1>1, AttemptOutcomes
  <2>2. log'[r] # log[r]
    BY DEF Settles, IInv, TypeOK
  <2>3. Wrote(mem.run, e) /\ r = mem.run
    BY <1>1, <2>1, <2>2, WroteLine
  <2>. QED  BY <1>1, <2>1, <2>3, WroteLine
<1>2. log'[r][Len(log[r]) + 1].kind = "tool_result" /\ log'[r] # log[r]
  BY DEF Settles, IInv, TypeOK
<1>3. Appends => pc \in Attached \cup {"create"}
  BY AppendsAppend
<1>4. CASE Reconcile
  <2>. DEFINE c == Head(Owed)
  <2>1. Fitting(Interrupted(c)) /\ Owed # <<>> /\ pc \in Attached
        /\ Attempt(Interrupted(c), pc)
    BY <1>4, OwedFits DEF Reconcile, Recovering, Attached
  <2>2. Interrupted(c).calls[1] = c
    BY DEF Interrupted, Result
  <2>. HIDE DEF c
  <2>. QED  BY <1>1, <2>1, <2>2, EffectsAreTold DEF c
<1>5. CASE RejectTool
  <2>. DEFINE c == Head(Owed)
              e == Result(c, "not_started", "none")
  <2>1. Fitting(e) /\ Owed # <<>> /\ pc \in Attached /\ mem.proto.started = {}
        /\ \E next : Attempt(e, next)
    BY <1>5, OwedFits DEF RejectTool, Attached
  <2>2. e.calls[1] = c
    BY DEF Result
  <2>. HIDE DEF c, e
  <2>. QED  BY <1>1, <2>1, <2>2, EffectsAreTold DEF c
<1>6. CASE FinishTool
  <2>. DEFINE c == Head(Owed)
  <2>1. PICK o \in Outcomes(c) : \E next : Attempt(Result(c, o[1], o[2]), next)
    BY <1>6 DEF FinishTool
  <2>2. Fitting(Result(c, o[1], o[2])) /\ Owed # <<>> /\ pc \in Attached
    BY <1>6, OwedFits DEF FinishTool, Attached
  <2>3. Result(c, o[1], o[2]).calls[1] = c /\ Result(c, o[1], o[2]).effect = o[2]
    BY DEF Result
  <2>. HIDE DEF c
  <2>. QED  BY <1>1, <2>1, <2>2, <2>3, EffectsAreTold DEF c
<1>7. CASE Create \/ Announce \/ TakeNote \/ Finish \/ StopReset
  <2>1. \E e, next : Fitting(e) /\ e.kind # "tool_result" /\ Attempt(e, next)
    BY <1>7, PlainFits, EventKinds DEF Create, Announce, TakeNote, Finish, StopReset
  <2>2. FALSE
    BY <1>1, <1>2, <1>3, <1>7, <2>1 DEF Appends
  <2>. QED  BY <2>2
<1>8. CASE ToolTurn \/ StartTool
  <2>1. \E e, next : Fitting(e) /\ e.kind # "tool_result" /\ Attempt(e, next)
    <3>1. CASE ToolTurn
      BY <3>1, ToolTurnFits, EventKinds DEF ToolTurn
    <3>2. CASE StartTool
      <4>. DEFINE k == mem.proto.ordinal + 1
                  c == mem.proto.pending[k]
      <4>0. mem.proto.pending \in Seq(CallIds) /\ mem.proto.ordinal \in Nat
        BY DEF IInv, TypeOK, Memory, Protocol
      <4>3. mem.proto.ordinal < Len(mem.proto.pending)
            /\ Attempt(Started(c), IF k = Len(mem.proto.pending) THEN "run" ELSE "call")
        BY <3>2 DEF StartTool
      <4>1. c \in CallIds /\ \E next : Attempt(Started(c), next)
        BY <4>0, <4>3
      <4>2. Fitting(Started(c)) /\ Started(c).kind = "tool_started"
        BY <4>1, CallFits, EventKinds DEF ExecutionStates, EffectStates
      <4>. HIDE DEF c
      <4>. QED  BY <4>1, <4>2
    <3>. QED  BY <1>8, <3>1, <3>2
  <2>2. FALSE
    BY <1>1, <1>2, <1>3, <1>8, <2>1 DEF Appends
  <2>. QED  BY <2>2
<1>9. CASE ~Appends
  BY <1>2, <1>9 DEF Next, Appends, Boot, Ask, SetPointer, SetPointerRaises, Recover,
       RunTool, Interrupt, ApplyRecovered, Reset, Crash, LoadResumable, ReloadCurrent,
       ReloadRaises, vars, disk
<1>. QED
  BY <1>4, <1>5, <1>6, <1>7, <1>8, <1>9 DEF Appends

\* A Runner runs at most once for a persisted call, and not before its start is durable,
\* over any crashes, failed appends, resumes and resets.
THEOREM CallsRunOnce == ~ReloadMayFail => (Spec => []NoBlindReplay)
<1>. SUFFICES ASSUME ~ReloadMayFail PROVE Spec => []NoBlindReplay
  OBVIOUS
<1>1. IInv /\ XInv => NoBlindReplay
  <2>. SUFFICES ASSUME IInv, XInv, NEW c \in CallIds,
                       NEW r \in Runs, InSeq(c, facts[r].pending), ran[c] > 0
                PROVE  c \in facts[r].started
    BY Zenon DEF NoBlindReplay, XInv, RanShape
  <2>. QED  BY DEF XInv, RanShape
<1>. QED
  BY Executions, <1>1, PTL

\* What a Runner did is in the log: it never runs again for the same call, and never
\* leaves a change behind that its result denies - whether the call returned, raised or
\* was cut by a crash (reconcile_interrupted, ToolRuntime).
THEOREM ExecutionsStayRecorded == ~ReloadMayFail => (Spec => ExecutionsAreRecorded)
<1>. SUFFICES ASSUME ~ReloadMayFail PROVE Spec => ExecutionsAreRecorded
  OBVIOUS
<1>1. IInv /\ PInv /\ XInv /\ [Next]_vars
      => [\A r \in Runs :
             Settles(r) =>
                LET result == log'[r][Len(log[r]) + 1]
                    c == result.calls[1] IN
                ran[c] > 0 /\ altered => result.effect # "none"]_vars
  BY StepTellsEffects
<1>. QED
  BY Executions, CallsRunOnce, <1>1, PTL DEF Spec, ExecutionsAreRecorded, NoSilentEffect
================================================================================
