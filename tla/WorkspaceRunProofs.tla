-------------------------- MODULE WorkspaceRunProofs ---------------------------
(****************************************************************************)
(* Proofs about WorkspaceRun, for any files and contents, any bounds, and   *)
(* without any hypothesis: the edits of the user survive, the evidence can  *)
(* be replayed, no change Pico made is left out of it, and a Run completes  *)
(* only in a state that was verified and over nothing uncertain.            *)
(*                                                                          *)
(* The invariant has three parts, proved one on the other: what the call    *)
(* and the locals are at each place of the process (AInv), the chain of     *)
(* path transitions (ChainInv), and what the gate has seen (GateInv).       *)
(****************************************************************************)
EXTENDS WorkspaceRun, TLAPS

(****************************************************************************)
(* Where the process is, and what it holds there.                           *)
(****************************************************************************)
StartedPCs == {"run", "commit", "replace", "result", "command"}
InCall == {"admit", "plan", "preimage"} \cup StartedPCs

\* A call is pending from its append to its result, whatever happens in between.
CallShape ==
    /\ pc \in InCall => call \in PendingCall
    /\ pc \notin InCall \cup {"down"} => call = NoCall
    /\ pc \in {"admit", "plan", "preimage"} => ~call.started
    /\ pc \in StartedPCs => call.started
    /\ call.started \/ pc = "preimage" => DOMAIN call.before = PotentialPaths(call.args)
    /\ call.started => DOMAIN call.preimage = DOMAIN call.before
    /\ pc \in {"commit", "replace", "result"} => call.args \notin Commands
    /\ pc = "command" => call.args \in Commands

\* A command and a verifier work with the snapshot they started from.
ProbeShape ==
    pc \in {"command", "verify"} =>
        probe.ws \in [Paths -> States] /\ probe.cursor = Cursor(ev)

AInv == TypeOK /\ CallShape /\ ProbeShape

(****************************************************************************)
(* What the records hold.                                                   *)
(****************************************************************************)
Moves == UNION {[S -> Transition] : S \in SUBSET Paths}

\* What may be recorded of a call: nothing, an effect on unknown files, or a
\* transition of some files.
Recordable(side, moves) ==
    \/ side = "none"
    \/ side = "unknown" /\ DOMAIN moves \subseteq Paths
    \/ side \in {"changed", "partial"} /\ moves \in Moves /\ DOMAIN moves # {}

LEMMA PathStatesOf ==
    ASSUME NEW S, S \subseteq Paths, NEW f \in [S -> States]
    PROVE  f \in PathStates
BY DEF PathStates

LEMMA PathStatesAre ==
    ASSUME NEW f \in PathStates
    PROVE  DOMAIN f \subseteq Paths /\ f \in [DOMAIN f -> States]
BY DEF PathStates

LEMMA NoPathsTyped == NoPaths \in PathStates /\ DOMAIN NoPaths = {}
<1>1. NoPaths \in [{} -> States] /\ DOMAIN NoPaths = {}
  BY DEF NoPaths
<1> QED
  BY <1>1, PathStatesOf

\* A structured tool names a file, the content it expects and the new one.
LEMMA CallNames ==
    ASSUME NEW a \in ToolCalls
    PROVE  /\ a \notin Commands => /\ a.path \in Paths /\ a.new \in Contents
                                   /\ Expected(a) \in States /\ PotentialPaths(a) = {a.path}
           /\ a \in Commands => PotentialPaths(a) = {}
           /\ a \in Edits => a.old \in Contents /\ a \notin Commands /\ a \notin Writes
           /\ a \in Writes => a \notin Commands
           /\ a # NoCall.args
BY DEF ToolCalls, Writes, Edits, Commands, Expected, PotentialPaths, States, NoCall

LEMMA PendingIsNotNone == NoCall \notin PendingCall
BY CallNames DEF PendingCall

(****************************************************************************)
(* What recording does to the evidence.                                     *)
(****************************************************************************)
LEMMA EvidenceParts ==
    ASSUME NEW e \in Evidence
    PROVE  /\ e.files \in [DOMAIN e.files -> FileChange] /\ DOMAIN e.files \subseteq Paths
           /\ e.effects \in Seq(Effect) /\ e.checks \subseteq Check
           /\ e.observed \in BOOLEAN /\ e.broken \in BOOLEAN
BY DEF Evidence

LEMMA EvidenceFromParts ==
    ASSUME NEW S, S \subseteq Paths, NEW fs \in [S -> FileChange],
           NEW es \in Seq(Effect), NEW cs, cs \subseteq Check,
           NEW o \in BOOLEAN, NEW b \in BOOLEAN
    PROVE  [files |-> fs, effects |-> es, checks |-> cs, observed |-> o, broken |-> b]
               \in Evidence
<1> DEFINE F == UNION {[T -> FileChange] : T \in SUBSET Paths}
<1>1. fs \in F
  OBVIOUS
<1>2. Evidence = [files : F, effects : Seq(Effect), checks : SUBSET Check,
                  observed : BOOLEAN, broken : BOOLEAN]
  BY DEF Evidence
<1> HIDE DEF F
<1> QED
  BY <1>1, <1>2

LEMMA ChangeTyped ==
    /\ \A c \in FileChange : /\ c.first \in States /\ c.preimage \in States
                             /\ c.current \in States
    /\ \A c \in FileChange, s \in States : [c EXCEPT !.current = s] \in FileChange
    /\ \A r, s, t \in States : [first |-> r, preimage |-> s, current |-> t] \in FileChange
    /\ \A m \in Transition : /\ m.before \in States /\ m.preimage \in States
                             /\ m.after \in States
    /\ \A r, s, t \in States : [before |-> r, preimage |-> s, after |-> t] \in Transition
BY DEF FileChange, Transition

LEMMA MovedTyped ==
    ASSUME NEW e \in Evidence, NEW moves \in Moves
    PROVE  /\ DOMAIN moves \subseteq Paths
           /\ Moved(e.files, moves) \in [DOMAIN e.files \cup DOMAIN moves -> FileChange]
<1>1. DOMAIN moves \subseteq Paths /\ moves \in [DOMAIN moves -> Transition]
  BY DEF Moves
<1>2. e.files \in [DOMAIN e.files -> FileChange]
  BY EvidenceParts
<1>3. ASSUME NEW p \in DOMAIN e.files \cup DOMAIN moves
      PROVE  Moved(e.files, moves)[p] \in FileChange
  <2>1. CASE p \notin DOMAIN moves
    BY <1>2, <2>1 DEF Moved
  <2>2. CASE p \in DOMAIN moves /\ p \in DOMAIN e.files
    <3>1. Moved(e.files, moves)[p] = [e.files[p] EXCEPT !.current = moves[p].after]
      BY <2>2 DEF Moved
    <3> QED
      BY <1>1, <1>2, <2>2, <3>1, ChangeTyped
  <2>3. CASE p \in DOMAIN moves /\ p \notin DOMAIN e.files
    <3>1. Moved(e.files, moves)[p] = [first |-> moves[p].before,
              preimage |-> moves[p].preimage, current |-> moves[p].after]
      BY <2>3 DEF Moved
    <3>2. moves[p] \in Transition
      BY <1>1, <2>3
    <3> QED
      BY <3>1, <3>2, ChangeTyped
  <2> QED
    BY <1>3, <2>1, <2>2, <2>3
<1> QED
  BY <1>1, <1>3 DEF Moved

\* An effect is appended, and where the transitions continue, the files move.
LEMMA RecordedIs ==
    ASSUME NEW e \in Evidence, NEW side, NEW moves, Recordable(side, moves)
    PROVE  /\ Recorded(e, side, moves) \in Evidence
           /\ Recorded(e, side, moves).checks = e.checks
           /\ Recorded(e, side, moves).observed = e.observed
           /\ side = "none" => Recorded(e, side, moves) = e
           /\ side # "none" => Recorded(e, side, moves).effects =
                  Append(e.effects, [side |-> side, paths |-> DOMAIN moves])
           /\ side = "unknown" => /\ Recorded(e, side, moves).files = e.files
                                  /\ Recorded(e, side, moves).broken = e.broken
           /\ side \in {"changed", "partial"} /\ Continues(e.files, moves) =>
                  /\ Recorded(e, side, moves).files = Moved(e.files, moves)
                  /\ Recorded(e, side, moves).broken = e.broken
           /\ side \in {"changed", "partial"} /\ ~Continues(e.files, moves) =>
                  /\ Recorded(e, side, moves).files = e.files
                  /\ Recorded(e, side, moves).broken
<1>e. e = [files |-> e.files, effects |-> e.effects, checks |-> e.checks,
           observed |-> e.observed, broken |-> e.broken]
  BY DEF Evidence
<1>p. /\ e.files \in [DOMAIN e.files -> FileChange] /\ DOMAIN e.files \subseteq Paths
      /\ e.effects \in Seq(Effect) /\ e.checks \subseteq Check
      /\ e.observed \in BOOLEAN /\ e.broken \in BOOLEAN
  BY EvidenceParts
<1> DEFINE F == UNION {[T -> FileChange] : T \in SUBSET Paths}
<1>f. \A S : S \subseteq Paths => \A fs \in [S -> FileChange] : fs \in F
  OBVIOUS
<1>v. Evidence = [files : F, effects : Seq(Effect), checks : SUBSET Check,
                  observed : BOOLEAN, broken : BOOLEAN]
  BY DEF Evidence
<1> HIDE DEF F
<1>h. e.files \in F
  BY <1>f, <1>p
<1> DEFINE x == [side |-> side, paths |-> DOMAIN moves]
           es == Append(e.effects, x)
<1>1. CASE side = "none"
  BY <1>1 DEF Recorded
<1>2. CASE side # "none"
  <2>1. x \in Effect
    <3>1. CASE side = "unknown" /\ DOMAIN moves \subseteq Paths
      BY <3>1 DEF Effect
    <3>2. CASE side \in {"changed", "partial"} /\ moves \in Moves /\ DOMAIN moves # {}
      <4>1. DOMAIN moves \in (SUBSET Paths) \ {{}}
        BY <3>2 DEF Moves
      <4>2. x \in [side : {"changed", "partial"}, paths : (SUBSET Paths) \ {{}}]
        BY <3>2, <4>1
      <4> QED
        BY <4>2 DEF Effect
    <3> QED
      BY <1>2, <3>1, <3>2 DEF Recordable
  <2>2. es \in Seq(Effect)
    BY <2>1, <1>p
  <2> HIDE DEF x
  <2> HIDE DEF es
  <2>3. [e EXCEPT !.effects = Append(@, x)] =
            [files |-> e.files, effects |-> es, checks |-> e.checks,
             observed |-> e.observed, broken |-> e.broken]
    <3>1. [e EXCEPT !.effects = es] =
              [files |-> e.files, effects |-> es, checks |-> e.checks,
               observed |-> e.observed, broken |-> e.broken]
      BY <1>e
    <3>2. [e EXCEPT !.effects = Append(@, x)] = [e EXCEPT !.effects = es]
      BY Zenon DEF es
    <3> QED
      BY <3>1, <3>2, Zenon
  <2>4. CASE side = "unknown"
    <3>1. Recorded(e, side, moves) =
              [files |-> e.files, effects |-> es, checks |-> e.checks,
               observed |-> e.observed, broken |-> e.broken]
      BY <2>3, <2>4 DEF Recorded, x
    <3>2. Recorded(e, side, moves) \in Evidence
      BY <3>1, <1>h, <1>p, <1>v, <2>2
    <3> QED
      BY <3>1, <3>2, <2>4 DEF es, x
  <2>5. CASE side \in {"changed", "partial"} /\ Continues(e.files, moves)
    <3> DEFINE fs == Moved(e.files, moves)
    <3>1. moves \in Moves
      BY <2>5 DEF Recordable
    <3>2. DOMAIN moves \subseteq Paths /\ fs \in [DOMAIN e.files \cup DOMAIN moves -> FileChange]
      BY <3>1, MovedTyped
    <3> HIDE DEF fs
    <3>3. Recorded(e, side, moves) =
              [files |-> fs, effects |-> es, checks |-> e.checks,
               observed |-> e.observed, broken |-> e.broken]
      BY <2>3, <2>5 DEF Recorded, x, fs
    <3>6. fs \in F
      BY <1>f, <1>p, <3>2
    <3>4. Recorded(e, side, moves) \in Evidence
      BY <3>3, <3>6, <1>p, <1>v, <2>2
    <3>5. /\ Recorded(e, side, moves).files = fs
          /\ Recorded(e, side, moves).effects = es
          /\ Recorded(e, side, moves).checks = e.checks
          /\ Recorded(e, side, moves).observed = e.observed
          /\ Recorded(e, side, moves).broken = e.broken
      BY <3>3
    <3> QED
      BY <3>4, <3>5, <2>5, Zenon DEF es, x, fs
  <2>6. CASE side \in {"changed", "partial"} /\ ~Continues(e.files, moves)
    <3>1. Recorded(e, side, moves) =
              [files |-> e.files, effects |-> es, checks |-> e.checks,
               observed |-> e.observed, broken |-> TRUE]
      BY <2>3, <2>6 DEF Recorded, x
    <3>2. Recorded(e, side, moves) \in Evidence
      BY <3>1, <1>h, <1>p, <1>v, <2>2
    <3>3. /\ Recorded(e, side, moves).files = e.files
          /\ Recorded(e, side, moves).effects = es
          /\ Recorded(e, side, moves).checks = e.checks
          /\ Recorded(e, side, moves).observed = e.observed
          /\ Recorded(e, side, moves).broken
      BY <3>1
    <3> QED
      BY <3>2, <3>3, <2>6, Zenon DEF es, x
  <2> QED
    BY <1>2, <2>4, <2>5, <2>6 DEF Recordable
<1> QED
  BY <1>1, <1>2

\* One more effect is one more on the cursor; the earlier ones stay.
LEMMA OneMoreEffect ==
    ASSUME NEW es \in Seq(Effect), NEW x \in Effect
    PROVE  /\ Len(es) \in Nat
           /\ Append(es, x) \in Seq(Effect)
           /\ Len(Append(es, x)) = Len(es) + 1
           /\ Len(Append(es, x)) > Len(es)
           /\ Append(es, x)[Len(es) + 1] = x
           /\ \A i \in DOMAIN es : Append(es, x)[i] = es[i]
           /\ DOMAIN es = 1 .. Len(es)
           /\ DOMAIN Append(es, x) = 1 .. Len(es) + 1
OBVIOUS

\* A verification record replaces an older one of the same cursor and states.
LEMMA VerifiedIs ==
    ASSUME NEW e \in Evidence, NEW c \in Check, NEW changed, changed \subseteq Paths,
           NEW unseen \in BOOLEAN
    PROVE  /\ Verified(e, c, changed, unseen) \in Evidence
           /\ c \in Verified(e, c, changed, unseen).checks
           /\ Verified(e, c, changed, unseen).checks \subseteq e.checks \cup {c}
           /\ Verified(e, c, changed, unseen).files = e.files
           /\ Verified(e, c, changed, unseen).observed = e.observed
           /\ Verified(e, c, changed, unseen).broken = e.broken
<1>e. e = [files |-> e.files, effects |-> e.effects, checks |-> e.checks,
           observed |-> e.observed, broken |-> e.broken]
  BY DEF Evidence
<1>p. /\ e.files \in [DOMAIN e.files -> FileChange] /\ DOMAIN e.files \subseteq Paths
      /\ e.effects \in Seq(Effect) /\ e.checks \subseteq Check
      /\ e.observed \in BOOLEAN /\ e.broken \in BOOLEAN
  BY EvidenceParts
<1> DEFINE others == {d \in e.checks : ~(d.cursor = c.cursor /\ d.started = c.started
                                             /\ d.finished = c.finished)}
           cs == others \cup {c}
           x == [side |-> "unknown", paths |-> changed]
           es == IF unseen \/ changed # {} THEN Append(e.effects, x) ELSE e.effects
<1>1. x \in Effect
  BY DEF Effect
<1>2. cs \subseteq Check /\ cs \subseteq e.checks \cup {c} /\ c \in cs
  BY <1>p
<1> HIDE DEF x
<1>3. es \in Seq(Effect)
  BY <1>1, <1>p
<1>4. Verified(e, c, changed, unseen) =
          [e EXCEPT !.checks = cs,
                    !.effects = IF unseen \/ changed # {} THEN Append(@, x) ELSE @]
  BY DEF Verified, x
<1> HIDE DEF cs
<1>5. Verified(e, c, changed, unseen) =
          [files |-> e.files, effects |-> es, checks |-> cs,
           observed |-> e.observed, broken |-> e.broken]
  BY <1>4, <1>e
<1> HIDE DEF es
<1>6. Verified(e, c, changed, unseen) \in Evidence
  <2>1. PICK fs, S, o, b : /\ fs = e.files /\ S = DOMAIN e.files /\ o = e.observed
                           /\ b = e.broken
    OBVIOUS
  <2>2. [files |-> fs, effects |-> es, checks |-> cs, observed |-> o, broken |-> b]
            \in Evidence
    <3>1. S \subseteq Paths /\ fs \in [S -> FileChange] /\ o \in BOOLEAN /\ b \in BOOLEAN
      BY <1>p, <2>1
    <3>2. cs \subseteq Check
      BY <1>2
    <3> QED
      BY <1>3, <3>1, <3>2, EvidenceFromParts
  <2> QED
    BY <1>5, <2>1, <2>2
<1> DEFINE v == Verified(e, c, changed, unseen)
<1>7. /\ v.files = e.files /\ v.checks = cs /\ v.observed = e.observed
      /\ v.broken = e.broken
  BY <1>5
<1> QED
  BY <1>2, <1>6, <1>7

\* A verifier that changed the repository, or after which nobody knows, leaves an
\* unknown effect.
LEMMA VerifiedGrows ==
    ASSUME NEW e \in Evidence, NEW c, NEW changed, NEW unseen, unseen \/ changed # {}
    PROVE  Verified(e, c, changed, unseen).effects =
               Append(e.effects, [side |-> "unknown", paths |-> changed])
BY DEF Verified, Evidence

LEMMA VerifiedStays ==
    ASSUME NEW e \in Evidence, NEW c, NEW changed, NEW unseen, ~(unseen \/ changed # {})
    PROVE  Verified(e, c, changed, unseen).effects = e.effects
BY DEF Verified, Evidence

(****************************************************************************)
(* The steps.  A step of a tool transaction goes on, or it settles the      *)
(* call: refused with nothing changed, interrupted with what can be         *)
(* detected on its declared paths, finished, or with an outcome nobody      *)
(* knows.                                                                   *)
(****************************************************************************)
PlanGoesOn == Plan /\ pc' = "preimage"
StartGoesOn == Start /\ pc' = "run"
StageGoesOn == Stage /\ pc' = "commit"
GuardGoesOn == Guard /\ pc' = "replace"
CommandGoesOn == RunCommand /\ pc' = "command"
ResumeGoesOn == Resume /\ call = NoCall

Refused ==
    /\ call \in PendingCall
    /\ \/ pc \in {"admit", "plan", "preimage"} /\ ~call.started
       \/ pc \in {"run", "commit"} /\ call.started
       \/ pc = "command" /\ call.started /\ Changes = {}
       \/ pc = "down" /\ ~call.started
    /\ FinishUnchanged

Interrupted ==
    /\ call \in PendingCall /\ call.started /\ call.args \notin Commands
    /\ pc \in {"run", "commit", "down"}
    /\ FinishCall(IF Detected # NoPaths THEN "partial" ELSE "none", Detected)

OutcomeLost ==
    /\ call \in PendingCall /\ call.started /\ call.args \in Commands
    /\ pc \in {"command", "down"}
    /\ FinishCall("unknown", NoPaths)

LEMMA Steps ==
    ASSUME AInv, Next
    PROVE  \/ UserEdit \/ Observe \/ CallTool \/ Admit \/ PlanGoesOn \/ StartGoesOn
           \/ StageGoesOn \/ GuardGoesOn \/ Replace \/ CommandGoesOn \/ ProcessWrites
           \/ Refused \/ Interrupted \/ OutcomeLost \/ Finish
           \/ SubmitFinal \/ ReuseOrVerify \/ VerifierEnds \/ Recheck \/ Render \/ Deliver
           \/ Stop \/ Crash \/ ResumeGoesOn
<1> USE DEF AInv
<1>p. pc \in InCall => call \in PendingCall
  BY DEF CallShape
<1>n. ASSUME call \in PendingCall, call.started, call.args \in Commands
      PROVE  Detected = NoPaths
  <2>1. call.args \in ToolCalls
    BY <1>n DEF PendingCall
  <2>2. DOMAIN call.before = {}
    BY <1>n, <2>1, CallNames DEF CallShape
  <2>3. {q \in DOMAIN call.before : ws[q] # call.before[q]} = {}
    BY <2>2
  <2> QED
    BY <2>3 DEF Detected, NoPaths
<1>u. ASSUME call \in PendingCall, call.started, FinishUncertain,
             \/ pc \in {"run", "commit", "down"} /\ call.args \notin Commands
             \/ pc \in {"command", "down"} /\ call.args \in Commands
      PROVE  Interrupted \/ OutcomeLost
  <2>1. CASE call.args \in Commands
    <3>1. Detected = NoPaths
      BY <1>n, <1>u, <2>1
    <3>2. FinishCall("unknown", NoPaths)
      BY <1>u, <2>1, <3>1 DEF FinishUncertain
    <3> QED
      BY <1>u, <2>1, <3>2 DEF OutcomeLost
  <2>2. CASE call.args \notin Commands
    BY <1>u, <2>2 DEF Interrupted, FinishUncertain
  <2> QED
    BY <2>1, <2>2
<1>1. CASE Reject
  BY <1>1, <1>p DEF Reject, Refused, InCall, CallShape
<1>2. CASE Plan
  BY <1>2, <1>p DEF Plan, PlanGoesOn, Refused, InCall, CallShape
<1>3. CASE Start
  BY <1>3, <1>p DEF Start, StartGoesOn, Refused, InCall, CallShape
<1>4. CASE Stage
  BY <1>4, <1>p DEF Stage, StageGoesOn, Refused, InCall, StartedPCs, CallShape
<1>5. CASE Guard
  BY <1>5, <1>p DEF Guard, GuardGoesOn, Refused, InCall, StartedPCs, CallShape
<1>6. CASE RunnerRaises
  <2>1. call \in PendingCall /\ call.started
    BY <1>6, <1>p DEF RunnerRaises, InCall, StartedPCs, CallShape
  <2>2. pc = "command" => call.args \in Commands
    BY DEF CallShape
  <2> QED
    BY <1>6, <1>u, <2>1, <2>2 DEF RunnerRaises
<1>7. CASE RunCommand
  BY <1>7, <1>p DEF RunCommand, CommandGoesOn, Refused, InCall, StartedPCs, CallShape
<1>8. CASE CommandEnds
  BY <1>8, <1>p DEF CommandEnds, OutcomeLost, Refused, InCall, StartedPCs, CallShape
<1>9. CASE Resume
  <2>1. call # NoCall => call \in PendingCall
    BY DEF TypeOK
  <2> QED
    BY <1>9, <1>u, <2>1 DEF Resume, ResumeGoesOn, Refused
<1> QED
  BY <1>1, <1>2, <1>3, <1>4, <1>5, <1>6, <1>7, <1>8, <1>9 DEF Next

\* What a call is when it is first asked for, planned and started.
LEMMA CallParts ==
    /\ \A a \in ToolCalls :
           /\ [NoCall EXCEPT !.args = a] =
                  [args |-> a, started |-> FALSE, before |-> NoPaths, preimage |-> NoPaths]
           /\ [NoCall EXCEPT !.args = a] \in PendingCall
    /\ \A c \in PendingCall :
           /\ c.args \in ToolCalls /\ c.started \in BOOLEAN
           /\ c.before \in PathStates /\ c.preimage \in PathStates
           /\ \A b \in PathStates : [c EXCEPT !.before = b] =
                  [args |-> c.args, started |-> c.started, before |-> b,
                   preimage |-> c.preimage]
           /\ \A b \in PathStates : [c EXCEPT !.started = TRUE, !.preimage = b] =
                  [args |-> c.args, started |-> TRUE, before |-> c.before, preimage |-> b]
           /\ \A b \in PathStates : [c EXCEPT !.before = b] \in PendingCall
           /\ \A b \in PathStates :
                  [c EXCEPT !.started = TRUE, !.preimage = b] \in PendingCall
<1>1. ASSUME NEW a \in ToolCalls
      PROVE  /\ [NoCall EXCEPT !.args = a] =
                    [args |-> a, started |-> FALSE, before |-> NoPaths, preimage |-> NoPaths]
             /\ [NoCall EXCEPT !.args = a] \in PendingCall
  <2>1. [NoCall EXCEPT !.args = a] =
            [args |-> a, started |-> FALSE, before |-> NoPaths, preimage |-> NoPaths]
    <3>1. PICK f, old, r : /\ f = FALSE /\ old = [tool |-> "none"]
                           /\ r = [args |-> old, started |-> f, before |-> NoPaths,
                                   preimage |-> NoPaths]
      OBVIOUS
    <3>2. NoCall = r
      BY <3>1 DEF NoCall
    <3>3. [r EXCEPT !.args = a] =
              [args |-> a, started |-> f, before |-> NoPaths, preimage |-> NoPaths]
      BY <3>1
    <3> QED
      BY <3>1, <3>2, <3>3
  <2> QED
    BY <2>1, NoPathsTyped DEF PendingCall
<1>2. ASSUME NEW c \in PendingCall
      PROVE  /\ c.args \in ToolCalls /\ c.started \in BOOLEAN
             /\ c.before \in PathStates /\ c.preimage \in PathStates
             /\ c = [args |-> c.args, started |-> c.started, before |-> c.before,
                     preimage |-> c.preimage]
  BY DEF PendingCall
<1>3. ASSUME NEW c \in PendingCall, NEW b \in PathStates
      PROVE  /\ [c EXCEPT !.before = b] = [args |-> c.args, started |-> c.started,
                                           before |-> b, preimage |-> c.preimage]
             /\ [c EXCEPT !.before = b] \in PendingCall
  <2>1. [c EXCEPT !.before = b] = [args |-> c.args, started |-> c.started, before |-> b,
                                   preimage |-> c.preimage]
    BY <1>2
  <2> QED
    BY <1>2, <2>1 DEF PendingCall
<1>4. ASSUME NEW c \in PendingCall, NEW b \in PathStates
      PROVE  /\ [c EXCEPT !.started = TRUE, !.preimage = b] =
                    [args |-> c.args, started |-> TRUE, before |-> c.before, preimage |-> b]
             /\ [c EXCEPT !.started = TRUE, !.preimage = b] \in PendingCall
  <2>1. [c EXCEPT !.started = TRUE, !.preimage = b] =
            [args |-> c.args, started |-> TRUE, before |-> c.before, preimage |-> b]
    <3>1. PICK a, s, w, v, y : /\ a = c.args /\ s = c.started /\ w = c.before
                               /\ v = c.preimage /\ y = TRUE
      OBVIOUS
    <3>2. c = [args |-> a, started |-> s, before |-> w, preimage |-> v]
      BY <1>2, <3>1
    <3>3. [c EXCEPT !.started = y, !.preimage = b] =
              [args |-> a, started |-> y, before |-> w, preimage |-> b]
      <4>1. PICK d : d = [args |-> a, started |-> y, before |-> w, preimage |-> v]
        OBVIOUS
      <4>2. [c EXCEPT !.started = y] = d
        BY <3>2, <4>1
      <4>3. [d EXCEPT !.preimage = b] =
                [args |-> a, started |-> y, before |-> w, preimage |-> b]
        BY <4>1
      <4> QED
        BY <4>2, <4>3
    <3> QED
      BY <3>1, <3>3
  <2> QED
    BY <1>2, <2>1 DEF PendingCall
<1> QED
  BY <1>1, <1>2, <1>3, <1>4

LEMMA StatesNow ==
    ASSUME NEW w \in [Paths -> States], NEW S, S \subseteq Paths
    PROVE  [p \in S |-> w[p]] \in PathStates
BY PathStatesOf

\* What can be detected is a set of transitions of the declared paths.
LEMMA DetectedTyped ==
    ASSUME TypeOK, call \in PendingCall, call.started,
           DOMAIN call.preimage = DOMAIN call.before
    PROVE  /\ DOMAIN Detected = {q \in DOMAIN call.before : ws[q] # call.before[q]}
           /\ Detected \in Moves
           /\ Detected # NoPaths <=> DOMAIN Detected # {}
           /\ Recordable(IF Detected # NoPaths THEN "partial" ELSE "none", Detected)
<1> DEFINE D == {q \in DOMAIN call.before : ws[q] # call.before[q]}
<1>1. /\ DOMAIN call.before \subseteq Paths /\ call.before \in [DOMAIN call.before -> States]
      /\ call.preimage \in [DOMAIN call.before -> States]
  BY CallParts, PathStatesAre
<1>2. ws \in [Paths -> States]
  BY DEF TypeOK
<1>3. ASSUME NEW p \in D
      PROVE  [before |-> call.before[p], preimage |-> call.preimage[p], after |-> ws[p]]
                 \in Transition
  <2>1. call.before[p] \in States /\ call.preimage[p] \in States /\ ws[p] \in States
    BY <1>1, <1>2
  <2> QED
    BY <2>1, ChangeTyped
<1>4. Detected \in [D -> Transition] /\ DOMAIN Detected = D
  BY <1>3 DEF Detected
<1>5. D \in SUBSET Paths
  BY <1>1
<1>6. Detected \in Moves
  BY <1>4, <1>5 DEF Moves
<1>7. D = {} => Detected = NoPaths
  BY DEF Detected, NoPaths
<1>8. Detected = NoPaths => D = {}
  BY <1>4, NoPathsTyped
<1> QED
  BY <1>4, <1>6, <1>7, <1>8 DEF Recordable

LEMMA FinishTyped ==
    ASSUME AInv, pc = "result"
    PROVE  LET a == call.args
               moves == [p \in {a.path} |-> [before |-> Expected(a),
                                             preimage |-> call.preimage[p],
                                             after |-> a.new]]
           IN  /\ a \in ToolCalls /\ a.path \in Paths /\ DOMAIN moves = {a.path}
               /\ moves \in Moves /\ Recordable("changed", moves)
<1> USE DEF AInv
<1> DEFINE a == call.args
           moves == [p \in {a.path} |-> [before |-> Expected(a),
                                         preimage |-> call.preimage[p], after |-> a.new]]
<1>1. call \in PendingCall /\ call.started /\ a \in ToolCalls /\ a \notin Commands
  BY CallParts DEF CallShape, InCall, StartedPCs
<1>2. a.path \in Paths /\ a.new \in States /\ Expected(a) \in States
  BY <1>1, CallNames DEF States
<1>3. DOMAIN call.preimage = {a.path} /\ call.preimage \in [DOMAIN call.preimage -> States]
  BY <1>1, CallNames, CallParts, PathStatesAre DEF CallShape
<1>4. call.preimage[a.path] \in States
  BY <1>3
<1>5. [before |-> Expected(a), preimage |-> call.preimage[a.path], after |-> a.new]
          \in Transition
  BY <1>2, <1>4, ChangeTyped
<1>6. moves \in [{a.path} -> Transition] /\ DOMAIN moves = {a.path}
  BY <1>5
<1>7. {a.path} \in SUBSET Paths
  BY <1>2
<1>8. moves \in Moves
  BY <1>6, <1>7 DEF Moves
<1>9. DOMAIN moves # {}
  BY <1>6
<1> HIDE DEF moves
<1>10. Recordable("changed", moves)
  BY <1>8, <1>9 DEF Recordable
<1> QED
  BY <1>1, <1>2, <1>6, <1>8, <1>10, Zenon DEF moves

(****************************************************************************)
(* Types and shapes.                                                        *)
(****************************************************************************)
LEMMA StillUnaccountedTyped ==
    ASSUME TypeOK, NEW S
    PROVE  /\ StillUnaccounted(S) \in PathStates
           /\ DOMAIN StillUnaccounted(S) =
                  {q \in DOMAIN unaccounted \ S : ws[q] # unaccounted[q]}
<1>1. DOMAIN unaccounted \subseteq Paths /\ unaccounted \in [DOMAIN unaccounted -> States]
  BY PathStatesAre DEF TypeOK
<1> DEFINE D == {q \in DOMAIN unaccounted \ S : ws[q] # unaccounted[q]}
<1>2. D \subseteq Paths /\ D \subseteq DOMAIN unaccounted
  BY <1>1
<1>3. StillUnaccounted(S) = [p \in D |-> unaccounted[p]]
  BY DEF StillUnaccounted
<1>4. [p \in D |-> unaccounted[p]] \in [D -> States]
  BY <1>1, <1>2
<1> QED
  BY <1>2, <1>3, <1>4, PathStatesOf

LEMMA NowUnaccountedTyped ==
    ASSUME TypeOK, NEW p \in Paths, NEW b \in [Paths -> States]
    PROVE  NowUnaccounted(p, b) \in PathStates
<1>1. DOMAIN unaccounted \subseteq Paths /\ unaccounted \in [DOMAIN unaccounted -> States]
  BY PathStatesAre DEF TypeOK
<1>2. DOMAIN unaccounted \cup {p} \subseteq Paths
  BY <1>1
<1>3. NowUnaccounted(p, b) \in [DOMAIN unaccounted \cup {p} -> States]
  BY <1>1, <1>2 DEF NowUnaccounted
<1> QED
  BY <1>2, <1>3, PathStatesOf

\* However a call is settled, nothing of it is left.
LEMMA SettlingKeepsShape ==
    ASSUME AInv, call \in PendingCall, NEW side, NEW moves, Recordable(side, moves),
           FinishCall(side, moves)
    PROVE  AInv'
<1> USE DEF AInv
<1>1. Recorded(ev, side, moves) \in Evidence
  BY RecordedIs DEF TypeOK
<1>2. ev' \in Evidence
  BY <1>1 DEF FinishCall
<1>3. pc' \in {"loop", "poisoned"} /\ call' = NoCall /\ probe' = NoProbe
  BY DEF FinishCall
<1>4. NoProbe \in [ws : PathStates, cursor : Nat]
  BY NoPathsTyped DEF NoProbe
<1>5. repeats' \subseteq ToolCalls
  BY CallParts DEF FinishCall, TypeOK
<1>6. unaccounted' \in PathStates
  BY StillUnaccountedTyped, NoPathsTyped DEF FinishCall
<1>7. UNCHANGED <<contract, ws, status, delivered, seen, lost, odd, edits, crashes>>
  BY DEF FinishCall
<1>8. TypeOK'
  BY <1>2, <1>3, <1>4, <1>5, <1>6, <1>7 DEF TypeOK, PCs
<1>9. ~NoCall.started
  BY DEF NoCall
<1>10. CallShape' /\ ProbeShape'
  BY <1>3, <1>9 DEF CallShape, ProbeShape, InCall, StartedPCs
<1> QED
  BY <1>8, <1>10

LEMMA SettlesWell ==
    ASSUME AInv, Refused \/ Interrupted \/ OutcomeLost \/ Finish
    PROVE  \E side, moves :
               /\ Recordable(side, moves) /\ FinishCall(side, moves)
               /\ call \in PendingCall
<1> USE DEF AInv
<1>1. CASE Refused
  BY <1>1 DEF Refused, FinishUnchanged, Recordable
<1>2. CASE Interrupted
  <2>1. DOMAIN call.preimage = DOMAIN call.before
    BY <1>2 DEF Interrupted, CallShape
  <2> QED
    BY <1>2, <2>1, DetectedTyped DEF Interrupted
<1>3. CASE OutcomeLost
  BY <1>3, NoPathsTyped DEF OutcomeLost, Recordable
<1>4. CASE Finish
  <2>1. pc = "result" /\ call \in PendingCall
    BY <1>4 DEF Finish, CallShape, InCall, StartedPCs
  <2> QED
    BY <1>4, <2>1, FinishTyped DEF Finish
<1> QED
  BY <1>1, <1>2, <1>3, <1>4

LEMMA SettledKeepsShape ==
    ASSUME AInv, Refused \/ Interrupted \/ OutcomeLost \/ Finish
    PROVE  AInv'
BY SettlesWell, SettlingKeepsShape

\* A file is given a state.
LEMMA PutTyped ==
    ASSUME TypeOK, NEW p \in Paths, NEW s \in States, Put(p, s)
    PROVE  ws' \in [Paths -> States] /\ seen' \in [Paths -> SUBSET States]
BY DEF TypeOK, Put

LEMMA AInvInit == Init => AInv
<1> SUFFICES ASSUME Init
             PROVE  AInv
  OBVIOUS
<1>1. EmptyEvidence \in Evidence
  <2>1. [p \in {} |-> Absent] \in [{} -> FileChange] /\ <<>> \in Seq(Effect)
    OBVIOUS
  <2> QED
    BY <2>1, EvidenceFromParts DEF EmptyEvidence
<1>2. NoProbe \in [ws : PathStates, cursor : Nat]
  BY NoPathsTyped DEF NoProbe
<1>3. seen \in [Paths -> SUBSET States]
  BY DEF Init
<1>4. TypeOK
  BY <1>1, <1>2, <1>3, NoPathsTyped DEF Init, TypeOK, PCs
<1>5. CallShape /\ ProbeShape
  BY DEF Init, CallShape, ProbeShape, InCall, StartedPCs, NoCall
<1> QED
  BY <1>4, <1>5 DEF AInv

\* The steps of a tool transaction that go on.
LEMMA ToolKeepsShape ==
    ASSUME AInv,
           CallTool \/ Admit \/ PlanGoesOn \/ StartGoesOn \/ StageGoesOn \/ GuardGoesOn
           \/ Replace
    PROVE  AInv'
<1> USE DEF AInv
<1>1. CASE CallTool
  <2>1. PICK a \in ToolCalls : call' = [NoCall EXCEPT !.args = a]
    BY <1>1 DEF CallTool
  <2>2. call' = [args |-> a, started |-> FALSE, before |-> NoPaths, preimage |-> NoPaths]
        /\ call' \in PendingCall
    BY <2>1, CallParts
  <2>3. pc' = "admit" /\ UNCHANGED <<contract, ws, ev, memory, status, delivered, history,
                                     edits, crashes>>
    BY <1>1 DEF CallTool
  <2>4. TypeOK'
    BY <2>2, <2>3 DEF TypeOK, PCs, memory, history
  <2>5. CallShape' /\ ProbeShape'
    BY <2>2, <2>3 DEF CallShape, ProbeShape, InCall, StartedPCs
  <2> QED
    BY <2>4, <2>5
<1>2. CASE Admit
  <2>1. TypeOK'
    BY <1>2 DEF Admit, TypeOK, PCs, memory, history
  <2>2. CallShape' /\ ProbeShape'
    BY <1>2 DEF Admit, CallShape, ProbeShape, InCall, StartedPCs, memory
  <2> QED
    BY <2>1, <2>2
<1>3. CASE PlanGoesOn
  <2> DEFINE b == [p \in PotentialPaths(call.args) |-> ws[p]]
  <2>1. call \in PendingCall /\ ~call.started /\ call.args \in ToolCalls
    BY <1>3, CallParts DEF PlanGoesOn, Plan, CallShape, InCall
  <2>2. PotentialPaths(call.args) \subseteq Paths
    BY <2>1, CallNames
  <2>3. b \in PathStates /\ DOMAIN b = PotentialPaths(call.args)
    BY <2>2, StatesNow DEF TypeOK
  <2>4. /\ call' = [call EXCEPT !.before = b]
        /\ UNCHANGED <<contract, ws, ev, memory, status, delivered, history, edits, crashes>>
        /\ pc' = "preimage"
    BY <1>3 DEF PlanGoesOn, Plan, FinishUnchanged, FinishCall
  <2> HIDE DEF b
  <2>5. call' = [args |-> call.args, started |-> call.started, before |-> b,
                 preimage |-> call.preimage] /\ call' \in PendingCall
    BY <2>1, <2>3, <2>4, CallParts
  <2>6. TypeOK'
    BY <2>4, <2>5 DEF TypeOK, PCs, memory, history
  <2>7. CallShape' /\ ProbeShape'
    BY <2>1, <2>3, <2>4, <2>5 DEF CallShape, ProbeShape, InCall, StartedPCs
  <2> QED
    BY <2>6, <2>7
<1>4. CASE StartGoesOn
  <2>1. call \in PendingCall /\ pc = "preimage"
    BY <1>4 DEF StartGoesOn, Start, CallShape, InCall
  <2>2. DOMAIN call.before \subseteq Paths /\ DOMAIN call.before = PotentialPaths(call.args)
    BY <2>1, CallParts, PathStatesAre DEF CallShape
  <2>3. Preimages \in [DOMAIN call.before -> States]
    BY <2>2 DEF Preimages, TypeOK, States
  <2>4. Preimages \in PathStates /\ DOMAIN Preimages = DOMAIN call.before
    BY <2>2, <2>3, PathStatesOf
  <2>5. /\ call' = [call EXCEPT !.started = TRUE, !.preimage = Preimages]
        /\ UNCHANGED <<contract, ws, ev, memory, status, delivered, history, edits, crashes>>
        /\ pc' = "run"
    BY <1>4 DEF StartGoesOn, Start, FinishUnchanged, FinishCall
  <2>6. call' = [args |-> call.args, started |-> TRUE, before |-> call.before,
                 preimage |-> Preimages] /\ call' \in PendingCall
    BY <2>1, <2>4, <2>5, CallParts
  <2>7. TypeOK'
    BY <2>5, <2>6 DEF TypeOK, PCs, memory, history
  <2>8. CallShape' /\ ProbeShape'
    BY <2>2, <2>4, <2>5, <2>6 DEF CallShape, ProbeShape, InCall, StartedPCs
  <2> QED
    BY <2>7, <2>8
<1>5. CASE StageGoesOn
  <2>1. /\ pc = "run" /\ call.args \notin Commands /\ pc' = "commit"
        /\ UNCHANGED <<contract, ws, ev, call, memory, status, delivered, history,
                       edits, crashes>>
    BY <1>5 DEF StageGoesOn, Stage, FinishUnchanged, FinishCall
  <2>2. TypeOK'
    BY <2>1 DEF TypeOK, PCs, memory, history
  <2>3. CallShape' /\ ProbeShape'
    BY <2>1 DEF CallShape, ProbeShape, InCall, StartedPCs, memory
  <2> QED
    BY <2>2, <2>3
<1>6. CASE GuardGoesOn
  <2>1. /\ pc = "commit" /\ pc' = "replace"
        /\ UNCHANGED <<contract, ws, ev, call, memory, status, delivered, history,
                       edits, crashes>>
    BY <1>6 DEF GuardGoesOn, Guard, FinishUnchanged, FinishCall
  <2>2. TypeOK'
    BY <2>1 DEF TypeOK, PCs, memory, history
  <2>3. CallShape' /\ ProbeShape'
    BY <2>1 DEF CallShape, ProbeShape, InCall, StartedPCs, memory
  <2> QED
    BY <2>2, <2>3
<1>7. CASE Replace
  <2>1. call \in PendingCall /\ call.args \in ToolCalls /\ call.args \notin Commands
    BY <1>7, CallParts DEF Replace, CallShape, InCall, StartedPCs
  <2>2. call.args.path \in Paths /\ call.args.new \in States
    BY <2>1, CallNames DEF States
  <2>3. ws' \in [Paths -> States] /\ seen' \in [Paths -> SUBSET States]
    BY <1>7, <2>2, PutTyped DEF Replace
  <2>4. unaccounted' \in PathStates
    BY <1>7, <2>2, NowUnaccountedTyped DEF Replace, TypeOK
  <2>5. lost' \in BOOLEAN
    BY <1>7 DEF Replace
  <2>6. /\ pc = "replace" /\ pc' = "result"
        /\ UNCHANGED <<contract, ev, call, memory, status, delivered, odd, edits, crashes>>
    BY <1>7 DEF Replace
  <2>7. TypeOK'
    BY <2>3, <2>4, <2>5, <2>6 DEF TypeOK, PCs, memory
  <2>8. CallShape' /\ ProbeShape'
    BY <2>6 DEF CallShape, ProbeShape, InCall, StartedPCs, memory
  <2> QED
    BY <2>7, <2>8
<1> QED
  BY <1>1, <1>2, <1>3, <1>4, <1>5, <1>6, <1>7

LEMMA CapturedTyped ==
    ASSUME TypeOK
    PROVE  /\ NetChangedPaths(ev) \subseteq Paths
           /\ Captured \in PathStates
           /\ \A w \in [Paths -> States] : [p \in NetChangedPaths(ev) |-> w[p]] \in PathStates
<1>1. DOMAIN ev.files \subseteq Paths
  BY EvidenceParts DEF TypeOK
<1>2. NetChangedPaths(ev) \subseteq Paths
  BY <1>1 DEF NetChangedPaths
<1> QED
  BY <1>2, StatesNow DEF Captured, TypeOK

\* The user, a command and a verifier only write files.
LEMMA OthersKeepShape ==
    ASSUME AInv, UserEdit \/ ProcessWrites \/ CommandGoesOn
    PROVE  AInv'
<1> USE DEF AInv
<1>1. CASE UserEdit
  <2>1. PICK p \in Paths, s \in States :
            /\ Put(p, s)
            /\ odd' = odd \cup
                 (IF pc \in {"preimage", "replace", "check", "deliver"} THEN {"raced"} ELSE {})
                 \cup (IF s \in seen[p] /\ pc \notin {"loop", "down"} THEN {"undone"} ELSE {})
    BY <1>1 DEF UserEdit
  <2>2. ws' \in [Paths -> States] /\ seen' \in [Paths -> SUBSET States]
    BY <2>1, PutTyped
  <2>3. odd' \subseteq {"raced", "undone", "cut"}
    BY <2>1 DEF TypeOK
  <2>4. edits' \in Nat
    BY <1>1 DEF UserEdit, TypeOK
  <2>5. UNCHANGED <<contract, ev, call, pc, memory, status, delivered, lost,
                    unaccounted, crashes>>
    BY <1>1 DEF UserEdit
  <2>6. TypeOK'
    BY <2>2, <2>3, <2>4, <2>5 DEF TypeOK, memory
  <2>7. CallShape' /\ ProbeShape'
    BY <2>5 DEF CallShape, ProbeShape, memory
  <2> QED
    BY <2>6, <2>7
<1>2. CASE ProcessWrites
  <2>1. PICK p \in Paths, s \in States :
            Put(p, s) /\ unaccounted' = NowUnaccounted(p, probe.ws)
    BY <1>2 DEF ProcessWrites
  <2>2. ws' \in [Paths -> States] /\ seen' \in [Paths -> SUBSET States]
    BY <2>1, PutTyped
  <2>3. unaccounted' \in PathStates
    BY <1>2, <2>1, NowUnaccountedTyped DEF ProcessWrites, ProbeShape
  <2>4. UNCHANGED <<contract, ev, call, pc, memory, status, delivered, lost, odd,
                    edits, crashes>>
    BY <1>2 DEF ProcessWrites
  <2>5. TypeOK'
    BY <2>2, <2>3, <2>4 DEF TypeOK, memory
  <2>6. CallShape' /\ ProbeShape'
    BY <2>4 DEF CallShape, ProbeShape, memory
  <2> QED
    BY <2>5, <2>6
<1>3. CASE CommandGoesOn
  <2>1. /\ pc = "run" /\ call.args \in Commands /\ pc' = "command"
        /\ probe' = [ws |-> ws, cursor |-> Cursor(ev)]
        /\ UNCHANGED <<contract, ws, ev, call, repeats, status, delivered, history,
                       edits, crashes>>
    BY <1>3 DEF CommandGoesOn, RunCommand, FinishUnchanged, FinishCall
  <2>2. ws \in PathStates /\ Cursor(ev) \in Nat
    BY PathStatesOf, EvidenceParts DEF TypeOK, Cursor
  <2>3. TypeOK'
    BY <2>1, <2>2 DEF TypeOK, PCs, history
  <2>4. CallShape' /\ ProbeShape'
    BY <2>1 DEF CallShape, ProbeShape, InCall, StartedPCs, TypeOK
  <2> QED
    BY <2>3, <2>4
<1> QED
  BY <1>1, <1>2, <1>3

\* What the evidence is after a mark of observation or of a raising terminal event.
LEMMA EvidenceMarked ==
    ASSUME NEW e \in Evidence, NEW b \in BOOLEAN, NEW x,
           x = [e EXCEPT !.observed = b] \/ x = [e EXCEPT !.broken = b]
    PROVE  /\ x \in Evidence
           /\ x.files = e.files /\ x.effects = e.effects /\ x.checks = e.checks
           /\ x = [e EXCEPT !.observed = b] => x.broken = e.broken
           /\ x = [e EXCEPT !.broken = b] => x.broken = b /\ x.observed = e.observed
BY DEF Evidence

\* The record of a verifier.
LEMMA VerdictTyped ==
    ASSUME AInv, pc = "verify", NEW verdict \in {"passed", "failed", "infrastructure_error"}
    PROVE  [status |-> verdict, cursor |-> probe.cursor,
            started |-> [p \in NetChangedPaths(ev) |-> probe.ws[p]],
            finished |-> Captured] \in Check
<1>1. probe.ws \in [Paths -> States] /\ probe.cursor \in Nat
  BY DEF AInv, ProbeShape, TypeOK
<1>2. [p \in NetChangedPaths(ev) |-> probe.ws[p]] \in PathStates /\ Captured \in PathStates
  BY <1>1, CapturedTyped DEF AInv
<1> QED
  BY <1>1, <1>2 DEF Check

LEMMA VerifierSteps ==
    ASSUME AInv, VerifierEnds
    PROVE  /\ pc = "verify" /\ pc' = "recheck"
           /\ UNCHANGED <<contract, ws, call, memory, status, delivered, seen, lost, odd,
                          edits, crashes>>
           /\ unaccounted' = IF Cursor(ev') > Cursor(ev) THEN NoPaths ELSE StillUnaccounted({})
           /\ \E c \in Check, changed \in SUBSET Paths, unseen \in BOOLEAN :
                  /\ ev' = Verified(ev, c, changed, unseen)
                  /\ c.cursor = probe.cursor
                  /\ c.started = [p \in NetChangedPaths(ev) |-> probe.ws[p]]
                  /\ c.finished = Captured
                  /\ changed = IF unseen THEN {} ELSE Changes
                  /\ unseen \/ Changes # {} => c.status # "passed"
<1> USE DEF AInv
<1>1. /\ pc = "verify" /\ pc' = "recheck"
      /\ UNCHANGED <<contract, ws, call, memory, status, delivered, seen, lost, odd,
                     edits, crashes>>
      /\ unaccounted' = IF Cursor(ev') > Cursor(ev) THEN NoPaths ELSE StillUnaccounted({})
  BY DEF VerifierEnds
<1> DEFINE record(verdict) == [status |-> verdict, cursor |-> probe.cursor,
                               started |-> [p \in NetChangedPaths(ev) |-> probe.ws[p]],
                               finished |-> Captured]
<1>2. PICK verdict \in {"passed", "failed", "infrastructure_error"}, unseen \in BOOLEAN :
          /\ unseen => verdict = "infrastructure_error"
          /\ Changes # {} => verdict # "passed"
          /\ ev' = Verified(ev, record(verdict), IF unseen THEN {} ELSE Changes, unseen)
  BY DEF VerifierEnds
<1>3. PICK c : c = record(verdict)
  OBVIOUS
<1>4. c \in Check
  BY <1>1, <1>3, VerdictTyped
<1>5. /\ c.status = verdict /\ c.cursor = probe.cursor
      /\ c.started = [p \in NetChangedPaths(ev) |-> probe.ws[p]] /\ c.finished = Captured
  BY <1>3
<1>6. PICK changed : changed = IF unseen THEN {} ELSE Changes
  OBVIOUS
<1>7. changed \in SUBSET Paths
  BY <1>6 DEF Changes
<1>8. ev' = Verified(ev, c, changed, unseen)
  BY <1>2, <1>3, <1>6
<1>9. unseen \/ Changes # {} => c.status # "passed"
  BY <1>2, <1>5
<1> HIDE DEF record
<1> QED
  BY <1>1, <1>4, <1>5, <1>6, <1>7, <1>8, <1>9

LEMMA GateKeepsShape ==
    ASSUME AInv,
           Observe \/ SubmitFinal \/ ReuseOrVerify \/ VerifierEnds \/ Recheck \/ Render
           \/ Deliver
    PROVE  AInv'
<1> USE DEF AInv
<1>0. ev \in Evidence
  BY DEF TypeOK
<1>1. CASE Observe
  <2>1. ev' \in Evidence /\ Cursor(ev') = Cursor(ev)
    <3>1. PICK x : x = ev'
      OBVIOUS
    <3>2. x = [ev EXCEPT !.observed = TRUE]
      BY <1>1, <3>1 DEF Observe
    <3>3. x \in Evidence /\ x.effects = ev.effects
      BY <1>0, <3>2, EvidenceMarked
    <3> QED
      BY <3>1, <3>3 DEF Cursor
  <2>2. TypeOK'
    BY <1>1, <2>1 DEF Observe, TypeOK, PCs, memory, history
  <2>3. CallShape' /\ ProbeShape'
    BY <1>1, <2>1 DEF Observe, CallShape, ProbeShape, InCall, StartedPCs, memory
  <2> QED
    BY <2>2, <2>3
<1>2. CASE SubmitFinal
  <2>1. pc = "loop" /\ pc' \in {"check", "render"}
    BY <1>2 DEF SubmitFinal
  <2>2. UNCHANGED <<contract, ws, ev, call, memory, status, delivered, history,
                    edits, crashes>>
    BY <1>2 DEF SubmitFinal
  <2>3. TypeOK'
    BY <2>1, <2>2 DEF TypeOK, PCs, memory, history
  <2>4. CallShape' /\ ProbeShape'
    BY <2>1, <2>2 DEF CallShape, ProbeShape, InCall, StartedPCs, memory
  <2> QED
    BY <2>3, <2>4
<1>3. CASE ReuseOrVerify
  <2>1. pc = "check" /\ pc' \in {"recheck", "verify"}
    BY <1>3 DEF ReuseOrVerify
  <2>2. /\ probe' = [ws |-> ws, cursor |-> Cursor(ev)]
        /\ UNCHANGED <<contract, ws, ev, call, repeats, status, delivered, history,
                       edits, crashes>>
    BY <1>3 DEF ReuseOrVerify
  <2>3. ws \in PathStates /\ Cursor(ev) \in Nat
    BY PathStatesOf, EvidenceParts DEF TypeOK, Cursor
  <2>4. TypeOK'
    BY <2>1, <2>2, <2>3 DEF TypeOK, PCs, history
  <2>5. CallShape' /\ ProbeShape'
    BY <2>1, <2>2 DEF CallShape, ProbeShape, InCall, StartedPCs, TypeOK
  <2> QED
    BY <2>4, <2>5
<1>4. CASE VerifierEnds
  <2>1. PICK c \in Check, changed \in SUBSET Paths, unseen \in BOOLEAN :
            ev' = Verified(ev, c, changed, unseen)
    BY <1>4, VerifierSteps
  <2>2. ev' \in Evidence
    <3>1. changed \subseteq Paths
      OBVIOUS
    <3>2. Verified(ev, c, changed, unseen) \in Evidence
      BY <1>0, <3>1, VerifiedIs
    <3> QED
      BY <2>1, <3>2
  <2>3. unaccounted' \in PathStates
    <3>1. unaccounted' = NoPaths \/ unaccounted' = StillUnaccounted({})
      BY <1>4, VerifierSteps
    <3>2. StillUnaccounted({}) \in PathStates
      BY StillUnaccountedTyped
    <3> QED
      BY <3>1, <3>2, NoPathsTyped
  <2>4. /\ pc = "verify" /\ pc' = "recheck"
        /\ UNCHANGED <<contract, ws, call, memory, status, delivered, seen, lost, odd,
                       edits, crashes>>
    BY <1>4, VerifierSteps
  <2>5. TypeOK'
    BY <2>2, <2>3, <2>4 DEF TypeOK, PCs, memory
  <2>6. CallShape' /\ ProbeShape'
    BY <2>4 DEF CallShape, ProbeShape, InCall, StartedPCs
  <2> QED
    BY <2>5, <2>6
<1>5. CASE Recheck
  <2>1. pc = "recheck" /\ pc' \in {"render", "loop"} /\ probe' = NoProbe
    BY <1>5 DEF Recheck
  <2>2. UNCHANGED <<contract, ws, ev, call, repeats, status, delivered, history,
                    edits, crashes>>
    BY <1>5 DEF Recheck
  <2>3. NoProbe \in [ws : PathStates, cursor : Nat]
    BY NoPathsTyped DEF NoProbe
  <2>4. TypeOK'
    BY <2>1, <2>2, <2>3 DEF TypeOK, PCs, history
  <2>5. CallShape' /\ ProbeShape'
    BY <2>1, <2>2 DEF CallShape, ProbeShape, InCall, StartedPCs
  <2> QED
    BY <2>4, <2>5
<1>6. CASE Render
  <2>1. pc = "render" /\ pc' \in {"deliver", "loop"}
    BY <1>6 DEF Render
  <2>2. UNCHANGED <<contract, ws, ev, call, memory, status, delivered, history,
                    edits, crashes>>
    BY <1>6 DEF Render
  <2>3. TypeOK'
    BY <2>1, <2>2 DEF TypeOK, PCs, memory, history
  <2>4. CallShape' /\ ProbeShape'
    BY <2>1, <2>2 DEF CallShape, ProbeShape, InCall, StartedPCs, memory
  <2> QED
    BY <2>3, <2>4
<1>7. CASE Deliver
  <2>1. ev' \in Evidence
    <3>1. DiffMissing \in BOOLEAN
      BY DEF DiffMissing
    <3> QED
      BY <1>0, <1>7, <3>1, EvidenceMarked DEF Deliver
  <2>2. /\ pc = "deliver" /\ pc' \in {"poisoned", "closed"} /\ status' = "completed"
        /\ delivered' = Captured
        /\ UNCHANGED <<contract, ws, call, memory, history, edits, crashes>>
    BY <1>7 DEF Deliver
  <2>3. TypeOK'
    BY <2>1, <2>2, CapturedTyped DEF TypeOK, PCs, memory, history
  <2>4. CallShape' /\ ProbeShape'
    BY <2>2 DEF CallShape, ProbeShape, InCall, StartedPCs
  <2> QED
    BY <2>3, <2>4
<1> QED
  BY <1>1, <1>2, <1>3, <1>4, <1>5, <1>6, <1>7

LEMMA EndsKeepShape ==
    ASSUME AInv, Stop \/ Crash \/ ResumeGoesOn
    PROVE  AInv'
<1> USE DEF AInv
<1>1. CASE Stop
  <2>1. ev' \in Evidence
    <3>1. (WorkspaceDrift(ev, ws) = {} /\ DiffMissing) \in BOOLEAN
      BY DEF DiffMissing
    <3>2. ev' = [ev EXCEPT !.broken = WorkspaceDrift(ev, ws) = {} /\ DiffMissing]
      BY <1>1 DEF Stop
    <3> QED
      BY <3>1, <3>2, EvidenceMarked DEF TypeOK
  <2>2. /\ pc = "loop" /\ pc' \in {"poisoned", "closed"} /\ status' = "stopped"
        /\ UNCHANGED <<contract, ws, call, memory, history, edits, crashes>>
    BY <1>1 DEF Stop
  <2>3. delivered' = Captured \/ delivered' = delivered
    BY <1>1 DEF Stop
  <2>4. TypeOK'
    BY <2>1, <2>2, <2>3, CapturedTyped DEF TypeOK, PCs, memory, history
  <2>5. CallShape' /\ ProbeShape'
    BY <2>2 DEF CallShape, ProbeShape, InCall, StartedPCs
  <2> QED
    BY <2>4, <2>5
<1>2. CASE Crash
  <2>1. odd' \subseteq {"raced", "undone", "cut"}
    BY <1>2 DEF Crash, TypeOK
  <2>2. crashes' \in Nat
    BY <1>2 DEF Crash, TypeOK
  <2>3. /\ pc' = "down" /\ repeats' = {} /\ pc \notin {"down", "poisoned", "closed"}
        /\ UNCHANGED <<contract, ws, ev, call, probe, status, delivered, seen, lost,
                       unaccounted, edits>>
    BY <1>2 DEF Crash
  <2>4. TypeOK'
    BY <2>1, <2>2, <2>3 DEF TypeOK, PCs
  <2>5. CallShape' /\ ProbeShape'
    BY <2>3 DEF CallShape, ProbeShape, InCall, StartedPCs
  <2> QED
    BY <2>4, <2>5
<1>3. CASE ResumeGoesOn
  <2>1. /\ pc = "down" /\ call = NoCall /\ pc' = "loop" /\ probe' = NoProbe
        /\ UNCHANGED <<contract, ws, ev, call, repeats, status, delivered, history,
                       edits, crashes>>
    BY <1>3 DEF ResumeGoesOn, Resume
  <2>2. NoProbe \in [ws : PathStates, cursor : Nat]
    BY NoPathsTyped DEF NoProbe
  <2>3. TypeOK'
    BY <2>1, <2>2 DEF TypeOK, PCs, history
  <2>4. CallShape' /\ ProbeShape'
    BY <2>1 DEF CallShape, ProbeShape, InCall, StartedPCs
  <2> QED
    BY <2>3, <2>4
<1> QED
  BY <1>1, <1>2, <1>3

LEMMA ShapeKept == AInv /\ [Next]_vars => AInv'
<1> SUFFICES ASSUME AInv, [Next]_vars
             PROVE  AInv'
  OBVIOUS
<1>1. CASE Next
  BY <1>1, Steps, SettledKeepsShape, ToolKeepsShape, OthersKeepShape, GateKeepsShape,
     EndsKeepShape
<1>2. CASE UNCHANGED vars
  BY <1>2 DEF vars, memory, history, AInv, TypeOK, CallShape, ProbeShape
<1> QED
  BY <1>1, <1>2

\* Every value has its type, and the call and the locals are those of the place
\* the process is at.
THEOREM ShapesHold == Spec => []AInv
BY AInvInit, ShapeKept, PTL DEF Spec

(****************************************************************************)
(* No edit of the user is overwritten.  Between the last comparison and     *)
(* os.replace the file is as the call says it is, unless the user edits it  *)
(* just then.                                                               *)
(****************************************************************************)
Unraced == "raced" \notin odd
Target == call.args.path

Guarded ==
    Unraced => ~lost /\ (pc = "replace" => ws[Target] = Expected(call.args))

LEMMA GuardedKept == AInv /\ Guarded /\ [Next]_vars => Guarded'
<1> SUFFICES ASSUME AInv, Guarded, [Next]_vars
             PROVE  Guarded'
  OBVIOUS
<1>1. CASE UserEdit
  <2>1. /\ "raced" \in odd \/ pc = "replace" => "raced" \in odd'
        /\ UNCHANGED <<call, pc, lost>>
    BY <1>1 DEF UserEdit
  <2> QED
    BY <2>1 DEF Guarded, Unraced
<1>2. CASE GuardGoesOn
  BY <1>2 DEF GuardGoesOn, Guard, FinishUnchanged, FinishCall, Guarded, Unraced, Target,
     history
<1>3. CASE Replace
  BY <1>3 DEF Replace, Guarded, Unraced, Target
<1>4. CASE Refused \/ Interrupted \/ OutcomeLost \/ Finish
  BY <1>4, SettlesWell DEF FinishCall, Guarded, Unraced
<1>5. CASE Observe \/ CallTool \/ Admit \/ PlanGoesOn \/ StartGoesOn \/ StageGoesOn
           \/ CommandGoesOn
  <2>1. pc' # "replace" /\ lost' = lost /\ odd' = odd
    BY <1>5 DEF Observe, CallTool, Admit, PlanGoesOn, Plan, StartGoesOn, Start, StageGoesOn,
       Stage, CommandGoesOn, RunCommand, FinishUnchanged, FinishCall, history
  <2> QED
    BY <2>1 DEF Guarded, Unraced
<1>6. CASE ProcessWrites \/ SubmitFinal \/ ReuseOrVerify \/ VerifierEnds
  <2>1. pc' # "replace" /\ lost' = lost /\ odd' = odd
    BY <1>6 DEF ProcessWrites, SubmitFinal, ReuseOrVerify, VerifierEnds, history
  <2> QED
    BY <2>1 DEF Guarded, Unraced
<1>7. CASE Recheck \/ Render \/ Deliver \/ Stop \/ Crash \/ ResumeGoesOn
  <2>1. pc' # "replace" /\ lost' = lost /\ odd \subseteq odd'
    BY <1>7 DEF Recheck, Render, Deliver, Stop, Crash, ResumeGoesOn, Resume, history
  <2> QED
    BY <2>1 DEF Guarded, Unraced
<1>8. CASE UNCHANGED vars
  BY <1>8 DEF vars, history, Guarded, Unraced, Target
<1> QED
  BY <1>1, <1>2, <1>3, <1>4, <1>5, <1>6, <1>7, <1>8, Steps

\* A structured tool replaces exactly the content its call named, and so never
\* an edit of the user, in a Run of any length over any files: the revision is
\* compared right before os.replace (commit_guard), and only an edit between
\* the two gets by.
THEOREM EditsSurvive == Spec => []UserEditsSurvive
<1>1. Init => Guarded
  BY DEF Init, Guarded
<1>2. Guarded => UserEditsSurvive
  BY DEF Guarded, Unraced, UserEditsSurvive
<1> QED
  BY <1>1, <1>2, GuardedKept, ShapesHold, PTL DEF Spec

(****************************************************************************)
(* What most steps leave alone.                                             *)
(****************************************************************************)
LEMMA GateSteps ==
    ASSUME AInv,
           Observe \/ SubmitFinal \/ ReuseOrVerify \/ VerifierEnds \/ Recheck \/ Render
           \/ Deliver \/ Stop \/ ResumeGoesOn
    PROVE  /\ call = NoCall /\ call' = NoCall /\ ~NoCall.started
           /\ pc' \notin InCall
           /\ UNCHANGED <<ws, seen, odd>>
           /\ ev'.files = ev.files
<1> USE DEF AInv
<1>0. ev \in Evidence /\ ~NoCall.started
  BY DEF TypeOK, NoCall
<1>1. CASE Observe
  <2>1. PICK x : x = ev'
    OBVIOUS
  <2>2. x.files = ev.files
    BY <1>0, <1>1, <2>1, EvidenceMarked DEF Observe
  <2> QED
    BY <1>0, <1>1, <2>1, <2>2 DEF Observe, CallShape, InCall, StartedPCs, history
<1>2. CASE SubmitFinal \/ ReuseOrVerify \/ Recheck \/ Render \/ ResumeGoesOn
  BY <1>0, <1>2 DEF SubmitFinal, ReuseOrVerify, Recheck, Render, ResumeGoesOn, Resume,
     CallShape, InCall, StartedPCs, history
<1>3. CASE VerifierEnds
  <2>1. PICK c \in Check, changed \in SUBSET Paths, unseen \in BOOLEAN :
            ev' = Verified(ev, c, changed, unseen)
    BY <1>3, VerifierSteps
  <2>2. ev'.files = ev.files
    BY <1>0, <2>1, VerifiedIs
  <2>3. pc = "verify" /\ pc' = "recheck" /\ UNCHANGED <<ws, call, seen, odd>>
    BY <1>3, VerifierSteps
  <2> QED
    BY <1>0, <2>2, <2>3 DEF CallShape, InCall, StartedPCs
<1>4. CASE Deliver
  <2>1. PICK x : x = ev'
    OBVIOUS
  <2>2. DiffMissing \in BOOLEAN
    BY DEF DiffMissing
  <2>3. x.files = ev.files
    BY <1>0, <1>4, <2>1, <2>2, EvidenceMarked DEF Deliver
  <2> QED
    BY <1>0, <1>4, <2>1, <2>3 DEF Deliver, CallShape, InCall, StartedPCs, history
<1>5. CASE Stop
  <2>1. PICK x, b : x = ev' /\ b = (WorkspaceDrift(ev, ws) = {} /\ DiffMissing)
    OBVIOUS
  <2>2. b \in BOOLEAN
    BY <2>1 DEF DiffMissing
  <2>3. x = [ev EXCEPT !.broken = b]
    BY <1>5, <2>1 DEF Stop
  <2>4. x.files = ev.files
    BY <1>0, <2>2, <2>3, EvidenceMarked
  <2> QED
    BY <1>0, <1>5, <2>1, <2>4 DEF Stop, CallShape, InCall, StartedPCs, history
<1> QED
  BY <1>1, <1>2, <1>3, <1>4, <1>5

LEMMA SettleSteps ==
    ASSUME AInv, Refused \/ Interrupted \/ OutcomeLost \/ Finish
    PROVE  /\ pc' \in {"loop", "poisoned"} /\ call' = NoCall /\ ~NoCall.started
           /\ UNCHANGED <<ws, seen, odd>>
BY SettlesWell DEF FinishCall, NoCall

LEMMA CrashSteps ==
    ASSUME Crash
    PROVE  /\ pc' = "down" /\ pc \notin {"down", "poisoned", "closed"}
           /\ UNCHANGED <<ws, ev, call, probe, status, delivered, seen, lost, unaccounted>>
           /\ odd \subseteq odd' /\ odd' \subseteq odd \cup {"cut"}
BY DEF Crash

\* The steps of a call that goes on.
LEMMA ToolSteps ==
    ASSUME AInv
    PROVE  /\ CallTool => \E a \in ToolCalls :
                  /\ a \in Edits => a.old \in seen[a.path]
                  /\ call'.args = a /\ ~call'.started
                  /\ pc' = "admit" /\ UNCHANGED <<ws, ev, history, probe>>
           /\ Admit => /\ pc = "admit" /\ pc' = "plan" /\ Admissible(call.args)
                       /\ UNCHANGED <<ws, ev, call, history, probe>>
           /\ PlanGoesOn => /\ pc = "plan" /\ pc' = "preimage" /\ TrackedDrift = {}
                            /\ call'.args = call.args /\ ~call'.started
                            /\ call'.before = [p \in PotentialPaths(call.args) |-> ws[p]]
                            /\ UNCHANGED <<ws, ev, history, probe>>
           /\ StartGoesOn => /\ pc = "preimage" /\ pc' = "run"
                             /\ ~\E p \in NeedsPreimage : ws[p] = Absent
                             /\ call'.args = call.args /\ call'.started
                             /\ call'.before = call.before /\ call'.preimage = Preimages
                             /\ UNCHANGED <<ws, ev, history, probe>>
           /\ StageGoesOn => /\ pc = "run" /\ pc' = "commit"
                             /\ UNCHANGED <<ws, ev, call, history, probe>>
           /\ GuardGoesOn => /\ pc = "commit" /\ pc' = "replace"
                             /\ ws[Target] = Expected(call.args)
                             /\ UNCHANGED <<ws, ev, call, history, probe>>
           /\ CommandGoesOn => /\ pc = "run" /\ pc' = "command" /\ call.args \in Commands
                               /\ probe' = [ws |-> ws, cursor |-> Cursor(ev)]
                               /\ UNCHANGED <<ws, ev, call, history>>
<1>1. ASSUME CallTool
      PROVE  \E a \in ToolCalls :
                  /\ a \in Edits => a.old \in seen[a.path]
                  /\ call'.args = a /\ ~call'.started
                  /\ pc' = "admit" /\ UNCHANGED <<ws, ev, history, probe>>
  <2>1. PICK a \in ToolCalls : /\ a \in Edits => a.old \in seen[a.path]
                               /\ call' = [NoCall EXCEPT !.args = a]
    BY <1>1 DEF CallTool
  <2>2. call' = [args |-> a, started |-> FALSE, before |-> NoPaths, preimage |-> NoPaths]
    BY <2>1, CallParts
  <2>3. call'.args = a /\ ~call'.started
    BY <2>2
  <2> QED
    BY <1>1, <2>1, <2>3 DEF CallTool, memory
<1>2. ASSUME PlanGoesOn
      PROVE  /\ pc = "plan" /\ pc' = "preimage" /\ TrackedDrift = {}
             /\ call'.args = call.args /\ ~call'.started
             /\ call'.before = [p \in PotentialPaths(call.args) |-> ws[p]]
             /\ UNCHANGED <<ws, ev, history, probe>>
  <2>1. call \in PendingCall /\ ~call.started /\ call.args \in ToolCalls
    BY <1>2, CallParts DEF PlanGoesOn, Plan, AInv, CallShape, InCall
  <2>2. PICK b : b = [p \in PotentialPaths(call.args) |-> ws[p]]
    OBVIOUS
  <2>3. b \in PathStates
    BY <2>1, <2>2, CallNames, StatesNow DEF TypeOK, AInv
  <2>4. call' = [call EXCEPT !.before = b]
    BY <1>2, <2>2 DEF PlanGoesOn, Plan, FinishUnchanged, FinishCall
  <2>5. call' = [args |-> call.args, started |-> call.started, before |-> b,
                 preimage |-> call.preimage]
    BY <2>1, <2>3, <2>4, CallParts
  <2>6. call'.args = call.args /\ ~call'.started /\ call'.before = b
    BY <2>1, <2>5
  <2> QED
    BY <1>2, <2>2, <2>6 DEF PlanGoesOn, Plan, FinishUnchanged, FinishCall, memory
<1>3. ASSUME StartGoesOn
      PROVE  /\ pc = "preimage" /\ pc' = "run"
             /\ ~\E p \in NeedsPreimage : ws[p] = Absent
             /\ call'.args = call.args /\ call'.started
             /\ call'.before = call.before /\ call'.preimage = Preimages
             /\ UNCHANGED <<ws, ev, history, probe>>
  <2>1. call \in PendingCall
    BY <1>3 DEF StartGoesOn, Start, AInv, CallShape, InCall
  <2>2. DOMAIN call.before \subseteq Paths
    BY <2>1, CallParts, PathStatesAre
  <2>3. Preimages \in [DOMAIN call.before -> States]
    BY <2>2 DEF Preimages, AInv, TypeOK, States
  <2>4. Preimages \in PathStates
    BY <2>2, <2>3, PathStatesOf
  <2>5. call' = [call EXCEPT !.started = TRUE, !.preimage = Preimages]
    BY <1>3 DEF StartGoesOn, Start, FinishUnchanged, FinishCall
  <2>6. call' = [args |-> call.args, started |-> TRUE, before |-> call.before,
                 preimage |-> Preimages]
    BY <2>1, <2>4, <2>5, CallParts
  <2>7. call'.args = call.args /\ call'.started /\ call'.before = call.before
        /\ call'.preimage = Preimages
    BY <2>6
  <2>8. ~\E p \in NeedsPreimage : ws[p] = Absent
    BY <1>3 DEF StartGoesOn, Start, FinishUnchanged, FinishCall
  <2> QED
    BY <1>3, <2>7, <2>8 DEF StartGoesOn, Start, FinishUnchanged, FinishCall, memory
<1>4. ASSUME Admit \/ StageGoesOn \/ GuardGoesOn \/ CommandGoesOn
      PROVE  /\ Admit => /\ pc = "admit" /\ pc' = "plan" /\ Admissible(call.args)
                         /\ UNCHANGED <<ws, ev, call, history, probe>>
             /\ StageGoesOn => /\ pc = "run" /\ pc' = "commit"
                               /\ UNCHANGED <<ws, ev, call, history, probe>>
             /\ GuardGoesOn => /\ pc = "commit" /\ pc' = "replace"
                               /\ ws[Target] = Expected(call.args)
                               /\ UNCHANGED <<ws, ev, call, history, probe>>
             /\ CommandGoesOn => /\ pc = "run" /\ pc' = "command" /\ call.args \in Commands
                                 /\ probe' = [ws |-> ws, cursor |-> Cursor(ev)]
                                 /\ UNCHANGED <<ws, ev, call, history>>
  BY <1>4 DEF Admit, StageGoesOn, Stage, GuardGoesOn, Guard, CommandGoesOn, RunCommand,
     FinishUnchanged, FinishCall, memory, Target
<1> QED
  BY <1>1, <1>2, <1>3, <1>4

\* A file is edited by the user, or written by a command or a verifier.
LEMMA UserSteps ==
    ASSUME AInv, UserEdit
    PROVE  \E p \in Paths, s \in States :
               /\ ws' = [ws EXCEPT ![p] = s] /\ seen' = [seen EXCEPT ![p] = @ \cup {s}]
               /\ s # ws[p]
               /\ ws'[p] = s /\ \A q \in Paths \ {p} : ws'[q] = ws[q]
               /\ odd \cap {"raced", "undone"} = {} /\ odd \subseteq odd'
               /\ pc \in {"preimage", "replace", "check", "deliver"} => "raced" \in odd'
               /\ s \in seen[p] /\ pc \notin {"loop", "down"} => "undone" \in odd'
               /\ UNCHANGED <<contract, ev, call, pc, memory, status, delivered, lost,
                              unaccounted>>
<1>1. PICK p \in Paths, s \in States :
          /\ s # ws[p]
          /\ Put(p, s)
          /\ odd' = odd \cup
                (IF pc \in {"preimage", "replace", "check", "deliver"} THEN {"raced"} ELSE {})
                \cup (IF s \in seen[p] /\ pc \notin {"loop", "down"} THEN {"undone"} ELSE {})
  BY DEF UserEdit
<1>2. ws'[p] = s /\ \A q \in Paths \ {p} : ws'[q] = ws[q]
  BY <1>1 DEF Put, AInv, TypeOK
<1>3. /\ odd \cap {"raced", "undone"} = {}
      /\ UNCHANGED <<contract, ev, call, pc, memory, status, delivered, lost, unaccounted>>
  BY DEF UserEdit
<1> QED
  BY <1>1, <1>2, <1>3 DEF Put

LEMMA SeenGrows == AInv /\ [Next]_vars => \A p \in Paths : seen[p] \subseteq seen'[p]
<1> SUFFICES ASSUME AInv, [Next]_vars
             PROVE  \A p \in Paths : seen[p] \subseteq seen'[p]
  OBVIOUS
<1>p. ASSUME NEW p \in Paths, NEW s, Put(p, s)
      PROVE  \A q \in Paths : seen[q] \subseteq seen'[q]
  BY <1>p DEF Put, AInv, TypeOK
<1>1. CASE UserEdit
  BY <1>1, <1>p DEF UserEdit
<1>2. CASE ProcessWrites
  BY <1>2, <1>p DEF ProcessWrites
<1>3. CASE Replace
  <2>1. call \in PendingCall /\ call.args \in ToolCalls /\ call.args \notin Commands
    BY <1>3, CallParts DEF Replace, AInv, CallShape, InCall, StartedPCs
  <2> QED
    BY <1>3, <1>p, <2>1, CallNames DEF Replace
<1>4. CASE CallTool \/ Admit \/ PlanGoesOn \/ StartGoesOn \/ StageGoesOn \/ GuardGoesOn
           \/ CommandGoesOn
  BY <1>4, ToolSteps DEF history
<1>5. CASE Refused \/ Interrupted \/ OutcomeLost \/ Finish
  BY <1>5, SettleSteps
<1>6. CASE \/ Observe \/ SubmitFinal \/ ReuseOrVerify \/ VerifierEnds \/ Recheck \/ Render
           \/ Deliver \/ Stop \/ ResumeGoesOn
  BY <1>6, GateSteps
<1>7. CASE Crash \/ UNCHANGED vars
  BY <1>7, CrashSteps DEF vars, history
<1> QED
  BY <1>1, <1>2, <1>3, <1>4, <1>5, <1>6, <1>7, Steps

(****************************************************************************)
(* The chain of path transitions.                                           *)
(****************************************************************************)
Clean == odd \cap {"raced", "undone"} = {}

\* The model knows the revision its call expects.
Known ==
    /\ \A p \in Paths : ws[p] \in seen[p]
    /\ call.args \notin Commands =>
           /\ pc = "admit" /\ call.args \in Edits => Expected(call.args) \in seen[Target]
           /\ pc \in {"plan", "preimage", "run", "commit", "replace"} =>
                 Expected(call.args) \in seen[Target]

\* A call that was planned starts where the last effect ended.
Tracked ==
    call.started \/ pc = "preimage" =>
        \A p \in DOMAIN call.before \cap DOMAIN ev.files : call.before[p] = ev.files[p].current

\* Until its own write, a call's file is as it was planned, or it is not what the
\* call expects; and the preimage is the file as it was planned.
Untouched ==
    Clean =>
        /\ pc = "preimage" => \A p \in DOMAIN call.before : ws[p] = call.before[p]
        /\ pc \in {"run", "commit", "replace"} =>
              \A p \in DOMAIN call.before : ws[p] = call.before[p] \/ ws[p] # Expected(call.args)
        /\ pc = "result" => call.before[Target] = Expected(call.args)
        /\ call.started => \A p \in DOMAIN call.before :
              call.before[p] # Absent /\ p \notin TouchedPaths(ev) => call.preimage[p] = call.before[p]

\* What the gate compared is still so, unless the user edits right then.
Compared ==
    Unraced =>
        /\ pc \in {"check", "deliver"} => WorkspaceDrift(ev, ws) = {}
        /\ pc = "verify" => WorkspaceDrift(ev, probe.ws) = {}

LEMMA KnownKept == AInv /\ Known /\ [Next]_vars => Known'
<1> SUFFICES ASSUME AInv, Known, [Next]_vars
             PROVE  Known'
  OBVIOUS
<1>s. \A p \in Paths : seen[p] \subseteq seen'[p]
  BY SeenGrows
<1>t. ASSUME call \in PendingCall, call.args \notin Commands
      PROVE  Target \in Paths
  BY <1>t, CallParts, CallNames DEF Target
<1>p. ASSUME NEW p \in Paths, NEW s \in States, Put(p, s)
      PROVE  \A q \in Paths : ws'[q] \in seen'[q]
  BY <1>p DEF Put, AInv, TypeOK, Known
<1>1. CASE UserEdit \/ ProcessWrites
  <2>1. \A q \in Paths : ws'[q] \in seen'[q]
    BY <1>1, <1>p DEF UserEdit, ProcessWrites
  <2>2. UNCHANGED <<call, pc>>
    BY <1>1 DEF UserEdit, ProcessWrites
  <2>3. pc \in InCall => call \in PendingCall
    BY DEF AInv, CallShape
  <2> QED
    BY <1>s, <1>t, <2>1, <2>2, <2>3 DEF Known, Target, InCall, StartedPCs
<1>2. CASE Replace
  <2>1. call \in PendingCall /\ call.args \in ToolCalls /\ call.args \notin Commands
    BY <1>2, CallParts DEF Replace, AInv, CallShape, InCall, StartedPCs
  <2>2. \A q \in Paths : ws'[q] \in seen'[q]
    BY <1>2, <1>p, <2>1, CallNames DEF Replace, States
  <2> QED
    BY <1>2, <2>2 DEF Replace, Known
<1>3. CASE CallTool
  <2>1. PICK a \in ToolCalls : /\ a \in Edits => a.old \in seen[a.path]
                               /\ call'.args = a /\ pc' = "admit"
                               /\ UNCHANGED <<ws, history>>
    BY <1>3, ToolSteps
  <2>2. a \in Edits => Expected(a) = a.old
    BY CallNames DEF Expected
  <2> QED
    BY <2>1, <2>2 DEF Known, Target, history
<1>4. CASE Admit
  <2>1. call \in PendingCall /\ call.args \in ToolCalls
    BY <1>4, CallParts DEF Admit, AInv, CallShape, InCall
  <2>2. pc = "admit" /\ pc' = "plan" /\ Admissible(call.args)
        /\ UNCHANGED <<ws, call, history>>
    BY <1>4, ToolSteps
  <2>3. ASSUME call.args \in Writes
        PROVE  Expected(call.args) \in seen[Target]
    <3>1. ws[Target] = Absent /\ Target \in Paths
      BY <1>t, <2>1, <2>2, <2>3, CallNames DEF Admissible, Target
    <3> QED
      BY <2>3, <3>1 DEF Expected, Known
  <2>4. call.args \notin Commands => call.args \in Writes \/ call.args \in Edits
    BY <2>1 DEF ToolCalls
  <2> QED
    BY <2>2, <2>3, <2>4 DEF Known, Target, history
<1>5. CASE PlanGoesOn \/ StartGoesOn \/ StageGoesOn \/ GuardGoesOn \/ CommandGoesOn
  <2>1. /\ call'.args = call.args /\ UNCHANGED <<ws, seen>>
        /\ pc' # "admit"
        /\ pc' \in {"preimage", "run", "commit", "replace"} =>
               pc \in {"plan", "preimage", "run", "commit"}
    <3>1. CASE PlanGoesOn
      BY <3>1, ToolSteps DEF history
    <3>2. CASE StartGoesOn
      BY <3>2, ToolSteps DEF history
    <3>3. CASE StageGoesOn \/ GuardGoesOn
      BY <3>3, ToolSteps DEF history
    <3>4. CASE CommandGoesOn
      BY <3>4, ToolSteps DEF history
    <3> QED
      BY <1>5, <3>1, <3>2, <3>3, <3>4
  <2>2. /\ \A p \in Paths : ws[p] \in seen[p]
        /\ call.args \notin Commands /\ pc' \in {"plan", "preimage", "run", "commit", "replace"}
               => Expected(call.args) \in seen[Target]
    BY <1>5, <2>1, ToolSteps DEF Known
  <2> QED
    BY <2>1, <2>2 DEF Known, Target, Expected
<1>6. CASE Refused \/ Interrupted \/ OutcomeLost \/ Finish
  BY <1>6, SettleSteps DEF Known
<1>7. CASE \/ Observe \/ SubmitFinal \/ ReuseOrVerify \/ VerifierEnds \/ Recheck \/ Render
           \/ Deliver \/ Stop \/ ResumeGoesOn
  BY <1>7, GateSteps DEF Known, InCall, StartedPCs
<1>8. CASE Crash
  BY <1>8, CrashSteps DEF Known
<1>9. CASE UNCHANGED vars
  BY <1>9 DEF vars, history, Known, Target
<1> QED
  BY <1>1, <1>2, <1>3, <1>4, <1>5, <1>6, <1>7, <1>8, <1>9, Steps

LEMMA TrackedKept == AInv /\ Tracked /\ [Next]_vars => Tracked'
<1> SUFFICES ASSUME AInv, Tracked, [Next]_vars
             PROVE  Tracked'
  OBVIOUS
<1>1. CASE UserEdit \/ ProcessWrites
  BY <1>1 DEF UserEdit, ProcessWrites, Tracked
<1>2. CASE Replace
  <2>1. call.started
    BY <1>2 DEF Replace, AInv, CallShape, StartedPCs
  <2> QED
    BY <1>2, <2>1 DEF Replace, Tracked
<1>3. CASE CallTool \/ Admit
  <2>1. ~call'.started /\ pc' # "preimage"
    BY <1>3, ToolSteps DEF AInv, CallShape
  <2> QED
    BY <2>1 DEF Tracked
<1>4. CASE PlanGoesOn
  <2>1. /\ TrackedDrift = {} /\ call'.before = [p \in PotentialPaths(call.args) |-> ws[p]]
        /\ ev' = ev
    BY <1>4, ToolSteps
  <2>2. \A p \in PotentialPaths(call.args) \cap DOMAIN ev.files : ws[p] = ev.files[p].current
    BY <2>1 DEF TrackedDrift, WorkspaceDrift
  <2> QED
    BY <2>1, <2>2 DEF Tracked
<1>5. CASE StartGoesOn
  BY <1>5, ToolSteps DEF Tracked
<1>6. CASE StageGoesOn \/ GuardGoesOn \/ CommandGoesOn
  <2>1. call.started /\ UNCHANGED <<call, ev>>
    BY <1>6, ToolSteps DEF AInv, CallShape, StartedPCs
  <2> QED
    BY <2>1 DEF Tracked
<1>7. CASE Refused \/ Interrupted \/ OutcomeLost \/ Finish
  BY <1>7, SettleSteps DEF Tracked
<1>8. CASE \/ Observe \/ SubmitFinal \/ ReuseOrVerify \/ VerifierEnds \/ Recheck \/ Render
           \/ Deliver \/ Stop \/ ResumeGoesOn
  BY <1>8, GateSteps DEF Tracked, InCall
<1>9. CASE Crash
  BY <1>9, CrashSteps DEF Tracked
<1>10. CASE UNCHANGED vars
  BY <1>10 DEF vars, Tracked
<1> QED
  BY <1>1, <1>2, <1>3, <1>4, <1>5, <1>6, <1>7, <1>8, <1>9, <1>10, Steps

LEMMA UntouchedKept ==
    AInv /\ Guarded /\ Known /\ Untouched /\ [Next]_vars => Untouched'
<1> SUFFICES ASSUME AInv, Guarded, Known, Untouched, [Next]_vars
             PROVE  Untouched'
  OBVIOUS
<1>c. call \in PendingCall => DOMAIN call.before \subseteq Paths
  BY CallParts, PathStatesAre
<1>1. CASE UserEdit
  <2>1. PICK p \in Paths, s \in States :
            /\ ws'[p] = s /\ \A q \in Paths \ {p} : ws'[q] = ws[q]
            /\ odd \subseteq odd'
            /\ pc \in {"preimage", "replace", "check", "deliver"} => "raced" \in odd'
            /\ s \in seen[p] /\ pc \notin {"loop", "down"} => "undone" \in odd'
            /\ UNCHANGED <<ev, call, pc>>
    BY <1>1, UserSteps
  <2>2. SUFFICES ASSUME Clean'
                 PROVE  Untouched'
    BY DEF Untouched
  <2>3. Clean /\ pc \notin {"preimage", "replace"} /\ (pc \in {"run", "commit"} => s \notin seen[p])
    BY <2>1, <2>2 DEF Clean
  <2>4. ASSUME pc \in {"run", "commit"}, NEW q \in DOMAIN call.before
        PROVE  ws'[q] = call.before[q] \/ ws'[q] # Expected(call.args)
    <3>1. call \in PendingCall /\ call.started
      BY <2>4 DEF AInv, CallShape, InCall, StartedPCs
    <3>2. q \in Paths
      BY <1>c, <2>4, <3>1
    <3>3. CASE q # p
      BY <2>1, <2>3, <2>4, <3>2, <3>3 DEF Untouched
    <3>4. CASE q = p
      <4>1. call.args \notin Commands /\ q = Target
        BY <2>4, <3>1, CallParts, CallNames DEF AInv, CallShape, Target
      <4>2. Expected(call.args) \in seen[p]
        BY <2>4, <3>4, <4>1 DEF Known
      <4> QED
        BY <2>1, <2>3, <2>4, <3>4, <4>2
    <3> QED
      BY <3>3, <3>4
  <2> QED
    BY <2>1, <2>3, <2>4 DEF Untouched, Target
<1>2. CASE ProcessWrites
  <2>1. pc \in {"command", "verify"} /\ UNCHANGED <<call, pc, ev, odd>>
    BY <1>2 DEF ProcessWrites
  <2> QED
    BY <2>1 DEF Untouched, Clean
<1>3. CASE Replace
  <2>1. pc = "replace" /\ pc' = "result" /\ UNCHANGED <<call, ev, odd>>
    BY <1>3 DEF Replace
  <2>2. call \in PendingCall /\ call.started /\ call.args \notin Commands
    BY <2>1 DEF AInv, CallShape, InCall, StartedPCs
  <2>3. Target \in DOMAIN call.before
    BY <2>2, CallParts, CallNames DEF AInv, CallShape, Target
  <2>4. Clean => ws[Target] = Expected(call.args)
    BY <2>1 DEF Guarded, Clean, Unraced
  <2> QED
    BY <2>1, <2>2, <2>3, <2>4 DEF Untouched, Clean, Target
<1>4. CASE CallTool \/ Admit
  <2>1. ~call'.started /\ pc' \in {"admit", "plan"}
    BY <1>4, ToolSteps DEF AInv, CallShape
  <2> QED
    BY <2>1 DEF Untouched
<1>5. CASE PlanGoesOn
  <2>1. /\ pc' = "preimage" /\ ~call'.started
        /\ call'.before = [p \in PotentialPaths(call.args) |-> ws[p]]
        /\ ws' = ws
    BY <1>5, ToolSteps
  <2> QED
    BY <2>1 DEF Untouched
<1>6. CASE StartGoesOn
  <2>1. /\ pc = "preimage" /\ pc' = "run" /\ call'.args = call.args /\ call'.started
        /\ call'.before = call.before /\ call'.preimage = Preimages
        /\ UNCHANGED <<ws, ev, odd>>
    BY <1>6, ToolSteps DEF history
  <2>2. Clean => \A p \in DOMAIN call.before : ws[p] = call.before[p]
    BY <2>1 DEF Untouched
  <2>3. Clean => \A p \in DOMAIN call.before :
            call.before[p] # Absent /\ p \notin TouchedPaths(ev) => Preimages[p] = call.before[p]
    BY <2>2 DEF Preimages, NeedsPreimage
  <2> QED
    BY <2>1, <2>2, <2>3 DEF Untouched, Clean, TouchedPaths
<1>7. CASE StageGoesOn \/ GuardGoesOn \/ CommandGoesOn
  <2>1. /\ call.started /\ pc' \in {"commit", "replace", "command"}
        /\ pc' \in {"commit", "replace"} => pc \in {"run", "commit"}
        /\ UNCHANGED <<call, ev, ws, odd>>
    BY <1>7, ToolSteps DEF AInv, CallShape, StartedPCs, history
  <2> QED
    BY <2>1 DEF Untouched, Clean
<1>8. CASE Refused \/ Interrupted \/ OutcomeLost \/ Finish
  BY <1>8, SettleSteps DEF Untouched
<1>9. CASE \/ Observe \/ SubmitFinal \/ ReuseOrVerify \/ VerifierEnds \/ Recheck \/ Render
           \/ Deliver \/ Stop \/ ResumeGoesOn
  BY <1>9, GateSteps DEF Untouched, InCall, StartedPCs
<1>10. CASE Crash
  <2>1. Clean' => Clean
    BY <1>10, CrashSteps DEF Clean
  <2> QED
    BY <1>10, <2>1, CrashSteps DEF Untouched
<1>11. CASE UNCHANGED vars
  BY <1>11 DEF vars, history, Untouched, Clean, Target
<1> QED
  BY <1>1, <1>2, <1>3, <1>4, <1>5, <1>6, <1>7, <1>8, <1>9, <1>10, <1>11, Steps

LEMMA ComparedKept == AInv /\ Compared /\ [Next]_vars => Compared'
<1> SUFFICES ASSUME AInv, Compared, [Next]_vars
             PROVE  Compared'
  OBVIOUS
<1>1. CASE UserEdit
  <2>1. /\ odd \subseteq odd'
        /\ pc \in {"check", "deliver"} => "raced" \in odd'
        /\ UNCHANGED <<ev, probe, pc>>
    BY <1>1, UserSteps DEF memory
  <2> QED
    BY <2>1 DEF Compared, Unraced
<1>2. CASE ProcessWrites
  <2>1. pc \in {"command", "verify"} /\ UNCHANGED <<pc, ev, odd, probe>>
    BY <1>2 DEF ProcessWrites, memory
  <2> QED
    BY <2>1 DEF Compared, Unraced
<1>3. CASE Replace
  BY <1>3 DEF Replace, Compared
<1>4. CASE CallTool \/ Admit \/ PlanGoesOn \/ StartGoesOn \/ StageGoesOn \/ GuardGoesOn
           \/ CommandGoesOn
  <2>1. pc' \notin {"check", "deliver", "verify"}
    BY <1>4, ToolSteps
  <2> QED
    BY <2>1 DEF Compared
<1>5. CASE Refused \/ Interrupted \/ OutcomeLost \/ Finish
  BY <1>5, SettleSteps DEF Compared
<1>6. CASE Observe \/ Stop \/ ResumeGoesOn
  <2>1. pc' \in {"loop", "poisoned", "closed"}
    BY <1>6 DEF Observe, Stop, ResumeGoesOn, Resume
  <2> QED
    BY <2>1 DEF Compared
<1>7. CASE SubmitFinal
  <2>1. WorkspaceDrift(ev, ws) = {} /\ UNCHANGED <<ws, ev>> /\ pc' \in {"check", "render"}
    BY <1>7 DEF SubmitFinal, Blocked
  <2> QED
    BY <2>1 DEF Compared
<1>8. CASE ReuseOrVerify
  <2>1. /\ pc = "check" /\ pc' \in {"recheck", "verify"}
        /\ probe'.ws = ws /\ UNCHANGED <<ws, ev, odd>>
    BY <1>8 DEF ReuseOrVerify, history
  <2> QED
    BY <2>1 DEF Compared, Unraced
<1>9. CASE VerifierEnds \/ Recheck
  <2>1. pc' \notin {"check", "deliver", "verify"}
    BY <1>9 DEF VerifierEnds, Recheck
  <2> QED
    BY <2>1 DEF Compared
<1>10. CASE Render
  <2>1. /\ pc' \in {"deliver", "loop"} /\ UNCHANGED <<ws, ev>>
        /\ pc' = "deliver" => WorkspaceDrift(ev, ws) = {}
    BY <1>10 DEF Render
  <2> QED
    BY <2>1 DEF Compared
<1>11. CASE Deliver \/ Crash
  BY <1>11 DEF Deliver, Crash, Compared
<1>12. CASE UNCHANGED vars
  BY <1>12 DEF vars, memory, history, Compared, Unraced
<1> QED
  BY <1>1, <1>2, <1>3, <1>4, <1>5, <1>6, <1>7, <1>8, <1>9, <1>10, <1>11, <1>12, Steps

\* Transitions that start where the files are, and bring the preimage of every new
\* file, continue the chain and keep the preimages.
Sound(moves) ==
    \A p \in DOMAIN moves :
        /\ p \in DOMAIN ev.files => moves[p].before = ev.files[p].current
        /\ p \notin DOMAIN ev.files /\ moves[p].before # Absent =>
               moves[p].preimage = moves[p].before

LEMMA SoundMoves ==
    ASSUME ev \in Evidence, NEW moves \in Moves, Sound(moves)
    PROVE  /\ Continues(ev.files, moves)
           /\ (\A p \in DOMAIN ev.files :
                   ev.files[p].first # Absent => ev.files[p].preimage = ev.files[p].first)
              => \A p \in DOMAIN Moved(ev.files, moves) :
                   Moved(ev.files, moves)[p].first # Absent =>
                       Moved(ev.files, moves)[p].preimage = Moved(ev.files, moves)[p].first
<1>1. Continues(ev.files, moves)
  BY DEF Continues, Sound
<1>2. SUFFICES ASSUME \A p \in DOMAIN ev.files :
                          ev.files[p].first # Absent =>
                              ev.files[p].preimage = ev.files[p].first,
                      NEW p \in DOMAIN Moved(ev.files, moves),
                      Moved(ev.files, moves)[p].first # Absent
               PROVE  Moved(ev.files, moves)[p].preimage = Moved(ev.files, moves)[p].first
  BY <1>1
<1>3. p \in DOMAIN ev.files \cup DOMAIN moves
  BY DEF Moved
<1>4. CASE p \notin DOMAIN moves
  <2>1. Moved(ev.files, moves)[p] = ev.files[p]
    BY <1>3, <1>4 DEF Moved
  <2> QED
    BY <1>2, <1>3, <1>4, <2>1
<1>5. CASE p \in DOMAIN moves /\ p \in DOMAIN ev.files
  <2>1. PICK s : s = moves[p].after
    OBVIOUS
  <2>2. Moved(ev.files, moves)[p] = [ev.files[p] EXCEPT !.current = s]
    BY <1>5, <2>1 DEF Moved
  <2>3. ev.files[p] \in FileChange
    BY <1>5, EvidenceParts
  <2>4. /\ [ev.files[p] EXCEPT !.current = s].first = ev.files[p].first
        /\ [ev.files[p] EXCEPT !.current = s].preimage = ev.files[p].preimage
    BY <2>3 DEF FileChange
  <2> QED
    BY <1>2, <1>5, <2>2, <2>4
<1>6. CASE p \in DOMAIN moves /\ p \notin DOMAIN ev.files
  <2>1. PICK r, s, t : r = moves[p].before /\ s = moves[p].preimage /\ t = moves[p].after
    OBVIOUS
  <2>2. Moved(ev.files, moves)[p] = [first |-> r, preimage |-> s, current |-> t]
    BY <1>6, <2>1 DEF Moved
  <2>3. Moved(ev.files, moves)[p].first = r /\ Moved(ev.files, moves)[p].preimage = s
    BY <2>2
  <2>4. r # Absent => s = r
    BY <1>6, <2>1 DEF Sound
  <2> QED
    BY <1>2, <2>3, <2>4
<1> QED
  BY <1>3, <1>4, <1>5, <1>6

LEMMA DetectedIsSound ==
    ASSUME AInv, Tracked, Untouched, Clean, Interrupted
    PROVE  Sound(Detected)
<1>1. call \in PendingCall /\ call.started
  BY DEF Interrupted
<1>2. SUFFICES ASSUME NEW p \in DOMAIN Detected
               PROVE  /\ p \in DOMAIN ev.files => Detected[p].before = ev.files[p].current
                      /\ p \notin DOMAIN ev.files /\ Detected[p].before # Absent =>
                             Detected[p].preimage = Detected[p].before
  BY DEF Sound
<1>3. p \in DOMAIN call.before
  BY DEF Detected
<1>4. Detected[p].before = call.before[p] /\ Detected[p].preimage = call.preimage[p]
  BY <1>3 DEF Detected
<1> QED
  BY <1>1, <1>3, <1>4 DEF Tracked, Untouched, TouchedPaths

LEMMA ReceiptIsSound ==
    ASSUME AInv, Tracked, Untouched, Clean, pc = "result", NEW moves,
           moves = [p \in {call.args.path} |-> [before |-> Expected(call.args),
                                                preimage |-> call.preimage[p],
                                                after |-> call.args.new]]
    PROVE  Sound(moves)
<1>1. call \in PendingCall /\ call.started /\ call.args \notin Commands
  BY DEF AInv, CallShape, InCall, StartedPCs
<1>2. Target \in DOMAIN call.before /\ call.before[Target] = Expected(call.args)
  <2>1. call.args \in ToolCalls
    BY <1>1, CallParts
  <2>2. Target \in DOMAIN call.before
    BY <1>1, <2>1, CallNames DEF AInv, CallShape, Target
  <2> QED
    BY <2>2 DEF Untouched
<1>3. /\ DOMAIN moves = {Target} /\ moves[Target].before = call.before[Target]
      /\ moves[Target].preimage = call.preimage[Target]
  BY <1>2 DEF Target
<1> QED
  BY <1>1, <1>2, <1>3 DEF Sound, Tracked, Untouched, TouchedPaths

LEMMA ChainKept ==
    AInv /\ Tracked /\ Untouched /\ Compared /\ PreimagesMatch /\ LogReplays /\ [Next]_vars
        => PreimagesMatch' /\ LogReplays'
<1> SUFFICES ASSUME AInv, Tracked, Untouched, Compared, PreimagesMatch, LogReplays,
                    [Next]_vars
             PROVE  PreimagesMatch' /\ LogReplays'
  OBVIOUS
<1>e. ev \in Evidence
  BY DEF AInv, TypeOK
<1>s. ASSUME odd' = odd, NEW x, ev' = x, NEW side, NEW moves, Recordable(side, moves),
             x = Recorded(ev, side, moves),
             Clean /\ side \in {"changed", "partial"} => Sound(moves)
      PROVE  PreimagesMatch' /\ LogReplays'
  <2>1. SUFFICES ASSUME Clean
                 PROVE  /\ ~x.broken
                        /\ \A p \in DOMAIN x.files :
                               x.files[p].first # Absent => x.files[p].preimage = x.files[p].first
    BY <1>s DEF PreimagesMatch, LogReplays, Clean, TouchedPaths
  <2>2. /\ ~ev.broken
        /\ \A p \in DOMAIN ev.files :
               ev.files[p].first # Absent => ev.files[p].preimage = ev.files[p].first
    BY <2>1 DEF PreimagesMatch, LogReplays, Clean, TouchedPaths
  <2>3. CASE side \in {"none", "unknown"}
    <3>1. CASE side = "none"
      <4>1. x = ev
        BY <1>s, <3>1 DEF Recorded
      <4> QED
        BY <2>2, <4>1
    <3>2. CASE side = "unknown"
      <4>1. x.files = ev.files /\ x.broken = ev.broken
        BY <1>e, <1>s, <3>2 DEF Recorded, Evidence
      <4> QED
        BY <2>2, <4>1
    <3> QED
      BY <2>3, <3>1, <3>2
  <2>4. CASE side \in {"changed", "partial"}
    <3>1. moves \in Moves /\ Sound(moves)
      BY <1>s, <2>1, <2>4 DEF Recordable
    <3>2. Continues(ev.files, moves)
      BY <1>e, <3>1, SoundMoves
    <3>3. x.files = Moved(ev.files, moves) /\ x.broken = ev.broken
      BY <1>e, <1>s, <2>4, <3>2, RecordedIs
    <3> QED
      BY <1>e, <2>2, <3>1, <3>3, SoundMoves
  <2> QED
    BY <1>s, <2>3, <2>4 DEF Recordable
<1>k. ASSUME odd \subseteq odd', ev'.files = ev.files, ev'.broken = ev.broken
      PROVE  PreimagesMatch' /\ LogReplays'
  BY <1>k DEF PreimagesMatch, LogReplays, TouchedPaths
<1>1. CASE Refused \/ OutcomeLost
  <2>1. PICK x : x = ev'
    OBVIOUS
  <2>2. \E side \in {"none", "unknown"} :
            Recordable(side, NoPaths) /\ FinishCall(side, NoPaths)
    BY <1>1, NoPathsTyped DEF Refused, OutcomeLost, FinishUnchanged, Recordable
  <2> QED
    BY <1>s, <2>1, <2>2 DEF FinishCall
<1>2. CASE Interrupted
  <2>1. PICK x, moves : x = ev' /\ moves = Detected
    OBVIOUS
  <2>2. PICK side \in {"partial", "none"} :
            side = IF Detected # NoPaths THEN "partial" ELSE "none"
    OBVIOUS
  <2>3. Recordable(side, moves) /\ FinishCall(side, moves)
    BY <1>2, <2>1, <2>2, DetectedTyped DEF Interrupted, AInv, CallShape
  <2>4. Clean => Sound(moves)
    BY <1>2, <2>1, DetectedIsSound
  <2> QED
    BY <1>s, <2>1, <2>3, <2>4 DEF FinishCall
<1>3. CASE Finish
  <2>1. PICK x, moves : /\ x = ev'
                        /\ moves = [p \in {call.args.path} |->
                                       [before |-> Expected(call.args),
                                        preimage |-> call.preimage[p],
                                        after |-> call.args.new]]
    OBVIOUS
  <2>2. pc = "result" /\ FinishCall("changed", moves)
    BY <1>3, <2>1 DEF Finish
  <2>3. Recordable("changed", moves)
    BY <2>1, <2>2, FinishTyped
  <2>4. Clean => Sound(moves)
    BY <2>1, <2>2, ReceiptIsSound
  <2> QED
    BY <1>s, <2>1, <2>2, <2>3, <2>4 DEF FinishCall
<1>4. CASE UserEdit
  <2>1. odd \subseteq odd' /\ ev' = ev
    BY <1>4, UserSteps
  <2> QED
    BY <1>k, <2>1
<1>5. CASE ProcessWrites \/ Replace \/ Crash \/ UNCHANGED vars
  <2>1. odd \subseteq odd' /\ ev' = ev
    BY <1>5, CrashSteps DEF ProcessWrites, Replace, vars, history
  <2> QED
    BY <1>k, <2>1
<1>6. CASE CallTool \/ Admit \/ PlanGoesOn \/ StartGoesOn \/ StageGoesOn \/ GuardGoesOn
           \/ CommandGoesOn
  <2>1. odd' = odd /\ ev' = ev
    BY <1>6, ToolSteps DEF history
  <2> QED
    BY <1>k, <2>1
<1>7. CASE SubmitFinal \/ ReuseOrVerify \/ Recheck \/ Render \/ ResumeGoesOn
  <2>1. odd' = odd /\ ev' = ev
    BY <1>7 DEF SubmitFinal, ReuseOrVerify, Recheck, Render, ResumeGoesOn, Resume, history
  <2> QED
    BY <1>k, <2>1
<1>8. CASE Observe
  <2>1. PICK x : x = ev'
    OBVIOUS
  <2>2. x.files = ev.files /\ x.broken = ev.broken
    BY <1>8, <1>e, <2>1, EvidenceMarked DEF Observe
  <2>3. odd' = odd
    BY <1>8, GateSteps
  <2> QED
    BY <1>k, <2>1, <2>2, <2>3
<1>9. CASE VerifierEnds
  <2>1. PICK c \in Check, changed \in SUBSET Paths, unseen \in BOOLEAN :
            ev' = Verified(ev, c, changed, unseen)
    BY <1>9, VerifierSteps
  <2>2. ev'.files = ev.files /\ ev'.broken = ev.broken
    BY <1>e, <2>1, VerifiedIs
  <2>3. odd' = odd
    BY <1>9, GateSteps
  <2> QED
    BY <1>k, <2>2, <2>3
<1>d. ASSUME Clean, WorkspaceDrift(ev, ws) = {}
      PROVE  ~DiffMissing
  <2>1. SUFFICES ASSUME NEW p \in NetChangedPaths(ev), ev.files[p].first # Absent,
                        ws[p] = ev.files[p].preimage
                 PROVE  FALSE
    BY DEF DiffMissing
  <2>2. p \in DOMAIN ev.files /\ ev.files[p].first # ev.files[p].current
    BY DEF NetChangedPaths
  <2>3. ws[p] = ev.files[p].current
    BY <1>d, <2>2 DEF WorkspaceDrift
  <2>4. ev.files[p].preimage = ev.files[p].first
    BY <1>d, <2>1, <2>2 DEF PreimagesMatch, Clean, TouchedPaths
  <2> QED
    BY <2>1, <2>2, <2>3, <2>4
<1>10. CASE Deliver \/ Stop
  <2>1. PICK x, b : /\ x = ev'
                    /\ Deliver => b = DiffMissing
                    /\ ~Deliver => b = (WorkspaceDrift(ev, ws) = {} /\ DiffMissing)
    BY <1>10
  <2>2. b \in BOOLEAN
    BY <2>1 DEF DiffMissing
  <2>3. x = [ev EXCEPT !.broken = b]
    BY <1>10, <2>1 DEF Deliver, Stop
  <2>4. x.files = ev.files /\ x.broken = b
    BY <1>e, <2>2, <2>3, EvidenceMarked
  <2>5. Clean => ~b
    BY <1>10, <1>d, <2>1 DEF Deliver, Compared, Clean, Unraced
  <2>6. odd' = odd
    BY <1>10, GateSteps
  <2> QED
    BY <2>1, <2>4, <2>5, <2>6 DEF PreimagesMatch, LogReplays, TouchedPaths, Clean
<1> QED
  BY <1>1, <1>2, <1>3, <1>4, <1>5, <1>6, <1>7, <1>8, <1>9, <1>10, Steps

(****************************************************************************)
(* The chain, together.                                                     *)
(****************************************************************************)
ChainInv ==
    Guarded /\ Known /\ Tracked /\ Untouched /\ Compared /\ PreimagesMatch /\ LogReplays

LEMMA ChainInvInit == Init => ChainInv
<1> SUFFICES ASSUME Init
             PROVE  ChainInv
  OBVIOUS
<1>1. Guarded /\ Tracked /\ Untouched /\ Compared
  BY DEF Init, Guarded, Tracked, Untouched, Compared, NoCall
<1>2. Known
  BY DEF Init, Known
<1>3. PreimagesMatch /\ LogReplays
  BY DEF Init, PreimagesMatch, LogReplays, EmptyEvidence, TouchedPaths
<1> QED
  BY <1>1, <1>2, <1>3 DEF ChainInv

LEMMA ChainHolds == Spec => [](AInv /\ ChainInv)
<1>1. AInv /\ ChainInv /\ [Next]_vars => ChainInv'
  BY GuardedKept, KnownKept, TrackedKept, UntouchedKept, ComparedKept, ChainKept DEF ChainInv
<1> QED
  BY <1>1, AInvInit, ShapeKept, ChainInvInit, PTL DEF Spec

\* Unless the user edits between two reads the code does back to back, or puts an
\* earlier content back in the middle of a call, the path transitions in the log
\* chain (FileChange.apply never raises), a Diff is there when one is due, and every
\* preimage artifact holds what the Run found: any later process can replay the
\* evidence, whatever was interrupted, reconciled or edited before.
THEOREM EvidenceStaysReplayable == Spec => []EvidenceReplays
<1>1. AInv /\ ChainInv => EvidenceReplays
  BY DEF AInv, ChainInv, EvidenceReplays
<1> QED
  BY <1>1, ChainHolds, PTL

(****************************************************************************)
(* What Pico changed and has not yet in an effect.                          *)
(****************************************************************************)
Accounted ==
    odd = {} =>
        /\ pc \notin {"result", "command", "verify", "down", "poisoned"} => unaccounted = NoPaths
        /\ pc = "down" /\ ~call.started => unaccounted = NoPaths
        /\ pc = "result" => DOMAIN unaccounted = {Target}
        /\ call.started /\ call.args \notin Commands =>
              \A q \in DOMAIN unaccounted : q \in DOMAIN call.before /\ unaccounted[q] = call.before[q]
        /\ pc \in {"command", "verify"} =>
              \A q \in DOMAIN unaccounted : unaccounted[q] = probe.ws[q]

LEMMA NothingLeft ==
    ASSUME NEW S, \A q \in DOMAIN unaccounted \ S : ws[q] = unaccounted[q]
    PROVE  StillUnaccounted(S) = NoPaths
<1>1. {q \in DOMAIN unaccounted \ S : ws[q] # unaccounted[q]} = {}
  OBVIOUS
<1> QED
  BY <1>1 DEF StillUnaccounted, NoPaths

\* A settled call leaves nothing out, whether it changed a file or not.
LEMMA SettlingAccounts ==
    ASSUME AInv, Accounted, odd = {},
           Refused \/ Interrupted \/ OutcomeLost \/ Finish
    PROVE  unaccounted' = NoPaths
<1>n. ASSUME unaccounted = NoPaths, NEW S
      PROVE  StillUnaccounted(S) = NoPaths
  BY <1>n, NothingLeft, NoPathsTyped
<1>1. CASE Refused
  <2>1. unaccounted' = StillUnaccounted(DOMAIN NoPaths)
    BY <1>1 DEF Refused, FinishUnchanged, FinishCall
  <2>2. CASE pc = "command"
    <3>1. Changes = {}
      BY <1>1, <2>2 DEF Refused
    <3>2. \A q \in DOMAIN unaccounted : ws[q] = unaccounted[q]
      <4>1. DOMAIN unaccounted \subseteq Paths
        BY PathStatesAre DEF AInv, TypeOK
      <4>2. \A q \in Paths : ws[q] = probe.ws[q]
        BY <3>1 DEF Changes
      <4> QED
        BY <2>2, <4>1, <4>2 DEF Accounted
    <3> QED
      BY <2>1, <3>2, NothingLeft
  <2>3. CASE pc # "command"
    <3>1. unaccounted = NoPaths
      BY <1>1, <2>3 DEF Refused, Accounted
    <3> QED
      BY <2>1, <3>1, <1>n
  <2> QED
    BY <2>2, <2>3
<1>2. CASE Interrupted
  <2>1. unaccounted' = StillUnaccounted(DOMAIN Detected)
    BY <1>2 DEF Interrupted, FinishCall
  <2>2. DOMAIN Detected = {q \in DOMAIN call.before : ws[q] # call.before[q]}
    BY DEF Detected
  <2>3. \A q \in DOMAIN unaccounted : q \in DOMAIN call.before /\ unaccounted[q] = call.before[q]
    BY <1>2 DEF Interrupted, Accounted
  <2> QED
    BY <2>1, <2>2, <2>3, NothingLeft
<1>3. CASE OutcomeLost
  BY <1>3 DEF OutcomeLost, FinishCall
<1>4. CASE Finish
  <2>1. pc = "result" /\ unaccounted' = StillUnaccounted({Target})
    BY <1>4 DEF Finish, FinishCall, Target
  <2>2. DOMAIN unaccounted = {Target}
    BY <2>1 DEF Accounted
  <2> QED
    BY <2>1, <2>2, NothingLeft
<1> QED
  BY <1>1, <1>2, <1>3, <1>4

\* A verifier that changed a file appends an effect, or leaves nothing.
LEMMA VerifyingAccounts ==
    ASSUME AInv, Accounted, odd = {}, VerifierEnds
    PROVE  unaccounted' = NoPaths
<1>1. PICK c \in Check, changed \in SUBSET Paths, unseen \in BOOLEAN :
          /\ ev' = Verified(ev, c, changed, unseen)
          /\ changed = IF unseen THEN {} ELSE Changes
  BY VerifierSteps
<1>2. /\ pc = "verify"
      /\ unaccounted' = IF Cursor(ev') > Cursor(ev) THEN NoPaths ELSE StillUnaccounted({})
  BY VerifierSteps
<1>3. CASE unseen \/ changed # {}
  <2>1. PICK x : x = [side |-> "unknown", paths |-> changed]
    OBVIOUS
  <2>2. x \in Effect
    BY <2>1 DEF Effect
  <2>3. ev'.effects = Append(ev.effects, x)
    <3>1. ev \in Evidence
      BY DEF AInv, TypeOK
    <3>2. Verified(ev, c, changed, unseen).effects =
              Append(ev.effects, [side |-> "unknown", paths |-> changed])
      BY <1>3, <3>1, VerifiedGrows
    <3> QED
      BY <1>1, <2>1, <3>2
  <2>4. Cursor(ev') > Cursor(ev)
    BY <2>2, <2>3, OneMoreEffect, EvidenceParts DEF AInv, TypeOK, Cursor
  <2> QED
    BY <1>2, <2>4
<1>4. CASE ~unseen /\ changed = {}
  <2>1. \A q \in Paths : ws[q] = probe.ws[q]
    BY <1>1, <1>4 DEF Changes
  <2>2. DOMAIN unaccounted \subseteq Paths
    BY PathStatesAre DEF AInv, TypeOK
  <2>3. \A q \in DOMAIN unaccounted : ws[q] = unaccounted[q]
    BY <1>2, <2>1, <2>2 DEF Accounted
  <2>4. StillUnaccounted({}) = NoPaths
    BY <2>3, NothingLeft
  <2> QED
    BY <1>2, <2>4
<1> QED
  BY <1>3, <1>4

LEMMA AccountedKept == AInv /\ ChainInv /\ Accounted /\ [Next]_vars => Accounted'
<1> SUFFICES ASSUME AInv, ChainInv, Accounted, [Next]_vars, odd' = {}
             PROVE  Accounted'
  BY DEF Accounted
<1>1. CASE UserEdit
  <2>1. odd = {} /\ UNCHANGED <<call, pc, probe, unaccounted>>
    BY <1>1, UserSteps DEF memory
  <2> QED
    BY <2>1 DEF Accounted, Target
<1>2. CASE ProcessWrites
  <2>1. PICK p \in Paths \ DOMAIN unaccounted, s \in States :
            unaccounted' = NowUnaccounted(p, probe.ws)
    BY <1>2 DEF ProcessWrites
  <2>2. /\ DOMAIN unaccounted' = DOMAIN unaccounted \cup {p}
        /\ \A q \in DOMAIN unaccounted : unaccounted'[q] = unaccounted[q]
        /\ unaccounted'[p] = probe.ws[p]
    BY <2>1 DEF NowUnaccounted
  <2>3. pc \in {"command", "verify"} /\ UNCHANGED <<call, pc, probe, odd>>
    BY <1>2 DEF ProcessWrites, memory
  <2>4. pc = "verify" => ~call.started
    BY DEF AInv, CallShape, InCall, StartedPCs, NoCall
  <2>5. pc = "command" => call.args \in Commands
    BY DEF AInv, CallShape
  <2> QED
    BY <2>2, <2>3, <2>4, <2>5 DEF Accounted, Target
<1>3. CASE Replace
  <2>1. /\ pc = "replace" /\ pc' = "result" /\ UNCHANGED <<call, odd>>
        /\ unaccounted' = NowUnaccounted(Target, ws)
    BY <1>3 DEF Replace, Target
  <2>2. call \in PendingCall /\ call.started /\ call.args \notin Commands
    BY <2>1 DEF AInv, CallShape, InCall, StartedPCs
  <2>3. Target \in DOMAIN call.before
    BY <2>2, CallParts, CallNames DEF AInv, CallShape, Target
  <2>4. ws[Target] = call.before[Target]
    BY <2>1, <2>3 DEF ChainInv, Guarded, Untouched, Clean, Unraced
  <2>5. DOMAIN unaccounted = {}
    BY <2>1, NoPathsTyped DEF Accounted
  <2>6. DOMAIN unaccounted' = {Target} /\ unaccounted'[Target] = call.before[Target]
    BY <2>1, <2>4, <2>5 DEF NowUnaccounted
  <2> QED
    BY <2>1, <2>3, <2>6 DEF Accounted, Target
<1>q. ASSUME odd = {}, unaccounted' = NoPaths, pc' # "result"
      PROVE  Accounted'
  BY <1>q, NoPathsTyped DEF Accounted
<1>4. CASE CallTool \/ Admit \/ PlanGoesOn \/ StartGoesOn \/ StageGoesOn \/ GuardGoesOn
           \/ CommandGoesOn
  <2>1. /\ pc \in {"loop", "admit", "plan", "preimage", "run", "commit"} /\ pc' # "result"
        /\ UNCHANGED <<odd, unaccounted>>
    BY <1>4, ToolSteps DEF history, CallTool
  <2> QED
    BY <1>q, <2>1 DEF Accounted
<1>5. CASE Refused \/ Interrupted \/ OutcomeLost \/ Finish
  BY <1>5, <1>q, SettleSteps, SettlingAccounts
<1>6. CASE VerifierEnds
  BY <1>6, <1>q, GateSteps, VerifyingAccounts, VerifierSteps
<1>7. CASE Observe \/ SubmitFinal \/ ReuseOrVerify \/ Recheck \/ Render \/ Deliver
           \/ Stop
  <2>1. pc \notin {"result", "command", "verify", "down", "poisoned"} /\ pc' # "result"
        /\ UNCHANGED <<odd, unaccounted>>
    BY <1>7 DEF Observe, SubmitFinal, ReuseOrVerify, Recheck, Render, Deliver, Stop, history
  <2> QED
    BY <1>q, <2>1 DEF Accounted
<1>8. CASE ResumeGoesOn
  <2>1. pc = "down" /\ ~call.started /\ pc' = "loop" /\ UNCHANGED <<odd, unaccounted>>
    BY <1>8 DEF ResumeGoesOn, Resume, history, NoCall
  <2> QED
    BY <1>q, <2>1 DEF Accounted
<1>9. CASE Crash
  <2>1. odd = {} /\ (pc = "verify" => unaccounted = NoPaths)
    BY <1>9 DEF Crash
  <2>2. /\ pc' = "down" /\ pc \notin {"down", "poisoned", "closed"}
        /\ UNCHANGED <<call, unaccounted>>
    BY <1>9, CrashSteps
  <2>3. pc \in {"result", "command"} => call.started
    BY DEF AInv, CallShape, StartedPCs
  <2> QED
    BY <2>1, <2>2, <2>3 DEF Accounted
<1>10. CASE UNCHANGED vars
  BY <1>10 DEF vars, memory, history, Accounted, Target
<1> QED
  BY <1>1, <1>2, <1>3, <1>4, <1>5, <1>6, <1>7, <1>8, <1>9, <1>10, Steps

\* Between calls and when a Run ends, every change that Pico, a command or a
\* verifier made and that is still visible is in an effect, whatever was
\* interrupted and settled before: a receipt, what can be detected on the declared
\* paths, or an unknown effect.
THEOREM ChangesStayAccounted == Spec => []ChangesAreAccounted
<1>1. Init => Accounted
  BY NoPathsTyped DEF Init, Accounted
<1>2. Accounted => ChangesAreAccounted
  BY DEF Accounted, ChangesAreAccounted
<1> QED
  BY <1>1, <1>2, AccountedKept, ChainHolds, PTL DEF Spec

(****************************************************************************)
(* What the gate has seen.                                                  *)
(****************************************************************************)
Projected == [p \in NetChangedPaths(ev) |-> ev.files[p].current]

PassedNow == {c \in ev.checks : c.status = "passed" /\ c.cursor = Cursor(ev)}

\* No record is of a later cursor, and a passing one of this cursor saw the files
\* as the effects left them.
Judged ==
    /\ \A c \in ev.checks : c.cursor <= Cursor(ev)
    /\ Unraced => \A c \in PassedNow : c.started = Projected /\ c.finished = Projected

\* The record that is rechecked is of this cursor, or the verifier left an unknown
\* effect after it.
Rechecked ==
    pc = "recheck" =>
        probe.cursor = Cursor(ev) \/ \E i \in DOMAIN ev.effects : ev.effects[i].side = "unknown"

Settled ==
    \A i \in DOMAIN ev.effects :
        /\ ev.effects[i].side # "unknown"
        /\ ev.effects[i].side = "partial" =>
               \E j \in i + 1 .. Len(ev.effects), c \in ev.checks :
                   /\ ev.effects[j].side = "changed"
                   /\ ev.effects[i].paths \subseteq ev.effects[j].paths
                   /\ c.status = "passed" /\ c.cursor >= j

\* An answer that passed the gate.
Earned ==
    pc \in {"render", "deliver"} => Settled /\ (VerificationRequired => PassedNow # {})

\* A completed Run is over.
Over == status = "completed" => pc \in {"closed", "poisoned"}

\* Everything the gate asks is about the files, the effects and the checks.
LEMMA SameFacts ==
    ASSUME ev'.files = ev.files, ev'.effects = ev.effects, ev'.checks = ev.checks
    PROVE  /\ Cursor(ev') = Cursor(ev) /\ PassedNow' = PassedNow /\ Projected' = Projected
           /\ Settled' = Settled
           /\ contract' = contract => VerificationRequired' = VerificationRequired
<1>1. Cursor(ev') = Cursor(ev)
  BY DEF Cursor
<1>2. NetChangedPaths(ev') = NetChangedPaths(ev)
  BY DEF NetChangedPaths
<1>3. PassedNow' = PassedNow
  BY <1>1 DEF PassedNow
<1>4. Projected' = Projected
  BY <1>2 DEF Projected
<1>5. Settled' = Settled
  BY DEF Settled
<1>6. RepairedPartials(ev') = RepairedPartials(ev)
  BY DEF RepairedPartials, Repairs
<1>7. contract' = contract => VerificationRequired' = VerificationRequired
  BY <1>2, <1>6 DEF VerificationRequired
<1> QED
  BY <1>1, <1>3, <1>4, <1>5, <1>7

LEMMA OtherSteps ==
    ASSUME AInv, Next,
           ~(Refused \/ Interrupted \/ OutcomeLost \/ Finish \/ VerifierEnds)
    PROVE  ev'.files = ev.files /\ ev'.effects = ev.effects /\ ev'.checks = ev.checks
<1>1. CASE CallTool \/ Admit \/ PlanGoesOn \/ StartGoesOn \/ StageGoesOn \/ GuardGoesOn
           \/ CommandGoesOn
  BY <1>1, ToolSteps
<1>2. CASE UserEdit \/ ProcessWrites \/ Replace \/ Crash
  BY <1>2 DEF UserEdit, ProcessWrites, Replace, Crash
<1>3. CASE SubmitFinal \/ ReuseOrVerify \/ Recheck \/ Render \/ ResumeGoesOn
  BY <1>3 DEF SubmitFinal, ReuseOrVerify, Recheck, Render, ResumeGoesOn, Resume
<1>4. CASE Observe
  <2>1. PICK x : x = ev'
    OBVIOUS
  <2> QED
    BY <1>4, <2>1, EvidenceMarked DEF Observe, AInv, TypeOK
<1>5. CASE Deliver \/ Stop
  <2>1. PICK x, b : /\ x = ev'
                    /\ Deliver => b = DiffMissing
                    /\ ~Deliver => b = (WorkspaceDrift(ev, ws) = {} /\ DiffMissing)
    BY <1>5
  <2>2. b \in BOOLEAN
    BY <2>1 DEF DiffMissing
  <2>3. x = [ev EXCEPT !.broken = b]
    BY <1>5, <2>1 DEF Deliver, Stop
  <2> QED
    BY <2>1, <2>2, <2>3, EvidenceMarked DEF AInv, TypeOK
<1> QED
  BY <1>1, <1>2, <1>3, <1>4, <1>5, Steps

LEMMA OddGrows == AInv /\ [Next]_vars => odd \subseteq odd'
<1> SUFFICES ASSUME AInv, [Next]_vars
             PROVE  odd \subseteq odd'
  OBVIOUS
<1>1. CASE CallTool \/ Admit \/ PlanGoesOn \/ StartGoesOn \/ StageGoesOn \/ GuardGoesOn
           \/ CommandGoesOn
  BY <1>1, ToolSteps DEF history
<1>2. CASE UserEdit \/ ProcessWrites \/ Replace \/ Crash \/ UNCHANGED vars
  BY <1>2 DEF UserEdit, ProcessWrites, Replace, Crash, vars, history
<1>3. CASE Refused \/ Interrupted \/ OutcomeLost \/ Finish
  BY <1>3, SettleSteps
<1>4. CASE \/ Observe \/ SubmitFinal \/ ReuseOrVerify \/ VerifierEnds \/ Recheck \/ Render
           \/ Deliver \/ Stop \/ ResumeGoesOn
  BY <1>4, GateSteps
<1> QED
  BY <1>1, <1>2, <1>3, <1>4, Steps

\* Where a cursor grows, no record is of the new one.
LEMMA NewCursor ==
    ASSUME \A c \in ev'.checks : c.cursor \in Nat /\ c.cursor <= Cursor(ev),
           Cursor(ev) \in Nat, Cursor(ev') = Cursor(ev) + 1
    PROVE  (\A c \in ev'.checks : c.cursor <= Cursor(ev')) /\ PassedNow' = {}
<1>1. \A c \in ev'.checks : c.cursor <= Cursor(ev') /\ c.cursor # Cursor(ev')
  OBVIOUS
<1> QED
  BY <1>1 DEF PassedNow

LEMMA JudgedKept == AInv /\ ChainInv /\ Judged /\ [Next]_vars => Judged'
<1> SUFFICES ASSUME AInv, ChainInv, Judged, [Next]_vars
             PROVE  Judged'
  OBVIOUS
<1>e. ev \in Evidence
  BY DEF AInv, TypeOK
<1>n. Cursor(ev) \in Nat /\ ev.effects \in Seq(Effect) /\ ev.checks \subseteq Check
  BY <1>e, EvidenceParts DEF Cursor
<1>c. \A c \in ev.checks : c.cursor \in Nat /\ c.cursor <= Cursor(ev)
  BY <1>n DEF Judged, Check
<1>o. Unraced' => Unraced
  BY OddGrows DEF Unraced
<1>1. CASE Refused \/ Interrupted \/ OutcomeLost \/ Finish
  <2>1. PICK side, moves : Recordable(side, moves) /\ FinishCall(side, moves)
    BY <1>1, SettlesWell
  <2>2. PICK x : x = ev'
    OBVIOUS
  <2>3. x = Recorded(ev, side, moves)
    BY <2>1, <2>2 DEF FinishCall
  <2>4. CASE side = "none"
    <3>1. x = ev
      BY <2>3, <2>4 DEF Recorded
    <3>2. ev'.files = ev.files /\ ev'.effects = ev.effects /\ ev'.checks = ev.checks
      BY <2>2, <3>1
    <3> QED
      BY <1>o, <3>2, SameFacts DEF Judged
  <2>5. CASE side # "none"
    <3>1. PICK y : y = [side |-> side, paths |-> DOMAIN moves]
      OBVIOUS
    <3>2. x.effects = Append(ev.effects, y) /\ x.checks = ev.checks
      BY <1>e, <2>1, <2>3, <2>5, <3>1, RecordedIs
    <3>3. Len(Append(ev.effects, y)) = Len(ev.effects) + 1
      BY <1>n
    <3>4. Cursor(ev') = Cursor(ev) + 1
      BY <2>2, <3>2, <3>3 DEF Cursor
    <3> QED
      BY <1>c, <1>n, <2>2, <3>2, <3>4, NewCursor DEF Judged
  <2> QED
    BY <2>4, <2>5
<1>2. CASE VerifierEnds
  <2>1. PICK c \in Check, changed \in SUBSET Paths, unseen \in BOOLEAN :
            /\ ev' = Verified(ev, c, changed, unseen)
            /\ c.cursor = probe.cursor
            /\ c.started = [p \in NetChangedPaths(ev) |-> probe.ws[p]]
            /\ c.finished = Captured
            /\ changed = IF unseen THEN {} ELSE Changes
            /\ unseen \/ Changes # {} => c.status # "passed"
    BY <1>2, VerifierSteps
  <2>2. pc = "verify" /\ c.cursor = Cursor(ev)
    BY <1>2, <2>1, VerifierSteps DEF AInv, ProbeShape
  <2>v. PICK v : v = Verified(ev, c, changed, unseen)
    OBVIOUS
  <2>w. /\ v.checks \subseteq ev.checks \cup {c} /\ v.files = ev.files
    <3>1. changed \subseteq Paths
      OBVIOUS
    <3>2. Verified(ev, c, changed, unseen).checks \subseteq ev.checks \cup {c}
      BY <1>e, <3>1, VerifiedIs
    <3>3. Verified(ev, c, changed, unseen).files = ev.files
      BY <1>e, <3>1, VerifiedIs
    <3> QED
      BY <2>v, <3>2, <3>3
  <2>3. ev' = v /\ ev'.checks \subseteq ev.checks \cup {c} /\ ev'.files = ev.files
    BY <2>1, <2>v, <2>w
  <2>4. \A d \in ev'.checks : d.cursor \in Nat /\ d.cursor <= Cursor(ev)
    BY <1>c, <1>n, <2>2, <2>3
  <2>5. CASE unseen \/ changed # {}
    <3>1. PICK y : y = [side |-> "unknown", paths |-> changed]
      OBVIOUS
    <3>2. Verified(ev, c, changed, unseen).effects =
              Append(ev.effects, [side |-> "unknown", paths |-> changed])
      BY <1>e, <2>5, VerifiedGrows
    <3>3. ev'.effects = Append(ev.effects, y)
      BY <2>1, <3>1, <3>2
    <3>4. Len(Append(ev.effects, y)) = Len(ev.effects) + 1
      BY <1>n
    <3>5. Cursor(ev') = Cursor(ev) + 1
      BY <3>3, <3>4 DEF Cursor
    <3> QED
      BY <1>n, <2>4, <3>5, NewCursor DEF Judged
  <2>6. CASE ~(unseen \/ changed # {})
    <3>1. ev'.effects = ev.effects
      BY <1>e, <2>3, <2>6, <2>v, VerifiedStays
    <3>2. Cursor(ev') = Cursor(ev)
      BY <3>1 DEF Cursor
    <3>3. NetChangedPaths(ev') = NetChangedPaths(ev)
      BY <2>3 DEF NetChangedPaths
    <3>4. Projected' = Projected
      BY <2>3, <3>3 DEF Projected
    <3>5. PassedNow' \subseteq PassedNow \cup {c}
      BY <2>3, <3>2 DEF PassedNow
    <3>6. ASSUME Unraced
          PROVE  c.started = Projected /\ c.finished = Projected
      <4>1. NetChangedPaths(ev) \subseteq DOMAIN ev.files /\ NetChangedPaths(ev) \subseteq Paths
        BY <1>e, EvidenceParts DEF NetChangedPaths
      <4>2. \A p \in NetChangedPaths(ev) : probe.ws[p] = ev.files[p].current
        BY <2>2, <3>6, <4>1 DEF ChainInv, Compared, WorkspaceDrift
      <4>3. \A p \in NetChangedPaths(ev) : ws[p] = probe.ws[p]
        BY <2>1, <2>6, <4>1 DEF Changes
      <4>4. [p \in NetChangedPaths(ev) |-> probe.ws[p]] = Projected
        BY <4>2 DEF Projected
      <4>5. Captured = Projected
        BY <4>2, <4>3 DEF Captured, Projected
      <4> QED
        BY <2>1, <4>4, <4>5
    <3>7. \A d \in ev'.checks : d.cursor <= Cursor(ev')
      BY <2>4, <3>2
    <3>8. ASSUME Unraced', NEW d \in PassedNow'
          PROVE  d.started = Projected' /\ d.finished = Projected'
      BY <1>o, <3>4, <3>5, <3>6, <3>8 DEF Judged
    <3> QED
      BY <3>7, <3>8 DEF Judged
  <2> QED
    BY <2>5, <2>6
<1>3. CASE Next /\ ~(Refused \/ Interrupted \/ OutcomeLost \/ Finish \/ VerifierEnds)
  <2>1. ev'.files = ev.files /\ ev'.effects = ev.effects /\ ev'.checks = ev.checks
    BY <1>3, OtherSteps
  <2> QED
    BY <1>o, <2>1, SameFacts DEF Judged
<1>4. CASE UNCHANGED vars
  <2>1. ev'.files = ev.files /\ ev'.effects = ev.effects /\ ev'.checks = ev.checks
    BY <1>4 DEF vars
  <2> QED
    BY <1>o, <2>1, SameFacts DEF Judged
<1> QED
  BY <1>1, <1>2, <1>3, <1>4

LEMMA RecheckedKept == AInv /\ Rechecked /\ [Next]_vars => Rechecked'
<1> SUFFICES ASSUME AInv, Rechecked, [Next]_vars, pc' = "recheck"
             PROVE  Rechecked'
  BY DEF Rechecked
<1>e. ev \in Evidence
  BY DEF AInv, TypeOK
<1>1. CASE UserEdit \/ UNCHANGED vars
  <2>1. UNCHANGED <<pc, probe, ev>>
    BY <1>1, UserSteps DEF vars, memory
  <2> QED
    BY <2>1 DEF Rechecked, Cursor
<1>2. CASE ReuseOrVerify
  <2>1. probe'.cursor = Cursor(ev) /\ ev' = ev
    BY <1>2 DEF ReuseOrVerify
  <2> QED
    BY <2>1 DEF Rechecked, Cursor
<1>3. CASE VerifierEnds
  <2>1. PICK c \in Check, changed \in SUBSET Paths, unseen \in BOOLEAN :
            ev' = Verified(ev, c, changed, unseen)
    BY <1>3, VerifierSteps
  <2>2. probe'.cursor = Cursor(ev)
    BY <1>3, VerifierSteps DEF AInv, ProbeShape, memory
  <2>3. CASE unseen \/ changed # {}
    <3>1. PICK x : x = [side |-> "unknown", paths |-> changed]
      OBVIOUS
    <3>2. x \in Effect /\ x.side = "unknown"
      BY <3>1 DEF Effect
    <3>3. Verified(ev, c, changed, unseen).effects =
              Append(ev.effects, [side |-> "unknown", paths |-> changed])
      BY <1>e, <2>3, VerifiedGrows
    <3>4. ev'.effects = Append(ev.effects, x)
      BY <2>1, <3>1, <3>3
    <3>5. ev.effects \in Seq(Effect)
      BY <1>e, EvidenceParts
    <3>6. /\ DOMAIN Append(ev.effects, x) = 1 .. Len(ev.effects) + 1
          /\ Append(ev.effects, x)[Len(ev.effects) + 1] = x
          /\ Len(ev.effects) \in Nat
      BY <3>2, <3>5, OneMoreEffect
    <3>7. Len(ev.effects) + 1 \in 1 .. Len(ev.effects) + 1
      BY <3>6
    <3>8. PICK es : es = Append(ev.effects, x)
      OBVIOUS
    <3>9. \E i \in DOMAIN es : es[i].side = "unknown"
      BY <3>2, <3>6, <3>7, <3>8
    <3> QED
      BY <3>4, <3>8, <3>9 DEF Rechecked
  <2>4. CASE ~(unseen \/ changed # {})
    <3>1. Verified(ev, c, changed, unseen).effects = ev.effects
      BY <1>e, <2>4, VerifiedStays
    <3> QED
      BY <2>1, <2>2, <3>1 DEF Rechecked, Cursor
  <2> QED
    BY <2>3, <2>4
<1>4. CASE CallTool \/ Admit \/ PlanGoesOn \/ StartGoesOn \/ StageGoesOn \/ GuardGoesOn
           \/ CommandGoesOn
  BY <1>4, ToolSteps
<1>5. CASE Refused \/ Interrupted \/ OutcomeLost \/ Finish
  BY <1>5, SettleSteps
<1>6. CASE Replace \/ ProcessWrites \/ Observe \/ SubmitFinal \/ Recheck \/ Render \/ Deliver
           \/ Stop \/ Crash \/ ResumeGoesOn
  BY <1>6 DEF Replace, ProcessWrites, Observe, SubmitFinal, Recheck, Render, Deliver, Stop,
     Crash, ResumeGoesOn, Resume
<1> QED
  BY <1>1, <1>2, <1>3, <1>4, <1>5, <1>6, Steps

\* The two ways through the gate: nothing is uncertain and nothing need be verified,
\* or a passing record is current and every repair is older than it.
LEMMA SubmitEarns ==
    ASSUME SubmitFinal, pc' = "render"
    PROVE  Settled /\ ~VerificationRequired
<1>1. ~VerificationRequired /\ UnresolvedEffects(ev, {}) = {}
  BY DEF SubmitFinal
<1>2. Uncertain(ev) = {}
  BY <1>1 DEF UnresolvedEffects
<1> QED
  BY <1>1, <1>2 DEF Settled, Uncertain

LEMMA RecheckEarns ==
    ASSUME Recheck, Rechecked, pc' = "render"
    PROVE  Settled /\ PassedNow # {}
<1> DEFINE latest == LatestVerification(ev, probe.cursor, Captured)
<1>1. pc = "recheck" /\ HasPassed(probe.cursor) /\ UnresolvedEffects(ev, latest) = {}
  BY DEF Recheck
<1>2. latest \subseteq ev.checks
  BY DEF LatestVerification
<1> HIDE DEF latest
<1>3. ASSUME NEW i \in DOMAIN ev.effects, ev.effects[i].side # "changed"
      PROVE  /\ ev.effects[i].side = "partial"
             /\ \E j \in i + 1 .. Len(ev.effects), c \in ev.checks :
                    /\ ev.effects[j].side = "changed"
                    /\ ev.effects[i].paths \subseteq ev.effects[j].paths
                    /\ c.status = "passed" /\ c.cursor >= j
  <2>1. i \in Uncertain(ev)
    BY <1>3 DEF Uncertain
  <2>2. PICK j \in Repairs(ev, i), c \in latest : c.status = "passed" /\ c.cursor >= j
    BY <1>1, <2>1 DEF UnresolvedEffects
  <2>3. /\ j \in i + 1 .. Len(ev.effects) /\ ev.effects[i].side = "partial"
        /\ ev.effects[j].side = "changed" /\ ev.effects[i].paths \subseteq ev.effects[j].paths
    BY <2>2 DEF Repairs
  <2>4. c \in ev.checks
    BY <1>2, <2>2
  <2> QED
    BY <2>2, <2>3, <2>4
<1>4. Settled
  BY <1>3 DEF Settled
<1>5. probe.cursor = Cursor(ev)
  BY <1>1, <1>4 DEF Rechecked, Settled
<1>6. PICK c \in ev.checks : c.status = "passed" /\ c.cursor = probe.cursor
  BY <1>1 DEF HasPassed, LatestVerification, VerificationIsCurrent
<1>7. c \in PassedNow
  BY <1>5, <1>6 DEF PassedNow
<1> QED
  BY <1>4, <1>7

LEMMA ContractStays == AInv /\ [Next]_vars => contract' = contract
<1> SUFFICES ASSUME AInv, [Next]_vars
             PROVE  contract' = contract
  OBVIOUS
<1>1. CASE UserEdit \/ Observe \/ CallTool \/ Admit \/ Replace \/ ProcessWrites \/ SubmitFinal
           \/ ReuseOrVerify
  BY <1>1 DEF UserEdit, Observe, CallTool, Admit, Replace, ProcessWrites, SubmitFinal,
     ReuseOrVerify
<1>2. CASE PlanGoesOn \/ StartGoesOn \/ StageGoesOn \/ GuardGoesOn \/ CommandGoesOn
  BY <1>2 DEF PlanGoesOn, Plan, StartGoesOn, Start, StageGoesOn, Stage, GuardGoesOn, Guard,
     CommandGoesOn, RunCommand, FinishUnchanged, FinishCall
<1>3. CASE Refused \/ Interrupted \/ OutcomeLost \/ Finish
  BY <1>3, SettlesWell DEF FinishCall
<1>4. CASE VerifierEnds \/ Recheck \/ Render \/ Deliver \/ Stop \/ Crash \/ ResumeGoesOn
           \/ UNCHANGED vars
  BY <1>4 DEF VerifierEnds, Recheck, Render, Deliver, Stop, Crash, ResumeGoesOn, Resume, vars
<1> QED
  BY <1>1, <1>2, <1>3, <1>4, Steps

LEMMA EarnedKept == AInv /\ Rechecked /\ Earned /\ [Next]_vars => Earned'
<1> SUFFICES ASSUME AInv, Rechecked, Earned, [Next]_vars, pc' \in {"render", "deliver"}
             PROVE  Earned'
  BY DEF Earned
<1>k. ASSUME ev'.files = ev.files, ev'.effects = ev.effects, ev'.checks = ev.checks,
             Settled /\ (VerificationRequired => PassedNow # {})
      PROVE  Earned'
  BY <1>k, SameFacts, ContractStays DEF Earned
<1>1. CASE UserEdit \/ UNCHANGED vars \/ Render
  <2>1. ev' = ev /\ pc \in {"render", "deliver"}
    BY <1>1 DEF UserEdit, vars, Render
  <2> QED
    BY <1>k, <2>1 DEF Earned
<1>2. CASE SubmitFinal
  <2>1. ev' = ev /\ pc' = "render"
    BY <1>2 DEF SubmitFinal
  <2> QED
    BY <1>2, <1>k, <2>1, SubmitEarns
<1>3. CASE Recheck
  <2>1. ev' = ev /\ pc' = "render"
    BY <1>3 DEF Recheck
  <2> QED
    BY <1>3, <1>k, <2>1, RecheckEarns
<1>4. CASE CallTool \/ Admit \/ PlanGoesOn \/ StartGoesOn \/ StageGoesOn \/ GuardGoesOn
           \/ CommandGoesOn
  BY <1>4, ToolSteps
<1>5. CASE Refused \/ Interrupted \/ OutcomeLost \/ Finish
  BY <1>5, SettleSteps
<1>6. CASE Replace \/ ProcessWrites \/ Observe \/ ReuseOrVerify \/ VerifierEnds \/ Deliver
           \/ Stop \/ Crash \/ ResumeGoesOn
  BY <1>6 DEF Replace, ProcessWrites, Observe, ReuseOrVerify, VerifierEnds, Deliver, Stop,
     Crash, ResumeGoesOn, Resume
<1> QED
  BY <1>1, <1>2, <1>3, <1>4, <1>5, <1>6, Steps

\* A completed Run changes no more.
LEMMA OverSteps ==
    ASSUME AInv, Over, [Next]_vars
    PROVE  /\ Over'
           /\ status' = "completed" =>
                  \/ Deliver
                  \/ status = "completed" /\ UNCHANGED <<contract, ev, delivered, odd>>
<1>1. CASE UNCHANGED vars
  BY <1>1 DEF vars, history, Over
<1>2. CASE Deliver
  BY <1>2 DEF Deliver, Over
<1>3. CASE Stop
  BY <1>3 DEF Stop, Over
<1>4. CASE Next /\ ~Deliver /\ ~Stop
  <2>1. pc \notin {"closed", "poisoned"} /\ status' = status
    <3>1. CASE CallTool \/ Admit \/ Replace \/ PlanGoesOn \/ StartGoesOn \/ StageGoesOn
               \/ GuardGoesOn \/ CommandGoesOn
      BY <3>1 DEF CallTool, Admit, Replace, PlanGoesOn, Plan, StartGoesOn, Start, StageGoesOn,
         Stage, GuardGoesOn, Guard, CommandGoesOn, RunCommand, FinishUnchanged, FinishCall
    <3>2. CASE Refused \/ Interrupted \/ OutcomeLost \/ Finish
      <4>1. status' = status
        BY <3>2, SettlesWell DEF FinishCall
      <4> QED
        BY <3>2, <4>1 DEF Refused, Interrupted, OutcomeLost, Finish
    <3>3. CASE UserEdit \/ Observe \/ ProcessWrites \/ SubmitFinal \/ ReuseOrVerify
               \/ VerifierEnds
      BY <3>3 DEF UserEdit, Observe, ProcessWrites, SubmitFinal, ReuseOrVerify, VerifierEnds
    <3>4. CASE Recheck \/ Render \/ Crash \/ ResumeGoesOn
      BY <3>4 DEF Recheck, Render, Crash, ResumeGoesOn, Resume
    <3> QED
      BY <1>4, <3>1, <3>2, <3>3, <3>4, Steps
  <2> QED
    BY <2>1 DEF Over
<1> QED
  BY <1>1, <1>2, <1>3, <1>4

\* What is delivered was verified, and nothing is uncertain any more.
LEMMA DeliverEarns ==
    ASSUME AInv, ChainInv, Judged, Earned, Deliver
    PROVE  CompletionIsEarned'
<1>1. /\ pc = "deliver" /\ delivered' = Captured
      /\ ev'.files = ev.files /\ ev'.effects = ev.effects /\ ev'.checks = ev.checks
  <2>1. PICK x : x = ev'
    OBVIOUS
  <2>2. DiffMissing \in BOOLEAN
    BY DEF DiffMissing
  <2>3. x.files = ev.files /\ x.effects = ev.effects /\ x.checks = ev.checks
    BY <2>1, <2>2, EvidenceMarked DEF Deliver, AInv, TypeOK
  <2> QED
    BY <2>1, <2>3 DEF Deliver
<1>2. /\ Cursor(ev') = Cursor(ev) /\ Settled' = Settled
      /\ VerificationRequired' = VerificationRequired
  BY <1>1, SameFacts DEF Deliver
<1>3. Settled /\ (VerificationRequired => PassedNow # {})
  BY <1>1 DEF Earned
<1>4. UncertaintyIsSettled'
  BY <1>2, <1>3 DEF UncertaintyIsSettled, Settled
<1>5. ASSUME VerificationRequired, Unraced
      PROVE  \E c \in ev.checks : /\ c.status = "passed" /\ c.cursor = Cursor(ev)
                                  /\ c.started = Captured /\ c.finished = Captured
  <2>1. PICK c \in PassedNow : c.started = Projected /\ c.finished = Projected
    BY <1>3, <1>5 DEF Judged
  <2>2. Captured = Projected
    <3>1. WorkspaceDrift(ev, ws) = {}
      BY <1>1, <1>5 DEF ChainInv, Compared
    <3>2. \A p \in NetChangedPaths(ev) : ws[p] = ev.files[p].current
      BY <3>1 DEF WorkspaceDrift, NetChangedPaths
    <3> QED
      BY <3>2 DEF Captured, Projected
  <2> QED
    BY <2>1, <2>2 DEF PassedNow
<1>6. odd' = odd
  BY DEF Deliver, history
<1>7. DeliveredWasVerified'
  BY <1>1, <1>2, <1>5, <1>6 DEF DeliveredWasVerified, Unraced
<1> QED
  BY <1>4, <1>7 DEF CompletionIsEarned

GateInv == Judged /\ Rechecked /\ Earned /\ Over /\ CompletionIsEarned

LEMMA GateInvInit == Init => GateInv
<1> SUFFICES ASSUME Init
             PROVE  GateInv
  OBVIOUS
<1>1. ev.checks = {}
  BY DEF Init, EmptyEvidence
<1> QED
  BY <1>1 DEF Init, GateInv, Judged, PassedNow, Rechecked, Earned, Over, CompletionIsEarned,
     DeliveredWasVerified, UncertaintyIsSettled

LEMMA GateInvKept == AInv /\ ChainInv /\ GateInv /\ [Next]_vars => GateInv'
<1> SUFFICES ASSUME AInv, ChainInv, GateInv, [Next]_vars
             PROVE  GateInv'
  OBVIOUS
<1>1. Judged' /\ Rechecked' /\ Earned' /\ Over'
  BY JudgedKept, RecheckedKept, EarnedKept, OverSteps DEF GateInv
<1>2. CompletionIsEarned'
  <2>1. CASE Deliver
    BY <2>1, DeliverEarns DEF GateInv
  <2>2. CASE status' # "completed"
    BY <2>2 DEF CompletionIsEarned, DeliveredWasVerified, UncertaintyIsSettled
  <2>3. CASE status = "completed" /\ UNCHANGED <<contract, ev, delivered, odd>>
    <3>1. VerificationRequired' = VerificationRequired
      BY <2>3, SameFacts
    <3>2. DeliveredWasVerified'
      BY <2>3, <3>1 DEF GateInv, CompletionIsEarned, DeliveredWasVerified, Cursor
    <3>3. UncertaintyIsSettled'
      BY <2>3 DEF GateInv, CompletionIsEarned, UncertaintyIsSettled
    <3> QED
      BY <3>2, <3>3 DEF CompletionIsEarned
  <2> QED
    BY <2>1, <2>2, <2>3, OverSteps DEF GateInv
<1> QED
  BY <1>1, <1>2 DEF GateInv

\* A Run completes only over effects that are known, or repaired and verified after
\* the repair; and when it had to verify, with the very file states a passing
\* verifier started and finished on after the last effect, unless the user edits
\* between the last check and the rendering (CompletionController.assess, _verify,
\* build_final_diff).
THEOREM CompletionsAreEarned == Spec => []CompletionIsEarned
<1>1. GateInv => CompletionIsEarned
  BY DEF GateInv
<1> QED
  BY <1>1, GateInvInit, GateInvKept, ChainHolds, PTL DEF Spec
================================================================================
