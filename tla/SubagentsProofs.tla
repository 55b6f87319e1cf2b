--------------------------- MODULE SubagentsProofs -----------------------------
(****************************************************************************)
(* The inductive invariant of Subagents and the theorems that follow from   *)
(* it, for any children, any number of crashes, changes by others at any    *)
(* time, and calls that fail or are cut at any place.                       *)
(****************************************************************************)
EXTENDS Subagents, TLAPS

Down == pc \in {"down", "down_integrating"}

\* The children of which memory may know more than the log.
Lost == unreported \cup unrecorded

\* What each place of a call says of its child.
CallShape ==
    /\ InDelegation \/ InIntegration => child \in Children /\ role[child] # None
    /\ InDelegation => child \notin receipts \cup integrations \cup unreported
    /\ pc \in {"prepare", "working"} => records[child] = "running"
    /\ pc = "report" => records[child] \in {"failed", "completed"}
    /\ pc \in {"verify", "apply", "applied", "marked"} => role[child] = "implement"
    /\ pc \in {"verify", "apply", "applied"} => records[child] = "completed"
    /\ pc = "marked" => records[child] = "integrated" /\ child \in receipts \cup unreported
    /\ pc = "apply" => (Clean /\ head = base[child]) \/ child \in raced
    /\ pc = "down_integrating" => child \in Children

\* A process that died remembers nothing; a child that was not asked for is nowhere; a
\* lost delegation has no receipt, and a lost integration was marked.
MemoryShape ==
    /\ Down => records = NoRecords /\ held = {}
    /\ \A c \in Children : role[c] = None => records[c] = "none" /\ c \notin unreported
    /\ unreported \cap receipts = {}
    /\ ~Down => \A c \in unrecorded : records[c] = "integrated"

\* A worktree is held for a completed child, for the one of the call, or for one whose
\* call was cut; a record says running for the child of the call, or for such a one.
HeldShape ==
    /\ \A c \in held : records[c] = "completed" \/ c \in Lost
                       \/ (c = child /\ pc \in {"working", "report", "marked"})
    /\ \A c \in Children : records[c] = "running" =>
            c \in unreported \/ (c = child /\ pc \in {"prepare", "working"})

\* Memory knows of c what the log knows, or more.
Ahead(c) ==
    /\ Recovered[c] = "integrated" => records[c] = "integrated"
    /\ Recovered[c] = "completed" => records[c] \in {"completed", "integrated"}

\* Memory is never behind, and is ahead only of lost results and of the one on its way.
Agreement ==
    ~Down => \A c \in Children : role[c] = "implement" =>
        /\ Ahead(c)
        /\ c \notin Lost /\ ~(c = child /\ pc \in {"report", "marked"}) => Agrees(c)

Ended == status = "completed" => pc = "closed" /\ receipts \ integrations \subseteq unrecorded

IInv ==
    /\ TypeOK
    /\ LogRecovers
    /\ CallShape
    /\ MemoryShape
    /\ HeldShape
    /\ Agreement
    /\ Ended
    /\ elsewhere \subseteq raced

\* TypeOK by groups: the log, the process and the Run, and the history.
LogTypes ==
    /\ role \in [Children -> {None, "explore", "implement"}]
    /\ base \in [Children -> Nat]
    /\ receipts \subseteq {c \in Children : role[c] = "implement"}
    /\ integrations \subseteq Children
    /\ uncertain \subseteq Children
    /\ recorded \subseteq Children
    /\ unknown \in BOOLEAN

PlaceTypes ==
    /\ records \in [Children -> Statuses]
    /\ held \subseteq Children
    /\ pc \in PCs
    /\ child \in Children \cup {None}
    /\ status \in {"running", "completed"}

HistoryTypes ==
    /\ elsewhere \subseteq Children /\ raced \subseteq Children
    /\ unreported \subseteq Children /\ unrecorded \subseteq Children
    /\ mistaken \subseteq Children

\* Counters stay numbers: a fact of its own, for the leaves that speak of sets too.
LEMMA SuccessorIsNat == \A n \in Nat : n + 1 \in Nat
  OBVIOUS

\* The invariant holds at the start, when nobody was asked for anything.
LEMMA InitEstablishes == Init => IInv
<1>. SUFFICES ASSUME Init PROVE IInv
  OBVIOUS
<1>1. TypeOK
  BY DEF Init, TypeOK, NoRecords, Statuses, PCs
<1>2. CallShape /\ HeldShape /\ LogRecovers
  BY DEF Init, CallShape, HeldShape, InDelegation, InIntegration, LogRecovers, NoRecords
<1>3. MemoryShape /\ Agreement
  BY DEF Init, MemoryShape, Agreement, Agrees, Ahead, Recovered, NoRecords, Down
<1>. QED  BY <1>1, <1>2, <1>3 DEF Init, IInv, Ended

\* Others touch the repository only; where they race git apply that is noted.
LEMMA OthersWorkKeeps == ASSUME IInv, OthersWork PROVE IInv'
<1>. USE DEF OthersWork, IInv,
           log, repository, memory, history, bounds, InDelegation, InIntegration
<1>1. TypeOK'
  <2>1. LogTypes'
    BY DEF TypeOK, LogTypes, CallShape
  <2>2. PlaceTypes'
    BY DEF TypeOK, PlaceTypes, Statuses, PCs, CallShape
  <2>3. HistoryTypes'
    BY DEF TypeOK, HistoryTypes, CallShape
  <2>4. (head \in Nat /\ edits \in Nat /\ crashes \in Nat)'
    BY SuccessorIsNat DEF TypeOK
  <2>5. (committed \subseteq Children /\ present \subseteq Children /\ own \in BOOLEAN)'
    BY DEF TypeOK, CallShape
  <2>. QED  BY <2>1, <2>2, <2>3, <2>4, <2>5 DEF TypeOK, LogTypes, PlaceTypes, HistoryTypes
<1>2. LogRecovers'
  BY DEF LogRecovers, CallShape
<1>3. CallShape'
  BY DEF CallShape, Clean, TypeOK
<1>4. MemoryShape'
  BY DEF MemoryShape, CallShape, Down, TypeOK
<1>5. HeldShape'
  BY DEF HeldShape, Lost, CallShape, TypeOK
<1>6. Agreement'
  BY DEF Agreement, Ahead, Agrees, Lost, Recovered, Down, CallShape, TypeOK
<1>7. Ended' /\ elsewhere' \subseteq raced'
  BY DEF Ended
<1>. QED  BY <1>1, <1>2, <1>3, <1>4, <1>5, <1>6, <1>7

\* A new child is on its way, and so far nowhere in the log.
LEMMA DelegateKeeps ==
    ASSUME IInv, NEW c \in Children, NEW r \in {"explore", "implement"}, Delegate(c, r)
    PROVE  IInv'
<1>. USE DEF Delegate, IInv,
           log, repository, memory, history, bounds, InDelegation, InIntegration
<1>1. TypeOK'
  <2>1. LogTypes'
    BY DEF TypeOK, LogTypes, None
  <2>2. PlaceTypes'
    BY DEF TypeOK, PlaceTypes, Statuses, PCs, CallShape
  <2>3. HistoryTypes'
    BY DEF TypeOK, HistoryTypes, CallShape
  <2>4. (head \in Nat /\ edits \in Nat /\ crashes \in Nat)'
    BY SuccessorIsNat DEF TypeOK
  <2>5. (committed \subseteq Children /\ present \subseteq Children /\ own \in BOOLEAN)'
    BY DEF TypeOK, CallShape
  <2>. QED  BY <2>1, <2>2, <2>3, <2>4, <2>5 DEF TypeOK, LogTypes, PlaceTypes, HistoryTypes
<1>2. LogRecovers'
  BY DEF LogRecovers, CallShape
<1>3. CallShape'
  BY DEF CallShape, MemoryShape, LogRecovers, TypeOK, None
<1>4. MemoryShape'
  BY DEF MemoryShape, Down, TypeOK, None
<1>5. HeldShape'
  BY DEF HeldShape, Lost, MemoryShape, TypeOK, None
<1>6. Agreement'
  BY DEF Agreement, Ahead, Agrees, Lost, Recovered, LogRecovers, Down, TypeOK, None,
         MemoryShape
<1>7. Ended' /\ elsewhere' \subseteq raced'
  BY DEF Ended
<1>. QED  BY <1>1, <1>2, <1>3, <1>4, <1>5, <1>6, <1>7

\* The child gets its base and its worktree, or has failed.
LEMMA PrepareKeeps == ASSUME IInv, Prepare PROVE IInv'
<1>. USE DEF Prepare, ChildBecomes, IInv,
           log, repository, memory, history, bounds, InDelegation, InIntegration
<1>1. TypeOK'
  <2>1. LogTypes'
    BY DEF TypeOK, LogTypes, CallShape
  <2>2. PlaceTypes'
    BY DEF TypeOK, PlaceTypes, Statuses, PCs, CallShape
  <2>3. HistoryTypes'
    BY DEF TypeOK, HistoryTypes, CallShape
  <2>4. (head \in Nat /\ edits \in Nat /\ crashes \in Nat)'
    BY SuccessorIsNat DEF TypeOK
  <2>5. (committed \subseteq Children /\ present \subseteq Children /\ own \in BOOLEAN)'
    BY DEF TypeOK, CallShape
  <2>. QED  BY <2>1, <2>2, <2>3, <2>4, <2>5 DEF TypeOK, LogTypes, PlaceTypes, HistoryTypes
<1>2. LogRecovers'
  BY DEF LogRecovers, CallShape
<1>3. CallShape'
  BY DEF CallShape, Clean, TypeOK
<1>4. MemoryShape'
  BY DEF MemoryShape, CallShape, Down, TypeOK
<1>5. HeldShape'
  BY DEF HeldShape, Lost, CallShape, TypeOK
<1>6. Agreement'
  BY DEF Agreement, Ahead, Agrees, Lost, Recovered, Down, CallShape, TypeOK
<1>7. Ended' /\ elsewhere' \subseteq raced'
  BY DEF Ended
<1>. QED  BY <1>1, <1>2, <1>3, <1>4, <1>5, <1>6, <1>7

\* The child ends: from here memory is ahead of the log by it.
LEMMA RunChildKeeps == ASSUME IInv, RunChild PROVE IInv'
<1>. USE DEF RunChild, ChildBecomes, IInv,
           log, repository, memory, history, bounds, InDelegation, InIntegration
<1>1. TypeOK'
  <2>1. LogTypes'
    BY DEF TypeOK, LogTypes, CallShape
  <2>2. PlaceTypes'
    BY DEF TypeOK, PlaceTypes, Statuses, PCs, CallShape
  <2>3. HistoryTypes'
    BY DEF TypeOK, HistoryTypes, CallShape
  <2>4. (head \in Nat /\ edits \in Nat /\ crashes \in Nat)'
    BY SuccessorIsNat DEF TypeOK
  <2>5. (committed \subseteq Children /\ present \subseteq Children /\ own \in BOOLEAN)'
    BY DEF TypeOK, CallShape
  <2>. QED  BY <2>1, <2>2, <2>3, <2>4, <2>5 DEF TypeOK, LogTypes, PlaceTypes, HistoryTypes
<1>2. LogRecovers'
  BY DEF LogRecovers, CallShape
<1>3. CallShape'
  BY DEF CallShape, Clean, TypeOK
<1>4. MemoryShape'
  BY DEF MemoryShape, CallShape, Down, TypeOK
<1>5. HeldShape'
  BY DEF HeldShape, Lost, CallShape, TypeOK
<1>6. Agreement'
  BY DEF Agreement, Ahead, Agrees, Lost, Recovered, Down, CallShape, TypeOK
<1>7. Ended' /\ elsewhere' \subseteq raced'
  BY DEF Ended
<1>. QED  BY <1>1, <1>2, <1>3, <1>4, <1>5, <1>6, <1>7

\* The result is appended, and memory and log agree on the child again, or is lost.
LEMMA ReportKeeps == ASSUME IInv, Report PROVE IInv'
<1>. USE DEF Report, IInv,
           log, repository, memory, history, bounds, InDelegation, InIntegration
<1>1. TypeOK'
  <2>1. LogTypes'
    BY DEF TypeOK, LogTypes, CallShape
  <2>2. PlaceTypes'
    BY DEF TypeOK, PlaceTypes, Statuses, PCs, CallShape
  <2>3. HistoryTypes'
    BY DEF TypeOK, HistoryTypes, CallShape
  <2>4. (head \in Nat /\ edits \in Nat /\ crashes \in Nat)'
    BY SuccessorIsNat DEF TypeOK
  <2>5. (committed \subseteq Children /\ present \subseteq Children /\ own \in BOOLEAN)'
    BY DEF TypeOK, CallShape
  <2>. QED  BY <2>1, <2>2, <2>3, <2>4, <2>5 DEF TypeOK, LogTypes, PlaceTypes, HistoryTypes
<1>2. LogRecovers'
  BY DEF LogRecovers, CallShape
<1>3. CallShape'
  BY DEF CallShape, Clean, TypeOK
<1>4. MemoryShape'
  BY DEF MemoryShape, CallShape, Down, TypeOK
<1>5. HeldShape'
  BY DEF HeldShape, Lost, CallShape, TypeOK
<1>6. Agreement'
  BY DEF Agreement, Ahead, Agrees, Lost, Recovered, Down, CallShape, TypeOK
<1>7. Ended' /\ elsewhere' \subseteq raced'
  BY DEF Ended
<1>. QED  BY <1>1, <1>2, <1>3, <1>4, <1>5, <1>6, <1>7

\* Only a child with a record is integrated, and it was asked for.
LEMMA IntegrateKeeps == ASSUME IInv, NEW c \in Children, Integrate(c) PROVE IInv'
<1>. USE DEF Integrate, IInv,
           log, repository, memory, history, bounds, InDelegation, InIntegration
<1>1. TypeOK'
  <2>1. LogTypes'
    BY DEF TypeOK, LogTypes, CallShape
  <2>2. PlaceTypes'
    BY DEF TypeOK, PlaceTypes, Statuses, PCs, CallShape
  <2>3. HistoryTypes'
    BY DEF TypeOK, HistoryTypes, CallShape
  <2>4. (head \in Nat /\ edits \in Nat /\ crashes \in Nat)'
    BY SuccessorIsNat DEF TypeOK
  <2>5. (committed \subseteq Children /\ present \subseteq Children /\ own \in BOOLEAN)'
    BY DEF TypeOK, CallShape
  <2>. QED  BY <2>1, <2>2, <2>3, <2>4, <2>5 DEF TypeOK, LogTypes, PlaceTypes, HistoryTypes
<1>2. LogRecovers'
  BY DEF LogRecovers, CallShape
<1>3. CallShape'
  BY DEF CallShape, MemoryShape
<1>4. MemoryShape'
  BY DEF MemoryShape, CallShape, Down, TypeOK
<1>5. HeldShape'
  BY DEF HeldShape, Lost, CallShape, TypeOK
<1>6. Agreement'
  BY DEF Agreement, Ahead, Agrees, Lost, Recovered, Down, CallShape, TypeOK
<1>7. Ended' /\ elsewhere' \subseteq raced'
  BY DEF Ended
<1>. QED  BY <1>1, <1>2, <1>3, <1>4, <1>5, <1>6, <1>7

\* Only a completed implement child passes the first checks.
LEMMA CheckBaseKeeps == ASSUME IInv, CheckBase PROVE IInv'
<1>. USE DEF CheckBase, IntegrationFailed, IInv,
           log, repository, memory, history, bounds, InDelegation, InIntegration
<1>1. TypeOK'
  <2>1. LogTypes'
    BY DEF TypeOK, LogTypes, CallShape
  <2>2. PlaceTypes'
    BY DEF TypeOK, PlaceTypes, Statuses, PCs, CallShape
  <2>3. HistoryTypes'
    BY DEF TypeOK, HistoryTypes, CallShape
  <2>4. (head \in Nat /\ edits \in Nat /\ crashes \in Nat)'
    BY SuccessorIsNat DEF TypeOK
  <2>5. (committed \subseteq Children /\ present \subseteq Children /\ own \in BOOLEAN)'
    BY DEF TypeOK, CallShape
  <2>. QED  BY <2>1, <2>2, <2>3, <2>4, <2>5 DEF TypeOK, LogTypes, PlaceTypes, HistoryTypes
<1>2. LogRecovers'
  BY DEF LogRecovers, CallShape
<1>3. CallShape'
  BY DEF CallShape, Clean, TypeOK
<1>4. MemoryShape'
  BY DEF MemoryShape, CallShape, Down, TypeOK
<1>5. HeldShape'
  BY DEF HeldShape, Lost, CallShape, TypeOK
<1>6. Agreement'
  BY DEF Agreement, Ahead, Agrees, Lost, Recovered, Down, CallShape, TypeOK
<1>7. Ended' /\ elsewhere' \subseteq raced'
  BY DEF Ended
<1>. QED  BY <1>1, <1>2, <1>3, <1>4, <1>5, <1>6, <1>7

\* The second look at the parent gives Clean and the base to git apply.
LEMMA VerifyKeeps == ASSUME IInv, Verify PROVE IInv'
<1>. USE DEF Verify, IntegrationFailed, IInv,
           log, repository, memory, history, bounds, InDelegation, InIntegration
<1>1. TypeOK'
  <2>1. LogTypes'
    BY DEF TypeOK, LogTypes, CallShape
  <2>2. PlaceTypes'
    BY DEF TypeOK, PlaceTypes, Statuses, PCs, CallShape
  <2>3. HistoryTypes'
    BY DEF TypeOK, HistoryTypes, CallShape
  <2>4. (head \in Nat /\ edits \in Nat /\ crashes \in Nat)'
    BY SuccessorIsNat DEF TypeOK
  <2>5. (committed \subseteq Children /\ present \subseteq Children /\ own \in BOOLEAN)'
    BY DEF TypeOK, CallShape
  <2>. QED  BY <2>1, <2>2, <2>3, <2>4, <2>5 DEF TypeOK, LogTypes, PlaceTypes, HistoryTypes
<1>2. LogRecovers'
  BY DEF LogRecovers, CallShape
<1>3. CallShape'
  BY DEF CallShape, Clean, TypeOK
<1>4. MemoryShape'
  BY DEF MemoryShape, CallShape, Down, TypeOK
<1>5. HeldShape'
  BY DEF HeldShape, Lost, CallShape, TypeOK
<1>6. Agreement'
  BY DEF Agreement, Ahead, Agrees, Lost, Recovered, Down, CallShape, TypeOK
<1>7. Ended' /\ elsewhere' \subseteq raced'
  BY DEF Ended
<1>. QED  BY <1>1, <1>2, <1>3, <1>4, <1>5, <1>6, <1>7

\* git apply meets what the second look found, unless others raced it.
LEMMA ApplyKeeps == ASSUME IInv, Apply PROVE IInv'
<1>. USE DEF Apply, Written, IntegrationFailed, IInv,
           log, repository, memory, history, bounds, InDelegation, InIntegration
<1>1. TypeOK'
  <2>1. LogTypes'
    BY DEF TypeOK, LogTypes, CallShape
  <2>2. PlaceTypes'
    BY DEF TypeOK, PlaceTypes, Statuses, PCs, CallShape
  <2>3. HistoryTypes'
    BY DEF TypeOK, HistoryTypes, CallShape
  <2>4. (head \in Nat /\ edits \in Nat /\ crashes \in Nat)'
    BY SuccessorIsNat DEF TypeOK
  <2>5. (committed \subseteq Children /\ present \subseteq Children /\ own \in BOOLEAN)'
    BY DEF TypeOK, CallShape
  <2>. QED  BY <2>1, <2>2, <2>3, <2>4, <2>5 DEF TypeOK, LogTypes, PlaceTypes, HistoryTypes
<1>2. LogRecovers'
  BY DEF LogRecovers, CallShape
<1>3. CallShape'
  BY DEF CallShape, Clean, TypeOK
<1>4. MemoryShape'
  BY DEF MemoryShape, CallShape, Down, TypeOK
<1>5. HeldShape'
  BY DEF HeldShape, Lost, CallShape, TypeOK
<1>6. Agreement'
  BY DEF Agreement, Ahead, Agrees, Lost, Recovered, Down, CallShape, TypeOK
<1>7. Ended' /\ elsewhere' \subseteq raced'
  BY DEF Ended, CallShape
<1>. QED  BY <1>1, <1>2, <1>3, <1>4, <1>5, <1>6, <1>7

\* The record is marked: memory is ahead of the log by an integration.
LEMMA MarkKeeps == ASSUME IInv, Mark PROVE IInv'
<1>. USE DEF Mark, IntegrationFailed, IInv,
           log, repository, memory, history, bounds, InDelegation, InIntegration
<1>1. TypeOK'
  <2>1. LogTypes'
    BY DEF TypeOK, LogTypes, CallShape
  <2>2. PlaceTypes'
    BY DEF TypeOK, PlaceTypes, Statuses, PCs, CallShape
  <2>3. HistoryTypes'
    BY DEF TypeOK, HistoryTypes, CallShape
  <2>4. (head \in Nat /\ edits \in Nat /\ crashes \in Nat)'
    BY SuccessorIsNat DEF TypeOK
  <2>5. (committed \subseteq Children /\ present \subseteq Children /\ own \in BOOLEAN)'
    BY DEF TypeOK, CallShape
  <2>. QED  BY <2>1, <2>2, <2>3, <2>4, <2>5 DEF TypeOK, LogTypes, PlaceTypes, HistoryTypes
<1>2. LogRecovers'
  BY DEF LogRecovers, CallShape
<1>3. CallShape'
  BY DEF CallShape, TypeOK, Agreement, Agrees, Lost, Recovered, MemoryShape, Down
<1>4. MemoryShape'
  BY DEF MemoryShape, CallShape, Down, TypeOK
<1>5. HeldShape'
  BY DEF HeldShape, Lost, CallShape, TypeOK
<1>6. Agreement'
  BY DEF Agreement, Ahead, Agrees, Lost, Recovered, Down, CallShape, TypeOK
<1>7. Ended' /\ elsewhere' \subseteq raced'
  BY DEF Ended
<1>. QED  BY <1>1, <1>2, <1>3, <1>4, <1>5, <1>6, <1>7

\* The integration is appended, and memory and log agree on the child again, or is lost.
LEMMA RecordKeeps == ASSUME IInv, Record PROVE IInv'
<1>. USE DEF Record, IntegrationFailed, IInv,
           log, repository, memory, history, bounds, InDelegation, InIntegration
<1>1. TypeOK'
  <2>1. LogTypes'
    BY DEF TypeOK, LogTypes, CallShape
  <2>2. PlaceTypes'
    BY DEF TypeOK, PlaceTypes, Statuses, PCs, CallShape
  <2>3. HistoryTypes'
    BY DEF TypeOK, HistoryTypes, CallShape
  <2>4. (head \in Nat /\ edits \in Nat /\ crashes \in Nat)'
    BY SuccessorIsNat DEF TypeOK
  <2>5. (committed \subseteq Children /\ present \subseteq Children /\ own \in BOOLEAN)'
    BY DEF TypeOK, CallShape
  <2>. QED  BY <2>1, <2>2, <2>3, <2>4, <2>5 DEF TypeOK, LogTypes, PlaceTypes, HistoryTypes
<1>2. LogRecovers'
  BY DEF LogRecovers, CallShape
<1>3. CallShape'
  BY DEF CallShape, Clean, TypeOK
<1>4. MemoryShape'
  BY DEF MemoryShape, CallShape, Down, TypeOK
<1>5. HeldShape'
  BY DEF HeldShape, Lost, CallShape, TypeOK
<1>6. Agreement'
  BY DEF Agreement, Ahead, Agrees, Lost, Recovered, Down, CallShape, TypeOK
<1>7. Ended' /\ elsewhere' \subseteq raced'
  BY DEF Ended
<1>. QED  BY <1>1, <1>2, <1>3, <1>4, <1>5, <1>6, <1>7

\* A repair settles an effect, and touches nothing the log says of children.
LEMMA RepairKeeps == ASSUME IInv, NEW c \in Children, Repair(c) PROVE IInv'
<1>. USE DEF Repair, IInv,
           log, repository, memory, history, bounds, InDelegation, InIntegration
<1>1. TypeOK'
  <2>1. LogTypes'
    BY DEF TypeOK, LogTypes, CallShape
  <2>2. PlaceTypes'
    BY DEF TypeOK, PlaceTypes, Statuses, PCs, CallShape
  <2>3. HistoryTypes'
    BY DEF TypeOK, HistoryTypes, CallShape
  <2>4. (head \in Nat /\ edits \in Nat /\ crashes \in Nat)'
    BY SuccessorIsNat DEF TypeOK
  <2>5. (committed \subseteq Children /\ present \subseteq Children /\ own \in BOOLEAN)'
    BY DEF TypeOK, CallShape
  <2>. QED  BY <2>1, <2>2, <2>3, <2>4, <2>5 DEF TypeOK, LogTypes, PlaceTypes, HistoryTypes
<1>2. LogRecovers'
  BY DEF LogRecovers, CallShape
<1>3. CallShape'
  BY DEF CallShape, Clean, TypeOK
<1>4. MemoryShape'
  BY DEF MemoryShape, CallShape, Down, TypeOK
<1>5. HeldShape'
  BY DEF HeldShape, Lost, CallShape, TypeOK
<1>6. Agreement'
  BY DEF Agreement, Ahead, Agrees, Lost, Recovered, Down, CallShape, TypeOK
<1>7. Ended' /\ elsewhere' \subseteq raced'
  BY DEF Ended
<1>. QED  BY <1>1, <1>2, <1>3, <1>4, <1>5, <1>6, <1>7

\* The gate finds no completed implement child, so memory says that every receipt is
\* integrated, and so does the log of all but lost integrations.
LEMMA SubmitFinalKeeps == ASSUME IInv, SubmitFinal PROVE IInv'
<1>. USE DEF SubmitFinal, CompletionIssue, IInv,
           log, repository, memory, history, bounds, InDelegation, InIntegration
<1>1. TypeOK'
  <2>1. LogTypes'
    BY DEF TypeOK, LogTypes, CallShape
  <2>2. PlaceTypes'
    BY DEF TypeOK, PlaceTypes, Statuses, PCs, CallShape
  <2>3. HistoryTypes'
    BY DEF TypeOK, HistoryTypes, CallShape
  <2>4. (head \in Nat /\ edits \in Nat /\ crashes \in Nat)'
    BY SuccessorIsNat DEF TypeOK
  <2>5. (committed \subseteq Children /\ present \subseteq Children /\ own \in BOOLEAN)'
    BY DEF TypeOK, CallShape
  <2>. QED  BY <2>1, <2>2, <2>3, <2>4, <2>5 DEF TypeOK, LogTypes, PlaceTypes, HistoryTypes
<1>2. LogRecovers'
  BY DEF LogRecovers, CallShape
<1>3. CallShape'
  BY DEF CallShape, Clean, TypeOK
<1>4. MemoryShape'
  BY DEF MemoryShape, CallShape, Down, TypeOK
<1>5. HeldShape'
  BY DEF HeldShape, Lost, CallShape, TypeOK
<1>6. Agreement'
  BY DEF Agreement, Ahead, Agrees, Lost, Recovered, Down, CallShape, TypeOK
<1>7. Ended' /\ elsewhere' \subseteq raced'
  BY DEF Ended, Agreement, Ahead, Agrees, Lost, Recovered, MemoryShape, TypeOK, Down
<1>. QED  BY <1>1, <1>2, <1>3, <1>4, <1>5, <1>6, <1>7

\* A delegation is cut: the child is one of the lost.
LEMMA CutDelegationKeeps ==
    ASSUME IInv, CutDelegation,
           UNCHANGED <<repository, records, status, elsewhere, raced, mistaken, bounds>>
    PROVE  IInv'
<1>. USE DEF CutDelegation, SettleDelegation, IInv,
           log, repository, memory, history, bounds, InDelegation, InIntegration
<1>1. TypeOK'
  <2>1. LogTypes'
    BY DEF TypeOK, LogTypes, CallShape
  <2>2. PlaceTypes'
    BY DEF TypeOK, PlaceTypes, Statuses, PCs, CallShape
  <2>3. HistoryTypes'
    BY DEF TypeOK, HistoryTypes, CallShape
  <2>4. (head \in Nat /\ edits \in Nat /\ crashes \in Nat)'
    BY SuccessorIsNat DEF TypeOK
  <2>5. (committed \subseteq Children /\ present \subseteq Children /\ own \in BOOLEAN)'
    BY DEF TypeOK, CallShape
  <2>. QED  BY <2>1, <2>2, <2>3, <2>4, <2>5 DEF TypeOK, LogTypes, PlaceTypes, HistoryTypes
<1>2. LogRecovers'
  BY DEF LogRecovers, CallShape
<1>3. CallShape'
  BY DEF CallShape, Clean, TypeOK
<1>4. MemoryShape'
  BY DEF MemoryShape, CallShape, Down, TypeOK
<1>5. HeldShape'
  BY DEF HeldShape, Lost, CallShape, TypeOK
<1>6. Agreement'
  BY DEF Agreement, Ahead, Agrees, Lost, Recovered, Down, CallShape, TypeOK
<1>7. Ended' /\ elsewhere' \subseteq raced'
  BY DEF Ended
<1>. QED  BY <1>1, <1>2, <1>3, <1>4, <1>5, <1>6, <1>7

\* An integration is cut: after the mark the child is one of the lost.
LEMMA CutIntegrationKeeps ==
    ASSUME IInv, CutIntegration,
           UNCHANGED <<repository, records, status, elsewhere, raced, mistaken, bounds>>
    PROVE  IInv'
<1>. USE DEF CutIntegration, SettleIntegration, IntegrationFailed, IInv,
           log, repository, memory, history, bounds, InDelegation, InIntegration
<1>1. TypeOK'
  <2>1. LogTypes'
    BY DEF TypeOK, LogTypes, CallShape
  <2>2. PlaceTypes'
    BY DEF TypeOK, PlaceTypes, Statuses, PCs, CallShape
  <2>3. HistoryTypes'
    BY DEF TypeOK, HistoryTypes, CallShape
  <2>4. (head \in Nat /\ edits \in Nat /\ crashes \in Nat)'
    BY SuccessorIsNat DEF TypeOK
  <2>5. (committed \subseteq Children /\ present \subseteq Children /\ own \in BOOLEAN)'
    BY DEF TypeOK, CallShape
  <2>. QED  BY <2>1, <2>2, <2>3, <2>4, <2>5 DEF TypeOK, LogTypes, PlaceTypes, HistoryTypes
<1>2. LogRecovers'
  BY DEF LogRecovers, CallShape
<1>3. CallShape'
  BY DEF CallShape, Clean, TypeOK
<1>4. MemoryShape'
  BY DEF MemoryShape, CallShape, Down, TypeOK
<1>5. HeldShape'
  BY DEF HeldShape, Lost, CallShape, TypeOK
<1>6. Agreement'
  BY DEF Agreement, Ahead, Agrees, Lost, Recovered, Down, CallShape, TypeOK
<1>7. Ended' /\ elsewhere' \subseteq raced'
  BY DEF Ended
<1>. QED  BY <1>1, <1>2, <1>3, <1>4, <1>5, <1>6, <1>7

\* The process dies: nothing in memory is left to agree with the log.
LEMMA CrashKeeps == ASSUME IInv, Crash PROVE IInv'
<1>. USE DEF Crash, IInv,
           log, repository, memory, history, bounds, InDelegation, InIntegration
<1>1. TypeOK'
  <2>1. LogTypes'
    BY DEF TypeOK, LogTypes, CallShape
  <2>2. PlaceTypes'
    BY DEF TypeOK, PlaceTypes, Statuses, PCs, NoRecords
  <2>3. HistoryTypes'
    BY DEF TypeOK, HistoryTypes, CallShape
  <2>4. (head \in Nat /\ edits \in Nat /\ crashes \in Nat)'
    BY SuccessorIsNat DEF TypeOK
  <2>5. (committed \subseteq Children /\ present \subseteq Children /\ own \in BOOLEAN)'
    BY DEF TypeOK, CallShape
  <2>. QED  BY <2>1, <2>2, <2>3, <2>4, <2>5 DEF TypeOK, LogTypes, PlaceTypes, HistoryTypes
<1>2. LogRecovers'
  BY DEF LogRecovers, CallShape
<1>3. CallShape'
  BY DEF CallShape, Clean, TypeOK
<1>4. MemoryShape'
  BY DEF MemoryShape, Down, NoRecords
<1>5. HeldShape'
  BY DEF HeldShape, NoRecords
<1>6. Agreement'
  BY DEF Agreement, Ahead, Agrees, Lost, Recovered, Down, CallShape, TypeOK
<1>7. Ended' /\ elsewhere' \subseteq raced'
  BY DEF Ended
<1>. QED  BY <1>1, <1>2, <1>3, <1>4, <1>5, <1>6, <1>7

\* The call is settled, the records are the recovered ones, and nothing is lost any more.
LEMMA RestartKeeps == ASSUME IInv, Restart PROVE IInv'
<1>. USE DEF Restart, SettleDelegation, SettleIntegration, IntegrationFailed, IInv,
           log, repository, memory, history, bounds, InDelegation, InIntegration
<1>1. TypeOK'
  <2>1. LogTypes'
    BY DEF TypeOK, LogTypes, CallShape
  <2>2. PlaceTypes'
    BY DEF TypeOK, PlaceTypes, Statuses, PCs, Recovered, CallShape
  <2>3. HistoryTypes'
    BY DEF TypeOK, HistoryTypes, CallShape
  <2>4. (head \in Nat /\ edits \in Nat /\ crashes \in Nat)'
    BY SuccessorIsNat DEF TypeOK
  <2>5. (committed \subseteq Children /\ present \subseteq Children /\ own \in BOOLEAN)'
    BY DEF TypeOK, CallShape
  <2>. QED  BY <2>1, <2>2, <2>3, <2>4, <2>5 DEF TypeOK, LogTypes, PlaceTypes, HistoryTypes
<1>2. LogRecovers'
  BY DEF LogRecovers, Recoverable
<1>3. CallShape'
  BY DEF CallShape, Clean, TypeOK
<1>4. MemoryShape'
  BY DEF MemoryShape, Recoverable, Recovered, Down, TypeOK, None
<1>5. HeldShape'
  BY DEF HeldShape, MemoryShape, Down, Recovered
<1>6. Agreement'
  BY DEF Agreement, Ahead, Agrees, Recovered
<1>7. Ended' /\ elsewhere' \subseteq raced'
  BY DEF Ended
<1>. QED  BY <1>1, <1>2, <1>3, <1>4, <1>5, <1>6, <1>7

\* Every step keeps the invariant, and so does a step that changes nothing.
LEMMA StepKeeps == ASSUME IInv, [Next]_vars PROVE IInv'
<1>1. CASE OthersWork
  BY <1>1, OthersWorkKeeps
<1>2. CASE \E c \in Children, r \in {"explore", "implement"} : Delegate(c, r)
  BY <1>2, DelegateKeeps
<1>3. CASE \E c \in Children : Integrate(c)
  BY <1>3, IntegrateKeeps
<1>4. CASE \E c \in Children : Repair(c)
  BY <1>4, RepairKeeps
<1>5. CASE Prepare \/ RunChild \/ Report
  BY <1>5, PrepareKeeps, RunChildKeeps, ReportKeeps
<1>6. CASE CheckBase \/ Verify \/ Apply \/ Mark \/ Record
  BY <1>6, CheckBaseKeeps, VerifyKeeps, ApplyKeeps, MarkKeeps, RecordKeeps
<1>7. CASE SubmitFinal
  BY <1>7, SubmitFinalKeeps
<1>8. CASE CutShort
  BY <1>8, CutDelegationKeeps, CutIntegrationKeeps DEF CutShort
<1>9. CASE Crash \/ Restart
  BY <1>9, CrashKeeps, RestartKeeps
<1>10. CASE UNCHANGED vars
  BY <1>10 DEF vars, log, repository, memory, history, bounds, IInv, TypeOK, LogRecovers,
     CallShape, InDelegation, InIntegration, Clean, MemoryShape, Down, Lost, HeldShape,
     Agreement, Ahead, Agrees, Recovered, Ended
<1>. QED
  BY <1>1, <1>2, <1>3, <1>4, <1>5, <1>6, <1>7, <1>8, <1>9, <1>10 DEF Next

\* The invariant of the parent, its children and the repository holds in every state,
\* whatever fails, is cut or is changed by others.
THEOREM SubagentsInvariance == Spec => []IInv
<1>1. IInv /\ [Next]_vars => IInv'
  BY StepKeeps
<1>. QED  BY <1>1, InitEstablishes, PTL DEF Spec

\* Every variable keeps its type: receipts only of implement children.
THEOREM TypeCorrectness == Spec => []TypeOK
<1>1. IInv => TypeOK
  BY DEF IInv
<1>. QED  BY <1>1, SubagentsInvariance, PTL

\* _recover_records of a new process finds what memory said between two calls, of all
\* children but those whose result was lost in this process.
THEOREM RestartIsInvisible == Spec => []RestartChangesNothing
<1>1. IInv => RestartChangesNothing
  BY DEF IInv, Agreement, Lost, Down, RestartChangesNothing
<1>. QED  BY <1>1, SubagentsInvariance, PTL

\* Of no child, lost or not, does a new process recover more than memory knew.
THEOREM MemoryStaysAhead == Spec => []MemoryIsNeverBehind
<1>1. IInv => MemoryIsNeverBehind
  BY DEF IInv, Agreement, Ahead, Down, MemoryIsNeverBehind
<1>. QED  BY <1>1, SubagentsInvariance, PTL

\* git apply in the parent meets the commit, and the clean tree, that the patch was
\* verified on, or something others did while it ran.
THEOREM PatchesLandWhereVerified == Spec => []AppliedWhereVerified
<1>1. IInv => AppliedWhereVerified
  BY DEF IInv, AppliedWhereVerified
<1>. QED  BY <1>1, SubagentsInvariance, PTL

\* The gate reads memory, and still no parent completes with a receipt in its log that
\* was not integrated, or applied and marked by a call whose result was lost.
THEOREM CompletionIsIntegrated == Spec => []CompletedIsIntegrated
<1>1. IInv => CompletedIsIntegrated
  BY DEF IInv, Ended, CompletedIsIntegrated
<1>. QED  BY <1>1, SubagentsInvariance, PTL

\* Between two calls only completed children, and those of cut calls, hold a worktree.
THEOREM NoWorktreeLeaks == Spec => []WorktreesAreReleased
<1>1. IInv => WorktreesAreReleased
  BY DEF IInv, HeldShape, Lost, TypeOK, WorktreesAreReleased
<1>. QED  BY <1>1, SubagentsInvariance, PTL

\* The log makes the recovery of a new process raise only for a child that was
\* integrated after its delegation had lost its result.
THEOREM RecoveryRarelyRaises == Spec => []LogRecovers
<1>1. IInv => LogRecovers
  BY DEF IInv
<1>. QED  BY <1>1, SubagentsInvariance, PTL

\* Between two calls memory, log and worktrees agree, whatever failed in the calls, up
\* to the results that were lost since the process began.
THEOREM CallsLeaveAgreement == Spec => []BetweenCallsAgree
<1>. USE DEF BetweenCallsAgree
<1>. QED
  BY RestartIsInvisible, MemoryStaysAhead, RecoveryRarelyRaises, NoWorktreeLeaks, PTL

(****************************************************************************)
(* Dead ends.  While nobody else works in the repository its commit is the  *)
(* first one, nothing is in that commit, patches are only added to the      *)
(* files, and only a Repair changes other files - after an effect that left *)
(* a patch there.                                                           *)
(****************************************************************************)
Untouched ==
    edits = 0 =>
        /\ head = 0 /\ committed = {}
        /\ \A c \in Children : base[c] = 0
        /\ recorded \subseteq present /\ uncertain \subseteq present
        /\ own => present # {}
        /\ pc \in {"applied", "marked"} => child \in present

\* While nobody else works there, the log knows the patches in the files, but for one
\* that was just written.
Known ==
    edits = 0 => \A c \in present \ recorded :
        c = child /\ pc \in {"applied", "marked", "down_integrating"}

\* Only integrate_child of an explore child has an unknown effect.
UnknownIsMistaken ==
    /\ unknown => mistaken # {}
    /\ (InIntegration \/ pc = "down_integrating") /\ role[child] = "explore"
           => child \in mistaken

DeadEnds == Untouched /\ Known /\ UnknownIsMistaken

\* The end of a failed integration, with the patches the files then hold.
LEMMA FailureKeepsDeadEnds ==
    ASSUME IInv, DeadEnds, NEW files, present' = files,
           present \subseteq files, files \subseteq present \cup {child},
           child \in Children, InIntegration \/ pc = "down_integrating",
           IntegrationFailed(files), UNCHANGED <<head, committed, own, edits, mistaken>>
    PROVE  DeadEnds'
<1>1. role' = role /\ base' = base /\ pc' = "loop"
  BY DEF IntegrationFailed
<1>2. ASSUME edits' = 0
      PROVE  /\ recorded' \subseteq present' /\ uncertain' \subseteq present'
             /\ present' \subseteq recorded'
  <2>1. /\ recorded \subseteq files /\ uncertain \subseteq files
        /\ files \subseteq recorded \cup {child}
    BY <1>2 DEF DeadEnds, Untouched, Known
  <2>2. CASE (child \in files) # (child \in recorded)
    <3>1. child \in files
      BY <2>1, <2>2
    <3>2. uncertain' = uncertain \cup {child} /\ recorded' = recorded \cup {child}
      BY <2>2, <3>1 DEF IntegrationFailed
    <3>. QED  BY <2>1, <3>1, <3>2
  <2>3. CASE ~((child \in files) # (child \in recorded))
    <3>1. UNCHANGED <<uncertain, recorded>>
      BY <2>3 DEF IntegrationFailed
    <3>. QED  BY <2>1, <2>3, <3>1
  <2>. QED  BY <2>2, <2>3
<1>3. edits' = 0 => (own' => present' # {})
  BY DEF DeadEnds, Untouched
<1>4. Untouched' /\ Known'
  BY <1>1, <1>2, <1>3 DEF DeadEnds, Untouched, Known
<1>5. UnknownIsMistaken'
  <2>1. unknown' = (unknown \/ role[child] = "explore")
    BY DEF IntegrationFailed
  <2>. QED  BY <1>1, <2>1 DEF DeadEnds, UnknownIsMistaken, InIntegration
<1>. QED  BY <1>4, <1>5 DEF DeadEnds

\* The steps of a delegation, and the ends that leave the repository alone.
LEMMA DelegationKeepsDeadEnds ==
    ASSUME IInv, DeadEnds,
           \/ \E c \in Children, r \in {"explore", "implement"} : Delegate(c, r)
           \/ Prepare \/ RunChild \/ Report \/ SubmitFinal
    PROVE  DeadEnds'
<1>. USE DEF DeadEnds, Untouched, Known, UnknownIsMistaken, InIntegration, history
<1>1. CASE \E c \in Children, r \in {"explore", "implement"} : Delegate(c, r)
  BY <1>1 DEF Delegate, repository, bounds
<1>2. CASE Prepare
  <2>1. edits = 0 => \A c \in Children : base'[c] = 0
    <3>1. base' = [base EXCEPT ![child] = head] \/ base' = base
      BY <1>2 DEF Prepare
    <3>. QED  BY <3>1 DEF IInv, TypeOK
  <2>2. pc' \in {"working", "report"}
    BY <1>2 DEF Prepare, ChildBecomes
  <2>. QED  BY <1>2, <2>1, <2>2 DEF Prepare, repository, bounds
<1>3. CASE RunChild
  BY <1>3 DEF RunChild, ChildBecomes, log, repository, bounds
<1>4. CASE Report
  BY <1>4 DEF Report, repository, bounds
<1>5. CASE SubmitFinal
  BY <1>5 DEF SubmitFinal, log, repository, bounds
<1>. QED  BY <1>1, <1>2, <1>3, <1>4, <1>5

\* integrate_child: files are added, and what failed is recorded as they are.
LEMMA IntegrationKeepsDeadEnds ==
    ASSUME IInv, DeadEnds,
           \/ \E c \in Children : Integrate(c)
           \/ CheckBase \/ Verify \/ Apply \/ Mark \/ Record
    PROVE  DeadEnds'
<1>. USE DEF log, repository, bounds, history
<1>1. CASE \E c \in Children : Integrate(c)
  BY <1>1 DEF Integrate, DeadEnds, Untouched, Known, UnknownIsMistaken, InIntegration
<1>2. InIntegration => child \in Children
  BY DEF IInv, CallShape
<1>3. CASE CheckBase
  <2>1. InIntegration
    BY <1>3 DEF CheckBase, InIntegration
  <2>2. CASE IntegrationFailed(present)
    BY <1>2, <1>3, <2>1, <2>2, FailureKeepsDeadEnds DEF CheckBase
  <2>3. CASE pc' = "verify" /\ UNCHANGED <<log, child>>
    BY <1>3, <2>3 DEF CheckBase, DeadEnds, Untouched, Known, UnknownIsMistaken,
           InIntegration
  <2>. QED  BY <1>3, <2>2, <2>3 DEF CheckBase
<1>4. CASE Verify
  <2>1. InIntegration
    BY <1>4 DEF Verify, InIntegration
  <2>2. CASE IntegrationFailed(present)
    BY <1>2, <1>4, <2>1, <2>2, FailureKeepsDeadEnds DEF Verify
  <2>3. CASE pc' = "apply" /\ UNCHANGED <<log, child>>
    BY <1>4, <2>3 DEF Verify, DeadEnds, Untouched, Known, UnknownIsMistaken, InIntegration
  <2>. QED  BY <1>4, <2>2, <2>3 DEF Verify
<1>5. CASE Apply
  <2>1. InIntegration
    BY <1>5 DEF Apply, InIntegration
  <2>2. CASE Written /\ pc' = "applied" /\ UNCHANGED <<log, child>>
    BY <1>2, <1>5, <2>1, <2>2
       DEF Apply, Written, DeadEnds, Untouched, Known, UnknownIsMistaken, InIntegration
  <2>3. CASE Written /\ IntegrationFailed(present')
    BY <1>2, <1>5, <2>1, <2>3, FailureKeepsDeadEnds DEF Apply, Written
  <2>4. CASE IntegrationFailed(present) /\ UNCHANGED <<present, elsewhere>>
    BY <1>2, <1>5, <2>1, <2>4, FailureKeepsDeadEnds DEF Apply
  <2>. QED  BY <1>5, <2>2, <2>3, <2>4 DEF Apply
<1>6. CASE Mark
  <2>1. InIntegration
    BY <1>6 DEF Mark, InIntegration
  <2>2. CASE IntegrationFailed(present)
    BY <1>2, <1>6, <2>1, <2>2, FailureKeepsDeadEnds DEF Mark
  <2>3. CASE pc' = "marked" /\ UNCHANGED <<log, child>>
    BY <1>6, <2>3 DEF Mark, DeadEnds, Untouched, Known, UnknownIsMistaken, InIntegration
  <2>. QED  BY <1>6, <2>2, <2>3 DEF Mark
<1>7. CASE Record
  <2>1. InIntegration
    BY <1>7 DEF Record, InIntegration
  <2>2. CASE IntegrationFailed(present)
    BY <1>2, <1>7, <2>1, <2>2, FailureKeepsDeadEnds DEF Record
  <2>3. CASE ~IntegrationFailed(present)
    BY <1>7, <2>3 DEF Record, DeadEnds, Untouched, Known, UnknownIsMistaken, InIntegration
  <2>. QED  BY <2>2, <2>3
<1>. QED  BY <1>1, <1>3, <1>4, <1>5, <1>6, <1>7

\* Repairs, others, and what interrupts a call.
LEMMA RestKeepsDeadEnds ==
    ASSUME IInv, DeadEnds,
           \/ OthersWork \/ \E c \in Children : Repair(c)
           \/ CutShort \/ Crash \/ Restart
    PROVE  DeadEnds'
<1>. USE DEF log, repository, bounds, history
<1>1. CASE OthersWork
  <2>1. edits \in Nat /\ edits' = edits + 1
    BY <1>1 DEF OthersWork, IInv, TypeOK
  <2>2. edits' # 0
    BY <2>1
  <2>. QED
    BY <1>1, <2>2 DEF OthersWork, DeadEnds, Untouched, Known, UnknownIsMistaken,
           InIntegration
<1>2. CASE \E c \in Children : Repair(c)
  <2>1. PICK c \in Children : Repair(c)
    BY <1>2
  <2>2. edits = 0 => c \in present
    BY <2>1 DEF Repair, DeadEnds, Untouched
  <2>. QED
    BY <2>1, <2>2 DEF Repair, DeadEnds, Untouched, Known, UnknownIsMistaken, InIntegration
<1>3. CASE CutShort
  <2>1. CASE CutDelegation
    BY <1>3, <2>1 DEF CutShort, CutDelegation, InDelegation, SettleDelegation, DeadEnds,
                      Untouched, Known, UnknownIsMistaken, InIntegration
  <2>2. CASE CutIntegration
    <3>1. child \in Children /\ InIntegration /\ IntegrationFailed(present)
      BY <2>2 DEF CutIntegration, SettleIntegration, IInv, CallShape
    <3>. QED  BY <1>3, <3>1, FailureKeepsDeadEnds DEF CutShort
  <2>. QED  BY <1>3, <2>1, <2>2 DEF CutShort
<1>4. CASE Crash
  BY <1>4 DEF Crash, DeadEnds, Untouched, Known, UnknownIsMistaken, InIntegration,
              InDelegation
<1>5. CASE Restart
  <2>1. CASE pc = "down" /\ SettleDelegation
    BY <1>5, <2>1 DEF Restart, SettleDelegation, DeadEnds, Untouched, Known,
                      UnknownIsMistaken, InIntegration
  <2>2. CASE pc = "down_integrating" /\ SettleIntegration
    <3>1. child \in Children /\ IntegrationFailed(present)
      BY <2>2 DEF SettleIntegration, IInv, CallShape
    <3>. QED  BY <1>5, <2>2, <3>1, FailureKeepsDeadEnds DEF Restart
  <2>. QED  BY <1>5, <2>1, <2>2 DEF Restart
<1>. QED  BY <1>1, <1>2, <1>3, <1>4, <1>5

\* As long as nobody else works in the repository, a parent Run between two calls can
\* no longer complete only after a cut delegation in this process, a call of
\* integrate_child for an explore child, or where the patch of some child is in the
\* files; and every partial effect can be repaired (completion_issue, CheckBase).
THEOREM DeadEndsAreFew == Spec => []DeadEndsAreKnown
<1>1. Init => DeadEnds
  BY DEF Init, DeadEnds, Untouched, Known, UnknownIsMistaken, InIntegration
<1>2. IInv /\ DeadEnds /\ [Next]_vars => DeadEnds'
  <2>1. IInv /\ DeadEnds /\ UNCHANGED vars => DeadEnds'
    BY DEF vars, log, repository, bounds, history, DeadEnds, Untouched, Known,
           UnknownIsMistaken, InIntegration
  <2>. QED
    BY <2>1, DelegationKeepsDeadEnds, IntegrationKeepsDeadEnds, RestKeepsDeadEnds DEF Next
<1>3. IInv /\ DeadEnds => DeadEndsAreKnown
  <2>. SUFFICES ASSUME IInv, DeadEnds, pc = "loop", edits = 0
                PROVE  /\ {c \in Children : records[c] = "running"} \subseteq unreported
                       /\ (\E c \in Children : Unfit(c)) => present # {}
                       /\ unknown => mistaken # {}
                       /\ \A c \in Children : ~Drifted(c)
    BY DEF DeadEndsAreKnown
  <2>1. {c \in Children : records[c] = "running"} \subseteq unreported
    BY DEF IInv, HeldShape
  <2>2. (\E c \in Children : Unfit(c)) => present # {}
    BY DEF DeadEnds, Untouched, Clean, Unfit
  <2>3. unknown => mistaken # {}
    BY DEF DeadEnds, UnknownIsMistaken
  <2>4. \A c \in Children : ~Drifted(c)
    BY DEF DeadEnds, Untouched, Known, Drifted
  <2>. QED  BY <2>1, <2>2, <2>3, <2>4
<1>. QED  BY <1>1, <1>2, <1>3, SubagentsInvariance, PTL DEF Spec
================================================================================
