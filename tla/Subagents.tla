------------------------------- MODULE Subagents -------------------------------
(****************************************************************************)
(* subagents/: a parent Run that delegates to synchronous children, one at  *)
(* a time, and integrates the patches of its implement children.            *)
(*                                                                          *)
(* Three places know about a child: the parent's Run Log (receipts,         *)
(* integrations, uncertain), the records of the SubagentRunner (memory,     *)
(* read from the log once per process and Run), and the repository.         *)
(*                                                                          *)
(* A child's own Run is one step here with a free outcome; RunLifecycle,    *)
(* AgentLoop and WorkspaceRun are about such a Run.  Patches of different   *)
(* children touch different files.  Left out: what only rejects a call (the *)
(* write scope of the parent, a repetition after an uncertain outcome), and *)
(* the parent's verification before it completes (WorkspaceRun).            *)
(*                                                                          *)
(* A call fails inside the tool boundary, which makes an error of it, or is *)
(* cut by what no handler of the boundary catches (Ctrl-C, a failed         *)
(* append): then the next ask settles it, in the same process.  An append   *)
(* that raised after it was written is the step that records the result.    *)
(*                                                                          *)
(* Bounds: MaxEdits changes of the repository by others, MaxCrashes, and    *)
(* one delegation for each element of Children.                             *)
(****************************************************************************)
EXTENDS Naturals, FiniteSets

CONSTANTS
    Children,     \* child ids
    MaxEdits, MaxCrashes

ASSUME SubagentsAssumption == MaxEdits \in Nat /\ MaxCrashes \in Nat

VARIABLES
    role,         \* child -> its role, from the persisted delegate call
    base,         \* child -> the commit it started from
    receipts,     \* log: implement children whose delegate call succeeded
    integrations, \* log: children whose integrate_child call succeeded
    uncertain,    \* log: children with an unrepaired partial effect of integrate_child
    recorded,     \* log: children whose patch is in the files, by the transitions
    unknown,      \* log: has an integrate_child call an unknown effect?
    head,         \* the repository: its commit,
    committed,    \* the children whose patch is in that commit,
    present,      \* those whose patch is in the files,
    own,          \* and whether other files differ from the commit
    records,      \* _records: child -> its status in memory
    held,         \* _worktrees
    pc, child,    \* the tool call the parent is in, and its child
    status,       \* of the parent Run
    elsewhere,    \* history: children whose patch met a tree it was not verified on,
    raced,        \* those during whose git apply others worked in the repository,
    unreported,   \* those whose delegation lost its result in this process,
    unrecorded,   \* those whose integration lost its result there after the mark,
    mistaken,     \* and the explore children that integrate_child was called for
    edits, crashes

log == <<role, base, receipts, integrations, uncertain, recorded, unknown>>
repository == <<head, committed, present, own>>
memory == <<records, held>>
history == <<elsewhere, raced, unreported, unrecorded, mistaken>>
bounds == <<edits, crashes>>
vars == <<log, repository, memory, pc, child, status, history, bounds>>

None == "none"

Statuses == {"none", "running", "failed", "completed", "integrated"}

PCs == {"loop", "prepare", "working", "report", "integrate", "verify", "apply",
        "applied", "marked", "down", "down_integrating", "closed"}

TypeOK ==
    /\ role \in [Children -> {None, "explore", "implement"}]
    /\ base \in [Children -> Nat]
    /\ receipts \subseteq {c \in Children : role[c] = "implement"}
    /\ integrations \subseteq Children
    /\ uncertain \subseteq Children
    /\ recorded \subseteq Children
    /\ unknown \in BOOLEAN
    /\ head \in Nat
    /\ committed \subseteq Children
    /\ present \subseteq Children
    /\ own \in BOOLEAN
    /\ records \in [Children -> Statuses]
    /\ held \subseteq Children
    /\ pc \in PCs
    /\ child \in Children \cup {None}
    /\ status \in {"running", "completed"}
    /\ elsewhere \subseteq Children /\ raced \subseteq Children
    /\ unreported \subseteq Children /\ unrecorded \subseteq Children
    /\ mistaken \subseteq Children
    /\ edits \in Nat /\ crashes \in Nat

NoRecords == [c \in Children |-> "none"]

Init ==
    /\ role = [c \in Children |-> None]
    /\ base = [c \in Children |-> 0]
    /\ receipts = {} /\ integrations = {} /\ uncertain = {} /\ recorded = {}
    /\ unknown = FALSE
    /\ head = 0 /\ committed = {} /\ present = {} /\ own = FALSE
    /\ records = NoRecords
    /\ held = {}
    /\ pc = "loop" /\ child = None
    /\ status = "running"
    /\ elsewhere = {} /\ raced = {} /\ mistaken = {}
    /\ unreported = {} /\ unrecorded = {}
    /\ edits = 0 /\ crashes = 0

(****************************************************************************)
(* The repository, and others who work in it.                               *)
(****************************************************************************)

\* require_clean_repository.
Clean == present = committed /\ ~own

\* The user, or the parent Run with its own tools, edits other files, commits
\* what there is, or throws away what is not committed: at any time, between the
\* last look at the parent's base and git apply too.
OthersWork ==
    /\ pc # "closed"
    /\ edits < MaxEdits
    /\ \/ ~own /\ own' = TRUE /\ UNCHANGED <<head, committed, present>>
       \/ ~Clean /\ head' = head + 1 /\ committed' = present /\ own' = FALSE
          /\ UNCHANGED present
       \/ ~Clean /\ present' = committed /\ own' = FALSE /\ UNCHANGED <<head, committed>>
    /\ edits' = edits + 1
    /\ raced' = IF pc = "apply" THEN raced \cup {child} ELSE raced
    /\ UNCHANGED <<log, memory, pc, child, status, elsewhere, unreported, unrecorded,
                   mistaken, crashes>>

(****************************************************************************)
(* What a new process makes of the log: _recover_records.                   *)
(****************************************************************************)

\* A slip never used by Next: the status of an integration's outcome is ignored.
RecoveredFromAnyOutcome ==
    [c \in Children |-> IF c \in integrations \cup uncertain THEN "integrated"
                        ELSE IF c \in receipts THEN "completed" ELSE "none"]

Recovered ==
    [c \in Children |-> IF c \in integrations THEN "integrated"
                        ELSE IF c \in receipts THEN "completed" ELSE "none"]

\* Otherwise "persisted integration references an unknown Child", each time.
Recoverable == integrations \subseteq receipts

(****************************************************************************)
(* delegate.                                                                *)
(****************************************************************************)

\* A new record.  Implement children need a verification command, which is
\* there: without one the call is rejected.
Delegate(c, r) ==
    /\ pc = "loop"
    /\ role[c] = None
    /\ role' = [role EXCEPT ![c] = r]
    /\ records' = [records EXCEPT ![c] = "running"]
    /\ pc' = "prepare" /\ child' = c
    /\ UNCHANGED <<base, receipts, integrations, uncertain, recorded, unknown,
                   repository, held, status, history, bounds>>

\* The outcome of the child, and where the call goes on.
ChildBecomes(result) ==
    /\ records' = [records EXCEPT ![child] = result]
    /\ pc' = "report"

\* Only an implement child needs a clean repository and a worktree; making it
\* may fail.
Prepare ==
    /\ pc = "prepare"
    /\ \/ /\ role[child] = "implement" => Clean
          /\ base' = [base EXCEPT ![child] = head]
          /\ held' = IF role[child] = "implement" THEN held \cup {child} ELSE held
          /\ pc' = "working"
          /\ UNCHANGED records
       \/ /\ role[child] = "implement"
          /\ ChildBecomes("failed")
          /\ UNCHANGED <<base, held>>
    /\ UNCHANGED <<role, receipts, integrations, uncertain, recorded, unknown,
                   repository, child, status, history, bounds>>

\* _run_child: the child's Run completes and its patch is written, or not.
RunChild ==
    /\ pc = "working"
    /\ ChildBecomes("completed") \/ ChildBecomes("failed")
    /\ UNCHANGED <<log, repository, held, child, status, history, bounds>>

\* The worktree of a failed child goes; the receipt is read from the child's Run
\* Log and the result of the call is appended.  Where the receipt cannot be made
\* the call has failed in the log, and the record is completed in memory.
Report ==
    /\ pc = "report"
    /\ held' = IF records[child] = "failed" THEN held \ {child} ELSE held
    /\ \/ /\ receipts' = IF records[child] = "completed" /\ role[child] = "implement"
                         THEN receipts \cup {child} ELSE receipts
          /\ UNCHANGED unreported
       \/ /\ records[child] = "completed"
          /\ unreported' = unreported \cup {child}
          /\ UNCHANGED receipts
    /\ pc' = "loop" /\ child' = None
    /\ UNCHANGED <<role, base, integrations, uncertain, recorded, unknown, repository,
                   records, status, elsewhere, raced, unrecorded, mistaken, bounds>>

(****************************************************************************)
(* integrate_child.                                                         *)
(****************************************************************************)

\* The files of the patch are not as the last effect of the Run left them.
Drifted(c) == (c \in recorded) # (c \in present)

\* Admission: the record must be completed, in memory, and its paths not
\* drifted.  Otherwise the call is rejected and nothing changes.
Integrate(c) ==
    /\ pc = "loop"
    /\ records[c] \in {"completed", "integrated"}
    /\ ~Drifted(c)
    /\ pc' = "integrate" /\ child' = c
    /\ mistaken' = IF role[c] = "explore" THEN mistaken \cup {c} ELSE mistaken
    /\ UNCHANGED <<log, repository, memory, status, elsewhere, raced, unreported,
                   unrecorded, bounds>>

\* The call ends without a success, when the files hold the patches in files.  If
\* the files of the patch changed during the call its effect is partial; an explore
\* child has no files, and the effect is called unknown.
IntegrationFailed(files) ==
    /\ IF (child \in files) # (child \in recorded)
       THEN /\ uncertain' = uncertain \cup {child}
            /\ recorded' = IF child \in files THEN recorded \cup {child}
                           ELSE recorded \ {child}
       ELSE UNCHANGED <<uncertain, recorded>>
    /\ unknown' = (unknown \/ role[child] = "explore")
    /\ pc' = "loop" /\ child' = None
    /\ UNCHANGED <<role, base, receipts, integrations>>

\* The checks before the integration worktree: role, integrated before, the
\* digest of the patch, and a clean parent at the recorded base.
CheckBase ==
    /\ pc = "integrate"
    /\ LET fits == /\ role[child] = "implement"
                   /\ records[child] = "completed"
                   /\ Clean /\ head = base[child]
       IN \/ fits /\ pc' = "verify" /\ UNCHANGED <<log, child>>
          \/ IntegrationFailed(present)
    /\ UNCHANGED <<repository, memory, status, history, bounds>>

\* A slip never used by Next: the parent is not looked at again.
VerifyWithoutRecheck ==
    /\ pc = "verify"
    /\ \/ pc' = "apply" /\ UNCHANGED <<log, child>>
       \/ IntegrationFailed(present)
    /\ UNCHANGED <<repository, memory, status, history, bounds>>

\* The patch is applied and verified in the integration worktree, it is still
\* the same patch, and the parent is still at the base.
Verify ==
    /\ pc = "verify"
    /\ \/ Clean /\ head = base[child] /\ pc' = "apply" /\ UNCHANGED <<log, child>>
       \/ IntegrationFailed(present)
    /\ UNCHANGED <<repository, memory, status, history, bounds>>

\* The patch of the child is in the files; was the tree the one it was verified on?
Written ==
    /\ present' = present \cup {child}
    /\ elsewhere' = IF Clean /\ head = base[child] THEN elsewhere
                    ELSE elsewhere \cup {child}

\* A slip never used by Next: the record is marked before git apply has ended.
ApplyAfterMark ==
    /\ pc = "apply"
    /\ records' = [records EXCEPT ![child] = "integrated"]
    /\ \/ Written /\ pc' = "applied" /\ UNCHANGED <<log, child>>
       \/ Written /\ IntegrationFailed(present')
       \/ IntegrationFailed(present) /\ UNCHANGED <<present, elsewhere>>
    /\ UNCHANGED <<head, committed, own, held, status, raced, unreported, unrecorded,
                   mistaken, bounds>>

\* A slip never used by Next: a git apply that fails leaves its rejects behind.
ApplyLeavingRejects ==
    /\ pc = "apply"
    /\ \/ Written /\ pc' = "applied" /\ own' = own /\ UNCHANGED <<log, child>>
       \/ IntegrationFailed(present) /\ own' = TRUE /\ UNCHANGED <<present, elsewhere>>
    /\ UNCHANGED <<head, committed, memory, status, raced, unreported, unrecorded,
                   mistaken, bounds>>

\* git apply in the parent.  It fails, or is killed at the end of the turn before
\* or after it wrote the files, and then raises.
Apply ==
    /\ pc = "apply"
    /\ \/ Written /\ pc' = "applied" /\ UNCHANGED <<log, child>>
       \/ Written /\ IntegrationFailed(present')
       \/ IntegrationFailed(present) /\ UNCHANGED <<present, elsewhere>>
    /\ UNCHANGED <<head, committed, own, memory, status, raced, unreported, unrecorded,
                   mistaken, bounds>>

\* The integration worktree goes, which may raise; then mark_integrated.
Mark ==
    /\ pc = "applied"
    /\ \/ /\ records' = [records EXCEPT ![child] = "integrated"]
          /\ pc' = "marked"
          /\ UNCHANGED <<log, child>>
       \/ IntegrationFailed(present) /\ UNCHANGED records
    /\ UNCHANGED <<repository, held, status, history, bounds>>

\* The child's worktree is released, the states of the paths are read again, and
\* the result of the call is appended with them.  Where they cannot be read the
\* call has failed in the log, and the record stays marked.
Record ==
    /\ pc = "marked"
    /\ held' = held \ {child}
    /\ \/ /\ integrations' = integrations \cup {child}
          /\ recorded' = IF child \in present THEN recorded \cup {child}
                         ELSE recorded \ {child}
          /\ uncertain' = uncertain \ {child}
          /\ pc' = "loop" /\ child' = None
          /\ UNCHANGED <<role, base, receipts, unknown, unrecorded>>
       \/ /\ IntegrationFailed(present)
          /\ unrecorded' = unrecorded \cup {child}
    /\ UNCHANGED <<repository, records, status, elsewhere, raced, unreported, mistaken,
                   bounds>>

(****************************************************************************)
(* The rest of the parent Run.                                              *)
(****************************************************************************)

\* A later change of all the files of the patch, with write_file or edit_file.
Repair(c) ==
    /\ pc = "loop"
    /\ c \in uncertain /\ ~Drifted(c)
    /\ uncertain' = uncertain \ {c}
    /\ own' = TRUE
    /\ UNCHANGED <<role, base, receipts, integrations, recorded, unknown, head,
                   committed, present, memory, pc, child, status, history, bounds>>

\* completion_issue: nobody runs, and every patch in memory is integrated.
CompletionIssue ==
    \/ \E c \in Children : records[c] = "running"
    \/ \E c \in Children : records[c] = "completed" /\ role[c] = "implement"

SubmitFinal ==
    /\ pc = "loop"
    /\ ~CompletionIssue
    /\ uncertain = {} /\ ~unknown
    /\ \A c \in Children : ~Drifted(c)
    /\ status' = "completed"
    /\ pc' = "closed"
    /\ UNCHANGED <<log, repository, memory, child, history, bounds>>

\* reconcile_interrupted settles the pending call: a delegation has failed, an
\* integration has changed the files of its patch or not.
SettleDelegation == pc' = "loop" /\ child' = None /\ UNCHANGED log

SettleIntegration == IntegrationFailed(present)

InDelegation == pc \in {"prepare", "working", "report"}
InIntegration == pc \in {"integrate", "verify", "apply", "applied", "marked"}

\* The delegation is cut: unless the child had failed, the log knows less of it
\* than memory, and a worktree made for it may stay.
CutDelegation ==
    /\ InDelegation
    /\ SettleDelegation
    /\ \/ held' = held
       \/ pc = "prepare" /\ role[child] = "implement" /\ held' = held \cup {child}
       \/ pc = "report" /\ records[child] = "failed" /\ held' = held \ {child}
    /\ unreported' = unreported \cup {child}
    /\ UNCHANGED unrecorded

\* The integration is cut: after the mark memory knows more than the log.
CutIntegration ==
    /\ InIntegration
    /\ SettleIntegration
    /\ \/ held' = held
       \/ pc = "marked" /\ held' = held \ {child}
    /\ unrecorded' = IF pc = "marked" THEN unrecorded \cup {child} ELSE unrecorded
    /\ UNCHANGED unreported

\* An exception leaves the tool boundary, the next ask settles the call, and the
\* SubagentRunner with its records lives on.
CutShort ==
    /\ CutDelegation \/ CutIntegration
    /\ UNCHANGED <<repository, records, status, elsewhere, raced, mistaken, bounds>>

\* The process ends.
Crash ==
    /\ pc = "loop" \/ InDelegation \/ InIntegration
    /\ crashes < MaxCrashes
    /\ crashes' = crashes + 1
    /\ records' = NoRecords
    /\ held' = {}
    /\ pc' = IF InIntegration THEN "down_integrating" ELSE "down"
    /\ UNCHANGED <<log, repository, child, status, history, edits>>

\* A new process settles the call and reads its records from the log; it cannot
\* go on where that raises.
Restart ==
    /\ Recoverable
    /\ \/ pc = "down" /\ SettleDelegation
       \/ pc = "down_integrating" /\ SettleIntegration
    /\ records' = Recovered
    /\ unreported' = {} /\ unrecorded' = {}
    /\ UNCHANGED <<repository, held, status, elsewhere, raced, mistaken, bounds>>

Next ==
    \/ OthersWork
    \/ \E c \in Children : \/ \E r \in {"explore", "implement"} : Delegate(c, r)
                           \/ Integrate(c)
                           \/ Repair(c)
    \/ Prepare \/ RunChild \/ Report
    \/ CheckBase \/ Verify \/ Apply \/ Mark \/ Record
    \/ SubmitFinal
    \/ CutShort \/ Crash \/ Restart

Spec == Init /\ [][Next]_vars

(****************************************************************************)
(* Properties.                                                              *)
(****************************************************************************)

\* Memory agrees with what a new process would read of c.
Agrees(c) ==
    IF records[c] \in {"completed", "integrated"} THEN records[c] = Recovered[c]
    ELSE Recovered[c] = "none"

\* A restart changes nothing: between calls, what memory says of the implement
\* children is what a new process would read from the log - but for those whose
\* delegation or marked integration lost its result in this process.
RestartChangesNothing ==
    pc = "loop" => \A c \in Children \ (unreported \cup unrecorded) :
        role[c] = "implement" => Agrees(c)

\* Even of those memory never knows less than the log: no restart turns a child into
\* one that is further than the process that lived it thought.
MemoryIsNeverBehind ==
    pc = "loop" => \A c \in Children :
        role[c] = "implement" =>
            /\ Recovered[c] = "integrated" => records[c] = "integrated"
            /\ Recovered[c] = "completed" => records[c] \in {"completed", "integrated"}

\* Between calls a worktree is kept only for a completed child that may still be
\* integrated, whatever failed; only an interrupt leaves another one behind.
WorktreesAreReleased ==
    pc = "loop" =>
        \A c \in held : records[c] = "completed" \/ c \in unreported \cup unrecorded

\* The recovery of the children raises only where a child was integrated whose
\* delegation had lost its result, before the process ended.
LogRecovers == integrations \subseteq receipts \cup unreported

\* Between two calls memory, log and disk agree, over every failure: the exceptions
\* are calls whose result was lost, and end with the process (SubagentRunner).
BetweenCallsAgree ==
    /\ RestartChangesNothing
    /\ MemoryIsNeverBehind
    /\ WorktreesAreReleased
    /\ LogRecovers

\* A patch is written into a commit, or into changes, on which it was not verified
\* only if others worked in the repository while git apply ran: never by what they
\* did in the minutes before (_require_parent_base, apply_patch).
AppliedWhereVerified == elsewhere \subseteq raced

\* No parent Run completes while its log reports an implementation that its log does
\* not report as integrated, over any crash and repair, except one whose verified
\* patch was applied and marked before the result of the call was lost
\* (completion_issue reads memory).
CompletedIsIntegrated ==
    status = "completed" => receipts \ integrations \subseteq unrecorded

\* A completed child the gate wants integrated, which is only integrated into its
\* own base.
Unfit(c) ==
    role[c] = "implement" /\ records[c] = "completed" /\ ~(Clean /\ head = base[c])

\* As long as nobody else touches the repository, what keeps a parent Run between two
\* calls from ever completing is one of three things.  A record says running: its
\* delegation was cut in this process.  A child is unfit: the patch of some child is in
\* the files, that of another, or its own, left by a call that lost its result.  An
\* effect is unknown: integrate_child was called for an explore child.  No patch has
\* drifted, so every partial effect can be repaired (CompletionController.assess).
DeadEndsAreKnown ==
    pc = "loop" /\ edits = 0 =>
        /\ {c \in Children : records[c] = "running"} \subseteq unreported
        /\ (\E c \in Children : Unfit(c)) => present # {}
        /\ unknown => mistaken # {}
        /\ \A c \in Children : ~Drifted(c)
================================================================================
