------------------------------ MODULE RunEvidence ------------------------------
(****************************************************************************)
(* evidence.py: what a Run knows of its own effects on the workspace, and   *)
(* the factual questions the completion gate asks of it.                    *)
(*                                                                          *)
(* A revision is a content, or Absent.  The mutation cursor, in the code    *)
(* the sequence number of the last effect's event, is here the number of    *)
(* effects: the code compares cursors and never uses their distance.  An    *)
(* effect has status "success" exactly when its side effect is "changed"    *)
(* (classify_runner_result), so the status is left out.                     *)
(****************************************************************************)
EXTENDS Integers, Sequences

CONSTANTS
    Paths,      \* the files of the workspace
    Contents,   \* what a file may hold
    Absent      \* the revision of a file that does not exist

ASSUME RevisionsAssumption == Absent \notin Contents

States == Contents \cup {Absent}

\* path -> revision, for some of the paths: capture_changed_path_states.
PathStates == UNION {[S -> States] : S \in SUBSET Paths}

\* FileChange, with the content of the preimage artifact in place of its id
\* (Absent: no artifact).
FileChange == [first : States, preimage : States, current : States]

\* One element of path_transitions.
Transition == [before : States, preimage : States, after : States]

Effect == [side : {"changed", "partial"}, paths : (SUBSET Paths) \ {{}}]
          \cup [side : {"unknown"}, paths : SUBSET Paths]

Check == [status : {"passed", "failed", "infrastructure_error"}, cursor : Nat,
          started : PathStates, finished : PathStates]

\* checks holds of each cursor and pair of path states the latest record only:
\* latest_verification_for_state never looks at an older one.  broken: an event
\* on disk makes apply_event raise, now and in every replay.
Evidence == [files : UNION {[S -> FileChange] : S \in SUBSET Paths},
             effects : Seq(Effect), checks : SUBSET Check,
             observed : BOOLEAN, broken : BOOLEAN]

EmptyEvidence == [files |-> [p \in {} |-> Absent], effects |-> <<>>, checks |-> {},
                  observed |-> FALSE, broken |-> FALSE]

(****************************************************************************)
(* RunChangeSet.                                                            *)
(****************************************************************************)
TouchedPaths(ev) == DOMAIN ev.files

NetChangedPaths(ev) ==
    {p \in DOMAIN ev.files : ev.files[p].first # ev.files[p].current}

WorkspaceDrift(ev, ws) == {p \in DOMAIN ev.files : ws[p] # ev.files[p].current}

\* FileChange.apply raises where this is false.
Continues(files, moves) ==
    \A p \in DOMAIN files \cap DOMAIN moves : moves[p].before = files[p].current

Moved(files, moves) ==
    [p \in DOMAIN files \cup DOMAIN moves |->
        IF p \notin DOMAIN moves THEN files[p]
        ELSE IF p \in DOMAIN files THEN [files[p] EXCEPT !.current = moves[p].after]
        ELSE [first |-> moves[p].before, preimage |-> moves[p].preimage,
              current |-> moves[p].after]]

\* RunEvidence.apply_event on a tool_result: its side effect and transitions.
Recorded(ev, side, moves) ==
    IF side = "none" THEN ev
    ELSE LET noted == [ev EXCEPT !.effects =
                          Append(@, [side |-> side, paths |-> DOMAIN moves])]
         IN  IF side = "unknown" THEN noted
             ELSE IF Continues(ev.files, moves)
             THEN [noted EXCEPT !.files = Moved(@, moves)]
             ELSE [noted EXCEPT !.broken = TRUE]

(****************************************************************************)
(* Verification records.                                                    *)
(****************************************************************************)
Cursor(ev) == Len(ev.effects)

\* apply_event on a verification_result.  changed: what the command did to the
\* repository; unseen: the snapshot after it failed (workspace_changes is null).
Verified(ev, c, changed, unseen) ==
    LET others == {d \in ev.checks : ~(d.cursor = c.cursor /\ d.started = c.started
                                                     /\ d.finished = c.finished)}
    IN  [ev EXCEPT !.checks = others \cup {c},
                   !.effects = IF unseen \/ changed # {}
                               THEN Append(@, [side |-> "unknown", paths |-> changed])
                               ELSE @]

VerificationIsCurrent(c, cursor, states) ==
    c.cursor = cursor /\ c.started = states /\ c.finished = states

LatestVerification(ev, cursor, states) ==
    {c \in ev.checks : VerificationIsCurrent(c, cursor, states)}

(****************************************************************************)
(* Uncertain effects and their repairs.                                     *)
(****************************************************************************)

\* _repair_after: the later effects that cover the partial effect i.
Repairs(ev, i) ==
    {j \in i + 1 .. Len(ev.effects) :
        /\ ev.effects[i].side = "partial"
        /\ ev.effects[j].side = "changed"
        /\ ev.effects[i].paths \subseteq ev.effects[j].paths}

Uncertain(ev) == {i \in DOMAIN ev.effects : ev.effects[i].side # "changed"}

UnrepairedUncertainEffects(ev) == {i \in Uncertain(ev) : Repairs(ev, i) = {}}

RepairedPartials(ev) == {i \in DOMAIN ev.effects : Repairs(ev, i) # {}}

\* unresolved_effects(c): the first repair must not be younger than c.
UnresolvedEffects(ev, checks) ==
    {i \in Uncertain(ev) :
        ~\E j \in Repairs(ev, i), c \in checks : c.status = "passed" /\ c.cursor >= j}
================================================================================
