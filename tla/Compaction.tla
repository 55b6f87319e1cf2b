------------------------------ MODULE Compaction -------------------------------
(****************************************************************************)
(* history.py and the part of context_manager.py that decides what of a     *)
(* Run's history the model is shown, and what a summary replaces.           *)
(*                                                                          *)
(* The Run Log is reduced to the events of CONTEXT_KINDS.  An event is its  *)
(* position in the log.  Texts are their sizes in tokens; sizes add up, and *)
(* the line that says that events were omitted costs one.  A summary is any *)
(* size, or a failure.                                                      *)
(*                                                                          *)
(* A room is what is left for the history once everything else of the       *)
(* prompt is in it (_history_budget).  It is measured twice for a prompt,   *)
(* when a summary may be made and, up to a model request later, when the    *)
(* prompt is built; git's status, the repository map, the working state and *)
(* the tools make it another one each time.                                 *)
(*                                                                          *)
(* Bounds: MaxEvents events of a log, MaxCalls calls in a batch.            *)
(****************************************************************************)
EXTENDS Selection, FiniteSets, SequencesExt

CONSTANTS
    Sizes,       \* of events and of summaries
    Rooms,       \* values of room
    KeepRecent,  \* compaction_keep_recent_tokens
    Slack,       \* compaction_reserve_tokens - max_new_tokens
    MaxCalls, MaxEvents

ASSUME CompactionAssumption ==
    /\ Sizes # {} /\ Sizes \subseteq Nat \ {0} /\ Rooms \subseteq Nat
    /\ KeepRecent \in Nat \ {0} /\ Slack \in Nat
    /\ MaxCalls \in Nat \ {0} /\ MaxEvents \in Nat

VARIABLES
    events,      \* the context events of the log
    summarised,  \* history: the events some committed summary was made from
    stage,       \* "loop", "build", and "raised" once reading the history raised
    room,        \* what a prompt in preparation was prepared for
    override,    \* history_override: what the fallback shows, or NoHistory
    prompted,    \* the history in the last prompt, or NoHistory
    refused      \* history: the two rooms of the prompt just refused, or <<>>

historyVars == <<events, summarised, stage, room, override, prompted, refused>>

NoHistory == <<0>>

Kinds == {"user_message", "user_guidance", "model_instruction", "assistant_tool_call",
          "tool_result", "compaction"}

\* calls is the number of results a call or a batch asks for, of the call of a
\* result.  canonical marks update_working_state and its result if that succeeded.
Event(kind, size) ==
    [kind |-> kind, size |-> size, calls |-> 0, canonical |-> FALSE, of |-> 0,
     covered |-> <<>>]

Kind(e) == events[e].kind

Ids == 1..Len(events)

Compactions == {c \in Ids : Kind(c) = "compaction"}

(****************************************************************************)
(* RunHistory.                                                              *)
(****************************************************************************)

\* A slip never used by HistoryNext: one event more than was covered is dropped.
ReplacedOneMore(log, active, e) ==
    IF log[e].kind # "compaction" THEN Append(active, e)
    ELSE LET covered == log[e].covered
         IN IF covered # <<>> /\ IsPrefix(covered, active)
            THEN <<e>> \o SubSeq(active, Len(covered) + 2, Len(active))
            ELSE NoHistory

\* One step of active_events; NoHistory stands for its ValueError.
Replaced(log, active, e) ==
    IF log[e].kind # "compaction" THEN Append(active, e)
    ELSE LET covered == log[e].covered
         IN IF covered # <<>> /\ IsPrefix(covered, active)
            THEN <<e>> \o SubSeq(active, Len(covered) + 1, Len(active))
            ELSE NoHistory

ActiveOf(log) ==
    LET active[e \in 0..Len(log)] ==
            IF e = 0 THEN <<>>
            ELSE IF active[e - 1] = NoHistory THEN NoHistory
                 ELSE Replaced(log, active[e - 1], e)
    IN  active[Len(log)]

Active == ActiveOf(events)

\* _latest_user_guidance_id: its position, and the event itself; 0 without one.
GuidanceAt(ids) == SelectLastInSeq(ids, LAMBDA e : Kind(e) = "user_guidance")

Guidance(ids) == IF GuidanceAt(ids) = 0 THEN 0 ELSE ids[GuidanceAt(ids)]

\* _history_units: where a unit starts.  A transaction is one unit.
UnitStarts(ids) ==
    {i \in 1..Len(ids) : \A j \in 1..(i - 1) : i > j + events[ids[j]].calls}

Incomplete(ids) == \E i \in UnitStarts(ids) : i + events[ids[i]].calls > Len(ids)

\* It raises on an orphan result and on a transaction that is not contiguous.
Contiguous(ids) ==
    \A i \in UnitStarts(ids) :
        /\ Kind(ids[i]) # "tool_result"
        /\ \A k \in 1..events[ids[i]].calls :
               i + k <= Len(ids) => /\ Kind(ids[i + k]) = "tool_result"
                                    /\ events[ids[i + k]].of = ids[i]

\* A successful update_working_state, or its result.
CanonicalUpdate(e) ==
    events[e].canonical /\ \E r \in Ids : events[r].canonical /\ events[r].of \in {e, events[e].of} \ {0}

\* _without_projected_state: what the prompt does not already say elsewhere.
Visible(ids, guidance) ==
    InOrder(ids, {e \in Ids : /\ Kind(e) # "user_message" /\ e # guidance
                              /\ ~CanonicalUpdate(e)})

Tokens(ids) ==
    LET sum[n \in 0..Len(ids)] == IF n = 0 THEN 0 ELSE sum[n - 1] + events[ids[n]].size
    IN  sum[Len(ids)]

From(ids, i) == SubSeq(ids, i, Len(ids))

\* Where the longest suffix of whole units within the limit starts; the last unit
\* is in it at any cost.  cost[i] is that of the suffix from i on.
SuffixOfUnits(ids, limit, cost) ==
    LET starts == UnitStarts(ids)
        fits(i) == \A j \in starts : (j >= i /\ \E k \in starts : k > j) => cost[j] <= limit
    IN IF starts = {} THEN 1
       ELSE CHOOSE i \in starts : fits(i) /\ \A h \in starts : fits(h) => i <= h

(****************************************************************************)
(* plan_compaction.                                                         *)
(****************************************************************************)

\* A slip never used by HistoryNext: the latest guidance does not stop the cut.
CutPastGuidance(active) ==
    SuffixOfUnits(active, KeepRecent,
                  [i \in 1..Len(active) |-> Tokens(Visible(From(active, i), Guidance(active)))])

\* The first position that stays: at most that of the latest guidance.
Cut(active) ==
    LET cut == SuffixOfUnits(active, KeepRecent,
                   [i \in 1..Len(active) |-> Tokens(Visible(From(active, i), Guidance(active)))])
    IN IF GuidanceAt(active) # 0 /\ cut > GuidanceAt(active) THEN GuidanceAt(active)
       ELSE cut

Covered(active) == SubSeq(active, 1, Cut(active) - 1)

\* What the summary is made from.
Source(active) == Visible(Covered(active), Guidance(active))

\* There is something to summarise.
Plannable(active) ==
    /\ Contiguous(active) /\ ~Incomplete(active)
    /\ Source(active) # <<>>

\* A slip never used by HistoryNext: the summary need not fit.
SummaryAcceptedUnbounded(active, size) ==
    size + Tokens(Visible(From(active, Cut(active)), Guidance(active)))
        < Tokens(Visible(active, Guidance(active)))

\* build_summary and the last test of plan_compaction: the summary fits in the room,
\* and the history becomes shorter.
SummaryAccepted(active, size) ==
    /\ size + 1 <= room'
    /\ size + Tokens(Visible(From(active, Cut(active)), Guidance(active)))
           < Tokens(Visible(active, Guidance(active)))

\* append_compaction raises otherwise.
Coverable(active, covered) ==
    /\ covered # <<>> /\ IsPrefix(covered, active)
    /\ Len(covered) < Len(active) => Kind(active[Len(covered) + 1]) # "tool_result"

(****************************************************************************)
(* What is shown.                                                           *)
(****************************************************************************)

\* render_recent_projection, with the line about omitted events in any case.
Recent(active, limit) ==
    LET selected == Visible(active, Guidance(active))
    IN IF Incomplete(selected) THEN <<>>
       ELSE From(selected, SuffixOfUnits(selected, limit,
                               [i \in 1..Len(selected) |-> 1 + Tokens(From(selected, i))]))

\* _bounded_history.  The text costs what its events cost, and extra.
Bounded(ids, extra, space) ==
    IF Tokens(ids) + extra <= space THEN ids
    ELSE LET recent == Recent(Active, space)
         IN IF 1 + Tokens(recent) <= space THEN recent ELSE <<>>

Summaries(active) == InOrder(active, Compactions)

Unsummarised(active) == InOrder(Visible(active, Guidance(active)), Ids \ Compactions)

\* What the line about omitted events costs when the suffix from i on is shown.
Omission(i) == IF i > 1 THEN 1 ELSE 0

\* render_compacted_projection raises: the history holds a broken transaction, or
\* the summary alone is too long.
CompactedRaises(active, space) ==
    LET recent == Unsummarised(active)
    IN /\ Summaries(active) # <<>>
       /\ \/ ~Contiguous(recent) \/ Incomplete(recent)
          \/ Tokens(Summaries(active)) + Omission(Len(recent) + 1) > space

\* The history of the prompt without a fallback: all of it before the first
\* summary, then the summary and a suffix of what came after.
Projected(active, space) ==
    LET recent == Unsummarised(active)
        start == SuffixOfUnits(recent, space,
                     [i \in 1..Len(recent) |->
                         Tokens(Summaries(active)) + Omission(i) + Tokens(From(recent, i))])
    IN IF Summaries(active) = <<>> THEN Bounded(Visible(active, Guidance(active)), 0, space)
       ELSE Bounded(Summaries(active) \o From(recent, start), Omission(start), space)

(****************************************************************************)
(* The Run.                                                                 *)
(****************************************************************************)

HistoryInit ==
    /\ events = <<Event("user_message", CHOOSE size \in Sizes : TRUE)>>  \* never counted
    /\ summarised = {}
    /\ stage = "loop"
    /\ room = 0
    /\ override = NoHistory
    /\ prompted = NoHistory /\ refused = <<>>

\* No prompt was just built or refused.
NoPrompt == prompted' = NoHistory /\ refused' = <<>>

Unanswered ==
    {c \in Ids : Cardinality({r \in Ids : events[r].of = c}) < events[c].calls}

\* append_user_guidance, append_model_instruction.
AppendPlain(kind) ==
    /\ stage = "loop" /\ Len(events) < MaxEvents
    /\ Unanswered = {}
    /\ \E size \in Sizes : events' = Append(events, Event(kind, size))
    /\ NoPrompt
    /\ UNCHANGED <<summarised, stage, room, override>>

\* append_tool_call, append_tool_batch.
AppendCall ==
    /\ stage = "loop" /\ Len(events) < MaxEvents
    /\ Unanswered = {}
    /\ \E size \in Sizes, n \in 1..MaxCalls, canonical \in BOOLEAN :
          /\ canonical => n = 1
          /\ events' = Append(events, [Event("assistant_tool_call", size) EXCEPT
                                          !.calls = n, !.canonical = canonical])
    /\ NoPrompt
    /\ UNCHANGED <<summarised, stage, room, override>>

\* append_tool_result, also that of a call interrupted by a crash.
AppendResult ==
    /\ stage = "loop" /\ Len(events) < MaxEvents
    /\ \E c \in Unanswered, size \in Sizes, success \in BOOLEAN :
          events' = Append(events, [Event("tool_result", size) EXCEPT
                                      !.of = c, !.canonical = success /\ events[c].canonical])
    /\ NoPrompt
    /\ UNCHANGED <<summarised, stage, room, override>>

\* append_compaction.
Commit(active, size) ==
    IF Coverable(active, Covered(active))
    THEN /\ events' = Append(events, [Event("compaction", size) EXCEPT
                                         !.covered = Covered(active)])
         /\ summarised' = summarised \cup ToSet(Source(active))
         /\ stage' = "build"
    ELSE stage' = "raised" /\ UNCHANGED <<events, summarised>>

\* prepare_compaction, when the tool surface changed or a new ask, a rotation or an
\* overflow needs a fresh prompt.  Nothing is pending then (SettledBeforeTurn of
\* AgentLoop).  The Provider's token count may ask for a compaction at any size.
PrepareCompaction ==
    /\ stage = "loop" /\ Unanswered = {}
    /\ room' \in Rooms
    /\ NoPrompt
    /\ LET active == Active
       IN \/ /\ Tokens(Visible(active, Guidance(active))) + Slack < room'
             /\ override' = NoHistory /\ stage' = "build"
             /\ UNCHANGED <<events, summarised>>
          \/ /\ Plannable(active) /\ Len(events) < MaxEvents
             /\ \E size \in Sizes : SummaryAccepted(active, size) /\ Commit(active, size)
             /\ override' = NoHistory
          \/ /\ override' = Recent(active, IF KeepRecent < room' THEN KeepRecent ELSE room')
             /\ stage' = "build"
             /\ UNCHANGED <<events, summarised>>

\* build, in the room that is there by now, or the ask ends between the two.  A
\* refusal ends the ask; the Run can be resumed.
BuildPrompt ==
    /\ stage = "build"
    /\ \E space \in Rooms :
          IF override = NoHistory /\ CompactedRaises(Active, space)
          THEN prompted' = NoHistory /\ refused' = <<room, space>>
          ELSE /\ prompted' \in {NoHistory, IF override = NoHistory THEN Projected(Active, space)
                                              ELSE Bounded(override, 1, space)}
               /\ refused' = <<>>
    /\ stage' = "loop" /\ room' = 0 /\ override' = NoHistory
    /\ UNCHANGED <<events, summarised>>

HistoryNext ==
    \/ AppendPlain("user_guidance") \/ AppendPlain("model_instruction")
    \/ AppendCall \/ AppendResult
    \/ PrepareCompaction \/ BuildPrompt

HistorySpec == HistoryInit /\ [][HistoryNext]_historyVars

(****************************************************************************)
(* Properties.                                                              *)
(****************************************************************************)

HistoryTypeOK ==
    /\ \A e \in Ids :
          /\ Kind(e) \in Kinds /\ events[e].size \in Sizes
          /\ events[e].calls \in 0..MaxCalls
          /\ Kind(e) = "assistant_tool_call" <=> events[e].calls # 0
          /\ events[e].of \in 0..(e - 1)
          /\ events[e].canonical \in BOOLEAN
          /\ Kind(e) = "compaction" <=> events[e].covered # <<>>
          /\ ToSet(events[e].covered) \subseteq 1..(e - 1)
    /\ summarised \subseteq Ids
    /\ stage \in {"loop", "build", "raised"}
    /\ room \in Rooms \cup {0}
    /\ ToSet(override) \subseteq Ids \cup {0}
    /\ ToSet(prompted) \subseteq Ids \cup {0}
    /\ refused \in {<<>>} \cup (Rooms \X Rooms)

\* Over any number of compactions, compactions of compactions and resumes, the
\* history in use can be read: each coverage is a prefix of what was in use, and
\* no transaction is split.
ActiveIsReadable ==
    /\ Active # NoHistory
    /\ Contiguous(Active)
    /\ Incomplete(Active) => Unanswered # {}

\* Every event is in use or replaced by exactly one summary, and what is in use
\* after the summary is younger than all that is replaced, in order.
NothingForgotten ==
    LET active == ToSet(Active)
        facts == Ids \ Compactions
    IN /\ \A e \in Ids :
             Cardinality({c \in Compactions : e \in ToSet(events[c].covered)})
                 = IF e \in active THEN 0 ELSE 1
       /\ \A e \in facts \ active, f \in facts \cap active : e < f
       /\ \A i, j \in 1..Len(Active) :
             i < j /\ {Active[i], Active[j]} \subseteq facts => Active[i] < Active[j]

\* The latest word of the user is never replaced by a summary: it is what the
\* prompt repeats as the latest request.
GuidanceStays ==
    \A e \in Ids : Kind(e) = "user_guidance" /\ e \notin ToSet(Active) =>
        \E f \in ToSet(Active) : Kind(f) = "user_guidance" /\ f > e

\* What is replaced was part of what some summary was made from, except what the
\* prompt says elsewhere: the task and successful updates of the working state.
NothingLeavesUnsummarised ==
    \A e \in Ids \ ToSet(Active) :
        e \in summarised \/ Kind(e) = "user_message" \/ CanonicalUpdate(e)

\* No coverage is refused, and a prompt is refused for its history only when the
\* room became smaller between its two measurements: a summary is committed only if
\* it fits, and whatever the room was for earlier prompts, a history that no longer
\* fits is noticed when the prompt is prepared.  So an attempt in a room that stays
\* as it is, is served.
RefusedOnlyInLessRoom ==
    stage # "raised" /\ (refused # <<>> => refused[2] < refused[1])

\* The prompt shows whole transactions, and what is left out of the events since
\* the last summary is older than what is shown.
ShownIsRecentAndWhole ==
    prompted # NoHistory =>
        LET visible == ToSet(Visible(Active, Guidance(Active))) \ Compactions
            facts == ToSet(prompted) \ Compactions
        IN /\ facts \subseteq visible
           /\ \A e \in facts, f \in visible : f > e => f \in facts
           /\ \A r \in facts : events[r].of # 0 => events[r].of \in facts

\* The history of a Run stays whole: every event is in use or replaced by one summary,
\* in units that are never split (active_events, _history_units).
HistoryIsComplete == HistoryTypeOK /\ ActiveIsReadable /\ NothingForgotten

\* What a summary replaces was read for it or stands elsewhere, the latest guidance
\* not replaced at all (plan_compaction, _without_projected_state).
SummariesAreHonest == GuidanceStays /\ NothingLeavesUnsummarised

\* Every prompt gets a history, a recent suffix of whole transactions, unless the
\* room is taken while it is prepared (render_compacted_projection,
\* render_recent_projection).
PromptsAreServed == RefusedOnlyInLessRoom /\ ShownIsRecentAndWhole
================================================================================
