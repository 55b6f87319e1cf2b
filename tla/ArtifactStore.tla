---------------------------- MODULE ArtifactStore ----------------------------
(***************************************************************************)
(* The immutable artifacts of one Run, src/pico/artifacts.py: a content    *)
(* file and a descriptor file for each artifact, written one after the     *)
(* other and never again, and read back by page or as a whole.             *)
(*                                                                         *)
(* Simplifications.  A content is its set of character boundaries (byte    *)
(* offsets), 0 and its length included.  Digests are injective, so an id   *)
(* names its content and each file is absent, torn (a prefix) or whole.  A *)
(* descriptor that lacks its last line feed only is torn as well, although *)
(* it could still be parsed.  A crash is the death of the process.         *)
(***************************************************************************)
EXTENDS Naturals

CONSTANTS
    Calls,       \* the calls that may need an artifact
    Contents,    \* what a tool can print, a file hold or a Diff say
    Boundary,    \* Boundary[c]: the offsets of c at which a character may begin
    Carriage,    \* the contents with a carriage return in them
    PageSizes,   \* the page sizes a model may ask for, already cut to the cap
    MaxFaults,   \* bound: crashes and failed writes
    MaxEdits     \* bound: changes of the workspace while the Run is open

ASSUME BoundaryAssumption ==
    /\ Boundary \in [Contents -> SUBSET Nat]
    /\ \A c \in Contents : 0 \in Boundary[c]
    /\ \A c \in Contents : \E n \in Boundary[c] : \A m \in Boundary[c] : m <= n

ASSUME PageAssumption == PageSizes \subseteq Nat \ {0}

ASSUME CarriageAssumption == Carriage \subseteq Contents

ASSUME BoundAssumption == MaxFaults \in Nat /\ MaxEdits \in Nat

\* The key of an artifact is its call; the final Diff is keyed by the Run.
TheRun == "run"

ASSUME KeyAssumption == TheRun \notin Calls

Id(kind, key, c) == [kind |-> kind, key |-> key, of |-> c]

Ids ==
    {Id(kind, call, c) : kind \in {"tool", "preimage"}, call \in Calls, c \in Contents}
        \union {Id("diff", TheRun, c) : c \in Contents}

FileStates == {"absent", "torn", "whole"}

VARIABLES
    txt,      \* the content file of each id
    json,     \* the descriptor file of each id
    op,       \* the write under way
    named,    \* the ids whose descriptor was returned to a caller
    tree,     \* what the net Diff of the workspace says now
    drifted,  \* the user changed a path the Run touched, after the Run did
    closed,   \* the terminal line, which names the final Diff, is in the Run Log
    reader,   \* a page by page reading of one tool output
    faults, edits

storeVars == <<txt, json, op, named, tree, drifted, closed, reader, faults, edits>>

Idle == [at |-> "idle"]
NotReading == [at |-> "idle"]

Writing(step, id) == [at |-> step, id |-> id]

-----------------------------------------------------------------------------
(* Pages *)

Length(c) == CHOOSE n \in Boundary[c] : \A m \in Boundary[c] : m <= n

\* An offset inside a character moves forward to the next one.
Aligned(c, offset) ==
    CHOOSE n \in Boundary[c] :
        /\ n >= offset
        /\ \A m \in Boundary[c] : m >= offset => m >= n

\* A slip never used: a page is cut at the byte and loses the cut character.
PageEndAtByte(c, offset, size) ==
    IF offset + size < Length(c) THEN offset + size ELSE Length(c)

\* The end of a page moves back to a character boundary, at worst to its start.
PageEnd(c, offset, size) ==
    CHOOSE n \in Boundary[c] :
        /\ n <= offset + size
        /\ \A m \in Boundary[c] : m <= offset + size => m <= n

\* The descriptor and the content behind it agree in schema, id, digest, size.
Readable(id) == json[id] = "whole" /\ txt[id] = "whole"

-----------------------------------------------------------------------------
StoreTypeOK ==
    /\ txt \in [Ids -> FileStates]
    /\ json \in [Ids -> FileStates]
    /\ op \in {Idle} \union [at : {"content", "descriptor"}, id : Ids]
    /\ named \subseteq Ids
    /\ tree \in Contents
    /\ drifted \in BOOLEAN
    /\ closed \in BOOLEAN
    /\ reader \in {NotReading} \union
          [at : {"reading"}, id : Ids, size : PageSizes,
           from : Nat, next : Nat, got : Nat]
    /\ reader # NotReading => reader.next <= Length(reader.id.of)
    /\ faults \in 0..MaxFaults
    /\ edits \in 0..MaxEdits

StoreInit ==
    /\ txt = [id \in Ids |-> "absent"]
    /\ json = [id \in Ids |-> "absent"]
    /\ op = Idle
    /\ named = {}
    /\ tree \in Contents
    /\ drifted = FALSE
    /\ closed = FALSE
    /\ reader = NotReading
    /\ faults = 0
    /\ edits = 0

-----------------------------------------------------------------------------
(* Writing *)

Begin(id) ==
    /\ op = Idle
    /\ ~closed
    /\ reader = NotReading
    /\ op' = Writing("content", id)
    /\ UNCHANGED <<txt, json, named, tree, drifted, closed, reader, faults, edits>>

\* write_tool_output: an output too long for the prompt.
WriteToolOutput ==
    \E call \in Calls, c \in Contents : Length(c) > 0 /\ Begin(Id("tool", call, c))

\* write_workspace_preimage: the bytes a call is about to change.
WriteWorkspacePreimage ==
    \E call \in Calls, c \in Contents : Begin(Id("preimage", call, c))

\* build_final_diff and write_final_diff: every attempt to complete, stop or reset
\* the Run renders the net Diff from the preimages of the paths it touched.
PreimagesReadable == \A id \in named : id.kind = "preimage" => Readable(id)

WriteFinalDiff ==
    /\ PreimagesReadable /\ ~drifted
    /\ Length(tree) > 0
    /\ Begin(Id("diff", TheRun, tree))

\* An empty Diff needs no artifact, and a drifted workspace has none: then a stop
\* or a reset closes the Run without it, and a completion is refused.
CloseWithoutDiff ==
    /\ op = Idle /\ reader = NotReading
    /\ ~closed
    /\ \/ drifted
       \/ PreimagesReadable /\ Length(tree) = 0
    /\ closed' = TRUE
    /\ UNCHANGED <<txt, json, op, named, tree, drifted, reader, faults, edits>>

\* Slips never used: what is there is taken unread, or never taken at all.
SameContentUnread(id) == txt[id] # "absent"
SameContentNever(id) == FALSE

\* Tool outputs and Diffs are compared as text, which turns every carriage
\* return that was written into a line feed; preimages are compared as bytes.
SameContent(id) ==
    /\ txt[id] = "whole"
    /\ id.kind = "preimage" \/ id.of \notin Carriage

\* A preimage is staged and linked, so its content is never torn.
Staged(id) == id.kind = "preimage"

WriteContent ==
    /\ op.at = "content"
    /\ txt[op.id] = "absent" \/ SameContent(op.id)
    /\ txt' = IF txt[op.id] = "absent" THEN [txt EXCEPT ![op.id] = "whole"] ELSE txt
    /\ op' = Writing("descriptor", op.id)
    /\ UNCHANGED <<json, named, tree, drifted, closed, reader, faults, edits>>

\* A final Diff is followed by the append of the terminal line, which may fail.
WriteDescriptor ==
    /\ op.at = "descriptor"
    /\ json[op.id] # "torn"
    /\ json' = [json EXCEPT ![op.id] = "whole"]
    /\ named' = named \union {op.id}
    /\ op' = Idle
    /\ \/ /\ closed' = (op.id.kind = "diff")
          /\ UNCHANGED faults
       \/ /\ op.id.kind = "diff"
          /\ faults < MaxFaults
          /\ faults' = faults + 1
          /\ UNCHANGED closed
    /\ UNCHANGED <<txt, tree, drifted, reader, edits>>

\* The file exists and is not what would be written: the caller gets an error.
Collides(id, step) ==
    \/ step = "content" /\ txt[id] # "absent" /\ ~SameContent(id)
    \/ step = "descriptor" /\ json[id] = "torn"

Collision ==
    /\ op.at # "idle"
    /\ Collides(op.id, op.at)
    /\ op' = Idle
    /\ UNCHANGED <<txt, json, named, tree, drifted, closed, reader, faults, edits>>

\* The process dies, or a write raises, before the step or in the middle of it.
CutTxt ==
    IF op.at = "content" /\ txt[op.id] = "absent" /\ ~Staged(op.id)
    THEN {"absent", "torn"} ELSE {txt[op.id]}

CutJson ==
    IF op.at = "descriptor" /\ json[op.id] = "absent"
    THEN {"absent", "torn"} ELSE {json[op.id]}

Cut ==
    /\ op.at # "idle"
    /\ faults < MaxFaults
    /\ \E t \in CutTxt, j \in CutJson :
          /\ txt' = [txt EXCEPT ![op.id] = t]
          /\ json' = [json EXCEPT ![op.id] = j]
    /\ op' = Idle
    /\ faults' = faults + 1
    /\ UNCHANGED <<named, tree, drifted, closed, reader, edits>>

-----------------------------------------------------------------------------
(* Reading, and the workspace *)

\* The first read_artifact of an output; any offset in it may be asked for.
StartReading(id, size, offset) ==
    /\ op = Idle
    /\ reader = NotReading
    /\ ~closed
    /\ id.kind = "tool"
    /\ Readable(id)
    /\ offset <= Length(id.of)
    /\ reader' = [at |-> "reading", id |-> id, size |-> size, from |-> offset,
                  next |-> offset, got |-> 0]
    /\ UNCHANGED <<txt, json, op, named, tree, drifted, closed, faults, edits>>

\* One page, and the offset the continuation line tells the model to ask next.
ReadPage ==
    /\ reader.at = "reading"
    /\ Readable(reader.id)
    /\ reader.next < Length(reader.id.of)
    /\ LET c == reader.id.of
           offset == Aligned(c, reader.next)
           end == PageEnd(c, offset, reader.size)
       IN  reader' = [reader EXCEPT !.next = end, !.got = @ + (end - offset)]
    /\ UNCHANGED <<txt, json, op, named, tree, drifted, closed, faults, edits>>

StopReading ==
    /\ reader.at = "reading"
    /\ reader' = NotReading
    /\ UNCHANGED <<txt, json, op, named, tree, drifted, closed, faults, edits>>

\* A tool changes files of the Run, or the user changes one of them after it, or
\* changes it back.
ToolEdit == tree' \in Contents \ {tree} /\ UNCHANGED drifted

UserEdit == drifted' = ~drifted /\ UNCHANGED tree

Edit ==
    /\ op = Idle
    /\ ~closed
    /\ edits < MaxEdits
    /\ ToolEdit \/ UserEdit
    /\ edits' = edits + 1
    /\ UNCHANGED <<txt, json, op, named, closed, reader, faults>>

StoreNext ==
    \/ WriteToolOutput
    \/ WriteWorkspacePreimage
    \/ WriteFinalDiff
    \/ CloseWithoutDiff
    \/ WriteContent
    \/ WriteDescriptor
    \/ Collision
    \/ Cut
    \/ \E id \in Ids, size \in PageSizes :
          \E offset \in 0..Length(id.of) : StartReading(id, size, offset)
    \/ ReadPage
    \/ StopReading
    \/ Edit

\* A write that has begun goes on; whoever could not close the Run tries again
\* whenever nothing else is under way; a reading goes on or is given up.
StoreFairness ==
    /\ WF_storeVars(WriteContent \/ WriteDescriptor \/ Collision)
    /\ SF_storeVars(WriteFinalDiff \/ CloseWithoutDiff)
    /\ WF_storeVars(StopReading)

StoreSpec == StoreInit /\ [][StoreNext]_storeVars /\ StoreFairness

-----------------------------------------------------------------------------
(* Properties *)

\* What a caller was given a descriptor for, and may have recorded in the Run Log,
\* can be read back, after any crash (write_tool_output, write_workspace_preimage,
\* write_final_diff against _read_verified, read_internal).
NamedIsReadable == \A id \in named : Readable(id)

\* A descriptor, whole or torn, never precedes its content.
DescriptorNamesContent == \A id \in Ids : json[id] # "absent" => txt[id] = "whole"

\* A file that was written whole is never touched again, by a retry, a crash or a
\* write of another artifact (write_once_bytes opens with "x").
Immutable ==
    [][\A id \in Ids :
          /\ txt[id] = "whole" => txt'[id] = "whole"
          /\ json[id] = "whole" => json'[id] = "whole"]_storeVars

\* What was named can be read, and stays what it was, whatever is cut and written again.
StoreIsSound == [](StoreTypeOK /\ NamedIsReadable /\ DescriptorNamesContent) /\ Immutable

\* A model that follows the continuation offsets of read_artifact is shown every
\* byte from the character it began at to where it is, once.
PagesAreContiguous ==
    reader.at = "reading" /\ reader.next # reader.from =>
        reader.next = Aligned(reader.id.of, reader.from) + reader.got

\* A character that begins at an offset fits in a page.
CharacterFits(c, offset, size) ==
    \E n \in Boundary[c] : offset < n /\ n <= offset + size

\* The next page brings the reading further, unless it is smaller than a character:
\* then read_artifact offers the same offset for ever.
PagesAdvance ==
    reader.at = "reading" /\ reader.next < Length(reader.id.of) =>
        LET offset == Aligned(reader.id.of, reader.next)
        IN  \/ PageEnd(reader.id.of, offset, reader.size) > reader.next
            \/ ~CharacterFits(reader.id.of, offset, reader.size)

\* A reading by page neither loses nor repeats a byte, and comes to the end.
ReadingIsExact == PagesAreContiguous /\ PagesAdvance

\* What can never be written again, nor therefore be named: a file of it was cut,
\* or its text comes back changed.
Spoiled(id) ==
    \/ txt[id] = "torn"
    \/ json[id] = "torn"
    \/ txt[id] = "whole" /\ id.kind # "preimage" /\ id.of \in Carriage

\* A Run whose closing is retried closes, unless the Diff of its workspace has been
\* spoiled by an earlier attempt (build_final_diff for finish_success, finish_stopped, reset).
RunCloses == <>[](closed \/ Spoiled(Id("diff", TheRun, tree)))

\* docs/architecture/agent-runtime.md:324: "A user cancellation or reset can still
\* terminalize safely".  It fails once an attempt was interrupted after the Diff of
\* a workspace with carriage returns was written, or in the middle of any Diff.
StopTerminalizes == <>closed
=============================================================================
