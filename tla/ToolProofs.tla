------------------------------ MODULE ToolProofs ------------------------------
(****************************************************************************)
(* What the tools of a Run rely on: the inductive invariants of             *)
(* ArtifactStore and of CommandRunner and the theorems that follow from     *)
(* them, for any contents with any character boundaries, any page sizes and *)
(* any number of faults and edits; for any helpers, threads, reasons,       *)
(* timeouts, limits and times.                                              *)
(****************************************************************************)
EXTENDS ArtifactStore, CommandRunner, WellFoundedInduction, TLAPS

-----------------------------------------------------------------------------
(* The artifact store: boundaries *)

\* Among some naturals one is the least.
LEMMA LeastNatural ==
    ASSUME NEW T, T \subseteq Nat, T # {}
    PROVE  \E x \in T : \A y \in T : x <= y
<1>1. PICK x \in T : \A y \in T : ~(<<y, x>> \in OpToRel(<, Nat))
  BY NatLessThanWellFounded, WFMin
<1>2. \A y \in T : ~(y < x)
  BY <1>1 DEF OpToRel
<1>3. QED
  BY <1>2

\* Among some naturals up to n one is the greatest.
LEMMA GreatestNatural ==
    ASSUME NEW T, T \subseteq Nat, T # {}, NEW n \in Nat, \A x \in T : x <= n
    PROVE  \E x \in T : \A y \in T : y <= x
<1> DEFINE Gaps == {g \in Nat : \E x \in T : g + x = n}
<1>1. \A x \in T : n - x \in Gaps
  OBVIOUS
<1>2. PICK g \in Gaps : \A h \in Gaps : g <= h
  <2>1. Gaps \subseteq Nat /\ Gaps # {}
    BY <1>1
  <2> HIDE DEF Gaps
  <2>2. QED
    BY <2>1, LeastNatural
<1>3. PICK x \in T : g + x = n
  OBVIOUS
<1>4. \A y \in T : g <= n - y
  BY <1>1, <1>2
<1>5. QED
  BY <1>3, <1>4

\* Where a content ends there is a boundary, and none behind it.
LEMMA LengthFacts ==
    ASSUME NEW c \in Contents
    PROVE  /\ Length(c) \in Boundary[c] /\ Length(c) \in Nat
           /\ \A m \in Boundary[c] : m <= Length(c)
<1>1. \E n \in Boundary[c] : \A m \in Boundary[c] : m <= n
  BY BoundaryAssumption DEF BoundaryAssumption
<1>2. Boundary[c] \subseteq Nat
  BY BoundaryAssumption DEF BoundaryAssumption
<1>3. QED
  BY <1>1, <1>2 DEF Length

\* An offset within a content moves to a boundary, never back, and not at all when
\* it is one.
LEMMA AlignedFacts ==
    ASSUME NEW c \in Contents, NEW offset \in Nat, offset <= Length(c)
    PROVE  /\ Aligned(c, offset) \in Boundary[c] /\ Aligned(c, offset) \in Nat
           /\ offset <= Aligned(c, offset)
           /\ offset \in Boundary[c] => Aligned(c, offset) = offset
<1> DEFINE Behind == {n \in Boundary[c] : n >= offset}
<1>1. Boundary[c] \subseteq Nat
  BY BoundaryAssumption DEF BoundaryAssumption
<1>2. Behind \subseteq Nat /\ Behind # {}
  BY <1>1, LengthFacts
<1>3. PICK n \in Behind : \A m \in Behind : n <= m
  <2> HIDE DEF Behind
  <2> QED
    BY <1>2, LeastNatural
<1>4. \E k \in Boundary[c] : /\ k >= offset
                             /\ \A m \in Boundary[c] : m >= offset => m >= k
  BY <1>1, <1>3
<1>5. /\ Aligned(c, offset) \in Boundary[c]
      /\ Aligned(c, offset) >= offset
      /\ \A m \in Boundary[c] : m >= offset => m >= Aligned(c, offset)
  BY <1>4 DEF Aligned
<1>6. QED
  BY <1>1, <1>5

\* A page that begins at a boundary ends at one, not before its start, at or behind
\* every boundary within its size.
LEMMA PageEndFacts ==
    ASSUME NEW c \in Contents, NEW offset \in Boundary[c], NEW size \in Nat
    PROVE  /\ PageEnd(c, offset, size) \in Boundary[c] /\ PageEnd(c, offset, size) \in Nat
           /\ offset <= PageEnd(c, offset, size)
           /\ PageEnd(c, offset, size) <= Length(c)
           /\ \A m \in Boundary[c] : m <= offset + size => m <= PageEnd(c, offset, size)
<1> DEFINE Within == {n \in Boundary[c] : n <= offset + size}
<1>1. Boundary[c] \subseteq Nat
  BY BoundaryAssumption DEF BoundaryAssumption
<1>2. Within \subseteq Nat /\ offset \in Within /\ offset + size \in Nat
  BY <1>1
<1>3. PICK n \in Within : \A m \in Within : m <= n
  <2>1. \A m \in Within : m <= offset + size
    OBVIOUS
  <2> HIDE DEF Within
  <2> QED
    BY <1>2, <2>1, GreatestNatural
<1>4. \E k \in Boundary[c] : /\ k <= offset + size
                             /\ \A m \in Boundary[c] : m <= offset + size => m <= k
  BY <1>1, <1>3
<1>5. /\ PageEnd(c, offset, size) \in Boundary[c]
      /\ \A m \in Boundary[c] : m <= offset + size => m <= PageEnd(c, offset, size)
  BY <1>4 DEF PageEnd
<1>6. offset <= PageEnd(c, offset, size)
  BY <1>1, <1>2, <1>5
<1>7. QED
  BY <1>1, <1>5, <1>6, LengthFacts

-----------------------------------------------------------------------------
(* The inductive invariant *)

\* A reading stands where it began, or at a boundary that it came to gapless.
ReaderShape ==
    reader.at = "reading" =>
        /\ reader.from <= Length(reader.id.of)
        /\ \/ reader.next = reader.from /\ reader.got = 0
           \/ /\ reader.next \in Boundary[reader.id.of]
              /\ reader.next = Aligned(reader.id.of, reader.from) + reader.got

\* A descriptor is written only behind its content.
WriterShape == op.at = "descriptor" => txt[op.id] = "whole"

StoreInv ==
    /\ StoreTypeOK /\ NamedIsReadable /\ DescriptorNamesContent
    /\ WriterShape /\ ReaderShape

LEMMA IdFacts ==
    /\ \A call \in Calls, c \in Contents :
          /\ Id("tool", call, c) \in Ids
          /\ Id("preimage", call, c) \in Ids
    /\ \A c \in Contents : Id("diff", TheRun, c) \in Ids
    /\ \A id \in Ids : id.of \in Contents
<1>1. \A kind, key, c : Id(kind, key, c).of = c
  BY DEF Id
<1>2. QED
  BY <1>1 DEF Ids

\* The first states: no file, nothing under way.
LEMMA StoreInitEstablishes == StoreInit => StoreInv
<1> SUFFICES ASSUME StoreInit PROVE StoreInv
  OBVIOUS
<1>1. StoreTypeOK
  <2>1. txt \in [Ids -> FileStates] /\ json \in [Ids -> FileStates]
    BY DEF StoreInit, FileStates
  <2>2. faults \in 0..MaxFaults /\ edits \in 0..MaxEdits
    BY BoundAssumption DEF BoundAssumption, StoreInit
  <2>3. op \in {Idle} /\ named \subseteq Ids /\ tree \in Contents /\ reader = NotReading
    BY DEF StoreInit
  <2>4. drifted \in BOOLEAN /\ closed \in BOOLEAN
    BY DEF StoreInit
  <2>5. QED
    BY <2>1, <2>2, <2>3, <2>4 DEF StoreTypeOK
<1>2. NamedIsReadable /\ DescriptorNamesContent
  BY DEF StoreInit, NamedIsReadable, DescriptorNamesContent
<1>3. WriterShape /\ ReaderShape
  BY DEF StoreInit, Idle, NotReading, WriterShape, ReaderShape
<1>4. QED
  BY <1>1, <1>2, <1>3 DEF StoreInv

\* A step that touches neither the files nor a reading keeps the invariant if it keeps
\* the types of the rest.
LEMMA FilesStay ==
    ASSUME StoreInv, UNCHANGED <<txt, json, named, reader>>,
           tree' \in Contents, drifted' \in BOOLEAN, closed' \in BOOLEAN,
           faults' \in 0..MaxFaults, edits' \in 0..MaxEdits,
           op' \in {Idle} \union [at : {"content"}, id : Ids] \/ op' = op
    PROVE  StoreInv'
BY DEF StoreInv, StoreTypeOK, Idle, NamedIsReadable, Readable, DescriptorNamesContent, WriterShape, ReaderShape

LEMMA BeginKeeps ==
    ASSUME StoreInv, WriteToolOutput \/ WriteWorkspacePreimage \/ WriteFinalDiff PROVE StoreInv'
<1>1. PICK id \in Ids : Begin(id)
  BY IdFacts DEF WriteToolOutput, WriteWorkspacePreimage, WriteFinalDiff, StoreInv, StoreTypeOK
<1>2. QED
  BY <1>1, FilesStay DEF Begin, Writing, StoreInv, StoreTypeOK

LEMMA CloseKeeps == ASSUME StoreInv, CloseWithoutDiff PROVE StoreInv'
BY FilesStay DEF CloseWithoutDiff, StoreInv, StoreTypeOK

LEMMA EditKeeps == ASSUME StoreInv, Edit PROVE StoreInv'
<1>1. tree' \in Contents /\ drifted' \in BOOLEAN
  BY DEF Edit, ToolEdit, UserEdit, StoreInv, StoreTypeOK
<1>2. edits' \in 0..MaxEdits
  BY BoundAssumption DEF BoundAssumption, Edit, StoreInv, StoreTypeOK
<1>3. QED
  BY <1>1, <1>2, FilesStay DEF Edit, StoreInv, StoreTypeOK

LEMMA CollisionKeeps == ASSUME StoreInv, Collision PROVE StoreInv'
BY FilesStay DEF Collision, Idle, StoreInv, StoreTypeOK

LEMMA WritingFacts ==
    ASSUME StoreInv, op.at # "idle"
    PROVE  op \in [at : {"content", "descriptor"}, id : Ids] /\ op.id \in Ids
BY DEF StoreInv, StoreTypeOK, Idle

\* The content file becomes whole, or was.
LEMMA WriteContentKeeps == ASSUME StoreInv, WriteContent PROVE StoreInv'
<1>1. op.id \in Ids
  BY WritingFacts DEF WriteContent
<1>2. /\ txt' \in [Ids -> FileStates]
      /\ \A id \in Ids : txt[id] = "whole" => txt'[id] = "whole"
      /\ txt'[op.id] = "whole"
  BY <1>1 DEF WriteContent, SameContent, StoreInv, StoreTypeOK, FileStates
<1>3. op' \in [at : {"content", "descriptor"}, id : Ids] /\ op'.id = op.id
  BY <1>1 DEF WriteContent, Writing
<1>4. StoreTypeOK'
  BY <1>2, <1>3 DEF WriteContent, StoreInv, StoreTypeOK
<1>5. NamedIsReadable' /\ DescriptorNamesContent'
  BY <1>2 DEF WriteContent, StoreInv, StoreTypeOK, NamedIsReadable, Readable, DescriptorNamesContent
<1>6. WriterShape' /\ ReaderShape'
  BY <1>2, <1>3 DEF WriteContent, StoreInv, WriterShape, ReaderShape
<1>7. QED
  BY <1>4, <1>5, <1>6 DEF StoreInv

\* The descriptor becomes whole, or was, behind a whole content, and is handed out.
LEMMA WriteDescriptorKeeps == ASSUME StoreInv, WriteDescriptor PROVE StoreInv'
<1>1. op.id \in Ids /\ txt[op.id] = "whole"
  BY WritingFacts DEF WriteDescriptor, StoreInv, WriterShape
<1>2. /\ json' \in [Ids -> FileStates]
      /\ \A id \in Ids : json'[id] = IF id = op.id THEN "whole" ELSE json[id]
  BY DEF WriteDescriptor, StoreInv, StoreTypeOK, FileStates
<1>3. closed' \in BOOLEAN /\ faults' \in 0..MaxFaults
  <2>1. closed' \in BOOLEAN
    BY Zenon DEF WriteDescriptor, StoreInv, StoreTypeOK
  <2>2. faults' \in 0..MaxFaults
    BY BoundAssumption DEF BoundAssumption, WriteDescriptor, StoreInv, StoreTypeOK
  <2>3. QED
    BY <2>1, <2>2
<1>4. StoreTypeOK'
  BY <1>1, <1>2, <1>3 DEF WriteDescriptor, StoreInv, StoreTypeOK
<1>5. NamedIsReadable' /\ DescriptorNamesContent'
  BY <1>1, <1>2 DEF WriteDescriptor, StoreInv, StoreTypeOK, NamedIsReadable, Readable, DescriptorNamesContent
<1>6. WriterShape' /\ ReaderShape'
  BY DEF WriteDescriptor, Idle, StoreInv, WriterShape, ReaderShape
<1>7. QED
  BY <1>4, <1>5, <1>6 DEF StoreInv

\* What a cut can leave: only a file that was absent becomes torn.
LEMMA CutKeeps == ASSUME StoreInv, Cut PROVE StoreInv'
<1>1. op.id \in Ids
  BY WritingFacts DEF Cut
<1>2. PICK t \in CutTxt, j \in CutJson :
          /\ txt' = [txt EXCEPT ![op.id] = t]
          /\ json' = [json EXCEPT ![op.id] = j]
  BY DEF Cut
<1>3. t \in FileStates /\ (txt[op.id] # "absent" => t = txt[op.id])
  BY <1>1, <1>2 DEF CutTxt, StoreInv, StoreTypeOK, FileStates
<1>4. /\ j \in FileStates /\ (json[op.id] # "absent" => j = json[op.id])
      /\ j # "absent" => txt[op.id] = "whole"
  BY <1>1, <1>2 DEF CutJson, StoreInv, StoreTypeOK, FileStates, WriterShape, DescriptorNamesContent
<1>5. /\ txt' \in [Ids -> FileStates] /\ json' \in [Ids -> FileStates]
      /\ \A id \in Ids : txt'[id] = IF id = op.id THEN t ELSE txt[id]
      /\ \A id \in Ids : json'[id] = IF id = op.id THEN j ELSE json[id]
  BY <1>1, <1>2, <1>3, <1>4 DEF StoreInv, StoreTypeOK
<1>6. StoreTypeOK'
  BY <1>5, BoundAssumption DEF BoundAssumption, Cut, StoreInv, StoreTypeOK
<1>7. NamedIsReadable' /\ DescriptorNamesContent'
  BY <1>1, <1>3, <1>4, <1>5 DEF Cut, StoreInv, StoreTypeOK, NamedIsReadable, Readable, DescriptorNamesContent
<1>8. WriterShape' /\ ReaderShape'
  BY DEF Cut, Idle, StoreInv, WriterShape, ReaderShape
<1>9. QED
  BY <1>6, <1>7, <1>8 DEF StoreInv

\* A step of a reading leaves everything else alone.
LEMMA ReaderMoves ==
    ASSUME StoreInv, UNCHANGED <<txt, json, op, named, tree, drifted, closed, faults, edits>>,
           \/ reader' = NotReading
           \/ /\ reader' \in [at : {"reading"}, id : Ids, size : PageSizes,
                              from : Nat, next : Nat, got : Nat]
              /\ reader'.next <= Length(reader'.id.of)
              /\ ReaderShape'
    PROVE  StoreInv'
BY DEF StoreInv, StoreTypeOK, NotReading, NamedIsReadable, Readable, DescriptorNamesContent, WriterShape, ReaderShape

LEMMA StopReadingKeeps == ASSUME StoreInv, StopReading PROVE StoreInv'
BY ReaderMoves DEF StopReading

LEMMA StartReadingKeeps ==
    ASSUME StoreInv, NEW id \in Ids, NEW size \in PageSizes, NEW offset \in 0..Length(id.of),
           StartReading(id, size, offset)
    PROVE  StoreInv'
<1>1. offset \in Nat /\ offset <= Length(id.of)
  BY IdFacts, LengthFacts
<1>2. reader' = [at |-> "reading", id |-> id, size |-> size, from |-> offset,
                 next |-> offset, got |-> 0]
  BY DEF StartReading
<1>3. ReaderShape'
  BY <1>1, <1>2 DEF ReaderShape
<1>4. QED
  BY <1>1, <1>2, <1>3, ReaderMoves DEF StartReading

\* A page goes from the boundary its offset is moved to, to another one.
LEMMA ReadPageKeeps == ASSUME StoreInv, ReadPage PROVE StoreInv'
<1> DEFINE c == reader.id.of
           offset == Aligned(c, reader.next)
           end == PageEnd(c, offset, reader.size)
<1>1. /\ reader \in [at : {"reading"}, id : Ids, size : PageSizes,
                     from : Nat, next : Nat, got : Nat]
      /\ reader.next <= Length(c)
  BY DEF ReadPage, StoreInv, StoreTypeOK, NotReading
<1>2. c \in Contents /\ reader.next \in Nat /\ reader.from \in Nat /\ reader.got \in Nat
  BY <1>1, IdFacts
<1>3. reader.size \in Nat
  BY <1>1, PageAssumption DEF PageAssumption
<1>4. reader.from <= Length(c)
  BY DEF ReadPage, StoreInv, ReaderShape
<1>5. /\ offset \in Boundary[c] /\ offset \in Nat
      /\ reader.next \in Boundary[c] => offset = reader.next
  BY <1>1, <1>2, AlignedFacts
<1>6. end \in Boundary[c] /\ end \in Nat /\ offset <= end /\ end <= Length(c)
  BY <1>2, <1>3, <1>5, PageEndFacts
<1>7. reader' = [reader EXCEPT !.next = end, !.got = @ + (end - offset)]
  BY DEF ReadPage
<1>8. offset = Aligned(c, reader.from) + reader.got
  BY <1>2, <1>5 DEF ReadPage, StoreInv, ReaderShape
<1> HIDE DEF c, offset, end
<1>9. end - offset \in Nat /\ reader.got + (end - offset) \in Nat
  BY <1>2, <1>5, <1>6
<1>10. /\ reader' \in [at : {"reading"}, id : Ids, size : PageSizes,
                       from : Nat, next : Nat, got : Nat]
       /\ reader'.next = end /\ reader'.got = reader.got + (end - offset)
       /\ reader'.id = reader.id /\ reader'.from = reader.from
  BY <1>1, <1>6, <1>7, <1>9
<1>11. Aligned(c, reader.from) \in Nat
  BY <1>2, <1>4, AlignedFacts
<1>12. reader'.next = Aligned(c, reader.from) + reader'.got
  BY <1>2, <1>5, <1>6, <1>8, <1>10, <1>11
<1>13. ReaderShape'
  BY <1>4, <1>6, <1>10, <1>12 DEF ReaderShape, c
<1>14. QED
  BY <1>6, <1>10, <1>13, ReaderMoves DEF ReadPage, c

\* Every step keeps the invariant, and so does a step that changes nothing.
LEMMA StoreStepKeeps == ASSUME StoreInv, [StoreNext]_storeVars PROVE StoreInv'
<1>1. CASE WriteToolOutput \/ WriteWorkspacePreimage \/ WriteFinalDiff
  BY <1>1, BeginKeeps
<1>2. CASE CloseWithoutDiff \/ Edit \/ Collision
  BY <1>2, CloseKeeps, EditKeeps, CollisionKeeps
<1>3. CASE WriteContent \/ WriteDescriptor \/ Cut
  BY <1>3, WriteContentKeeps, WriteDescriptorKeeps, CutKeeps
<1>4. CASE \E id \in Ids, size \in PageSizes :
              \E offset \in 0..Length(id.of) : StartReading(id, size, offset)
  BY <1>4, StartReadingKeeps
<1>5. CASE ReadPage \/ StopReading
  BY <1>5, ReadPageKeeps, StopReadingKeeps
<1>6. CASE UNCHANGED storeVars
  BY <1>6, FilesStay DEF storeVars, StoreInv, StoreTypeOK
<1>7. QED
  BY <1>1, <1>2, <1>3, <1>4, <1>5, <1>6 DEF StoreNext

-----------------------------------------------------------------------------
(* The theorems *)

\* The files of a Run and whoever writes or reads them are as the invariant says.
THEOREM StoreInvariance == StoreSpec => []StoreInv
<1>1. StoreInv /\ [StoreNext]_storeVars => StoreInv'
  BY StoreStepKeeps
<1>2. QED
  BY <1>1, StoreInitEstablishes, PTL DEF StoreSpec

\* A file that was written whole is never touched again (write_once_bytes).
THEOREM WholeFilesStay == StoreSpec => Immutable
<1> DEFINE Stays == \A id \in Ids : /\ txt[id] = "whole" => txt'[id] = "whole"
                                    /\ json[id] = "whole" => json'[id] = "whole"
<1>1. ASSUME StoreInv, [StoreNext]_storeVars PROVE Stays
  <2>1. CASE WriteContent
    BY <1>1, <2>1, WritingFacts DEF WriteContent, StoreInv, StoreTypeOK
  <2>2. CASE WriteDescriptor
    BY <1>1, <2>2, WritingFacts DEF WriteDescriptor, StoreInv, StoreTypeOK
  <2>3. CASE Cut
    <3>1. op.id \in Ids
      BY <1>1, <2>3, WritingFacts DEF Cut
    <3>2. PICK t \in CutTxt, j \in CutJson :
              /\ txt' = [txt EXCEPT ![op.id] = t]
              /\ json' = [json EXCEPT ![op.id] = j]
      BY <2>3 DEF Cut
    <3>3. (txt[op.id] = "whole" => t = "whole") /\ (json[op.id] = "whole" => j = "whole")
      BY <3>2 DEF CutTxt, CutJson
    <3>4. QED
      BY <1>1, <3>1, <3>2, <3>3 DEF StoreInv, StoreTypeOK
  <2>4. CASE ~(WriteContent \/ WriteDescriptor \/ Cut)
    <3>1. UNCHANGED <<txt, json>>
      BY <1>1, <2>4 DEF StoreNext, storeVars, WriteToolOutput, WriteWorkspacePreimage, WriteFinalDiff, Begin,
         CloseWithoutDiff, Collision, StartReading, ReadPage, StopReading, Edit
    <3>2. QED
      BY <3>1
  <2>5. QED
    BY <2>1, <2>2, <2>3, <2>4
<1>2. QED
  BY <1>1, StoreInvariance, PTL DEF StoreSpec, Immutable

\* What was named can be read back, after any crash, and stays what it was.
THEOREM TheStoreIsSound == StoreSpec => StoreIsSound
<1>1. StoreInv => StoreTypeOK /\ NamedIsReadable /\ DescriptorNamesContent
  BY DEF StoreInv
<1>2. QED
  BY <1>1, StoreInvariance, WholeFilesStay, PTL DEF StoreIsSound

\* A reading by page neither loses nor repeats a byte, whatever the pages and the
\* characters are, and stands still only before a character larger than a page.
THEOREM ReadingsAreExact == StoreSpec => []ReadingIsExact
<1>1. StoreInv => ReadingIsExact
  <2> SUFFICES ASSUME StoreInv PROVE ReadingIsExact
    OBVIOUS
  <2>1. PagesAreContiguous
    BY DEF StoreInv, ReaderShape, PagesAreContiguous
  <2>2. PagesAdvance
    <3> SUFFICES ASSUME reader.at = "reading", reader.next < Length(reader.id.of),
                        CharacterFits(reader.id.of, Aligned(reader.id.of, reader.next), reader.size)
                 PROVE  PageEnd(reader.id.of, Aligned(reader.id.of, reader.next), reader.size)
                            > reader.next
      BY DEF PagesAdvance
    <3> DEFINE c == reader.id.of
               offset == Aligned(c, reader.next)
               end == PageEnd(c, offset, reader.size)
    <3>1. /\ reader.id \in Ids /\ reader.size \in PageSizes /\ reader.next \in Nat
          /\ reader.next <= Length(c)
      BY DEF StoreInv, StoreTypeOK, NotReading
    <3>2. c \in Contents /\ reader.size \in Nat
      BY <3>1, IdFacts, PageAssumption DEF PageAssumption
    <3>3. offset \in Boundary[c] /\ offset \in Nat /\ reader.next <= offset
      BY <3>1, <3>2, AlignedFacts
    <3>4. PICK n \in Boundary[c] : offset < n /\ n <= offset + reader.size
      BY DEF CharacterFits
    <3>5. n <= end /\ end \in Nat
      BY <3>2, <3>3, <3>4, PageEndFacts
    <3>6. n \in Nat
      BY <3>2, BoundaryAssumption DEF BoundaryAssumption
    <3> HIDE DEF c, offset, end
    <3>7. end > reader.next
      BY <3>1, <3>3, <3>4, <3>5, <3>6
    <3>8. QED
      BY <3>7 DEF c, offset, end
  <2>3. QED
    BY <2>1, <2>2 DEF ReadingIsExact
<1>2. QED
  BY <1>1, StoreInvariance, PTL

-----------------------------------------------------------------------------
(* The command runner *)

USE TimeAssumption, OutputAssumption, NameAssumption
    DEF TimeAssumption, OutputAssumption, NameAssumption

Kinds == {"exit", "stopped", "error", "refused", "raised"}
Stops == Reasons \union {None, Expired, Default}
Results == [kind : Kinds, reason : Stops, out : Nat, err : Nat, limited : BOOLEAN,
            left : SUBSET Processes]

Cleaning == pc \in {"terminate", "grace", "drain"}

\* A token is set after its reason was stored, and the reason is one asked for.
TokenShape ==
    /\ reason # None => reason \in asked
    /\ isSet => reason # None /\ setAt <= now
    /\ \A t \in Threads :
          /\ asking[t][2] # None => asking[t][2] \in asked
          /\ asking[t] = <<"checked", None>> => reason # None

\* The command itself never leaves its group, and what is left of the group after
\* each signal ignored it.
ProcessShape ==
    /\ pc \in {"start", "spawn"} => alive = {}
    /\ Leader \in alive => Leader \in group
    /\ pc = "grace" => group \subseteq deaf
    /\ pc = "drain" => group = {}

\* The reason the runner cleans up for.
StopShape ==
    Cleaning /\ ~raising => stop \in asked \/ (stop = Expired /\ deadline <= now)

\* Where the clock may be at each place of the runner.
TimeShape ==
    /\ deadline <= turn
    /\ pc \in {"start", "spawn"} => now = 0
    /\ pc \in {"poll", "wait", "terminate"} => now <= Due
    /\ pc = "wait" => now <= wakeAt /\ wakeAt <= Due /\ wakeAt <= now + Poll
    /\ pc = "grace" => now <= wakeAt /\ wakeAt <= Due + Grace /\ wakeAt <= now + Grace

ResultShape ==
    Ended => /\ result \in Results
             /\ CleanupReachesGroup /\ OutputIsFinal
             /\ StopsForCause
             /\ OutputIsBounded /\ NoStreamStarves

RunnerInv ==
    TypeOK /\ TokenShape /\ ProcessShape /\ StopShape /\ TimeShape /\ ResultShape

-----------------------------------------------------------------------------
(* The output *)

\* What is kept of two streams: no more than each and no more than the limit, the
\* whole limit when anything is cut, and of each its half if it has that much.
LEMMA TruncationFacts ==
    ASSUME NEW out \in Nat, NEW err \in Nat,
           NEW kept, kept = Truncated(out, err)
    PROVE  /\ kept \in [out : Nat, err : Nat]
           /\ kept.out + kept.err <= Limit
           /\ kept # [out |-> out, err |-> err] => kept.out + kept.err = Limit
           /\ kept.out >= Minimum(out, Limit \div 2)
           /\ kept.err >= Minimum(err, Limit \div 2)
<1>1. Half \in Nat /\ 2 * Half <= Limit /\ Half = Limit \div 2
  BY DEF Half
<1> HIDE DEF Half
<1>2. QED
  BY <1>1 DEF Truncated, Minimum

LEMMA ReturnFacts ==
    ASSUME TypeOK, NEW kind \in Kinds, NEW r \in Stops, Return(kind, r)
    PROVE  /\ result' \in Results /\ Ended' /\ written' \in Streams
           /\ result'.kind = kind /\ result'.reason = r /\ result'.left = alive
           /\ OutputIsBounded' /\ NoStreamStarves'
<1> DEFINE kept == Truncated(written'.out, written'.err)
<1>1. written' \in Streams /\ written'.out \in Nat /\ written'.err \in Nat
  BY DEF Return, Streams
<1>2. written' = [out |-> written'.out, err |-> written'.err]
  BY <1>1 DEF Streams
<1>3. /\ kept \in [out : Nat, err : Nat]
      /\ kept.out + kept.err <= Limit
      /\ kept # written' => kept.out + kept.err = Limit
      /\ kept.out >= Minimum(written'.out, Limit \div 2)
      /\ kept.err >= Minimum(written'.err, Limit \div 2)
  BY <1>1, <1>2, TruncationFacts
<1>4. result' = [kind |-> kind, reason |-> r, out |-> kept.out, err |-> kept.err,
                 limited |-> kept # written', left |-> alive]
  BY DEF Return
<1>5. pc' = "ended"
  BY DEF Return
<1> HIDE DEF kept
<1>6. result' \in Results
  BY <1>3, <1>4 DEF TypeOK, Results
<1>7. QED
  BY <1>1, <1>3, <1>4, <1>5, <1>6 DEF Ended, OutputIsBounded, NoStreamStarves

-----------------------------------------------------------------------------
(* Types *)

TokenTypes ==
    /\ isSet \in BOOLEAN
    /\ reason \in Reasons \union {None}
    /\ setAt \in 0..MaxTime
    /\ asking \in [Threads -> {"idle", "checked", "told"} \X (Reasons \union {None})]
    /\ asked \subseteq Reasons

ProcessTypes ==
    /\ alive \subseteq Processes
    /\ group \subseteq alive /\ pipe \subseteq alive /\ deaf \subseteq alive

RunnerTypes ==
    /\ pc \in Steps
    /\ now \in 0..MaxTime
    /\ turn \in Nat /\ deadline \in Nat /\ wakeAt \in Nat
    /\ stop \in Stops
    /\ raising \in BOOLEAN /\ cutShort \in BOOLEAN
    /\ result \in {NoResult} \union Results
    /\ written \in Streams

LEMMA TypesAreAll == TypeOK <=> TokenTypes /\ ProcessTypes /\ RunnerTypes
BY DEF TypeOK, TokenTypes, ProcessTypes, RunnerTypes, Results, Kinds, Stops

LEMMA TokenTypesKeep == TypeOK /\ [Next]_vars => TokenTypes'
<1> SUFFICES ASSUME TypeOK, [Next]_vars PROVE TokenTypes'
  OBVIOUS
<1>1. ASSUME NEW t \in Threads, NEW r \in Reasons, CheckToken(t, r) PROVE TokenTypes'
  BY <1>1 DEF CheckToken, TypeOK, TokenTypes
<1>2. ASSUME NEW t \in Threads, StoreReason(t) PROVE TokenTypes'
  BY <1>2 DEF StoreReason, TypeOK, TokenTypes
<1>3. ASSUME NEW t \in Threads, SetToken(t) PROVE TokenTypes'
  BY <1>3 DEF SetToken, TypeOK, TokenTypes
<1>4. CASE UNCHANGED tokenVars
  BY <1>4 DEF tokenVars, TypeOK, TokenTypes
<1>5. QED
  BY <1>1, <1>2, <1>3, <1>4 DEF Next, Request, vars, tokenVars, ProcessStep, Start, Spawn,
     PollStop, Wait, Terminate, WaitGrace, Drain, Interrupt, Tick

LEMMA ProcessTypesKeep == TypeOK /\ ProcessShape /\ [Next]_vars => ProcessTypes'
<1> SUFFICES ASSUME TypeOK, ProcessShape, [Next]_vars PROVE ProcessTypes'
  OBVIOUS
<1>1. CASE Fork
  BY <1>1 DEF Fork, Inherits, TypeOK, ProcessTypes, Processes
<1>2. ASSUME NEW dead, Die(dead) PROVE ProcessTypes'
  BY <1>2 DEF Die, TypeOK, ProcessTypes
<1>3. CASE Leave \/ Redirect \/ Ignore
  BY <1>3 DEF Leave, Redirect, Ignore, TypeOK, ProcessTypes
<1>4. CASE pc = "spawn" /\ alive' = {Leader} /\ group' = {Leader} /\ pipe' = {Leader}
           /\ UNCHANGED deaf
  BY <1>4 DEF ProcessShape, TypeOK, ProcessTypes, Processes
<1>5. CASE UNCHANGED processVars
  BY <1>5 DEF processVars, TypeOK, ProcessTypes
<1>6. QED
  BY <1>1, <1>2, <1>3, <1>4, <1>5 DEF Next, Request, vars, processVars, ProcessStep, Exit, Start,
     Spawn, PollStop, Wait, Terminate, WaitGrace, Drain, Interrupt, Tick

LEMMA RunnerTypesKeep == TypeOK /\ [Next]_vars => RunnerTypes'
<1> SUFFICES ASSUME TypeOK, [Next]_vars PROVE RunnerTypes'
  OBVIOUS
<1> RunnerTypes /\ TokenTypes
  BY TypesAreAll
<1> \A kind, r : Return(kind, r) /\ kind \in Kinds /\ r \in Stops =>
        result' \in Results /\ written' \in Streams /\ pc' = "ended"
  BY ReturnFacts DEF Return
<1> {"exit", "stopped", "error", "refused", "raised"} \subseteq Kinds /\ None \in Stops
    /\ Expired \in Stops /\ Default \in Stops /\ Reasons \subseteq Stops
  BY DEF Kinds, Stops
<1> USE DEF RunnerTypes, Steps
<1>1. CASE Start
  <2>1. CASE Return("refused", None) /\ UNCHANGED deadline
    BY <1>1, <2>1 DEF Start
  <2>2. CASE /\ pc' = "spawn" /\ UNCHANGED <<result, written>>
             /\ \E timeout \in Timeouts : deadline' = Minimum(now + timeout, turn)
    BY <1>1, <2>2 DEF Start, Minimum
  <2>3. QED
    BY <1>1, <2>1, <2>2 DEF Start
<1>2. CASE Spawn
  BY <1>2 DEF Spawn
<1>3. CASE PollStop
  <2>1. StopReason \in Stops
    BY DEF StopReason, TokenTypes
  <2>2. wakeAt' \in Nat
    BY <1>3 DEF PollStop, StopReason, Minimum
  <2>3. QED
    BY <1>3, <2>1, <2>2 DEF PollStop
<1>4. CASE Wait
  BY <1>4 DEF Wait
<1>5. CASE Terminate
  BY <1>5 DEF Terminate
<1>6. CASE WaitGrace \/ Drain
  BY <1>6 DEF WaitGrace, Drain, CleanedUp
<1>7. CASE Interrupt
  BY <1>7 DEF Interrupt
<1>8. CASE Tick
  BY <1>8 DEF Tick
<1>9. CASE UNCHANGED <<pc, now, turn, deadline, wakeAt, stop, raising, cutShort, result, written>>
  BY <1>9
<1>10. QED
  BY <1>1, <1>2, <1>3, <1>4, <1>5, <1>6, <1>7, <1>8, <1>9 DEF Next, Request, ProcessStep, vars

-----------------------------------------------------------------------------
(* The token, the processes and the reason *)

LEMMA TokenKeeps == TypeOK /\ TokenShape /\ [Next]_vars => TokenShape'
<1> SUFFICES ASSUME TypeOK, TokenShape, [Next]_vars PROVE TokenShape'
  OBVIOUS
<1>1. now <= now' /\ now \in Nat /\ now' \in Nat /\ setAt \in Nat
  <2>1. now' = now \/ now' = now + 1
    BY DEF Next, vars, Request, ProcessStep, Start, Spawn, PollStop, Wait, Terminate, WaitGrace,
       Drain, Interrupt, Tick
  <2>2. QED
    BY <2>1 DEF TypeOK
<1>2. ASSUME NEW t \in Threads, NEW r \in Reasons, CheckToken(t, r) PROVE TokenShape'
  BY <1>1, <1>2 DEF CheckToken, TypeOK, TokenShape
<1>3. ASSUME NEW t \in Threads, StoreReason(t) PROVE TokenShape'
  BY <1>1, <1>3 DEF StoreReason, TypeOK, TokenShape
<1>4. ASSUME NEW t \in Threads, SetToken(t), now' = now PROVE TokenShape'
  BY <1>1, <1>4 DEF SetToken, TypeOK, TokenShape
<1>5. CASE UNCHANGED tokenVars
  BY <1>1, <1>5 DEF tokenVars, TypeOK, TokenShape
<1>6. QED
  BY <1>2, <1>3, <1>4, <1>5 DEF Next, Request, vars, tokenVars, ProcessStep, Start, Spawn,
     PollStop, Wait, Terminate, WaitGrace, Drain, Interrupt, Tick

LEMMA ProcessesKeep == TypeOK /\ ProcessShape /\ [Next]_vars => ProcessShape'
<1> SUFFICES ASSUME TypeOK, ProcessShape, [Next]_vars PROVE ProcessShape'
  OBVIOUS
<1> USE DEF ProcessShape, TypeOK, Processes
<1>1. CASE ProcessStep
  <2>1. CASE Fork
    BY <1>1, <2>1 DEF ProcessStep, Fork, Inherits
  <2>2. CASE Exit
    BY <1>1, <2>2 DEF ProcessStep, Exit, Die
  <2>3. CASE Leave \/ Redirect \/ Ignore
    BY <1>1, <2>3 DEF ProcessStep, Leave, Redirect, Ignore
  <2>4. QED
    BY <1>1, <2>1, <2>2, <2>3 DEF ProcessStep
<1>2. CASE Start \/ PollStop \/ Wait \/ Drain \/ Interrupt
  BY <1>2 DEF Start, PollStop, Wait, Drain, Interrupt, CleanedUp, Return, processVars
<1>3. CASE Spawn
  BY <1>3 DEF Spawn, Return, processVars
<1>4. CASE Terminate
  BY <1>4 DEF Terminate, Die, Signalled
<1>5. CASE WaitGrace
  BY <1>5 DEF WaitGrace, CleanedUp, Return, Die, processVars
<1>6. CASE UNCHANGED <<pc, alive, group, deaf>>
  BY <1>6
<1>7. QED
  BY <1>1, <1>2, <1>3, <1>4, <1>5, <1>6 DEF Next, Request, Tick, vars, processVars

LEMMA StopKeeps == TypeOK /\ TokenShape /\ StopShape /\ [Next]_vars => StopShape'
<1> SUFFICES ASSUME TypeOK, TokenShape, StopShape, [Next]_vars PROVE StopShape'
  OBVIOUS
<1> USE DEF StopShape, Cleaning
<1>1. CASE PollStop
  <2>1. CASE isSet
    BY <1>1, <2>1 DEF PollStop, StopReason, TokenShape, tokenVars
  <2>2. CASE ~isSet
    BY <1>1, <2>2 DEF PollStop, StopReason, tokenVars
  <2>3. QED
    BY <2>1, <2>2
<1>2. CASE Interrupt
  BY <1>2 DEF Interrupt, Return
<1>3. CASE Tick
  BY <1>3 DEF Tick, TypeOK, tokenVars
<1>4. CASE Start \/ Spawn \/ Wait
  BY <1>4 DEF Start, Spawn, Wait, Return
<1>5. CASE Terminate \/ WaitGrace \/ Drain
  BY <1>5 DEF Terminate, WaitGrace, Drain, CleanedUp, Return, tokenVars
<1>6. CASE \E t \in Threads : Request(t)
  <2>1. asked \subseteq asked' /\ UNCHANGED <<pc, raising, stop, deadline, now>>
    BY <1>6 DEF Request, CheckToken, StoreReason, SetToken
  <2>2. QED
    BY <2>1
<1>7. CASE ProcessStep \/ UNCHANGED vars
  BY <1>7 DEF ProcessStep, vars, tokenVars
<1>8. QED
  BY <1>1, <1>2, <1>3, <1>4, <1>5, <1>6, <1>7 DEF Next

-----------------------------------------------------------------------------
(* Time *)

\* The numbers of the clock; the rest of the types is not needed here.
ClockTypes ==
    /\ now \in Nat /\ turn \in Nat /\ deadline \in Nat /\ wakeAt \in Nat /\ setAt \in Nat
    /\ Poll \in Nat \ {0} /\ Grace \in Nat \ {0}

\* A token that is set leaves at least one poll, and never moves Due before it.
LEMMA RequestKeepsTime ==
    ASSUME ClockTypes, TokenShape, TimeShape, NEW t \in Threads, Request(t)
    PROVE  TimeShape'
<1>1. \/ UNCHANGED <<isSet, setAt>>
      \/ isSet' = TRUE /\ setAt' = IF isSet THEN setAt ELSE now
  BY DEF Request, CheckToken, StoreReason, SetToken
<1>2. UNCHANGED <<pc, now, turn, deadline, wakeAt>>
  BY DEF Request
<1>3. CASE UNCHANGED <<isSet, setAt>>
  BY <1>2, <1>3 DEF TimeShape, Due
<1>4. CASE ~isSet /\ isSet' = TRUE /\ setAt' = now
  <2>1. Due' = Minimum(Due, now + Poll)
    BY <1>2, <1>4 DEF Due
  <2>2. Due = Minimum(turn, deadline)
    BY <1>4 DEF Due
  <2>3. QED
    BY <1>2, <2>1, <2>2 DEF TimeShape, Minimum, ClockTypes
<1>5. CASE isSet /\ isSet' = TRUE /\ setAt' = setAt
  BY <1>2, <1>5 DEF TimeShape, Due
<1>6. QED
  BY <1>1, <1>3, <1>4, <1>5

LEMMA TimeKeeps == TypeOK /\ TokenShape /\ TimeShape /\ [Next]_vars => TimeShape'
<1> SUFFICES ASSUME TypeOK, TokenShape, TimeShape, [Next]_vars PROVE TimeShape'
  OBVIOUS
<1>t. ClockTypes
  BY DEF TypeOK, ClockTypes
<1>u. isSet \in BOOLEAN
  BY DEF TypeOK
<1>1. CASE Start
  <2>1. CASE pc' = "ended" /\ UNCHANGED <<now, turn, deadline>>
    BY <2>1 DEF TimeShape
  <2>2. CASE pc' = "spawn"
    BY <1>1, <1>t, <2>2 DEF Start, Return, TimeShape, Minimum, ClockTypes
  <2>3. QED
    BY <1>1, <2>1, <2>2 DEF Start, Return
<1>2. CASE Spawn
  <2>1. UNCHANGED <<isSet, setAt, now, turn, deadline>> /\ now = 0 /\ pc' \in {"poll", "ended"}
    BY <1>2 DEF Spawn, Return, TimeShape, tokenVars
  <2>2. 0 <= Due'
    BY <2>1, <1>t DEF Due, Minimum, ClockTypes
  <2>3. QED
    BY <2>1, <2>2 DEF TimeShape
<1>3. CASE PollStop
  <2>1. UNCHANGED <<isSet, setAt, now, turn, deadline>> /\ Due' = Due
    BY <1>3 DEF PollStop, tokenVars, Due
  <2>2. CASE StopReason = None
    <3>1. ~isSet /\ now < deadline /\ Due = Minimum(turn, deadline)
      BY <2>2, <1>t, <1>u DEF StopReason, Due, TokenShape, ClockTypes, Default, Expired, None
    <3>2. pc' = "wait" /\ wakeAt' = now + Minimum(Poll, deadline - now)
      BY <1>3, <2>2 DEF PollStop
    <3>3. QED
      BY <1>t, <2>1, <3>1, <3>2 DEF TimeShape, Minimum, ClockTypes
  <2>3. CASE StopReason # None
    BY <1>3, <2>1, <2>3 DEF PollStop, TimeShape
  <2>4. QED
    BY <2>2, <2>3
<1>4. CASE Wait
  <2>1. UNCHANGED <<isSet, setAt, now, turn, deadline, wakeAt>> /\ Due' = Due
    BY <1>4 DEF Wait, tokenVars, Due
  <2>2. pc = "wait" /\ pc' \in {"poll", "ended"}
    BY <1>4 DEF Wait, Return
  <2>3. Due \in Nat
    BY <1>t DEF Due, Minimum, ClockTypes
  <2>4. QED
    BY <1>t, <2>1, <2>2, <2>3 DEF TimeShape, ClockTypes
<1>5. CASE Terminate
  <2>1. UNCHANGED <<isSet, setAt, now, turn, deadline>> /\ Due' = Due
    BY <1>5 DEF Terminate, tokenVars, Due
  <2>2. Due \in Nat
    BY <1>t DEF Due, Minimum, ClockTypes
  <2>3. pc = "terminate" /\ pc' = "grace" /\ wakeAt' = now + Grace
    BY <1>5 DEF Terminate
  <2>4. QED
    BY <1>t, <2>1, <2>2, <2>3 DEF TimeShape, ClockTypes
<1>6. CASE WaitGrace \/ Drain
  <2>1. pc' \in {"ended", "drain"} /\ UNCHANGED <<turn, deadline>>
    BY <1>6 DEF WaitGrace, Drain, CleanedUp, Return
  <2>2. QED
    BY <2>1 DEF TimeShape
<1>7. CASE Interrupt
  <2>1. UNCHANGED <<isSet, setAt, now, turn, deadline>> /\ Due' = Due
    BY <1>7 DEF Interrupt, tokenVars, Due
  <2>2. Due \in Nat
    BY <1>t DEF Due, Minimum, ClockTypes
  <2>3. (pc \in {"poll", "wait"} /\ pc' = "terminate") \/ pc' = "ended"
    BY <1>7 DEF Interrupt, Return
  <2>4. QED
    BY <1>t, <2>1, <2>2, <2>3 DEF TimeShape, ClockTypes
<1>8. CASE Tick
  <2>1. UNCHANGED <<pc, isSet, setAt, turn, deadline, wakeAt>> /\ Due' = Due /\ now' = now + 1
    BY <1>8 DEF Tick, tokenVars, Due
  <2>2. Due \in Nat
    BY <1>t DEF Due, Minimum, ClockTypes
  <2>3. pc = "drain" \/ (pc \in {"wait", "grace"} /\ now < wakeAt)
    BY <1>8 DEF Tick, Waiting
  <2>4. QED
    BY <1>t, <2>1, <2>2, <2>3 DEF TimeShape, ClockTypes
<1>9. CASE ProcessStep \/ UNCHANGED vars
  <2>1. UNCHANGED <<pc, isSet, setAt, now, turn, deadline, wakeAt>> /\ Due' = Due
    BY <1>9 DEF ProcessStep, vars, tokenVars, Due
  <2>2. QED
    BY <2>1 DEF TimeShape
<1>10. QED
  BY <1>t, <1>1, <1>2, <1>3, <1>4, <1>5, <1>6, <1>7, <1>8, <1>9, RequestKeepsTime DEF Next

-----------------------------------------------------------------------------
(* The result *)

\* A step that ends the command returns with a kind and a reason, after what its
\* place knows of the processes.
LEMMA ReturnsOnly ==
    ASSUME TypeOK, Next, Ended'
    PROVE  /\ ~Ended /\ UNCHANGED <<asked, deadline, now, group, deaf, pipe, alive>>
           /\ \/ \E kind \in {"refused", "error"} : Return(kind, None)
              \/ Return("exit", None) /\ Finished
              \/ Return("stopped", stop) /\ Finished /\ Cleaning /\ ~raising
                    /\ UNCHANGED cutShort /\ pc # "terminate"
              \/ Return("raised", None) /\ Finished /\ Cleaning /\ pc # "terminate"
              \/ Return("raised", None) /\ cutShort'
<1> USE DEF Ended, Cleaning
<1>1. CASE Start
  BY <1>1 DEF Start, Return, tokenVars, processVars
<1>2. CASE Spawn
  BY <1>2 DEF Spawn, Return, tokenVars, processVars
<1>3. CASE Wait
  BY <1>3 DEF Wait, Return, tokenVars, processVars
<1>4. CASE WaitGrace
  BY <1>4 DEF WaitGrace, CleanedUp, Return, tokenVars, processVars
<1>5. CASE Drain
  BY <1>5 DEF Drain, CleanedUp, Return, tokenVars, processVars
<1>6. CASE Interrupt
  BY <1>6 DEF Interrupt, Return, tokenVars, processVars
<1>7. CASE (\E t \in Threads : Request(t)) \/ ProcessStep \/ PollStop \/ Terminate \/ Tick
  BY <1>7 DEF Request, ProcessStep, PollStop, Terminate, Tick, Waiting
<1>8. QED
  BY <1>1, <1>2, <1>3, <1>4, <1>5, <1>6, <1>7 DEF Next

LEMMA ResultKeeps == RunnerInv /\ [Next]_vars => ResultShape'
<1> SUFFICES ASSUME RunnerInv, [Next]_vars, Ended' PROVE
        /\ result' \in Results
        /\ CleanupReachesGroup' /\ OutputIsFinal' /\ StopsForCause'
        /\ OutputIsBounded' /\ NoStreamStarves'
  BY DEF ResultShape
<1>t. TypeOK
  BY DEF RunnerInv
<1>1. CASE UNCHANGED vars
  BY <1>1 DEF vars, RunnerInv, ResultShape, Ended, CleanupReachesGroup, OutputIsFinal,
     StopsForCause, OutputIsBounded, NoStreamStarves
<1>2. CASE Next
  <2>1. PICK kind \in Kinds, r \in Stops : Return(kind, r)
    BY <1>2, <1>t, ReturnsOnly DEF Kinds, Stops, TypeOK
  <2>2. /\ result' \in Results /\ result'.left = alive
        /\ OutputIsBounded' /\ NoStreamStarves'
    BY <1>t, <2>1, ReturnFacts
  <2>3. \A k \in Kinds, s \in Stops : Return(k, s) => result'.kind = k /\ result'.reason = s
    BY <1>t, ReturnFacts
  <2>4. {"exit", "stopped", "error", "refused", "raised"} \subseteq Kinds
        /\ None \in Stops /\ stop \in Stops
    BY <1>t DEF Kinds, Stops, TypeOK
  <2>5. CleanupReachesGroup'
    <3>1. SUFFICES ASSUME result'.kind \in {"stopped", "raised"}, ~cutShort',
                          NEW p \in alive
                   PROVE  p \notin group \/ (p \in deaf /\ p \notin pipe)
      BY <1>2, <1>t, <2>2, ReturnsOnly DEF CleanupReachesGroup
    <3>2. Finished /\ pc \in {"grace", "drain"}
      BY <1>2, <1>t, <2>3, <2>4, <3>1, ReturnsOnly DEF Cleaning
    <3>3. QED
      BY <3>2 DEF Finished, RunnerInv, ProcessShape
  <2>6. OutputIsFinal'
    <3>1. SUFFICES ASSUME result'.kind \in {"exit", "stopped"} PROVE pipe = {}
      BY <1>2, <1>t, <2>2, ReturnsOnly DEF OutputIsFinal
    <3>2. QED
      BY <1>2, <1>t, <2>3, <2>4, <3>1, ReturnsOnly DEF Finished
  <2>7. StopsForCause'
    <3>1. SUFFICES ASSUME result'.kind = "stopped"
                   PROVE  stop \in asked \/ (stop = Expired /\ deadline <= now)
      BY <1>2, <1>t, <2>3, <2>4, ReturnsOnly DEF StopsForCause
    <3>2. Cleaning /\ ~raising
      BY <1>2, <1>t, <2>3, <2>4, <3>1, ReturnsOnly
    <3>3. QED
      BY <3>2 DEF RunnerInv, StopShape
  <2>8. QED
    BY <2>2, <2>5, <2>6, <2>7
<1>3. QED
  BY <1>1, <1>2

-----------------------------------------------------------------------------
(* Theorems *)

\* The inductive invariant of a command, from its start to its result.
THEOREM RunnerInvariance == Spec => []RunnerInv
<1>1. Init => RunnerInv
  <2> SUFFICES ASSUME Init PROVE RunnerInv
    OBVIOUS
  <2>1. TypeOK
    <3>0. 0 \in 0..MaxTime /\ [out |-> 0, err |-> 0] \in Streams
      BY DEF Streams
    <3>1. TokenTypes
      <4>1. asking \in [Threads -> {"idle", "checked", "told"} \X (Reasons \union {None})]
        BY DEF Init
      <4>2. QED
        BY <3>0, <4>1, Zenon DEF Init, TokenTypes
    <3>2. ProcessTypes
      BY DEF Init, ProcessTypes
    <3>3. RunnerTypes
      <4>1. turn \in Nat /\ deadline \in Nat /\ wakeAt \in Nat
        BY DEF Init
      <4>2. QED
        BY <3>0, <4>1, Zenon DEF Init, RunnerTypes, Steps, Stops
    <3>4. QED
      BY <3>1, <3>2, <3>3, TypesAreAll
  <2>2. TimeShape
    BY DEF Init, TimeShape
  <2>3. TokenShape /\ ProcessShape /\ StopShape /\ ResultShape
    BY DEF Init, TokenShape, ProcessShape, StopShape, ResultShape, Cleaning, Ended
  <2>4. QED
    BY <2>1, <2>2, <2>3 DEF RunnerInv
<1>2. RunnerInv /\ [Next]_vars => RunnerInv'
  <2> SUFFICES ASSUME RunnerInv, [Next]_vars PROVE RunnerInv'
    OBVIOUS
  <2>1. TypeOK /\ TokenShape /\ ProcessShape /\ StopShape /\ TimeShape
    BY DEF RunnerInv
  <2>2. TokenTypes' /\ ProcessTypes' /\ RunnerTypes'
    BY <2>1, TokenTypesKeep, ProcessTypesKeep, RunnerTypesKeep
  <2>3. TypeOK'
    BY <2>2 DEF TypeOK, TokenTypes, ProcessTypes, RunnerTypes, Results, Kinds, Stops
  <2>4. TokenShape' /\ ProcessShape' /\ StopShape' /\ TimeShape' /\ ResultShape'
    BY <2>1, TokenKeeps, ProcessesKeep, StopKeeps, TimeKeeps, ResultKeeps
  <2>5. QED
    BY <2>3, <2>4 DEF RunnerInv
<1>3. QED
  BY <1>1, <1>2, PTL DEF Spec

\* Nothing that could be reached lives on after a cleanup, and no returned output
\* grows, for any number of helpers that do what they like.
THEOREM NothingLivesOn == Spec => []NothingSurvives
<1>1. RunnerInv => NothingSurvives
  BY DEF RunnerInv, ResultShape, NothingSurvives, CleanupReachesGroup, OutputIsFinal
<1>2. QED
  BY <1>1, RunnerInvariance, PTL

\* The reason of a stop was asked for or is the deadline, which has passed, however
\* many threads are inside of the unlocked request.
THEOREM StopsHaveCauses == Spec => []StopsForCause
<1>1. RunnerInv => StopsForCause
  BY DEF RunnerInv, ResultShape, StopsForCause
<1>2. QED
  BY <1>1, RunnerInvariance, PTL

\* The limit holds over both streams, is used up before anything is cut, and leaves
\* each stream its half, for every limit and every output.
THEOREM LimitIsShared == Spec => []OutputIsShared
<1>1. RunnerInv => OutputIsShared
  BY DEF RunnerInv, ResultShape, OutputIsShared, OutputIsBounded, NoStreamStarves
<1>2. QED
  BY <1>1, RunnerInvariance, PTL

\* The command has ended, or is about to see that it has, when its deadline, the one
\* of the ask or a poll after the token, and the grace after that, are over: the
\* safety half of EndsInTime, for every timeout.
THEOREM NeverOverdue == Spec => []~Overdue
<1>1. RunnerInv => ~Overdue
  <2> SUFFICES ASSUME RunnerInv, ~Ended, pipe \ group = {}, ~Finished PROVE ~(Due + Grace < now)
    BY DEF Overdue, OutOfReach
  <2>1. now \in Nat /\ wakeAt \in Nat /\ Grace \in Nat /\ Due \in Nat
    BY DEF RunnerInv, TypeOK, Due, Minimum
  <2>2. pc \in {"start", "spawn"} => now = 0
    BY DEF RunnerInv, TimeShape
  <2>3. pc \in {"poll", "wait", "terminate"} => now <= Due
    BY DEF RunnerInv, TimeShape
  <2>4. pc = "grace" => now <= wakeAt /\ wakeAt <= Due + Grace
    BY DEF RunnerInv, TimeShape
  <2>5. pc # "drain"
    BY DEF RunnerInv, TypeOK, ProcessShape, Finished
  <2>6. pc \in Steps
    BY DEF RunnerInv, TypeOK
  <2>7. QED
    BY <2>1, <2>2, <2>3, <2>4, <2>5, <2>6 DEF Steps, Ended
<1>2. QED
  BY <1>1, RunnerInvariance, PTL
===============================================================================
