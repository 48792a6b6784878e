-------------------------- MODULE SessionRotation --------------------------
(***************************************************************************)
(* What a rotation of a session file keeps: the decision tree of           *)
(* rotateSessionIfNeeded and the two selections it is made of. An entry of *)
(* a session is one line of its JSONL file; the header is a flag of the    *)
(* file (ServerProcesses), not an entry. An entry names its parent, the    *)
(* tool call it answers (0 if none) and, when it is a compaction, the      *)
(* first entry the summary does not replace.                               *)
(***************************************************************************)
EXTENDS Naturals, Sequences

CONSTANTS
    Threshold,    \* rotation_size_bytes
    TailBudget    \* HARD_FALLBACK_TAIL_BYTES

ASSUME RotationAssumption ==
    /\ Threshold \in Nat \ {0}
    /\ TailBudget \in Nat
    /\ TailBudget < Threshold

Kinds == {"user", "call", "result", "reply", "compaction"}

\* The bytes of a line. The output of a tool is longer than the rest.
Size(e) == IF e.kind = "result" THEN 2 ELSE 1

\* The bytes of these lines.
Total(entries) ==
    LET upTo[n \in 0..Len(entries)] ==
            IF n = 0 THEN 0 ELSE upTo[n - 1] + Size(entries[n])
    IN  upTo[Len(entries)]

SizeFrom(log, i) == Total(SubSeq(log, i, Len(log)))

SessionSize(log) == SizeFrom(log, 1)

IdsOf(log) == {log[i].id : i \in 1..Len(log)}

\* The first of the places found, or what stands for none.
FirstOf(found, none) ==
    IF found = {} THEN none ELSE CHOOSE i \in found : \A j \in found : i <= j

\* The last of the places found, 0 if there is none.
LastOf(found) == IF found = {} THEN 0 ELSE CHOOSE i \in found : \A j \in found : j <= i

\* What is at these places of a sequence, in its order.
Selected(s, places) ==
    LET upTo[n \in 0..Len(s)] ==
            IF n = 0 THEN <<>>
            ELSE IF n \in places THEN Append(upTo[n - 1], s[n])
            ELSE upTo[n - 1]
    IN  upTo[Len(s)]

IsUserTurnStart(e) == e.kind = "user"

FindLastCompaction(log) == LastOf({i \in 1..Len(log) : log[i].kind = "compaction"})

\* The longest tail within the budget, cut at its first user turn.
SelectTailEntries(log) ==
    LET none  == Len(log) + 1
        first == FirstOf({i \in 1..Len(log) : SizeFrom(log, i) <= TailBudget}, none)
        start == FirstOf({i \in first..Len(log) : IsUserTurnStart(log[i])}, none)
    IN  SubSeq(log, start, Len(log))

IdsAt(log, places) == {log[i].id : i \in places}

EmittedToolCalls(log) == IdsAt(log, {i \in 1..Len(log) : log[i].kind = "call"})

OrphanIds(log) ==
    IdsAt(log, {i \in 1..Len(log) :
        log[i].kind = "result" /\ log[i].call \notin EmittedToolCalls(log)})

\* Fault: the walk goes on through a compaction.
DroppedThroughCompaction(log) ==
    LET children(ids) == IdsAt(log, {i \in 1..Len(log) : log[i].parent \in ids})
        within[n \in 0..Len(log)] ==
            IF n = 0 THEN OrphanIds(log) ELSE within[n - 1] \cup children(within[n - 1])
    IN  within[Len(log)]

\* The orphans and, level by level, what hangs on them; a compaction stops the walk.
DroppedIds(log) ==
    LET children(ids) == IdsAt(log, {i \in 1..Len(log) :
                             log[i].kind # "compaction" /\ log[i].parent \in ids})
        within[n \in 0..Len(log)] ==
            IF n = 0 THEN OrphanIds(log) ELSE within[n - 1] \cup children(within[n - 1])
    IN  within[Len(log)]

\* Fault: an anchored rotation writes what the compaction kept, unfiltered.
FilterNothing(log) == log

FilterOrphanToolResults(log) ==
    LET dropped == DroppedIds(log)
    IN  Selected(log, {i \in 1..Len(log) : log[i].id \notin dropped})

\* The entries of the new file: from the first entry that the last compaction keeps,
\* or the tail when there is no compaction or the entry it names is not in the file.
RotatedEntries(log) ==
    LET anchor == FindLastCompaction(log)
        first  == FirstOf({i \in 1..Len(log) : log[i].id = log[anchor].kept}, Len(log) + 1)
    IN  IF anchor # 0 /\ first <= Len(log)
        THEN FilterOrphanToolResults(SubSeq(log, IF first < anchor THEN first ELSE anchor, Len(log)))
        ELSE FilterOrphanToolResults(SelectTailEntries(log))
=============================================================================
