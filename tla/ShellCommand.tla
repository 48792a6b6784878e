---------------------------- MODULE ShellCommand ----------------------------
(***************************************************************************)
(* One call of the bash tool, in the foreground or in the background: the  *)
(* process, the data events that bring its output in arbitrary pieces, the *)
(* two timers, the abort signal, and the capped answer.                    *)
(*                                                                         *)
(* Standard output is a sequence of lines, of text or heartbeats           *)
(* (::system2:: ...), each written in two halves: half 2k - 1 begins line  *)
(* k (and holds the sentinel of a heartbeat), half 2k ends it. A half and  *)
(* a chunk of standard error have size 1. Time is counted in ticks. Left   *)
(* out: multi-byte characters, the session the notification goes to.       *)
(***************************************************************************)
EXTENDS Integers, Sequences, FiniteSetsExt

CONSTANTS
    MaxLines,      \* bound: the lines a process writes
    MaxErrors,     \* bound: the chunks of standard error that are kept
    MaxChunk,      \* bound: halves in one data event
    MaxBuffer,     \* MAX_BUFFER
    MaxInline,     \* maxInlineOutputBytes
    HeaderReserve, \* HEADER_OVERHEAD_BYTES
    PreviewHead,   \* PREVIEW_HEAD_BYTES
    PreviewTail,   \* PREVIEW_TAIL_BYTES
    Headers,       \* the sizes a header may really have
    Timeouts,      \* pairs of the inactivity and the total timeout
    Env            \* what may happen, a subset of AllEvents

AllEvents == {"aborts",      \* the run of the agent is aborted
              "noSpawn",     \* the process cannot be started (no such directory)
              "noSave"}      \* the output cannot be written to a file

ASSUME ShellAssumption ==
    /\ {MaxLines, MaxErrors, MaxBuffer, MaxInline, HeaderReserve, PreviewHead,
        PreviewTail} \subseteq Nat
    /\ MaxChunk \in Nat \ {0}
    /\ Headers \subseteq Nat
    /\ Timeouts \subseteq (Nat \ {0}) \X (Nat \ {0})
    /\ Env \subseteq AllEvents

VARIABLES
    kinds,       \* per line, "text" or "beat"
    proc,        \* "none", "running", "unborn", "exited" or "closed"
    killed,      \* whether it was sent SIGTERM
    exit,        \* how it ended: "none", "unborn", "zero", "nonzero" or "signal"
    written,     \* how many halves it wrote
    read,        \* how many of them data events brought
    pending,     \* pendingLine: the halves of a line that is not complete
    out,         \* stdout: the halves kept
    errors,      \* stderr: the chunks kept
    beats,       \* the heartbeats reported to the agent's listeners
    inactivity,  \* ticks left on the inactivity timer, Off if not set
    total,       \* ticks left on the total timer, Off if not set
    limits,      \* the two timeouts of the call
    listening,   \* whether the handlers of the process are installed
    aborted,     \* whether the abort signal was raised
    at,          \* the call: "called", "running", "background", "answered" or "gone"
    result,      \* what runCommand (or the close of a background process) gave
    answers      \* what the agent was told: the answer, then notifications

process == <<kinds, proc, killed, exit, written>>
stream  == <<read, pending, out, errors, beats>>
clock   == <<inactivity, total, limits>>
call    == <<listening, aborted, at, result, answers>>
vars    == <<process, stream, clock, call>>

Off == -1
NoResult == [code |-> "none", text |-> <<>>, errors |-> 0]

Line(h)     == (h + 1) \div 2
Begins(h)   == h % 2 = 1
IsBeat(h)   == kinds[Line(h)] = "beat"
Halves(a, b) == [i \in 1..(b - a) |-> a + i]     \* the halves after a, up to b

\* The i-th of a finite set of naturals, all of them in their order, and what
\* stands at these places of a sequence.
Nth(S, i)           == CHOOSE k \in S : Cardinality({m \in S : m <= k}) = i
InOrder(S)          == [i \in 1..Cardinality(S) |-> Nth(S, i)]
AtPlaces(s, places) == [i \in 1..Cardinality(places) |-> s[Nth(places, i)]]

Init ==
    /\ kinds \in [1..MaxLines -> {"text", "beat"}]
    /\ proc = "none" /\ killed = FALSE /\ exit = "none"
    /\ written = 0 /\ read = 0
    /\ pending = <<>> /\ out = <<>> /\ errors = 0 /\ beats = <<>>
    /\ limits \in Timeouts
    /\ inactivity = Off /\ total = Off
    /\ listening = FALSE /\ aborted = FALSE
    /\ at = "called"
    /\ result = NoResult
    /\ answers = <<>>

-----------------------------------------------------------------------------
(* The answer *)

\* capOutputForInline's first estimate and its last guard: the head and then
\* the tail are halved until the header and both fit.
Shrunk(len, room) ==
    Max({0} \cup {n \in 0..len : n <= room /\ \E k \in 0..len : n = len \div 2^k})
Preview(size, header) ==
    LET Least(S) == Min(S)
        budget == Max({0, MaxInline - HeaderReserve})
        head   == Least({size, PreviewHead, (budget * 4) \div 5})
        tail   == Least({size, PreviewTail,
                         budget - Least({PreviewHead, (budget * 4) \div 5})})
        h == Shrunk(head, MaxInline - header - tail)
        t == Shrunk(tail, MaxInline - header - h)
    IN  [head |-> h, tail |-> t]

\* What the agent reads: the output itself, or a header with a preview of it
\* and, unless the file could not be written, the path of the whole output.
CappedOutput(r, saved, header) ==
    LET size == Len(r.text) + r.errors
        view == Preview(size, header)
    IN  IF size <= MaxInline
        THEN [code |-> r.code, whole |-> TRUE, saved |-> FALSE, inline |-> size]
        ELSE [code |-> r.code, whole |-> FALSE, saved |-> saved,
              inline |-> header + view.head + view.tail]

Told(code) == [code |-> code, whole |-> TRUE, saved |-> FALSE, inline |-> 0]

-----------------------------------------------------------------------------
(* The call *)

\* A command that matches one of BLOCKED_BASH_PATTERNS is refused.
Refuse ==
    /\ at = "called"
    /\ at' = "answered"
    /\ answers' = <<Told("blocked")>>
    /\ UNCHANGED <<process, stream, clock, listening, aborted, result>>

Spawned == proc' \in {"running"} \cup (IF "noSpawn" \in Env THEN {"unborn"} ELSE {})

\* A background command is answered at once; it has no timeout.
StartBackground ==
    /\ at = "called"
    /\ Spawned
    /\ listening' = TRUE
    /\ at' = "background"
    /\ answers' = <<Told("started")>>
    /\ UNCHANGED <<kinds, killed, exit, written, stream, clock, aborted, result>>

StartForeground ==
    /\ at = "called"
    /\ ~aborted
    /\ Spawned
    /\ listening' = TRUE
    /\ at' = "running"
    /\ inactivity' = limits[1] /\ total' = limits[2]
    /\ UNCHANGED <<kinds, killed, exit, written, stream, limits, aborted, result,
                   answers>>

\* With the signal already raised the process is killed as soon as it is
\* started, and nothing listens to it.
StartAborted ==
    /\ at = "called"
    /\ aborted
    /\ Spawned
    /\ killed' = TRUE
    /\ at' = "running"
    /\ result' = [NoResult EXCEPT !.code = "aborted"]
    /\ UNCHANGED <<kinds, exit, written, stream, clock, listening, aborted, answers>>

\* The capping awaits mkdir and writeFile. The answer of a foreground call,
\* the notification of a background command.
Cap ==
    /\ at \in {"running", "background"}
    /\ result # NoResult
    /\ \E header \in Headers, saved \in {TRUE} \cup {~("noSave" \in Env)} :
            answers' = Append(answers, CappedOutput(result, saved, header))
    /\ at' = IF at = "running" THEN "answered" ELSE "gone"
    /\ UNCHANGED <<process, stream, clock, listening, aborted, result>>

-----------------------------------------------------------------------------
(* The process and its output *)

\* A process that was sent SIGTERM may end by it, and then has no exit code, or
\* go on.
Exit ==
    /\ proc = "running"
    /\ proc' = "exited"
    /\ exit' \in {"zero", "nonzero"} \cup (IF killed THEN {"signal"} ELSE {})
    /\ UNCHANGED <<kinds, killed, written, stream, clock, call>>

Write ==
    /\ proc = "running"
    /\ written < 2 * MaxLines
    /\ written' = written + 1
    /\ UNCHANGED <<kinds, proc, killed, exit, stream, clock, call>>

IsForeground == at \in {"running", "answered"}
Settled == result # NoResult

\* Output sets the inactivity timer again, also that of a settled call.
InactivityAfterOutput == IF IsForeground THEN limits[1] ELSE Off

\* Fault: output sets the total timer again as well.
TotalAfterOutputReset == IF total = Off THEN Off ELSE limits[2]

\* Output does not set the total timer again.
TotalAfterOutput == total

OutputSeen ==
    /\ inactivity' = InactivityAfterOutput
    /\ total' = TotalAfterOutput
    /\ UNCHANGED limits

\* Fault: the unfinished line at the end of a chunk is processed with it.
CompleteAll(text) == text

\* The lines of the text that are complete.
Complete(text) ==
    SubSeq(text, 1, Max({0} \cup {i \in DOMAIN text : ~Begins(text[i])}))

\* filterHeartbeats: the lines that match the sentinel, and the others. A
\* line is matched by its first half.
Matched(text, h) == IsBeat(h) /\ 2 * Line(h) - 1 \in {text[i] : i \in DOMAIN text}
Filtered(text)   == AtPlaces(text, {i \in DOMAIN text : ~Matched(text, text[i])})
Heartbeats(text) == AtPlaces(text, {i \in DOMAIN text : IsBeat(text[i]) /\ Begins(text[i])})

\* What does not fit into the buffer as a whole is dropped.
Accepted(kept, text) ==
    IF Len(kept) + Len(text) <= MaxBuffer THEN kept \o text ELSE kept

\* A data event of standard output: the next halves, in any division.
Data ==
    /\ listening
    /\ proc \in {"running", "exited"}
    /\ \E n \in 1..Min({MaxChunk, written - read}) :
       \E text \in {pending \o Halves(read, read + n)} :
       \E complete \in {Complete(text)} :
          /\ read' = read + n
          /\ pending' = SubSeq(text, Len(complete) + 1, Len(text))
          /\ out' = Accepted(out, Filtered(complete))
          /\ beats' = IF IsForeground THEN beats \o Heartbeats(complete) ELSE beats
    /\ OutputSeen
    /\ UNCHANGED <<process, errors, call>>

\* A data event of standard error; what does not fit is dropped.
ErrorData ==
    /\ listening
    /\ proc = "running"
    /\ errors' = Min({errors + 1, MaxErrors})
    /\ OutputSeen
    /\ UNCHANGED <<process, read, pending, out, beats, call>>

\* settle and fail: the first outcome counts, and clears the timers.
Outcome(code, text) == [code |-> code, text |-> text, errors |-> errors]
SettleWith(code, text) ==
    IF Settled THEN UNCHANGED <<result, clock>>
    ELSE /\ result' = Outcome(code, text)
         /\ inactivity' = Off /\ total' = Off
         /\ UNCHANGED limits

\* Fault: the unfinished last line is not added.
FlushedNothing(text) == <<>>

\* The unfinished last line is added when the streams close; a heartbeat
\* among it is not reported.
Flushed(text) == Filtered(text)

\* A process without an exit code counts as one that ended with 0.
ExitCode == IF exit = "signal" THEN "zero" ELSE exit

\* The process has exited and its streams are read. A process that could not
\* be started closes as well, after its error.
Close ==
    /\ listening
    /\ proc = "exited" /\ (exit = "unborn" \/ read = written)
    /\ \E text \in {Accepted(out, Flushed(pending))} :
          /\ out' = text
          /\ pending' = <<>>
          /\ SettleWith(IF exit = "unborn" THEN "nonzero" ELSE ExitCode, text)
    /\ proc' = "closed"
    /\ UNCHANGED <<kinds, killed, exit, written, read, errors, beats, listening,
                   aborted, at, answers>>

\* The process could not be started: a foreground call fails, a background
\* command is notified now, and once more when it closes.
SpawnError ==
    /\ listening
    /\ proc = "unborn"
    /\ proc' = "exited"
    /\ exit' = "unborn"
    /\ IF at = "background"
       THEN answers' = Append(answers, Told("error")) /\ UNCHANGED <<result, clock>>
       ELSE SettleWith("error", out) /\ UNCHANGED answers
    /\ UNCHANGED <<kinds, killed, written, stream, listening, aborted, at>>

-----------------------------------------------------------------------------
(* Timers and abort *)

Tick ==
    /\ {inactivity, total} \ {Off} # {}
    /\ 0 \notin {inactivity, total}
    /\ inactivity' = Max({Off, inactivity - 1})
    /\ total' = Max({Off, total - 1})
    /\ UNCHANGED <<process, stream, limits, call>>

Kill == killed' = (killed \/ proc = "running")

InactivityFires ==
    /\ inactivity = 0
    /\ Kill
    /\ IF Settled
       THEN inactivity' = Off /\ UNCHANGED <<result, total, limits>>
       ELSE SettleWith("timedOut", out)
    /\ UNCHANGED <<kinds, proc, exit, written, stream, listening, aborted, at,
                   answers>>

TotalFires ==
    /\ total = 0
    /\ Kill
    /\ SettleWith("timedOut", out)
    /\ UNCHANGED <<kinds, proc, exit, written, stream, listening, aborted, at,
                   answers>>

\* The signal kills the process, in the background too; only a foreground
\* call is settled by it. A settled call no longer listens to the signal.
Abort ==
    /\ "aborts" \in Env
    /\ ~aborted
    /\ aborted' = TRUE
    /\ IF at = "running" /\ ~Settled
       THEN Kill /\ SettleWith("aborted", out)
       ELSE /\ IF at = "background" /\ proc = "running"
               THEN killed' = TRUE ELSE UNCHANGED killed
            /\ UNCHANGED <<result, clock>>
    /\ UNCHANGED <<kinds, proc, exit, written, stream, listening, at, answers>>

-----------------------------------------------------------------------------

Next ==
    \/ Refuse \/ StartBackground \/ StartForeground \/ StartAborted \/ Cap
    \/ Write \/ Exit \/ Data \/ ErrorData \/ Close \/ SpawnError
    \/ Tick \/ InactivityFires \/ TotalFires \/ Abort

\* Node delivers what the pipes hold, the events of an ended process and the
\* timers that are due, and answers file operations. A process need not write
\* or exit by itself.
Fairness ==
    /\ WF_vars(Data) /\ WF_vars(Close) /\ WF_vars(SpawnError) /\ WF_vars(Cap)
    /\ WF_vars(Tick) /\ WF_vars(InactivityFires) /\ WF_vars(TotalFires)

Spec == Init /\ [][Next]_vars /\ Fairness

-----------------------------------------------------------------------------
(* Properties *)

\* The text of what the process wrote: its lines that are no heartbeats; and its
\* heartbeats, but for one whose line it did not end.
Text  == InOrder({h \in 1..written : ~IsBeat(h)})
Beats == InOrder({h \in 1..written : IsBeat(h) /\ Begins(h) /\ h # written})

\* Of every line that was ended the result has both halves or neither.
WholeLines(text) ==
    \A i \in DOMAIN text : Begins(text[i]) /\ text[i] # written =>
        i < Len(text) /\ text[i + 1] = text[i] + 1

\* However the output was divided into data events, a command that ends by
\* itself leaves the agent its whole text, with the last line even if it is
\* not ended, and no part of a heartbeat; each whole heartbeat was reported
\* once, in order (bash.ts, pendingLine and filterHeartbeats). A text larger
\* than the buffer loses whole lines. What is shown fits the inline cap
\* unless the header alone does not, and is the whole text or else points to
\* the file that holds it.
OutputWhole ==
    /\ (proc = "closed" /\ result.code \in {"zero", "nonzero"} /\ exit # "unborn") =>
          /\ Len(Text) <= MaxBuffer => result.text = Text
          /\ Len(result.text) <= MaxBuffer
          /\ \A i \in DOMAIN result.text : ~IsBeat(result.text[i])
          /\ WholeLines(result.text)
          /\ at = "running" => beats = Beats
    /\ \A i \in DOMAIN answers :
          /\ answers[i].inline <= MaxInline \/ answers[i].inline \in Headers
          /\ ~answers[i].whole => answers[i].saved \/ "noSave" \in Env

\* A foreground call is answered, whatever the process does: also when it
\* ignores SIGTERM, or never stops to write. A background command that ended
\* is notified (bash.ts:224-233, totalTimer; 671-741).
EveryCallAnswered ==
    /\ (at = "running") ~> (at = "answered")
    /\ (at = "background" /\ proc \in {"unborn", "exited"}) ~> (Len(answers) > 1)
=============================================================================
