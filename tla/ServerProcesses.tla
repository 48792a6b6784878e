-------------------------- MODULE ServerProcesses --------------------------
(***************************************************************************)
(* The processes of an installation: `system2 start` and `system2 stop` in *)
(* one or more shells, the PID file they keep, the servers they spawn and  *)
(* signal, and what a server does on its way up to the session files of an *)
(* agent, which SessionRotation rotates. A command or a server may be      *)
(* anywhere between two steps while another one takes a step, and a server *)
(* may be killed at any point.                                             *)
(*                                                                         *)
(* External, as session-rotation.ts and host.ts describe it: the SDK opens *)
(* the most recent session file, appends an entry at a time to the path it *)
(* opened, and creates the file again, without a header, when it is gone.  *)
(***************************************************************************)
EXTENDS SessionRotation, FiniteSets

CONSTANTS
    Pids,         \* the processes the instance may spawn
    Shells,       \* where commands are typed, one at a time in each
    KeepCount,    \* archive_keep_count
    MaxEntries,   \* bound: entries the agent ever writes
    Env           \* what may happen, a subset of AllEvents

AllEvents == {"crashes",     \* a server is killed
              "torn",        \* ... in the middle of writing a rotated file
              "slowStops"}   \* a server outlives the 10 s that stop gives it

ASSUME ProcessAssumption ==
    /\ Pids \subseteq Nat \ {0}
    /\ IsFiniteSet(Pids)
    /\ Shells # {}
    /\ KeepCount \in Nat
    /\ MaxEntries \in Nat
    /\ Env \subseteq AllEvents

VARIABLES
    pidFile,      \* server.pid: the pid in it, 0 when there is no file
    server,       \* per pid, the server process: where it is, its session
    command,      \* per shell, the command being executed
    dir,          \* the session directory, least recently modified file first
    written       \* every entry the agent ever wrote, in order

vars == <<pidFile, server, command, dir, written>>

Unborn == [at |-> "unborn", file |-> 0, log |-> <<>>]
Dead   == [at |-> "dead", file |-> 0, log |-> <<>>]
Idle   == [at |-> "idle", pid |-> 0]

Running(p) == server[p].at \notin {"unborn", "dead"}    \* isProcessRunning
Listening(p) == server[p].at \in {"up", "closing"}      \* the port is bound to it
HasSession(p) == server[p].at \in {"open", "up", "closing"}

Init ==
    /\ pidFile = 0
    /\ server = [p \in Pids |-> Unborn]
    /\ command = [s \in Shells |-> Idle]
    /\ dir = <<>>
    /\ written = <<>>

-----------------------------------------------------------------------------
(* The session directory *)

\* The index of the newest .jsonl, 0 if there is none.
FindMostRecentSession == LastOf({i \in 1..Len(dir) : dir[i].kind = "jsonl"})

Newest == dir[FindMostRecentSession]

UsedNames == {dir[i].name : i \in 1..Len(dir)} \cup {server[p].file : p \in Pids}

FreshName == CHOOSE n \in 1..(Len(dir) + Cardinality(Pids) + 1) :
                 n \notin UsedNames /\ \A m \in 1..(n - 1) : m \in UsedNames

SessionFile(name, header, log) ==
    [name |-> name, kind |-> "jsonl", header |-> header, log |-> log]

\* A rename keeps the time of the last modification, and so the place in dir.
Archived(files, name) ==
    [i \in 1..Len(files) |->
        IF files[i].name = name THEN [files[i] EXCEPT !.kind = "archived"] ELSE files[i]]

\* Of the archives, only the KeepCount newest remain.
PruneArchives(files) ==
    LET archives == {i \in 1..Len(files) : files[i].kind = "archived"}
        newer(i) == Cardinality({j \in archives : j > i})
        pruned   == {i \in archives : KeepCount > 0 /\ newer(i) >= KeepCount}
    IN  Selected(files, (1..Len(files)) \ pruned)

At(p, phase) == server' = [server EXCEPT ![p].at = phase]

\* How many of n lines writeFileSync has written when the process is killed, or n.
LinesWritten(n) == IF "torn" \in Env THEN 0..n ELSE {n}

\* rotateSessionIfNeeded, first half: the new file is written.
WriteRotatedFile(p) ==
    /\ server[p].at = "boot"
    /\ FindMostRecentSession # 0
    /\ SessionSize(Newest.log) >= Threshold
    /\ LET entries == RotatedEntries(Newest.log)
       IN  \E n \in LinesWritten(Len(entries)) :
            /\ dir' = Append(dir, SessionFile(FreshName, TRUE, SubSeq(entries, 1, n)))
            /\ server' = [server EXCEPT ![p] =
                            IF n < Len(entries) THEN Dead
                            ELSE [at |-> "rotating", file |-> Newest.name, log |-> <<>>]]
    /\ UNCHANGED <<pidFile, command, written>>

\* Second half: the old file is renamed and the archives are pruned.
ArchiveOldFile(p) ==
    /\ server[p].at = "rotating"
    /\ dir' = PruneArchives(Archived(dir, server[p].file))
    /\ server' = [server EXCEPT ![p].at = "rotated", ![p].file = 0]
    /\ UNCHANGED <<pidFile, command, written>>

\* SessionManager.continueRecent, after the rotation or when none was needed.
OpenSession(p) ==
    /\ \/ server[p].at = "rotated"
       \/ /\ server[p].at = "boot"
          /\ FindMostRecentSession # 0 => SessionSize(Newest.log) < Threshold
    /\ IF FindMostRecentSession # 0
       THEN /\ server' = [server EXCEPT ![p] =
                            [at |-> "open", file |-> Newest.name, log |-> Newest.log]]
            /\ UNCHANGED dir
       ELSE /\ server' = [server EXCEPT ![p] =
                            [at |-> "open", file |-> FreshName, log |-> <<>>]]
            /\ dir' = Append(dir, SessionFile(FreshName, TRUE, <<>>))
    /\ UNCHANGED <<pidFile, command, written>>

\* appendFileSync: the file becomes the newest; a missing one is created headerless.
Appended(name, e) ==
    LET places == {i \in 1..Len(dir) : dir[i].name = name /\ dir[i].kind = "jsonl"}
        file   == IF places = {} THEN SessionFile(name, FALSE, <<>>)
                  ELSE dir[CHOOSE i \in places : TRUE]
    IN  Append(Selected(dir, (1..Len(dir)) \ places), [file EXCEPT !.log = Append(@, e)])

\* Where a compaction may cut: at any message, but not before an earlier cut.
CutPoints(log) ==
    {log[i].id : i \in {j \in 1..Len(log) :
        /\ log[j].kind # "compaction"
        /\ \A k \in 1..Len(log) : log[k].kind = "compaction" => log[k].kept <= log[j].id}}

\* What may follow in a session: a turn is a user message, tool calls with their
\* results, and a reply; it may fail after any of them. A compaction comes between
\* two turns, and its cut may fall between a call and its result.
Following(log) ==
    LET last == IF log = <<>> THEN "none" ELSE log[Len(log)].kind
        entry(kind, call, kept) ==
            [id |-> Len(written) + 1, kind |-> kind, call |-> call, kept |-> kept,
             parent |-> IF log = <<>> THEN 0 ELSE log[Len(log)].id]
    IN  {entry("user", 0, 0)}
        \cup (IF last = "call" THEN {entry("result", log[Len(log)].id, 0)} ELSE {})
        \cup (IF last \in {"user", "result"} THEN {entry("call", 0, 0), entry("reply", 0, 0)} ELSE {})
        \cup (IF last = "reply" THEN {entry("compaction", 0, k) : k \in CutPoints(log)} ELSE {})

\* The agent goes on with its session, until the process ends.
AppendEntry(p) ==
    /\ HasSession(p)
    /\ Len(written) < MaxEntries
    /\ \E e \in Following(server[p].log) :
        /\ written' = Append(written, e)
        /\ dir' = Appended(server[p].file, e)
        /\ server' = [server EXCEPT ![p].log = Append(@, e)]
    /\ UNCHANGED <<pidFile, command>>

-----------------------------------------------------------------------------
(* Server processes *)

Spawned(p) == server' = [server EXCEPT ![p].at = "boot"]

NextPid(p) == /\ server[p].at = "unborn"
              /\ \A q \in Pids : server[q].at = "unborn" => p <= q

\* httpServer.listen, the last step of start(): a port in use ends the process.
Listen(p) ==
    /\ server[p].at = "open"
    /\ IF \E q \in Pids : Listening(q) THEN server' = [server EXCEPT ![p] = Dead]
                                       ELSE At(p, "up")
    /\ UNCHANGED <<pidFile, command, dir, written>>

\* SIGTERM: until start() has installed its handlers it ends the process at once.
Terminated(p) ==
    IF server[p].at \in {"up", "closing"} THEN [server EXCEPT ![p].at = "closing"]
                                          ELSE [server EXCEPT ![p] = Dead]

\* Server.stop() is done and the process exits.
Close(p) ==
    /\ server[p].at = "closing"
    /\ server' = [server EXCEPT ![p] = Dead]
    /\ UNCHANGED <<pidFile, command, dir, written>>

Crash(p) ==
    /\ "crashes" \in Env
    /\ Running(p)
    /\ server' = [server EXCEPT ![p] = Dead]
    /\ UNCHANGED <<pidFile, command, dir, written>>

-----------------------------------------------------------------------------
(* system2 start *)

Goes(s, at, pid) == command' = [command EXCEPT ![s] = [at |-> at, pid |-> pid]]

Ends(s) == command' = [command EXCEPT ![s] = Idle]

\* Fault: the file is believed to be stale whatever runs.
StartCheckNoProbe == IF pidFile = 0 THEN "spawn" ELSE "stale"

\* What start makes of the PID file: it refuses, finds it stale, or goes on.
StartCheck ==
    IF pidFile = 0 THEN "spawn" ELSE IF Running(pidFile) THEN "idle" ELSE "stale"

\* A start that refuses changes nothing.
Start(s) ==
    /\ command[s] = Idle
    /\ \E p \in Pids : server[p].at = "unborn"
    /\ StartCheck # "idle"
    /\ Goes(s, StartCheck, 0)
    /\ UNCHANGED <<pidFile, server, dir, written>>

\* unlinkSync throws when another command was faster, and the command ends.
RemoveStalePidFile(s) ==
    /\ command[s].at = "stale"
    /\ IF pidFile = 0 THEN Ends(s) ELSE Goes(s, "spawn", 0)
    /\ pidFile' = 0
    /\ UNCHANGED <<server, dir, written>>

Spawn(s) ==
    /\ command[s].at = "spawn"
    /\ \E p \in Pids : NextPid(p) /\ Spawned(p) /\ Goes(s, "save", p)
    /\ UNCHANGED <<pidFile, dir, written>>

SavePid(s) ==
    /\ command[s].at = "save"
    /\ pidFile' = command[s].pid
    /\ Ends(s)
    /\ UNCHANGED <<server, dir, written>>

-----------------------------------------------------------------------------
(* system2 stop *)

\* A stop that finds no PID file says so and ends.
Stop(s) ==
    /\ command[s] = Idle
    /\ pidFile # 0
    /\ IF Running(pidFile)
       THEN server' = Terminated(pidFile) /\ Goes(s, "wait", pidFile)
       ELSE UNCHANGED server /\ Goes(s, "unlink", pidFile)
    /\ UNCHANGED <<pidFile, dir, written>>

\* waitForExit sees the process gone.
Gone(s) ==
    /\ command[s].at \in {"wait", "waitOrphan"}
    /\ ~Running(command[s].pid)
    /\ IF command[s].at = "wait" THEN Goes(s, "unlink", command[s].pid) ELSE Ends(s)
    /\ UNCHANGED <<pidFile, server, dir, written>>

\* 10 s later it is still there: SIGKILL.
Kill(s) ==
    /\ "slowStops" \in Env
    /\ command[s].at \in {"wait", "waitOrphan"}
    /\ Running(command[s].pid)
    /\ server' = [server EXCEPT ![command[s].pid] = Dead]
    /\ UNCHANGED <<pidFile, command, dir, written>>

\* The PID file goes; when it is gone already, unlinkSync throws and stop ends.
UnlinkPidFile(s) ==
    /\ command[s].at = "unlink"
    /\ IF pidFile = 0 THEN Ends(s) ELSE Goes(s, "lookup", command[s].pid)
    /\ pidFile' = 0
    /\ UNCHANGED <<server, dir, written>>

\* findListenerPid: whoever else holds the port is stopped as well.
StopListener(s) ==
    /\ command[s].at = "lookup"
    /\ LET others == {p \in Pids \ {command[s].pid} : Listening(p)}
       IN  IF others = {} THEN Ends(s) /\ UNCHANGED server
           ELSE \E p \in others : server' = Terminated(p) /\ Goes(s, "waitOrphan", p)
    /\ UNCHANGED <<pidFile, dir, written>>

-----------------------------------------------------------------------------

Next ==
    \/ \E p \in Pids :
        \/ WriteRotatedFile(p) \/ ArchiveOldFile(p)
        \/ OpenSession(p) \/ AppendEntry(p) \/ Listen(p) \/ Close(p) \/ Crash(p)
    \/ \E s \in Shells :
        \/ Start(s) \/ RemoveStalePidFile(s) \/ Spawn(s) \/ SavePid(s)
        \/ Stop(s) \/ Gone(s) \/ Kill(s) \/ UnlinkPidFile(s) \/ StopListener(s)

Spec == Init /\ [][Next]_vars

-----------------------------------------------------------------------------
(* Properties *)

States == {"unborn", "boot", "rotating", "rotated", "open", "up", "closing", "dead"}

TypeOK ==
    /\ pidFile \in Pids \cup {0}
    /\ \A p \in Pids : server[p].at \in States
    /\ \A s \in Shells : command[s].pid \in Pids \cup {0}
    /\ \A i \in 1..Len(dir) : dir[i].kind \in {"jsonl", "archived"}
    /\ Len(written) <= MaxEntries

\* Between two commands the PID file names the server that runs, and no other one
\* runs: `system2 stop` reaches it and `system2 start` does not start a second one,
\* whatever crashed in between (start.ts, stop.ts).
ServerKnown ==
    (\A s \in Shells : command[s] = Idle) =>
        \A p \in Pids : Running(p) => pidFile = p

\* No two processes append to the session of an agent.
OneWriter == \A p, q \in Pids : HasSession(p) /\ HasSession(q) => p = q

Compactions == {i \in 1..Len(written) : written[i].kind = "compaction"}

\* The first entry that the summary keeps is the result of a call it replaces.
Severs(compaction) ==
    \E i \in 1..Len(written) :
        /\ written[i].id = compaction.kept
        /\ written[i].kind = "result"

\* An entry that a restart may not forget: it is the last compaction or follows it,
\* or it is in a tail of the history that begins a turn and fits the budget.
Due(i) ==
    \/ /\ Compactions # {}
       /\ \A j \in Compactions : j <= i
       /\ \A j \in Compactions : ~Severs(written[j])
    \/ \E k \in 1..i : /\ \A j \in Compactions : j < k
                       /\ written[k].kind = "user"
                       /\ SizeFrom(written, k) <= TailBudget

\* However often the session was rotated, and wherever a rotation was interrupted,
\* an agent that starts goes on from its last summary, or from its last turns.
NothingForgotten ==
    \A p \in Pids : HasSession(p) =>
        \A i \in 1..Len(written) : Due(i) => written[i].id \in IdsOf(server[p].log)

\* No session file holds the result of a tool call that it does not hold: providers
\* refuse such a request, and every start of the agent would send it again.
NoOrphanResults == \A i \in 1..Len(dir) : dir[i].kind = "jsonl" => OrphanIds(dir[i].log) = {}

\* The summary survives too (README, section 5).
SummaryKept ==
    \A p \in Pids : HasSession(p) =>
        \A i \in Compactions :
            (\A j \in Compactions : j <= i) => written[i].id \in IdsOf(server[p].log)
=============================================================================
