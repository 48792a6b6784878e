----------------------- MODULE ServerProcesses_proofs -----------------------
(***************************************************************************)
(* Theorems about ServerProcesses for any number of processes, any size of *)
(* session and every crash, torn write and slow stop, as long as one       *)
(* command is typed at a time: what the PID file says of the server that   *)
(* runs, that a session has one writer, that no rotation, crash or failed  *)
(* turn leaves a session file with a tool result without its call, and,    *)
(* unless a write is torn, that none makes an agent forget its last turns. *)
(***************************************************************************)
EXTENDS ServerProcesses, SequenceTheorems, WellFoundedInduction, FiniteSetTheorems, TLAPS

\* One shell: no command begins before the last one is done. Two starts at the same
\* time both spawn a server (README, section 5).
OneShell == \E s : Shells = {s}

Stages == {"idle", "stale", "spawn", "save", "wait", "waitOrphan", "unlink", "lookup"}

\* A record with the fields of a server process, whatever file and log are.
IsProcess(r) == r = [at |-> r.at, file |-> r.file, log |-> r.log]

-----------------------------------------------------------------------------
(* The inductive invariant. ServerKnown speaks of the time between two commands;
   Progress(s) says what is known in each step of one. Above all nobody runs when
   a start spawns, or when a stop looks for the process that holds the port, so
   that it finds none.                                                          *)

Typed ==
    /\ server = [p \in Pids |-> server[p]]
    /\ \A p \in Pids : IsProcess(server[p]) /\ server[p].at \in States
    /\ command \in [Shells -> [at : Stages, pid : Pids \cup {0}]]
    /\ pidFile \in Pids \cup {0}

\* No process but q runs, and none at all if q is 0.
Only(q) == \A p \in Pids : Running(p) => p = q

\* command c is at one of its steps: what runs, and what the file says.
Between(c) == c.at = "idle" => c = Idle /\ Only(pidFile)

Starting(c) ==
    /\ c.at = "stale" => Only(0)
    /\ c.at = "spawn" => Only(0) /\ pidFile = 0
    /\ c.at = "save" => Only(c.pid) /\ pidFile = 0

Stopping(c) ==
    /\ c.at = "wait" => c.pid \in Pids /\ Only(c.pid) /\ pidFile = c.pid
    /\ c.at = "unlink" => Only(0) /\ pidFile = c.pid
    /\ c.at = "lookup" => Only(0) /\ pidFile = 0
    /\ c.at # "waitOrphan"

Progress(s) == Between(command[s]) /\ Starting(command[s]) /\ Stopping(command[s])

IInv == Typed /\ \A s \in Shells : Progress(s)

\* The processes after a step of some server: those that run did so before.
NobodyNew == \A p \in Pids : Running(p)' => Running(p)

\* The processes keep their shape.
ServersTyped ==
    /\ server = [p \in Pids |-> server[p]]
    /\ \A p \in Pids : IsProcess(server[p]) /\ server[p].at \in States

-----------------------------------------------------------------------------
(* Steps of the servers *)

(* No pid is 0. *)
LEMMA NoPidZero == 0 \notin Pids
BY ProcessAssumption

(* A process ends. *)
LEMMA DeadStep ==
    ASSUME ServersTyped, NEW p \in Pids, server' = [server EXCEPT ![p] = Dead]
    PROVE  ServersTyped' /\ NobodyNew /\ ~Running(p)'
<1>1. IsProcess(Dead) /\ Dead.at = "dead"
  BY DEF Dead, IsProcess
<1>2. server' = [q \in Pids |-> server'[q]]
  BY DEF ServersTyped
<1>3. server'[p] = Dead /\ \A q \in Pids \ {p} : server'[q] = server[q]
  BY DEF ServersTyped
<1>4. \A q \in Pids : IsProcess(server'[q]) /\ server'[q].at \in States
  BY <1>1, <1>3 DEF ServersTyped, States
<1>5. NobodyNew /\ ~Running(p)'
  BY <1>1, <1>3 DEF NobodyNew, Running
<1> QED BY <1>2, <1>4, <1>5 DEF ServersTyped

(* A process becomes r; it runs only if it did. *)
LEMMA ProcessStep ==
    ASSUME ServersTyped, NEW p \in Pids, NEW r,
           server' = [server EXCEPT ![p] = r], IsProcess(r), r.at \in States,
           Running(p) \/ r.at \in {"unborn", "dead"}
    PROVE  ServersTyped' /\ NobodyNew
<1>2. server' = [q \in Pids |-> server'[q]]
  BY DEF ServersTyped
<1>3. server'[p] = r /\ \A q \in Pids \ {p} : server'[q] = server[q]
  BY DEF ServersTyped
<1>4. \A q \in Pids : IsProcess(server'[q]) /\ server'[q].at \in States
  BY <1>3 DEF ServersTyped
<1>5. NobodyNew
  BY <1>3 DEF NobodyNew, Running
<1> QED BY <1>2, <1>4, <1>5 DEF ServersTyped

(* A process that runs is at another of its steps. *)
LEMMA AtStep ==
    ASSUME ServersTyped, NEW p \in Pids, NEW phase \in States,
           server' = [server EXCEPT ![p].at = phase],
           Running(p) \/ phase \in {"unborn", "dead"}
    PROVE  ServersTyped' /\ NobodyNew
<1> DEFINE r == [server[p] EXCEPT !.at = phase]
<1>1. IsProcess(server[p])
  BY DEF ServersTyped
<1>2. IsProcess(r) /\ r.at = phase
  BY <1>1 DEF IsProcess
<1>3. server' = [server EXCEPT ![p] = r]
  OBVIOUS
<1> HIDE DEF r
<1> QED BY <1>2, <1>3, ProcessStep

(* With no new process, what is known of every command stays known. *)
LEMMA ServerStepKeeps ==
    ASSUME IInv, ServersTyped', NobodyNew, UNCHANGED <<pidFile, command>>
    PROVE  IInv'
<1>1. Typed'
  BY DEF IInv, Typed, ServersTyped
<1>2. ASSUME NEW q, Only(q) PROVE Only(q)'
  BY <1>2 DEF Only, NobodyNew
<1>3. ASSUME NEW s \in Shells PROVE Progress(s)'
  <2>1. Progress(s) /\ command'[s] = command[s] /\ pidFile' = pidFile
    BY DEF IInv
  <2>2. Between(command[s])'
    BY <1>2, <2>1 DEF Progress, Between
  <2>3. Starting(command[s])'
    BY <1>2, <2>1 DEF Progress, Starting
  <2>4. Stopping(command[s])'
    BY <1>2, <2>1 DEF Progress, Stopping
  <2> QED BY <2>2, <2>3, <2>4 DEF Progress
<1> QED BY <1>1, <1>3 DEF IInv

ServerStep(p) ==
    \/ WriteRotatedFile(p) \/ ArchiveOldFile(p)
    \/ OpenSession(p) \/ AppendEntry(p) \/ Listen(p) \/ Close(p) \/ Crash(p)

(* No step of a server makes another one run. *)
LEMMA ServerStepIInv ==
    ASSUME IInv, NEW p \in Pids, ServerStep(p)
    PROVE  IInv'
<1> USE DEF Running
<1>1. ServersTyped
  BY DEF IInv, Typed, ServersTyped
<1>2. IsProcess(server[p])
  BY <1>1 DEF ServersTyped
<1>3. ServersTyped' /\ NobodyNew
  <2>1. CASE WriteRotatedFile(p)
    <3>1. PICK name, n, m :
            server' = [server EXCEPT ![p] =
                         IF n < m THEN Dead
                         ELSE [at |-> "rotating", file |-> name, log |-> <<>>]]
      BY <2>1 DEF WriteRotatedFile
    <3>2. CASE n < m
      BY <1>1, <3>1, <3>2, DeadStep
    <3>3. CASE ~(n < m)
      <4> DEFINE r == [at |-> "rotating", file |-> name, log |-> <<>>]
      <4>1. server' = [server EXCEPT ![p] = r]
        BY <3>1, <3>3
      <4>2. IsProcess(r) /\ r.at \in States /\ server[p].at = "boot"
        BY <2>1 DEF IsProcess, States, WriteRotatedFile
      <4> HIDE DEF r
      <4> QED BY <1>1, <4>1, <4>2, ProcessStep
    <3> QED BY <3>2, <3>3
  <2>2. CASE ArchiveOldFile(p)
    <3> DEFINE r == [server[p] EXCEPT !.at = "rotated", !.file = 0]
    <3>1. server' = [server EXCEPT ![p] = r]
      BY <2>2 DEF ArchiveOldFile
    <3>2. r = [at |-> "rotated", file |-> 0, log |-> server[p].log]
      <4>1. PICK a, f, l : server[p] = [at |-> a, file |-> f, log |-> l]
        BY <1>2 DEF IsProcess
      <4>2. r = [[server[p] EXCEPT !.at = "rotated"] EXCEPT !.file = 0]
        OBVIOUS
      <4>3. [server[p] EXCEPT !.at = "rotated"] = [at |-> "rotated", file |-> f, log |-> l]
        BY <4>1
      <4>4. [[at |-> "rotated", file |-> f, log |-> l] EXCEPT !.file = 0]
               = [at |-> "rotated", file |-> 0, log |-> l]
        OBVIOUS
      <4>5. server[p].log = l
        BY <4>1
      <4>6. r = [[at |-> "rotated", file |-> f, log |-> l] EXCEPT !.file = 0]
        BY <4>2, <4>3
      <4> HIDE DEF r
      <4> QED BY <4>4, <4>5, <4>6
    <3>3. IsProcess(r) /\ r.at \in States /\ server[p].at = "rotating"
      BY <2>2, <3>2 DEF IsProcess, States, ArchiveOldFile
    <3> HIDE DEF r
    <3> QED BY <1>1, <3>1, <3>3, ProcessStep
  <2>3. CASE OpenSession(p)
    <3>1. PICK name, log :
            server' = [server EXCEPT ![p] = [at |-> "open", file |-> name, log |-> log]]
      BY <2>3 DEF OpenSession
    <3> DEFINE r == [at |-> "open", file |-> name, log |-> log]
    <3>2. IsProcess(r) /\ r.at \in States /\ server[p].at \in {"rotated", "boot"}
      BY <2>3 DEF IsProcess, States, OpenSession
    <3> QED BY <1>1, <3>1, <3>2, ProcessStep
  <2>4. CASE AppendEntry(p)
    <3>1. PICK log : server' = [server EXCEPT ![p] = [server[p] EXCEPT !.log = log]]
      BY <2>4 DEF AppendEntry
    <3> DEFINE r == [server[p] EXCEPT !.log = log]
    <3>2. IsProcess(r) /\ r.at = server[p].at
      BY <1>2 DEF IsProcess
    <3>3. server[p].at \in {"open", "up", "closing"}
      BY <2>4 DEF AppendEntry, HasSession
    <3> HIDE DEF r
    <3>4. server' = [server EXCEPT ![p] = r]
      BY <3>1 DEF r
    <3> QED BY <1>1, <3>2, <3>3, <3>4, ProcessStep DEF States
  <2>5. CASE Listen(p)
    <3>1. server[p].at = "open"
      BY <2>5 DEF Listen
    <3>2. \/ server' = [server EXCEPT ![p] = Dead]
          \/ server' = [server EXCEPT ![p].at = "up"]
      BY <2>5 DEF Listen, At
    <3> QED BY <1>1, <3>1, <3>2, DeadStep, AtStep DEF States
  <2>6. CASE Close(p) \/ Crash(p)
    BY <1>1, <2>6, DeadStep DEF Close, Crash
  <2> QED BY <2>1, <2>2, <2>3, <2>4, <2>5, <2>6 DEF ServerStep
<1>4. UNCHANGED <<pidFile, command>>
  BY DEF ServerStep, WriteRotatedFile, ArchiveOldFile, OpenSession, AppendEntry, Listen, Close, Crash
<1> QED BY <1>3, <1>4, ServerStepKeeps

-----------------------------------------------------------------------------
(* Steps of a command. There is one shell: no other command is under way. *)

\* The state after a step of the command in s, which is now c.
After(s, c) == command' = [command EXCEPT ![s] = c]

(* It suffices to look at the one command. *)
LEMMA CommandStepKeeps ==
    ASSUME IInv, OneShell, NEW s \in Shells, NEW c \in [at : Stages, pid : Pids \cup {0}],
           After(s, c), ServersTyped', pidFile' \in Pids \cup {0},
           (Between(c) /\ Starting(c) /\ Stopping(c))'
    PROVE  IInv'
<1>1. command' \in [Shells -> [at : Stages, pid : Pids \cup {0}]] /\ command'[s] = c
  BY DEF IInv, Typed, After
<1>2. Typed'
  BY <1>1 DEF Typed, ServersTyped
<1>3. \A t \in Shells : t = s
  BY DEF OneShell
<1>4. Progress(s)'
  BY <1>1 DEF Progress, Between, Starting, Stopping
<1> QED BY <1>2, <1>3, <1>4 DEF IInv

(* SIGTERM ends a process or makes it close. *)
LEMMA TerminatedStep ==
    ASSUME ServersTyped, NEW p \in Pids, server' = Terminated(p)
    PROVE  ServersTyped' /\ NobodyNew
<1>1. CASE server[p].at \in {"up", "closing"}
  <2>1. server' = [server EXCEPT ![p].at = "closing"]
    BY <1>1 DEF Terminated
  <2>2. Running(p)
    BY <1>1 DEF Running
  <2> QED BY <2>1, <2>2, AtStep DEF States
<1>2. CASE server[p].at \notin {"up", "closing"}
  BY <1>2, DeadStep DEF Terminated
<1> QED BY <1>1, <1>2

StartStep(s) == Start(s) \/ RemoveStalePidFile(s) \/ Spawn(s) \/ SavePid(s)

(* system2 start: it spawns a process when none runs, and writes its pid down. *)
LEMMA StartStepIInv ==
    ASSUME IInv, OneShell, NEW s \in Shells, StartStep(s)
    PROVE  IInv'
<1> USE NoPidZero
<1>1. Progress(s) /\ ServersTyped /\ pidFile \in Pids \cup {0}
  BY DEF IInv, Typed, ServersTyped
<1>2. /\ command[s] \in [at : Stages, pid : Pids \cup {0}]
      /\ Idle \in [at : Stages, pid : Pids \cup {0}]
  BY DEF IInv, Typed, Idle, Stages
<1>3. CASE Start(s)
  <2> PICK c : c = [at |-> StartCheck, pid |-> 0]
    OBVIOUS
  <2>1. After(s, c) /\ StartCheck \in {"stale", "spawn"}
    BY <1>3 DEF Start, Goes, After, StartCheck
  <2>2. c \in [at : Stages, pid : Pids \cup {0}] /\ c.at = StartCheck
    BY <2>1 DEF Stages
  <2>3. UNCHANGED <<pidFile, server>>
    BY <1>3 DEF Start
  <2>4. Only(pidFile)
    BY <1>1, <1>3 DEF Start, Progress, Between, Idle
  <2>5. Only(0) /\ (StartCheck = "spawn" => pidFile = 0)
    <3>1. CASE pidFile = 0
      BY <2>4, <3>1
    <3>2. CASE pidFile # 0
      <4>1. ~Running(pidFile) /\ StartCheck = "stale"
        BY <1>3, <3>2 DEF Start, StartCheck
      <4> QED BY <2>4, <4>1 DEF Only
    <3> QED BY <3>1, <3>2
  <2>6. ServersTyped' /\ Only(0)'
    BY <1>1, <2>3, <2>5 DEF ServersTyped, Only, Running
  <2>7. (Between(c) /\ Starting(c) /\ Stopping(c))'
    BY <2>1, <2>2, <2>3, <2>5, <2>6 DEF Between, Starting, Stopping
  <2> QED BY <1>1, <2>1, <2>2, <2>3, <2>6, <2>7, CommandStepKeeps
<1>4. CASE RemoveStalePidFile(s)
  <2>1. UNCHANGED server /\ pidFile' = 0 /\ Only(0)
    BY <1>1, <1>4 DEF RemoveStalePidFile, Progress, Starting
  <2>2. ServersTyped' /\ Only(0)'
    BY <1>1, <2>1 DEF ServersTyped, Only, Running
  <2>3. PICK c \in {Idle, [at |-> "spawn", pid |-> 0]} : After(s, c)
    BY <1>4 DEF RemoveStalePidFile, Goes, Ends, After
  <2>4. c \in [at : Stages, pid : Pids \cup {0}] /\ c.at \in {"idle", "spawn"}
    BY <1>2, <2>3 DEF Stages, Idle
  <2>5. c.at = "idle" => c = Idle
    BY <2>3 DEF Idle
  <2>6. (Between(c) /\ Starting(c) /\ Stopping(c))'
    BY <2>1, <2>2, <2>4, <2>5 DEF Between, Starting, Stopping
  <2> QED BY <2>1, <2>2, <2>3, <2>4, <2>6, CommandStepKeeps
<1>5. CASE Spawn(s)
  <2>1. PICK p \in Pids : NextPid(p) /\ Spawned(p) /\ Goes(s, "save", p)
    BY <1>5 DEF Spawn
  <2>2. Only(0) /\ pidFile = 0 /\ pidFile' = 0
    BY <1>1, <1>5 DEF Spawn, Progress, Starting
  <2> DEFINE c == [at |-> "save", pid |-> p]
             r == [server[p] EXCEPT !.at = "boot"]
  <2>3. After(s, c) /\ c \in [at : Stages, pid : Pids \cup {0}] /\ c.at = "save" /\ c.pid = p
    BY <2>1 DEF Goes, After, Stages
  <2>4. server' = [server EXCEPT ![p] = r]
    BY <2>1 DEF Spawned
  <2>5. IsProcess(r) /\ r.at \in States
    BY <1>1 DEF ServersTyped, IsProcess, States
  <2> HIDE DEF c, r
  <2>6. ServersTyped' /\ \A q \in Pids \ {p} : server'[q] = server[q]
    <3>1. /\ server' = [q \in Pids |-> server'[q]] /\ server'[p] = r
          /\ \A q \in Pids \ {p} : server'[q] = server[q]
      BY <1>1, <2>4 DEF ServersTyped
    <3> QED BY <1>1, <2>5, <3>1 DEF ServersTyped
  <2>7. Only(p)'
    BY <2>2, <2>6 DEF Only, Running
  <2>8. (Between(c) /\ Starting(c) /\ Stopping(c))'
    BY <2>2, <2>3, <2>7 DEF Between, Starting, Stopping
  <2> QED BY <2>2, <2>3, <2>6, <2>8, CommandStepKeeps
<1>6. CASE SavePid(s)
  <2>1. /\ UNCHANGED server /\ pidFile' = command[s].pid /\ Only(command[s].pid)
        /\ After(s, Idle)
    BY <1>1, <1>6 DEF SavePid, Ends, After, Progress, Starting
  <2>2. ServersTyped' /\ Only(pidFile)'
    BY <1>1, <2>1 DEF ServersTyped, Only, Running
  <2>3. pidFile' \in Pids \cup {0}
    BY <1>2, <2>1
  <2>4. (Between(Idle) /\ Starting(Idle) /\ Stopping(Idle))'
    BY <2>2 DEF Between, Starting, Stopping, Idle
  <2> QED BY <1>2, <2>1, <2>2, <2>3, <2>4, CommandStepKeeps
<1> QED BY <1>3, <1>4, <1>5, <1>6 DEF StartStep

StopStep(s) == Stop(s) \/ Gone(s) \/ Kill(s) \/ UnlinkPidFile(s) \/ StopListener(s)

(* system2 stop: it signals the process that the file names, the only one there is,
   and removes the file when that one is gone.                                   *)
LEMMA StopStepIInv ==
    ASSUME IInv, OneShell, NEW s \in Shells, StopStep(s)
    PROVE  IInv'
<1> USE NoPidZero
<1>1. Progress(s) /\ ServersTyped /\ pidFile \in Pids \cup {0}
  BY DEF IInv, Typed, ServersTyped
<1>2. /\ command[s] \in [at : Stages, pid : Pids \cup {0}]
      /\ Idle \in [at : Stages, pid : Pids \cup {0}]
  BY DEF IInv, Typed, Idle, Stages
<1>3. CASE Stop(s)
  <2>1. Only(pidFile) /\ pidFile \in Pids /\ pidFile' = pidFile
    BY <1>1, <1>3 DEF Stop, Progress, Between, Idle
  <2>2. CASE Running(pidFile)
    <3> PICK c : c = [at |-> "wait", pid |-> pidFile]
      OBVIOUS
    <3>1. server' = Terminated(pidFile) /\ After(s, c)
      BY <1>3, <2>2 DEF Stop, Goes, After
    <3>2. c \in [at : Stages, pid : Pids \cup {0}] /\ c.at = "wait" /\ c.pid = pidFile
      BY <2>1 DEF Stages
    <3>3. ServersTyped' /\ NobodyNew
      BY <1>1, <2>1, <3>1, TerminatedStep
    <3>4. Only(pidFile)'
      <4>1. \A p \in Pids : Running(p)' => p = pidFile
        BY <2>1, <3>3 DEF Only, NobodyNew
      <4> QED BY <2>1, <4>1 DEF Only
    <3>5. Only(c.pid)'
      BY <2>1, <3>2, <3>4
    <3>6. (Between(c) /\ Starting(c) /\ Stopping(c))'
      BY <2>1, <3>2, <3>5 DEF Between, Starting, Stopping
    <3> QED BY <2>1, <3>1, <3>2, <3>3, <3>6, CommandStepKeeps
  <2>3. CASE ~Running(pidFile)
    <3> PICK c : c = [at |-> "unlink", pid |-> pidFile]
      OBVIOUS
    <3>1. UNCHANGED server /\ After(s, c)
      BY <1>3, <2>3 DEF Stop, Goes, After
    <3>2. c \in [at : Stages, pid : Pids \cup {0}] /\ c.at = "unlink" /\ c.pid = pidFile
      BY <2>1 DEF Stages
    <3>3. ServersTyped' /\ Only(0)'
      BY <1>1, <2>1, <2>3, <3>1 DEF ServersTyped, Only, Running
    <3>4. (Between(c) /\ Starting(c) /\ Stopping(c))'
      BY <2>1, <3>2, <3>3 DEF Between, Starting, Stopping
    <3> QED BY <2>1, <3>1, <3>2, <3>3, <3>4, CommandStepKeeps
  <2> QED BY <2>2, <2>3
<1>4. CASE Gone(s)
  <2>1. command[s].at = "wait" /\ ~Running(command[s].pid)
    BY <1>1, <1>4 DEF Gone, Progress, Stopping
  <2>2. Only(0) /\ pidFile = command[s].pid
    BY <1>1, <2>1 DEF Progress, Stopping, Only
  <2> PICK c : c = [at |-> "unlink", pid |-> command[s].pid]
    OBVIOUS
  <2>3. UNCHANGED <<pidFile, server>> /\ After(s, c)
    BY <1>4, <2>1 DEF Gone, Goes, After
  <2>4. c \in [at : Stages, pid : Pids \cup {0}] /\ c.at = "unlink" /\ c.pid = command[s].pid
    BY <1>2 DEF Stages
  <2>5. ServersTyped' /\ Only(0)'
    BY <1>1, <2>2, <2>3 DEF ServersTyped, Only, Running
  <2>6. (Between(c) /\ Starting(c) /\ Stopping(c))'
    BY <2>2, <2>3, <2>4, <2>5 DEF Between, Starting, Stopping
  <2> QED BY <1>1, <2>3, <2>4, <2>5, <2>6, CommandStepKeeps
<1>5. CASE Kill(s)
  <2>1. server' = [server EXCEPT ![command[s].pid] = Dead] /\ UNCHANGED <<pidFile, command>>
    BY <1>5 DEF Kill
  <2>2. command[s].pid \in Pids
    BY <1>1, <1>5 DEF Kill, Progress, Stopping
  <2>3. ServersTyped' /\ NobodyNew
    BY <1>1, <2>1, <2>2, DeadStep
  <2> QED BY <2>1, <2>3, ServerStepKeeps
<1>6. CASE UnlinkPidFile(s)
  <2>1. UNCHANGED server /\ pidFile' = 0 /\ Only(0)
    BY <1>1, <1>6 DEF UnlinkPidFile, Progress, Stopping
  <2>2. ServersTyped' /\ Only(0)'
    BY <1>1, <2>1 DEF ServersTyped, Only, Running
  <2>3. PICK c \in {Idle, [at |-> "lookup", pid |-> command[s].pid]} : After(s, c)
    BY <1>6 DEF UnlinkPidFile, Goes, Ends, After
  <2>4. c \in [at : Stages, pid : Pids \cup {0}] /\ c.at \in {"idle", "lookup"}
    BY <1>2, <2>3 DEF Stages, Idle
  <2>5. c.at = "idle" => c = Idle
    BY <2>3 DEF Idle
  <2>6. (Between(c) /\ Starting(c) /\ Stopping(c))'
    BY <2>1, <2>2, <2>4, <2>5 DEF Between, Starting, Stopping
  <2> QED BY <2>1, <2>2, <2>3, <2>4, <2>6, CommandStepKeeps
<1>7. CASE StopListener(s)
  <2>1. Only(0) /\ pidFile = 0 /\ pidFile' = 0
    BY <1>1, <1>7 DEF StopListener, Progress, Stopping
  <2>2. \A p \in Pids : ~Listening(p)
    BY <2>1 DEF Only, Running, Listening
  <2>3. UNCHANGED server /\ After(s, Idle)
    BY <1>7, <2>2 DEF StopListener, Ends, After
  <2>4. ServersTyped' /\ Only(0)'
    BY <1>1, <2>1, <2>3 DEF ServersTyped, Only, Running
  <2>5. (Between(Idle) /\ Starting(Idle) /\ Stopping(Idle))'
    BY <2>1, <2>4 DEF Between, Starting, Stopping, Idle
  <2> QED BY <1>2, <2>1, <2>3, <2>4, <2>5, CommandStepKeeps
<1> QED BY <1>3, <1>4, <1>5, <1>6, <1>7 DEF StopStep

-----------------------------------------------------------------------------
(* Servers and commands *)

(* No process runs, and there is no file. *)
LEMMA InitIInv == Init => IInv
<1> SUFFICES ASSUME Init PROVE IInv
  OBVIOUS
<1>1. Typed
  BY DEF Init, Typed, IsProcess, States, Stages, Unborn, Idle
<1>2. ASSUME NEW s \in Shells PROVE Progress(s)
  <2>1. \A p \in Pids : ~Running(p)
    BY DEF Init, Running, Unborn
  <2>2. command[s] = Idle
    BY DEF Init
  <2> QED BY <2>1, <2>2 DEF Progress, Between, Starting, Stopping, Only, Idle
<1> QED BY <1>1, <1>2 DEF IInv

(* Every step of a server and of the command keeps what is known of both. *)
LEMMA NextIInv == ASSUME OneShell, IInv, [Next]_vars PROVE IInv'
<1>1. CASE Next
  <2>1. CASE \E p \in Pids : ServerStep(p)
    BY <2>1, ServerStepIInv
  <2>2. CASE \E s \in Shells : StartStep(s)
    BY <2>2, StartStepIInv
  <2>3. CASE \E s \in Shells : StopStep(s)
    BY <2>3, StopStepIInv
  <2> QED BY <1>1, <2>1, <2>2, <2>3 DEF Next, ServerStep, StartStep, StopStep
<1>2. CASE UNCHANGED vars
  <2>1. ServersTyped' /\ NobodyNew /\ UNCHANGED <<pidFile, command>>
    BY <1>2 DEF vars, IInv, Typed, ServersTyped, NobodyNew, Running
  <2> QED BY <2>1, ServerStepKeeps
<1> QED BY <1>1, <1>2

(* What is known at each step of a command is invariant, when commands do not overlap. *)
THEOREM Invariance == ASSUME OneShell PROVE Spec => []IInv
<1>1. Init => IInv
  BY InitIInv
<1>2. IInv /\ [Next]_vars => IInv'
  BY NextIInv
<1> QED BY <1>1, <1>2, PTL DEF Spec

(* Commands that do not overlap find a PID file which names the only server there is,
   whatever crashed or was killed in between (start.ts, stop.ts).               *)
THEOREM ServerStaysKnown == ASSUME OneShell PROVE Spec => []ServerKnown
<1>1. IInv => ServerKnown
  <2> SUFFICES ASSUME IInv, \A s \in Shells : command[s] = Idle,
                      NEW p \in Pids, Running(p)
               PROVE  pidFile = p
    BY DEF ServerKnown
  <2>1. PICK s \in Shells : Progress(s)
    BY ProcessAssumption DEF IInv
  <2>2. Only(pidFile)
    BY <2>1 DEF Progress, Between, Idle
  <2> QED BY <2>2 DEF Only
<1> QED BY <1>1, Invariance, PTL

(* The sessions of the agents have one writer: a second process appending to a file
   would interleave its entries with the first one's (session-rotation.ts).      *)
THEOREM OneWriterAlways == ASSUME OneShell PROVE Spec => []OneWriter
<1>1. IInv => OneWriter
  <2> SUFFICES ASSUME IInv, NEW p \in Pids, NEW q \in Pids, HasSession(p), HasSession(q)
               PROVE  p = q
    BY DEF OneWriter
  <2>1. Running(p) /\ Running(q)
    BY DEF HasSession, Running
  <2>2. PICK s \in Shells : Progress(s) /\ command[s].at \in Stages
    BY ProcessAssumption DEF IInv, Typed
  <2>3. \E r : Only(r)
    BY <2>2 DEF Progress, Between, Starting, Stopping, Stages
  <2> QED BY <2>1, <2>3 DEF Only
<1> QED BY <1>1, Invariance, PTL

-----------------------------------------------------------------------------
(* First, last and selected places *)

(* The least element of a set of naturals. *)
LEMMA LeastNatural ==
    ASSUME NEW N \in SUBSET Nat, N # {}
    PROVE  \E n \in N : \A m \in N : n <= m
<1>1. PICK n \in N : \A m \in N : <<m, n>> \notin OpToRel(<, Nat)
  BY NatLessThanWellFounded, WFMin
<1>2. \A m \in N : ~ (m < n)
  BY <1>1 DEF OpToRel
<1> QED BY <1>2

(* FirstOf finds the first one if there is one. *)
LEMMA FirstFound ==
    ASSUME NEW found \in SUBSET Nat, NEW none
    PROVE  /\ found = {} => FirstOf(found, none) = none
           /\ found # {} => /\ FirstOf(found, none) \in found
                           /\ \A i \in found : FirstOf(found, none) <= i
<1>1. CASE found = {}
  BY <1>1 DEF FirstOf
<1>2. CASE found # {}
  <2>1. \E n \in found : \A m \in found : n <= m
    BY <1>2, LeastNatural
  <2> QED BY <1>2, <2>1 DEF FirstOf
<1> QED BY <1>1, <1>2

(* LastOf finds the last one, among the places of a sequence. *)
LEMMA LastFound ==
    ASSUME NEW n \in Nat, NEW found \in SUBSET (1..n)
    PROVE  IF found = {} THEN LastOf(found) = 0
           ELSE LastOf(found) \in found /\ \A i \in found : i <= LastOf(found)
<1>1. CASE found = {}
  BY <1>1 DEF LastOf
<1>2. CASE found # {}
  <2> DEFINE D == {d \in Nat : n - d \in found}
  <2>1. D # {}
    <3>1. PICK i \in found : i \in 1..n
      BY <1>2
    <3>2. n - i \in Nat /\ n - (n - i) = i
      BY <3>1
    <3> QED BY <3>1, <3>2
  <2>2. PICK d \in D : \A e \in D : d <= e
    <3>1. D \in SUBSET Nat
      OBVIOUS
    <3> HIDE DEF D
    <3> QED BY <2>1, <3>1, LeastNatural
  <2>3. n - d \in found /\ d \in Nat
    BY <2>2
  <2>4. \A j \in found : j <= n - d
    <3> SUFFICES ASSUME NEW j \in found PROVE j <= n - d
      OBVIOUS
    <3>1. j \in 1..n
      OBVIOUS
    <3>2. n - j \in Nat /\ n - (n - j) = j
      BY <3>1
    <3>3. n - j \in D
      BY <3>2
    <3> QED BY <2>2, <2>3, <3>1, <3>2, <3>3
  <2> HIDE DEF D
  <2> QED BY <1>2, <2>3, <2>4 DEF LastOf
<1> QED BY <1>1, <1>2

\* The function that Selected defines, up to n.
Selects(f, s, places, n) ==
    f = [k \in 0..n |-> IF k = 0 THEN <<>>
                        ELSE IF k \in places THEN Append(f[k - 1], s[k])
                        ELSE f[k - 1]]

(* It exists. *)
LEMMA SelectsExists ==
    ASSUME NEW s, NEW places, NEW n \in Nat
    PROVE  \E f : Selects(f, s, places, n)
<1> DEFINE Bad == {k \in Nat : ~ \E f : Selects(f, s, places, k)}
<1>1. SUFFICES ASSUME Bad # {} PROVE FALSE
  OBVIOUS
<1>2. PICK k \in Bad : \A m \in Bad : k <= m
  <2>1. Bad \in SUBSET Nat
    OBVIOUS
  <2> HIDE DEF Bad
  <2> QED BY <1>1, <2>1, LeastNatural
<1>3. CASE k = 0
  <2>1. Selects([i \in 0..0 |-> <<>>], s, places, 0)
    BY DEF Selects
  <2> QED BY <1>2, <1>3, <2>1
<1>4. CASE k # 0
  <2>1. k - 1 \in Nat /\ k - 1 \notin Bad
    BY <1>2, <1>4
  <2>2. PICK f : Selects(f, s, places, k - 1)
    BY <2>1
  <2> DEFINE last == IF k \in places THEN Append(f[k - 1], s[k]) ELSE f[k - 1]
             g == [i \in 0..k |-> IF i = k THEN last ELSE f[i]]
  <2>3. \A i \in 0..(k - 1) : g[i] = f[i]
    BY <1>2, <2>1
  <2>4. \A i \in 0..(k - 1) : f[i] = IF i = 0 THEN <<>>
                                   ELSE IF i \in places THEN Append(f[i - 1], s[i])
                                   ELSE f[i - 1]
    BY <2>2 DEF Selects
  <2>5. \A i \in 0..k : g[i] = IF i = 0 THEN <<>>
                              ELSE IF i \in places THEN Append(g[i - 1], s[i])
                              ELSE g[i - 1]
    <3>1. ASSUME NEW i \in 0..k, i = k
          PROVE  g[i] = IF i \in places THEN Append(g[i - 1], s[i]) ELSE g[i - 1]
      BY <1>4, <2>1, <2>3, <3>1
    <3>2. ASSUME NEW i \in 0..k, i # k
          PROVE  /\ i \in 0..(k - 1) /\ g[i] = f[i]
                 /\ i # 0 => i - 1 \in 0..(k - 1) /\ g[i - 1] = f[i - 1]
      BY <1>2, <2>3, <3>2
    <3> HIDE DEF g
    <3> QED BY <1>4, <2>4, <3>1, <3>2
  <2>6. g = [i \in 0..k |-> g[i]]
    OBVIOUS
  <2> HIDE DEF g
  <2>7. Selects(g, s, places, k)
    BY <2>5, <2>6 DEF Selects
  <2> QED BY <1>2, <2>7
<1> QED BY <1>3, <1>4

\* t is what s has at these places up to n, and h tells from where it comes.
Picked(t, h, s, places, n) ==
    /\ DOMAIN h = 1..Len(t)
    /\ \A i \in 1..Len(t) : h[i] \in 1..n /\ h[i] \in places /\ t[i] = s[h[i]]
    /\ \A i, j \in 1..Len(t) : i < j => h[i] < h[j]
    /\ \A k \in 1..n : k \in places => \E i \in 1..Len(t) : h[i] = k

\* One exists.
PickedFrom(t, s, places, n) == \E h : Picked(t, h, s, places, n)

(* One more place. *)
LEMMA PickOne ==
    ASSUME NEW X, NEW s \in Seq(X), NEW places, NEW n \in Nat, n + 1 <= Len(s),
           NEW t \in Seq(X), PickedFrom(t, s, places, n)
    PROVE  LET u == IF n + 1 \in places THEN Append(t, s[n + 1]) ELSE t
           IN  u \in Seq(X) /\ PickedFrom(u, s, places, n + 1)
<1>1. PICK h : Picked(t, h, s, places, n)
  BY DEF PickedFrom
<1>2. /\ DOMAIN h = 1..Len(t)
      /\ \A i \in 1..Len(t) : h[i] \in 1..n /\ h[i] \in places /\ t[i] = s[h[i]]
      /\ \A i, j \in 1..Len(t) : i < j => h[i] < h[j]
      /\ \A k \in 1..n : k \in places => \E i \in 1..Len(t) : h[i] = k
  BY <1>1 DEF Picked
<1>3. \A k \in 1..(n + 1) : k \in 1..n \/ k = n + 1
  OBVIOUS
<1>4. CASE n + 1 \notin places
  <2>1. Picked(t, h, s, places, n + 1)
    BY <1>2, <1>3, <1>4 DEF Picked
  <2> QED BY <1>4, <2>1 DEF PickedFrom
<1>5. CASE n + 1 \in places
  <2> DEFINE u == Append(t, s[n + 1])
             g == [i \in 1..(Len(t) + 1) |-> IF i = Len(t) + 1 THEN n + 1 ELSE h[i]]
  <2>1. s[n + 1] \in X /\ Len(t) \in Nat
    OBVIOUS
  <2>2. /\ u \in Seq(X) /\ Len(u) = Len(t) + 1
        /\ u[Len(t) + 1] = s[n + 1]
        /\ \A i \in 1..Len(t) : i \in 1..Len(u) /\ u[i] = t[i]
        /\ \A i \in 1..Len(u) : i \in 1..Len(t) \/ i = Len(t) + 1
    BY <2>1
  <2>3. /\ DOMAIN g = 1..Len(u) /\ g[Len(t) + 1] = n + 1
        /\ \A i \in 1..Len(t) : g[i] = h[i]
    BY <2>1, <2>2
  <2> HIDE DEF u, g
  <2>4. \A i \in 1..Len(u) : g[i] \in 1..(n + 1) /\ g[i] \in places /\ u[i] = s[g[i]]
    <3> SUFFICES ASSUME NEW i \in 1..Len(u)
                 PROVE  g[i] \in 1..(n + 1) /\ g[i] \in places /\ u[i] = s[g[i]]
      OBVIOUS
    <3>1. CASE i \in 1..Len(t)
      BY <1>2, <2>2, <2>3, <3>1
    <3>2. CASE i = Len(t) + 1
      BY <1>5, <2>2, <2>3, <3>2
    <3> QED BY <2>2, <3>1, <3>2
  <2>5. \A i, j \in 1..Len(u) : i < j => g[i] < g[j]
    <3> SUFFICES ASSUME NEW i \in 1..Len(u), NEW j \in 1..Len(u), i < j PROVE g[i] < g[j]
      OBVIOUS
    <3>1. i \in 1..Len(t) /\ g[i] = h[i] /\ h[i] \in 1..n
      BY <1>2, <2>1, <2>2, <2>3
    <3>2. CASE j \in 1..Len(t)
      BY <1>2, <2>3, <3>1, <3>2
    <3>3. CASE j = Len(t) + 1
      BY <2>3, <3>1, <3>3
    <3> QED BY <2>2, <3>2, <3>3
  <2>6. \A k \in 1..(n + 1) : k \in places => \E i \in 1..Len(u) : g[i] = k
    <3> SUFFICES ASSUME NEW k \in 1..(n + 1), k \in places PROVE \E i \in 1..Len(u) : g[i] = k
      OBVIOUS
    <3>1. CASE k \in 1..n
      <4>1. PICK i \in 1..Len(t) : h[i] = k
        BY <1>2, <3>1
      <4> QED BY <2>2, <2>3, <4>1
    <3>2. CASE k = n + 1
      <4>1. Len(t) + 1 \in 1..Len(u)
        BY <2>1, <2>2
      <4> QED BY <2>3, <3>2, <4>1
    <3> QED BY <1>3, <3>1, <3>2
  <2>7. Picked(u, g, s, places, n + 1)
    BY <2>3, <2>4, <2>5, <2>6 DEF Picked
  <2>8. u \in Seq(X) /\ PickedFrom(u, s, places, n + 1)
    BY <2>2, <2>7 DEF PickedFrom
  <2> QED BY <1>5, <2>8 DEF u
<1> QED BY <1>4, <1>5

(* Selected returns what is at the places, in order. *)
LEMMA SelectedPicks ==
    ASSUME NEW X, NEW s \in Seq(X), NEW places
    PROVE  Selected(s, places) \in Seq(X) /\ PickedFrom(Selected(s, places), s, places, Len(s))
<1> DEFINE n == Len(s)
           f == CHOOSE g : Selects(g, s, places, n)
<1>1. n \in Nat
  OBVIOUS
<1>2. Selects(f, s, places, n)
  BY <1>1, SelectsExists
<1>3. Selected(s, places) = f[n]
  BY DEF Selected, Selects
<1> HIDE DEF f
<1>4. f[0] = <<>>
  BY <1>1, <1>2 DEF Selects
<1>5. ASSUME NEW k \in Nat, k + 1 <= n
      PROVE  f[k + 1] = IF k + 1 \in places THEN Append(f[k], s[k + 1]) ELSE f[k]
  <2>1. k + 1 \in 0..n /\ k + 1 # 0 /\ (k + 1) - 1 = k
    BY <1>1, <1>5
  <2>2. f[k + 1] = IF k + 1 \in places THEN Append(f[(k + 1) - 1], s[k + 1])
                   ELSE f[(k + 1) - 1]
    BY <1>2, <2>1 DEF Selects
  <2> QED BY <2>1, <2>2
<1> HIDE DEF n
<1> DEFINE Good(k) == f[k] \in Seq(X) /\ PickedFrom(f[k], s, places, k)
           Bad == {k \in 0..n : ~ Good(k)}
<1>6. Bad = {}
  <2>1. SUFFICES ASSUME Bad # {} PROVE FALSE
    OBVIOUS
  <2>2. Bad \in SUBSET Nat
    OBVIOUS
  <2>3. PICK k \in Bad : \A m \in Bad : k <= m
    <3> HIDE DEF Bad
    <3> QED BY <2>1, <2>2, LeastNatural
  <2>4. k # 0
    <3>1. Picked(<<>>, <<>>, s, places, 0)
      BY DEF Picked
    <3>2. Good(0)
      BY <1>4, <3>1 DEF PickedFrom
    <3> QED BY <2>3, <3>2
  <2>5. k - 1 \in Nat /\ (k - 1) + 1 = k /\ k <= n /\ k - 1 \in 0..n /\ ~(k <= k - 1)
    BY <1>1, <2>3, <2>4
  <2>6. Good(k - 1)
    BY <2>3, <2>5
  <2>7. Good(k)
    <3>1. f[k] = IF k \in places THEN Append(f[k - 1], s[k]) ELSE f[k - 1]
      BY <1>5, <2>5
    <3> DEFINE u == IF (k - 1) + 1 \in places THEN Append(f[k - 1], s[(k - 1) + 1]) ELSE f[k - 1]
    <3>2. u \in Seq(X) /\ PickedFrom(u, s, places, (k - 1) + 1)
      BY <2>5, <2>6, PickOne DEF n
    <3>3. f[k] = u
      BY <2>5, <3>1
    <3> HIDE DEF u
    <3> QED BY <2>5, <3>2, <3>3
  <2> QED BY <2>3, <2>7
<1>7. n \in 0..n
  BY <1>1
<1> QED BY <1>3, <1>6, <1>7 DEF n

(* What is next to each other in the sequence is so in what is selected. *)
LEMMA PickedNext ==
    ASSUME NEW t, Len(t) \in Nat, NEW h, NEW s, NEW places, NEW n \in Nat,
           Picked(t, h, s, places, n),
           NEW i \in 1..Len(t), h[i] - 1 \in 1..n, h[i] - 1 \in places
    PROVE  i > 1 /\ h[i - 1] = h[i] - 1
<1>1. /\ \A j \in 1..Len(t) : h[j] \in 1..n
      /\ \A j, k \in 1..Len(t) : j < k => h[j] < h[k]
  BY DEF Picked
<1>2. PICK m \in 1..Len(t) : h[m] = h[i] - 1
  BY DEF Picked
<1>3. m < i
  <2>1. CASE m = i
    BY <1>1, <1>2, <2>1
  <2>2. CASE i < m
    <3>1. h[i] < h[m]
      BY <1>1, <2>2
    <3> QED BY <1>1, <1>2, <3>1
  <2> QED BY <2>1, <2>2
<1>4. m = i - 1
  <2>1. SUFFICES ASSUME m < i - 1 PROVE FALSE
    BY <1>3
  <2>2. i - 1 \in 1..Len(t) /\ m < i - 1 /\ i - 1 < i
    BY <2>1
  <2>3. h[m] < h[i - 1] /\ h[i - 1] < h[i]
    BY <1>1, <2>2
  <2> QED BY <1>1, <1>2, <2>2, <2>3
<1> QED BY <1>2, <1>3, <1>4

-----------------------------------------------------------------------------
(* The entries of a session *)

Entries == [id : Nat, kind : Kinds, call : Nat, kept : Nat, parent : Nat]

\* Entries are written one after the other, each behind its parent.
Growing(log) ==
    /\ log \in Seq(Entries)
    /\ \A i, j \in 1..Len(log) : i < j => log[i].id < log[j].id
    /\ \A i \in 1..Len(log) : log[i].parent < log[i].id

\* A result answers its parent, the call just before it, unless it is the first entry.
Linked(log) ==
    \A i \in 1..Len(log) : log[i].kind = "result" =>
        /\ log[i].call = log[i].parent
        /\ i > 1 => log[i - 1].kind = "call" /\ log[i - 1].id = log[i].parent

\* What a provider accepts: the session does not begin with a result.
Sound(log) ==
    /\ Growing(log)
    /\ Linked(log)
    /\ 1 \in 1..Len(log) => log[1].kind # "result"

\* The ids given away so far.
UpTo(log, top) == \A i \in 1..Len(log) : log[i].id <= top

(* The types of what a session holds. *)
LEMMA EntryTypes ==
    ASSUME NEW log, Growing(log)
    PROVE  /\ Len(log) \in Nat
           /\ \A i \in 1..Len(log) : /\ log[i] \in Entries
                                     /\ log[i].id \in Nat /\ log[i].call \in Nat
                                     /\ log[i].parent \in Nat
<1>1. log \in Seq(Entries)
  BY DEF Growing
<1>2. \A i \in 1..Len(log) : log[i] \in Entries
  BY <1>1
<1> QED BY <1>1, <1>2 DEF Entries

(* Ids tell entries apart. *)
LEMMA IdsApart ==
    ASSUME NEW log, Growing(log), NEW i \in 1..Len(log), NEW j \in 1..Len(log),
           log[i].id = log[j].id
    PROVE  i = j
<1>1. Len(log) \in Nat /\ log[i].id \in Nat /\ log[j].id \in Nat
  BY EntryTypes
<1>2. /\ i < j => log[i].id < log[j].id
      /\ j < i => log[j].id < log[i].id
  BY DEF Growing
<1> QED BY <1>1, <1>2

(* A sound session holds the call of every result. *)
LEMMA SoundHasNoOrphans ==
    ASSUME NEW log, Sound(log)
    PROVE  OrphanIds(log) = {}
<1> SUFFICES ASSUME NEW i \in 1..Len(log), log[i].kind = "result"
             PROVE  log[i].call \in EmittedToolCalls(log)
  BY DEF OrphanIds, IdsAt
<1>1. i > 1 /\ Len(log) \in Nat
  BY DEF Sound, Growing
<1>2. i - 1 \in 1..Len(log) /\ log[i - 1].kind = "call" /\ log[i - 1].id = log[i].call
  BY <1>1 DEF Sound, Linked
<1> QED BY <1>2 DEF EmittedToolCalls, IdsAt

(* Of what is linked, only the first entry can be an orphan, and is one if it is a
   result: the calls behind it are younger than the one it answers.               *)
LEMMA FirstIsOrphan ==
    ASSUME NEW log, Growing(log), Linked(log), 1 \in 1..Len(log), log[1].kind = "result"
    PROVE  log[1].id \in OrphanIds(log)
<1>1. log[1].call \notin EmittedToolCalls(log)
  <2>1. SUFFICES ASSUME NEW k \in 1..Len(log), log[k].id = log[1].call PROVE FALSE
    BY DEF EmittedToolCalls, IdsAt
  <2>2. log[1].call < log[1].id /\ log[1].id \in Nat /\ log[k].id \in Nat /\ Len(log) \in Nat
    <3>1. log[1].call = log[1].parent /\ log[1].parent < log[1].id
      BY DEF Growing, Linked
    <3> QED BY <3>1, EntryTypes
  <2>3. k # 1 => log[1].id < log[k].id
    BY <2>2 DEF Growing
  <2> QED BY <2>1, <2>2, <2>3
<1> QED BY <1>1 DEF OrphanIds, IdsAt

-----------------------------------------------------------------------------
(* What a rotation drops *)

Children(log, ids) ==
    IdsAt(log, {i \in 1..Len(log) : log[i].kind # "compaction" /\ log[i].parent \in ids})

\* The levels that DroppedIds defines, up to n.
Levels(w, log, n) ==
    w = [k \in 0..n |-> IF k = 0 THEN OrphanIds(log) ELSE w[k - 1] \cup Children(log, w[k - 1])]

(* They exist. *)
LEMMA LevelsExist ==
    ASSUME NEW log, NEW n \in Nat
    PROVE  \E w : Levels(w, log, n)
<1> DEFINE Bad == {k \in Nat : ~ \E w : Levels(w, log, k)}
<1>1. SUFFICES ASSUME Bad # {} PROVE FALSE
  OBVIOUS
<1>2. PICK k \in Bad : \A m \in Bad : k <= m
  <2>1. Bad \in SUBSET Nat
    OBVIOUS
  <2> HIDE DEF Bad
  <2> QED BY <1>1, <2>1, LeastNatural
<1>3. CASE k = 0
  <2>1. Levels([i \in 0..0 |-> OrphanIds(log)], log, 0)
    BY DEF Levels
  <2> QED BY <1>2, <1>3, <2>1
<1>4. CASE k # 0
  <2>1. k - 1 \in Nat /\ k - 1 \notin Bad
    BY <1>2, <1>4
  <2>2. PICK w : Levels(w, log, k - 1)
    BY <2>1
  <2> DEFINE last == w[k - 1] \cup Children(log, w[k - 1])
             v == [i \in 0..k |-> IF i = k THEN last ELSE w[i]]
  <2>3. \A i \in 0..(k - 1) : v[i] = w[i]
    BY <1>2, <2>1
  <2>4. \A i \in 0..(k - 1) : w[i] = IF i = 0 THEN OrphanIds(log)
                                   ELSE w[i - 1] \cup Children(log, w[i - 1])
    BY <2>2 DEF Levels
  <2>5. \A i \in 0..k : v[i] = IF i = 0 THEN OrphanIds(log)
                              ELSE v[i - 1] \cup Children(log, v[i - 1])
    <3>1. ASSUME NEW i \in 0..k, i = k
          PROVE  v[i] = v[i - 1] \cup Children(log, v[i - 1])
      BY <1>4, <2>1, <2>3, <3>1
    <3>2. ASSUME NEW i \in 0..k, i # k
          PROVE  /\ i \in 0..(k - 1) /\ v[i] = w[i]
                 /\ i # 0 => i - 1 \in 0..(k - 1) /\ v[i - 1] = w[i - 1]
      BY <1>2, <2>3, <3>2
    <3> HIDE DEF v
    <3> QED BY <1>4, <2>4, <3>1, <3>2
  <2>6. v = [i \in 0..k |-> v[i]]
    OBVIOUS
  <2> HIDE DEF v
  <2>7. Levels(v, log, k)
    BY <2>5, <2>6 DEF Levels
  <2> QED BY <1>2, <2>7
<1> QED BY <1>3, <1>4

\* Of the first levels: whatever one has at a place, each level from that place on has.
Reaches(w, log, k) ==
    /\ OrphanIds(log) \subseteq w[k]
    /\ w[k] \subseteq IdsOf(log)
    /\ \A i \in 1..Len(log) : log[i].id \in w[k] => \A m \in i..Len(log) : log[i].id \in w[m]

(* An entry hangs on one that is dropped a level earlier than it at the latest. *)
LEMMA AllReach ==
    ASSUME NEW log, Growing(log), NEW w, Levels(w, log, Len(log))
    PROVE  \A k \in 0..Len(log) : Reaches(w, log, k)
<1> DEFINE n == Len(log)
<1>1. n \in Nat
  BY DEF Growing
<1>2. w[0] = OrphanIds(log)
  BY <1>1 DEF Levels
<1>3. ASSUME NEW k \in 1..n PROVE k - 1 \in 0..n /\ w[k] = w[k - 1] \cup Children(log, w[k - 1])
  <2>1. k \in 0..n /\ k # 0 /\ k - 1 \in 0..n
    BY <1>1
  <2>2. w[k] = IF k = 0 THEN OrphanIds(log) ELSE w[k - 1] \cup Children(log, w[k - 1])
    BY <2>1 DEF Levels
  <2> QED BY <2>1, <2>2
<1>4. \A k \in 0..n : OrphanIds(log) \subseteq w[k]
  <2> DEFINE Bad == {k \in 0..n : ~(OrphanIds(log) \subseteq w[k])}
  <2>1. SUFFICES ASSUME Bad # {} PROVE FALSE
    OBVIOUS
  <2>2. PICK k \in Bad : \A m \in Bad : k <= m
    <3>1. Bad \in SUBSET Nat
      OBVIOUS
    <3> HIDE DEF Bad
    <3> QED BY <2>1, <3>1, LeastNatural
  <2>3. k # 0 /\ k \in 0..n /\ ~(OrphanIds(log) \subseteq w[k])
    BY <1>2, <2>2
  <2>4. k \in 1..n /\ k - 1 \in 0..n /\ ~(k <= k - 1)
    BY <1>1, <2>3
  <2>5. OrphanIds(log) \subseteq w[k - 1]
    BY <2>2, <2>4
  <2> HIDE DEF Bad, n
  <2> QED BY <1>3, <2>3, <2>4, <2>5
<1>5. OrphanIds(log) \subseteq IdsOf(log) /\ \A ids : Children(log, ids) \subseteq IdsOf(log)
  BY DEF OrphanIds, Children, IdsAt, IdsOf
<1>6. Reaches(w, log, 0)
  <2>1. ASSUME NEW i \in 1..n, log[i].id \in w[0], NEW m \in i..n PROVE log[i].id \in w[m]
    <3>1. m \in 0..n
      BY <1>1
    <3> QED BY <1>2, <1>4, <2>1, <3>1
  <2>2. 0 \in 0..n
    BY <1>1
  <2> QED BY <1>2, <1>4, <1>5, <2>1, <2>2 DEF Reaches
<1>7. ASSUME NEW k \in 1..n, Reaches(w, log, k - 1) PROVE Reaches(w, log, k)
  <2>1. k - 1 \in 0..n /\ w[k] = w[k - 1] \cup Children(log, w[k - 1]) /\ k \in 0..n
    BY <1>1, <1>3
  <2>2. w[k] \subseteq IdsOf(log)
    BY <1>5, <1>7, <2>1 DEF Reaches
  <2>3. ASSUME NEW i \in 1..n, log[i].id \in w[k], NEW m \in i..n PROVE log[i].id \in w[m]
    <3>1. CASE log[i].id \in w[k - 1]
      BY <1>7, <2>3, <3>1 DEF Reaches
    <3>2. CASE log[i].id \in Children(log, w[k - 1])
      <4>1. PICK e \in 1..n : /\ log[e].id = log[i].id /\ log[e].kind # "compaction"
                              /\ log[e].parent \in w[k - 1]
        BY <3>2 DEF Children, IdsAt
      <4>2. e = i
        BY <4>1, IdsApart
      <4>3. PICK j \in 1..n : log[j].id = log[i].parent
        BY <1>7, <4>1, <4>2 DEF Reaches, IdsOf
      <4>4. j < i
        <5>1. log[j].id < log[i].id /\ log[i].id \in Nat /\ log[j].id \in Nat
          <6>1. log[i].parent < log[i].id
            BY DEF Growing
          <6> QED BY <4>3, <6>1, EntryTypes
        <5>2. i < j => log[i].id < log[j].id
          BY DEF Growing
        <5> QED BY <1>1, <5>1, <5>2
      <4>5. m \in 1..n /\ m - 1 \in j..n
        BY <1>1, <4>4
      <4>6. log[j].id \in w[m - 1]
        BY <1>7, <4>1, <4>2, <4>3, <4>5 DEF Reaches
      <4>7. log[i].id \in Children(log, w[m - 1])
        BY <4>1, <4>2, <4>3, <4>6 DEF Children, IdsAt
      <4> QED BY <1>3, <4>5, <4>7
    <3> QED BY <2>1, <2>3, <3>1, <3>2
  <2> QED BY <1>4, <2>1, <2>2, <2>3 DEF Reaches
<1> DEFINE Bad == {k \in 0..n : ~Reaches(w, log, k)}
<1>8. SUFFICES ASSUME Bad # {} PROVE FALSE
  OBVIOUS
<1>9. PICK k \in Bad : \A m \in Bad : k <= m
  <2>1. Bad \in SUBSET Nat
    OBVIOUS
  <2> HIDE DEF Bad
  <2> QED BY <1>8, <2>1, LeastNatural
<1>10. k # 0 /\ k \in 0..n /\ ~Reaches(w, log, k)
  BY <1>6, <1>9
<1>11. k \in 1..n /\ k - 1 \in 0..n /\ ~(k <= k - 1)
  BY <1>1, <1>10
<1>12. Reaches(w, log, k - 1)
  BY <1>9, <1>11
<1> QED BY <1>7, <1>10, <1>11, <1>12

(* Orphans are dropped, and with an entry whatever hangs on it but a compaction. *)
LEMMA DroppedClosed ==
    ASSUME NEW log, Growing(log)
    PROVE  /\ OrphanIds(log) \subseteq DroppedIds(log)
           /\ \A i, j \in 1..Len(log) :
                  /\ log[j].kind # "compaction" /\ log[j].parent = log[i].id
                  /\ log[i].id \in DroppedIds(log)
                  => log[j].id \in DroppedIds(log)
<1> DEFINE n == Len(log)
           w == CHOOSE v : Levels(v, log, n)
<1>1. n \in Nat
  BY DEF Growing
<1>2. Levels(w, log, n)
  BY <1>1, LevelsExist
<1>3. DroppedIds(log) = w[n]
  BY DEF DroppedIds, Levels, Children
<1> HIDE DEF w
<1>4. \A k \in 0..n : Reaches(w, log, k)
  BY <1>2, AllReach
<1>5. Reaches(w, log, n)
  BY <1>1, <1>4
<1>6. ASSUME NEW i \in 1..n, NEW j \in 1..n, log[j].kind # "compaction",
             log[j].parent = log[i].id, log[i].id \in w[n]
      PROVE  log[j].id \in w[n]
  <2>1. log[i].id < log[j].id /\ log[i].id \in Nat /\ log[j].id \in Nat
    <3>1. log[j].parent < log[j].id
      BY DEF Growing
    <3> QED BY <1>6, <3>1, EntryTypes
  <2>2. i < j
    <3>1. j < i => log[j].id < log[i].id
      BY DEF Growing
    <3> QED BY <1>1, <2>1, <3>1
  <2>3. n - 1 \in i..n /\ n \in 0..n /\ n # 0
    BY <1>1, <2>2
  <2>4. log[i].id \in w[n - 1]
    BY <1>5, <1>6, <2>3 DEF Reaches
  <2>5. log[j].id \in Children(log, w[n - 1])
    BY <1>6, <2>4 DEF Children, IdsAt
  <2>6. w[n] = w[n - 1] \cup Children(log, w[n - 1])
    BY <1>2, <2>3 DEF Levels
  <2> QED BY <2>5, <2>6
<1> QED BY <1>3, <1>5, <1>6 DEF Reaches

-----------------------------------------------------------------------------
(* What a rotation writes *)

(* A part of a session grows and is linked, but for its first entry. *)
LEMMA PartLinked ==
    ASSUME NEW log, Growing(log), Linked(log), NEW top, UpTo(log, top),
           NEW a \in 1..(Len(log) + 1), NEW b \in 0..Len(log)
    PROVE  LET t == SubSeq(log, a, b)
           IN  /\ Growing(t) /\ Linked(t) /\ UpTo(t, top)
               /\ 1 \in 1..Len(t) => a \in 1..Len(log) /\ t[1] = log[a]
               /\ Len(t) = IF a <= b THEN b - a + 1 ELSE 0
<1> DEFINE t == SubSeq(log, a, b)
<1>1. Len(log) \in Nat /\ \A i \in 1..Len(log) : log[i] \in Entries
  BY EntryTypes
<1>2. a \in Int /\ b \in Int /\ \A i \in a..b : i \in 1..Len(log)
  BY <1>1
<1>3. /\ t \in Seq(Entries)
      /\ Len(t) = IF a <= b THEN b - a + 1 ELSE 0
      /\ \A i \in 1..(b - a + 1) : t[i] = log[a + i - 1]
  <2>1. \A i \in a..b : log[i] \in Entries
    BY <1>1, <1>2
  <2> QED BY <1>2, <2>1, SubSeqProperties
<1> HIDE DEF t
<1>4. \A i \in 1..Len(t) : a + i - 1 \in 1..Len(log) /\ t[i] = log[a + i - 1]
  BY <1>1, <1>3
<1>5. \A i, j \in 1..Len(t) : i < j => t[i].id < t[j].id
  <2> SUFFICES ASSUME NEW i \in 1..Len(t), NEW j \in 1..Len(t), i < j PROVE t[i].id < t[j].id
    OBVIOUS
  <2>1. a + i - 1 < a + j - 1
    BY <1>1
  <2>2. log[a + i - 1].id < log[a + j - 1].id
    BY <1>4, <2>1 DEF Growing
  <2> QED BY <1>4, <2>2
<1>6. \A i \in 1..Len(t) : t[i].parent < t[i].id /\ t[i].id <= top
  BY <1>4 DEF Growing, UpTo
<1>7. Linked(t)
  <2> SUFFICES ASSUME NEW i \in 1..Len(t), t[i].kind = "result"
               PROVE  /\ t[i].call = t[i].parent
                      /\ i > 1 => t[i - 1].kind = "call" /\ t[i - 1].id = t[i].parent
    BY DEF Linked
  <2> DEFINE k == a + i - 1
  <2>1. k \in 1..Len(log) /\ t[i] = log[k]
    BY <1>4
  <2>2. log[k].call = log[k].parent
    BY <2>1 DEF Linked
  <2>3. ASSUME i > 1 PROVE t[i - 1].kind = "call" /\ t[i - 1].id = t[i].parent
    <3>1. i - 1 \in 1..Len(t) /\ a + (i - 1) - 1 = k - 1 /\ k > 1
      BY <1>1, <1>3, <2>3
    <3>2. t[i - 1] = log[k - 1]
      BY <1>4, <3>1
    <3>3. log[k - 1].kind = "call" /\ log[k - 1].id = log[k].parent
      <4> HIDE DEF k
      <4> QED BY <2>1, <3>1 DEF Linked
    <3> QED BY <2>1, <3>2, <3>3
  <2> QED BY <2>1, <2>2, <2>3
<1>8. 1 \in 1..Len(t) => a \in 1..Len(log) /\ t[1] = log[a]
  <2> SUFFICES ASSUME 1 \in 1..Len(t) PROVE a \in 1..Len(log) /\ t[1] = log[a]
    OBVIOUS
  <2>1. a + 1 - 1 = a
    BY <1>1
  <2> QED BY <1>4, <2>1
<1> QED BY <1>3, <1>5, <1>6, <1>7, <1>8 DEF t, Growing, UpTo

(* A beginning of a sound session is sound: a file whose writing was cut off. *)
LEMMA PrefixSound ==
    ASSUME NEW log, Sound(log), NEW top, UpTo(log, top), NEW n \in 0..Len(log)
    PROVE  Sound(SubSeq(log, 1, n)) /\ UpTo(SubSeq(log, 1, n), top)
<1>1. Growing(log) /\ Linked(log)
  BY DEF Sound
<1>2. 1 \in 1..(Len(log) + 1)
  BY <1>1, EntryTypes
<1> DEFINE t == SubSeq(log, 1, n)
<1>3. /\ Growing(t) /\ Linked(t) /\ UpTo(t, top)
      /\ 1 \in 1..Len(t) => 1 \in 1..Len(log) /\ t[1] = log[1]
  BY <1>1, <1>2, PartLinked
<1> HIDE DEF t
<1>4. Sound(t)
  BY <1>3 DEF Sound
<1> QED BY <1>3, <1>4 DEF t

(* filterOrphanToolResults makes what is linked sound: a call goes with its result, for
   the result hangs on it.                                                         *)
LEMMA FilteredSound ==
    ASSUME NEW log, Growing(log), Linked(log), NEW top, UpTo(log, top)
    PROVE  Sound(FilterOrphanToolResults(log)) /\ UpTo(FilterOrphanToolResults(log), top)
<1> DEFINE places == {i \in 1..Len(log) : log[i].id \notin DroppedIds(log)}
           t == Selected(log, places)
<1>1. FilterOrphanToolResults(log) = t
  BY DEF FilterOrphanToolResults
<1>2. log \in Seq(Entries) /\ Len(log) \in Nat
  BY EntryTypes DEF Growing
<1>3. t \in Seq(Entries) /\ PickedFrom(t, log, places, Len(log))
  BY <1>2, SelectedPicks
<1>4. PICK h : Picked(t, h, log, places, Len(log))
  BY <1>3 DEF PickedFrom
<1> HIDE DEF t
<1>5. /\ \A i \in 1..Len(t) : h[i] \in 1..Len(log) /\ h[i] \in places /\ t[i] = log[h[i]]
      /\ \A i, j \in 1..Len(t) : i < j => h[i] < h[j]
  <2> HIDE DEF places
  <2> QED BY <1>4 DEF Picked
<1>6. Growing(t) /\ UpTo(t, top)
  <2>1. \A i, j \in 1..Len(t) : i < j => t[i].id < t[j].id
    <3> HIDE DEF places
    <3> QED BY <1>5 DEF Growing
  <2>2. \A i \in 1..Len(t) : t[i].parent < t[i].id /\ t[i].id <= top
    <3> HIDE DEF places
    <3> QED BY <1>5 DEF Growing, UpTo
  <2> QED BY <1>3, <2>1, <2>2 DEF Growing, UpTo
<1>7. ASSUME NEW i \in 1..Len(t), t[i].kind = "result"
      PROVE  /\ t[i].call = t[i].parent
             /\ i > 1 /\ t[i - 1].kind = "call" /\ t[i - 1].id = t[i].parent
  <2> DEFINE k == h[i]
  <2>1. k \in 1..Len(log) /\ t[i] = log[k] /\ log[k].id \notin DroppedIds(log)
    BY <1>5
  <2> HIDE DEF k
  <2>2. log[k].kind = "result" /\ log[k].call = log[k].parent
    BY <1>7, <2>1 DEF Linked
  <2>3. k # 1
    <3> SUFFICES ASSUME k = 1 PROVE FALSE
      OBVIOUS
    <3>1. log[1].id \in OrphanIds(log)
      BY <2>1, <2>2, FirstIsOrphan
    <3> QED BY <2>1, <3>1, DroppedClosed
  <2>4. k - 1 \in 1..Len(log) /\ k > 1
    BY <1>2, <2>1, <2>3
  <2>5. log[k - 1].kind = "call" /\ log[k - 1].id = log[k].parent
    BY <2>1, <2>2, <2>4 DEF Linked
  <2>6. log[k - 1].id \notin DroppedIds(log)
    BY <2>1, <2>2, <2>4, <2>5, DroppedClosed
  <2>7. i > 1 /\ h[i - 1] = k - 1
    <3>1. k - 1 \in places /\ Len(t) \in Nat
      BY <1>3, <2>4, <2>6
    <3> HIDE DEF places
    <3> QED BY <1>2, <1>4, <2>4, <3>1, PickedNext DEF k
  <2>8. i - 1 \in 1..Len(t)
    BY <1>3, <2>7
  <2>9. t[i - 1] = log[k - 1]
    BY <1>5, <2>7, <2>8
  <2> QED BY <2>1, <2>2, <2>5, <2>7, <2>9
<1>8. Linked(t)
  BY <1>7 DEF Linked
<1>9. 1 \in 1..Len(t) => t[1].kind # "result"
  BY <1>7
<1> QED BY <1>1, <1>6, <1>8, <1>9 DEF Sound

(* Whatever a rotation keeps is sound, and none of it is new. *)
LEMMA RotatedSound ==
    ASSUME NEW log, Sound(log), NEW top, UpTo(log, top)
    PROVE  Sound(RotatedEntries(log)) /\ UpTo(RotatedEntries(log), top)
<1>1. Growing(log) /\ Linked(log) /\ Len(log) \in Nat
  BY EntryTypes DEF Sound
<1>2. ASSUME NEW a \in 1..(Len(log) + 1)
      PROVE  /\ Sound(FilterOrphanToolResults(SubSeq(log, a, Len(log))))
             /\ UpTo(FilterOrphanToolResults(SubSeq(log, a, Len(log))), top)
  <2> DEFINE t == SubSeq(log, a, Len(log))
  <2>1. Len(log) \in 0..Len(log)
    BY <1>1
  <2>2. Growing(t) /\ Linked(t) /\ UpTo(t, top)
    BY <1>1, <2>1, PartLinked
  <2> HIDE DEF t
  <2>3. Sound(FilterOrphanToolResults(t)) /\ UpTo(FilterOrphanToolResults(t), top)
    BY <2>2, FilteredSound
  <2> QED BY <2>3 DEF t
<1> DEFINE none == Len(log) + 1
<1>3. none \in 1..(Len(log) + 1)
  BY <1>1
<1>4. \E a \in 1..(Len(log) + 1) : SelectTailEntries(log) = SubSeq(log, a, Len(log))
  <2> DEFINE fits == {i \in 1..Len(log) : SizeFrom(log, i) <= TailBudget}
             first == FirstOf(fits, none)
             starts == {i \in first..Len(log) : IsUserTurnStart(log[i])}
             start == FirstOf(starts, none)
  <2>1. SelectTailEntries(log) = SubSeq(log, start, Len(log))
    BY DEF SelectTailEntries
  <2>2. first \in 1..(Len(log) + 1)
    <3>1. fits \in SUBSET Nat /\ \A i \in fits : i \in 1..(Len(log) + 1)
      BY <1>1
    <3> HIDE DEF fits, none
    <3> QED BY <1>3, <3>1, FirstFound
  <2> HIDE DEF first
  <2>3. start \in 1..(Len(log) + 1)
    <3>1. starts \in SUBSET Nat /\ \A i \in starts : i \in 1..(Len(log) + 1)
      BY <1>1, <2>2
    <3> HIDE DEF starts, none
    <3> QED BY <1>3, <3>1, FirstFound
  <2> QED BY <2>1, <2>3
<1>5. CASE RotatedEntries(log) = FilterOrphanToolResults(SelectTailEntries(log))
  BY <1>2, <1>4, <1>5
<1>6. CASE RotatedEntries(log) # FilterOrphanToolResults(SelectTailEntries(log))
  <2> DEFINE anchor == FindLastCompaction(log)
             named  == {i \in 1..Len(log) : log[i].id = log[anchor].kept}
             first  == FirstOf(named, none)
             a      == IF first < anchor THEN first ELSE anchor
  <2>1. /\ anchor # 0 /\ first <= Len(log)
        /\ RotatedEntries(log) = FilterOrphanToolResults(SubSeq(log, a, Len(log)))
    BY <1>6 DEF RotatedEntries
  <2>2. anchor \in 1..Len(log)
    <3> DEFINE found == {i \in 1..Len(log) : log[i].kind = "compaction"}
    <3>1. anchor = LastOf(found) /\ found \in SUBSET (1..Len(log))
      BY DEF FindLastCompaction
    <3> HIDE DEF found, anchor
    <3>2. IF found = {} THEN anchor = 0 ELSE anchor \in found
      BY <1>1, <3>1, LastFound
    <3> QED BY <2>1, <3>1, <3>2 DEF anchor
  <2>3. first \in 1..(Len(log) + 1)
    <3>1. named \in SUBSET Nat /\ \A i \in named : i \in 1..(Len(log) + 1)
      BY <1>1
    <3> HIDE DEF named, none
    <3> QED BY <1>3, <3>1, FirstFound
  <2> HIDE DEF anchor, first
  <2>4. a \in 1..(Len(log) + 1)
    BY <1>1, <2>2, <2>3
  <2> QED BY <1>2, <2>1, <2>4
<1> QED BY <1>5, <1>6

-----------------------------------------------------------------------------
(* The session directory *)

Files == [name : Nat, kind : {"jsonl", "archived"}, header : BOOLEAN, log : Seq(Entries)]

\* The directory: a name is that of one session file, and each of those is sound.
DirOK(files, top) ==
    /\ files \in Seq(Files)
    /\ \A i \in 1..Len(files) :
            files[i].kind = "jsonl" => Sound(files[i].log) /\ UpTo(files[i].log, top)
    /\ \A i, j \in 1..Len(files) :
            files[i].kind = "jsonl" /\ files[j].kind = "jsonl" /\ files[i].name = files[j].name
            => i = j

\* What an agent has in memory is what is in the file it writes to.
InFile(r, files) ==
    \E i \in 1..Len(files) :
        files[i].kind = "jsonl" /\ files[i].name = r.file /\ files[i].log = r.log

(* The types of what the directory holds. *)
LEMMA FileTypes ==
    ASSUME NEW files, NEW top, DirOK(files, top)
    PROVE  /\ Len(files) \in Nat
           /\ \A i \in 1..Len(files) : /\ files[i] \in Files
                                       /\ files[i].name \in Nat
                                       /\ files[i].log \in Seq(Entries)
<1>1. files \in Seq(Files)
  BY DEF DirOK
<1>2. \A i \in 1..Len(files) : files[i] \in Files
  BY <1>1
<1>3. \A f \in Files : f.name \in Nat /\ f.log \in Seq(Entries)
  BY DEF Files
<1> QED BY <1>1, <1>2, <1>3

(* A new file, under a name that no session file has. *)
LEMMA NewFileOK ==
    ASSUME NEW files, NEW top, DirOK(files, top),
           NEW f \in Files, f.kind = "jsonl", Sound(f.log), UpTo(f.log, top),
           \A i \in 1..Len(files) : files[i].kind = "jsonl" => files[i].name # f.name
    PROVE  /\ DirOK(Append(files, f), top)
           /\ \A r : r.file = f.name /\ r.log = f.log => InFile(r, Append(files, f))
<1> DEFINE t == Append(files, f)
<1>1. files \in Seq(Files) /\ Len(files) \in Nat
  BY DEF DirOK
<1>2. /\ t \in Seq(Files) /\ Len(t) = Len(files) + 1 /\ t[Len(files) + 1] = f
      /\ \A i \in 1..Len(files) : t[i] = files[i]
      /\ \A i \in 1..Len(t) : i \in 1..Len(files) \/ i = Len(files) + 1
      /\ Len(files) + 1 \in 1..Len(t)
  BY <1>1
<1> HIDE DEF t
<1>3. \A i \in 1..Len(t) : t[i].kind = "jsonl" => Sound(t[i].log) /\ UpTo(t[i].log, top)
  BY <1>2 DEF DirOK
<1>4. ASSUME NEW i \in 1..Len(t), NEW j \in 1..Len(t),
             t[i].kind = "jsonl", t[j].kind = "jsonl", t[i].name = t[j].name
      PROVE  i = j
  <2>1. CASE i \in 1..Len(files) /\ j \in 1..Len(files)
    <3>1. t[i] = files[i] /\ t[j] = files[j]
      BY <1>2, <2>1
    <3> QED BY <1>4, <2>1, <3>1 DEF DirOK
  <2>2. CASE i = Len(files) + 1 \/ j = Len(files) + 1
    BY <1>2, <1>4, <2>2
  <2> QED BY <1>2, <2>1, <2>2
<1>5. \A r : r.file = f.name /\ r.log = f.log => InFile(r, t)
  BY <1>2 DEF InFile
<1> QED BY <1>2, <1>3, <1>4, <1>5 DEF DirOK, t

(* Some of the files go. *)
LEMMA SelectedOK ==
    ASSUME NEW files, NEW top, DirOK(files, top), NEW places
    PROVE  LET t == Selected(files, places)
           IN  /\ DirOK(t, top)
               /\ \A i \in 1..Len(t) : \E k \in 1..Len(files) : k \in places /\ t[i] = files[k]
<1> DEFINE t == Selected(files, places)
<1>1. files \in Seq(Files)
  BY DEF DirOK
<1>2. t \in Seq(Files) /\ PickedFrom(t, files, places, Len(files))
  BY <1>1, SelectedPicks
<1> HIDE DEF t
<1>3. PICK h : Picked(t, h, files, places, Len(files))
  BY <1>2 DEF PickedFrom
<1>4. \A i \in 1..Len(t) : h[i] \in 1..Len(files) /\ h[i] \in places /\ t[i] = files[h[i]]
  BY <1>3 DEF Picked
<1>5. \A i \in 1..Len(t) : t[i].kind = "jsonl" => Sound(t[i].log) /\ UpTo(t[i].log, top)
  BY <1>4 DEF DirOK
<1>6. ASSUME NEW i \in 1..Len(t), NEW j \in 1..Len(t),
             t[i].kind = "jsonl", t[j].kind = "jsonl", t[i].name = t[j].name
      PROVE  i = j
  <2>1. h[i] = h[j]
    BY <1>4, <1>6 DEF DirOK
  <2>2. /\ i < j => h[i] < h[j]
        /\ j < i => h[j] < h[i]
    BY <1>3 DEF Picked
  <2>3. h[i] \in Nat /\ h[j] \in Nat /\ Len(t) \in Nat
    BY <1>1, <1>2, <1>4
  <2> QED BY <2>1, <2>2, <2>3
<1>7. DirOK(t, top)
  BY <1>2, <1>5, <1>6 DEF DirOK
<1> QED BY <1>4, <1>7 DEF t

(* A file is renamed. *)
LEMMA ArchivedOK ==
    ASSUME NEW files, NEW top, DirOK(files, top), NEW name
    PROVE  DirOK(Archived(files, name), top)
<1> DEFINE t == Archived(files, name)
<1>1. Len(files) \in Nat /\ \A i \in 1..Len(files) : files[i] \in Files
  BY FileTypes
<1>2. t = [i \in 1..Len(files) |-> IF files[i].name = name
                                   THEN [files[i] EXCEPT !.kind = "archived"] ELSE files[i]]
  BY DEF Archived
<1>3. ASSUME NEW i \in 1..Len(files)
      PROVE  /\ t[i] \in Files
             /\ t[i].kind = "jsonl" => t[i] = files[i]
  <2>1. files[i] \in Files
    BY <1>1
  <2>2. [files[i] EXCEPT !.kind = "archived"] \in Files
        /\ [files[i] EXCEPT !.kind = "archived"].kind = "archived"
    BY <2>1 DEF Files
  <2>3. t[i] = IF files[i].name = name THEN [files[i] EXCEPT !.kind = "archived"] ELSE files[i]
    BY <1>2
  <2> QED BY <2>1, <2>2, <2>3
<1>4. t = [i \in 1..Len(files) |-> t[i]]
  BY <1>2
<1> HIDE DEF t
<1>5. t \in Seq(Files) /\ Len(t) = Len(files)
  <2>1. t \in [1..Len(files) -> Files]
    BY <1>3, <1>4
  <2>2. t \in Seq(Files)
    BY <1>1, <2>1
  <2> QED BY <1>1, <2>1, <2>2
<1>6. \A i \in 1..Len(t) : t[i].kind = "jsonl" => Sound(t[i].log) /\ UpTo(t[i].log, top)
  BY <1>3, <1>5 DEF DirOK
<1>7. \A i, j \in 1..Len(t) :
        t[i].kind = "jsonl" /\ t[j].kind = "jsonl" /\ t[i].name = t[j].name => i = j
  BY <1>3, <1>5 DEF DirOK
<1> QED BY <1>5, <1>6, <1>7 DEF DirOK, t

(* More ids are given away. *)
LEMMA TopGrows ==
    ASSUME NEW files, NEW top \in Nat, DirOK(files, top)
    PROVE  DirOK(files, top + 1)
<1>1. ASSUME NEW i \in 1..Len(files), files[i].kind = "jsonl"
      PROVE  Sound(files[i].log) /\ UpTo(files[i].log, top + 1)
  <2>1. Sound(files[i].log) /\ UpTo(files[i].log, top)
    BY <1>1 DEF DirOK
  <2>2. \A j \in 1..Len(files[i].log) : files[i].log[j].id \in Nat
    BY <2>1, EntryTypes DEF Sound
  <2> QED BY <2>1, <2>2 DEF UpTo
<1> QED BY <1>1 DEF DirOK

(* No session file and no process has the fresh name, and it is a natural: there are not
   more names in use than files and processes.                                        *)
LEMMA FreshIsNew ==
    ASSUME Len(dir) \in Nat
    PROVE  FreshName \in Nat /\ FreshName \notin UsedNames
<1> DEFINE n == Len(dir)
           m == Cardinality(Pids)
           inDir   == [i \in 1..n |-> dir[i].name]
           inUse   == [p \in Pids |-> server[p].file]
           names   == {dir[i].name : i \in 1..n}
           files   == {server[p].file : p \in Pids}
<1>1. n \in Nat /\ m \in Nat /\ IsFiniteSet(Pids)
  BY ProcessAssumption, FS_CardinalityType
<1>2. IsFiniteSet(1..n) /\ Cardinality(1..n) = n
  <2>1. 0 \in Int /\ 1 \in Int /\ n \in Int
    BY <1>1
  <2>2. IsFiniteSet(1..n) /\ Cardinality(1..n) = IF 1 > n THEN 0 ELSE n - 1 + 1
    BY <2>1, FS_Interval
  <2> QED BY <1>1, <2>2
<1>3. IsFiniteSet(names) /\ Cardinality(names) <= n
  <2>1. inDir \in Surjection(1..n, names)
    BY DEF Surjection
  <2> HIDE DEF inDir, names, n
  <2> QED BY <1>2, <2>1, FS_Surjection
<1>4. IsFiniteSet(files) /\ Cardinality(files) <= m
  <2>1. inUse \in Surjection(Pids, files)
    BY DEF Surjection
  <2> HIDE DEF inUse, files
  <2> QED BY <1>1, <2>1, FS_Surjection
<1>5. UsedNames = names \cup files
  BY DEF UsedNames
<1> HIDE DEF n, m, names, files
<1>6. IsFiniteSet(UsedNames) /\ Cardinality(UsedNames) <= n + m
  <2>1. /\ IsFiniteSet(names \cup files)
        /\ Cardinality(names \cup files)
              = Cardinality(names) + Cardinality(files) - Cardinality(names \cap files)
    BY <1>3, <1>4, FS_Union
  <2>2. IsFiniteSet(names \cap files)
    BY <1>3, FS_Intersection
  <2>3. /\ Cardinality(names) \in Nat /\ Cardinality(files) \in Nat
        /\ Cardinality(names \cap files) \in Nat
    BY <1>3, <1>4, <2>2, FS_CardinalityType
  <2> QED BY <1>1, <1>3, <1>4, <1>5, <2>1, <2>3
<1> DEFINE free == {k \in 1..(n + m + 1) : k \notin UsedNames}
<1>7. free # {}
  <2>1. SUFFICES ASSUME 1..(n + m + 1) \subseteq UsedNames PROVE FALSE
    OBVIOUS
  <2>2. Cardinality(1..(n + m + 1)) = n + m + 1
    <3>1. PICK b \in Nat : b = n + m + 1
      BY <1>1
    <3>2. b \in Int /\ 1 \in Int
      OBVIOUS
    <3>3. Cardinality(1..b) = IF 1 > b THEN 0 ELSE b - 1 + 1
      BY <3>2, FS_Interval
    <3>4. b >= 1 /\ b - 1 + 1 = b
      BY <1>1, <3>1
    <3>5. Cardinality(1..b) = b
      BY <3>3, <3>4
    <3> QED BY <3>1, <3>5
  <2>3. Cardinality(1..(n + m + 1)) <= Cardinality(UsedNames)
    BY <1>6, <2>1, FS_Subset
  <2>4. Cardinality(UsedNames) \in Nat
    BY <1>6, FS_CardinalityType
  <2> QED BY <1>1, <1>6, <2>2, <2>3, <2>4
<1>8. PICK k \in free : \A j \in free : k <= j
  <2>1. free \in SUBSET Nat
    BY <1>1
  <2> HIDE DEF free
  <2> QED BY <1>7, <2>1, LeastNatural
<1>9. k \in 1..(n + m + 1) /\ k \notin UsedNames /\ \A j \in 1..(k - 1) : j \in UsedNames
  <2>1. k \in 1..(n + m + 1) /\ k \notin UsedNames
    OBVIOUS
  <2>2. ASSUME NEW j \in 1..(k - 1) PROVE j \in UsedNames
    <3>1. j \in 1..(n + m + 1) /\ ~(k <= j)
      BY <1>1, <2>1
    <3> QED BY <1>8, <3>1
  <2> QED BY <2>1, <2>2
<1> HIDE DEF free
<1>10. FreshName \in 1..(n + m + 1) /\ FreshName \notin UsedNames
  BY <1>9 DEF FreshName, n, m
<1> QED BY <1>1, <1>10

(* What follows in a session keeps it sound, and its id is new. *)
LEMMA FollowingSound ==
    ASSUME NEW log, Sound(log), written \in Seq(Entries), UpTo(log, Len(written)),
           NEW e \in Following(log)
    PROVE  e \in Entries /\ Sound(Append(log, e)) /\ UpTo(Append(log, e), Len(written) + 1)
<1> DEFINE top == Len(written)
           last == IF log = <<>> THEN "none" ELSE log[Len(log)].kind
           n == Len(log)
<1>1. /\ Growing(log) /\ Linked(log) /\ log \in Seq(Entries)
      /\ n \in Nat /\ top \in Nat /\ (log = <<>> <=> n = 0)
  BY DEF Sound, Growing
<1>2. \A i \in 1..n : log[i] \in Entries /\ log[i].id \in Nat /\ log[i].id <= top
  BY <1>1, EntryTypes DEF UpTo
<1>3. PICK kind, call, kept :
        /\ e = [id |-> top + 1, kind |-> kind, call |-> call, kept |-> kept,
                parent |-> IF log = <<>> THEN 0 ELSE log[n].id]
        /\ \/ kind = "user" /\ call = 0 /\ kept = 0
           \/ kind = "result" /\ last = "call" /\ call = log[n].id /\ kept = 0
           \/ kind \in {"call", "reply"} /\ last \in {"user", "result"} /\ call = 0 /\ kept = 0
           \/ kind = "compaction" /\ last = "reply" /\ call = 0 /\ kept \in CutPoints(log)
  BY DEF Following
<1>4. /\ e.id = top + 1 /\ e.kind = kind /\ e.call = call /\ e.kept = kept
      /\ e.parent = IF log = <<>> THEN 0 ELSE log[n].id
  BY <1>3
<1>5. CutPoints(log) \subseteq Nat
  BY <1>2 DEF CutPoints
<1>6. n # 0 => n \in 1..n /\ log[n].id \in Nat /\ log[n].id <= top
  BY <1>1, <1>2
<1>7. e.parent \in Nat /\ e.parent < e.id /\ e.id \in Nat
  BY <1>1, <1>4, <1>6
<1>8. e.kind = "result" =>
        n # 0 /\ log[n].kind = "call" /\ e.call = log[n].id /\ e.parent = log[n].id
  BY <1>1, <1>3, <1>4
<1>9. e \in Entries
  <2>1. kind \in Kinds /\ kept \in Nat
    BY <1>3, <1>5 DEF Kinds
  <2>2. call \in Nat
    <3>1. CASE kind = "result"
      BY <1>4, <1>6, <1>8, <3>1
    <3>2. CASE kind # "result"
      BY <1>3, <3>2
    <3> QED BY <3>1, <3>2
  <2> QED BY <1>3, <1>4, <1>7, <2>1, <2>2 DEF Entries
<1> DEFINE t == Append(log, e)
<1>10. /\ t \in Seq(Entries) /\ Len(t) = n + 1 /\ t[n + 1] = e
       /\ \A i \in 1..n : t[i] = log[i]
       /\ \A i \in 1..Len(t) : i \in 1..n \/ i = n + 1
  BY <1>1, <1>9
<1> HIDE DEF t
<1>11. UpTo(t, top + 1)
  <2> SUFFICES ASSUME NEW i \in 1..Len(t) PROVE t[i].id <= top + 1
    BY DEF UpTo
  <2>1. CASE i \in 1..n
    <3>1. t[i].id \in Nat /\ t[i].id <= top
      BY <1>2, <1>10, <2>1
    <3> QED BY <1>1, <3>1
  <2>2. CASE i = n + 1
    BY <1>1, <1>4, <1>10, <2>2
  <2> QED BY <1>10, <2>1, <2>2
<1>12. Growing(t)
  <2>1. ASSUME NEW i \in 1..Len(t), NEW j \in 1..Len(t), i < j PROVE t[i].id < t[j].id
    <3>1. CASE j \in 1..n
      <4>1. i \in 1..n
        BY <1>1, <1>10, <2>1, <3>1
      <4>2. log[i].id < log[j].id
        BY <1>1, <2>1, <3>1, <4>1 DEF Growing
      <4> QED BY <1>10, <3>1, <4>1, <4>2
    <3>2. CASE j = n + 1
      <4>1. i \in 1..n
        BY <1>1, <1>10, <2>1, <3>2
      <4>2. log[i].id \in Nat /\ log[i].id <= top /\ t[i] = log[i] /\ t[j] = e
        BY <1>2, <1>10, <3>2, <4>1
      <4> QED BY <1>1, <1>4, <4>2
    <3> QED BY <1>10, <3>1, <3>2
  <2>2. ASSUME NEW i \in 1..Len(t) PROVE t[i].parent < t[i].id
    <3>1. CASE i \in 1..n
      <4>1. log[i].parent < log[i].id
        BY <1>1, <3>1 DEF Growing
      <4> QED BY <1>10, <3>1, <4>1
    <3>2. CASE i = n + 1
      BY <1>7, <1>10, <3>2
    <3> QED BY <1>10, <3>1, <3>2
  <2> QED BY <1>10, <2>1, <2>2 DEF Growing
<1>13. Linked(t)
  <2> SUFFICES ASSUME NEW i \in 1..Len(t), t[i].kind = "result"
               PROVE  /\ t[i].call = t[i].parent
                      /\ i > 1 => t[i - 1].kind = "call" /\ t[i - 1].id = t[i].parent
    BY DEF Linked
  <2>1. CASE i \in 1..n
    <3>1. t[i] = log[i] /\ (i > 1 => t[i - 1] = log[i - 1])
      <4>1. i > 1 => i - 1 \in 1..n
        BY <1>1, <2>1
      <4> QED BY <1>10, <2>1, <4>1
    <3>2. /\ log[i].call = log[i].parent
          /\ i > 1 => log[i - 1].kind = "call" /\ log[i - 1].id = log[i].parent
      BY <1>1, <2>1, <3>1 DEF Linked
    <3> QED BY <3>1, <3>2
  <2>2. CASE i = n + 1
    <3>1. t[i] = e
      BY <1>10, <2>2
    <3>2. n # 0 /\ log[n].kind = "call" /\ e.call = log[n].id /\ e.parent = log[n].id
      BY <1>8, <3>1
    <3>3. n \in 1..n /\ i - 1 = n
      BY <1>1, <2>2, <3>2
    <3>4. t[i - 1] = log[n]
      BY <1>10, <3>3
    <3> QED BY <3>1, <3>2, <3>4
  <2> QED BY <1>10, <2>1, <2>2
<1>14. t[1].kind # "result"
  <2>1. CASE n = 0
    BY <1>8, <1>10, <2>1
  <2>2. CASE n # 0
    <3>1. 1 \in 1..n
      BY <1>1, <2>2
    <3>2. log[1].kind # "result"
      BY <3>1 DEF Sound
    <3> QED BY <1>10, <3>1, <3>2
  <2> QED BY <2>1, <2>2
<1>15. Sound(t)
  BY <1>12, <1>13, <1>14 DEF Sound
<1> QED BY <1>9, <1>11, <1>15 DEF t

(* appendFileSync takes the file of that name out and puts it last, with the entry. *)
LEMMA AppendedIs ==
    ASSUME NEW top, DirOK(dir, top), NEW k \in 1..Len(dir), dir[k].kind = "jsonl", NEW e
    PROVE  Appended(dir[k].name, e)
             = Append(Selected(dir, (1..Len(dir)) \ {k}),
                      [dir[k] EXCEPT !.log = Append(dir[k].log, e)])
<1> DEFINE places == {i \in 1..Len(dir) : dir[i].name = dir[k].name /\ dir[i].kind = "jsonl"}
<1>1. places = {k}
  <2>1. ASSUME NEW i \in places PROVE i = k
    BY <2>1 DEF DirOK
  <2>2. k \in places
    OBVIOUS
  <2> QED BY <2>1, <2>2
<1>2. Appended(dir[k].name, e)
        = Append(Selected(dir, (1..Len(dir)) \ places),
                 [(IF places = {} THEN SessionFile(dir[k].name, FALSE, <<>>)
                   ELSE dir[CHOOSE i \in places : TRUE]) EXCEPT !.log = Append(@, e)])
  BY DEF Appended
<1>3. (CHOOSE i \in places : TRUE) = k
  BY <1>1
<1> HIDE DEF places
<1> QED BY <1>1, <1>2, <1>3

(* It leaves that file, the entry in it, and the other files. *)
LEMMA AppendedOK ==
    ASSUME NEW top \in Nat, DirOK(dir, top), NEW k \in 1..Len(dir), dir[k].kind = "jsonl",
           NEW e \in Entries, Sound(Append(dir[k].log, e)), UpTo(Append(dir[k].log, e), top + 1)
    PROVE  /\ DirOK(Appended(dir[k].name, e), top + 1)
           /\ \A r : r.file = dir[k].name /\ r.log = Append(dir[k].log, e)
                     => InFile(r, Appended(dir[k].name, e))
<1> DEFINE others == (1..Len(dir)) \ {k}
           rest   == Selected(dir, others)
           f      == [dir[k] EXCEPT !.log = Append(dir[k].log, e)]
<1>1. Appended(dir[k].name, e) = Append(rest, f)
  BY AppendedIs
<1>2. dir[k] \in Files /\ dir[k].log \in Seq(Entries)
  BY FileTypes
<1>3. f \in Files /\ f.kind = "jsonl" /\ f.name = dir[k].name /\ f.log = Append(dir[k].log, e)
  <2>1. Append(dir[k].log, e) \in Seq(Entries)
    BY <1>2
  <2> QED BY <1>2, <2>1 DEF Files
<1> HIDE DEF f
<1>4. DirOK(dir, top + 1)
  BY TopGrows
<1>5. /\ DirOK(rest, top + 1)
      /\ \A i \in 1..Len(rest) : \E j \in 1..Len(dir) : j \in others /\ rest[i] = dir[j]
  <2> HIDE DEF others
  <2> QED BY <1>4, SelectedOK
<1>6. \A i \in 1..Len(rest) : rest[i].kind = "jsonl" => rest[i].name # f.name
  <2> SUFFICES ASSUME NEW i \in 1..Len(rest), rest[i].kind = "jsonl", rest[i].name = f.name
               PROVE  FALSE
    OBVIOUS
  <2>1. PICK j \in 1..Len(dir) : j \in others /\ rest[i] = dir[j]
    BY <1>5
  <2>2. j # k /\ dir[j].name = dir[k].name /\ dir[j].kind = "jsonl"
    BY <1>3, <2>1
  <2> QED BY <2>2 DEF DirOK
<1> HIDE DEF rest
<1>7. Sound(f.log) /\ UpTo(f.log, top + 1)
  BY <1>3
<1>8. /\ DirOK(Append(rest, f), top + 1)
      /\ \A r : r.file = f.name /\ r.log = f.log => InFile(r, Append(rest, f))
  BY <1>3, <1>5, <1>6, <1>7, NewFileOK
<1> QED BY <1>1, <1>3, <1>8

\* What holds of the sessions, in memory and in the directory.
SessionInv ==
    /\ written \in Seq(Entries)
    /\ DirOK(dir, Len(written))
    /\ \A p \in Pids : HasSession(p) => InFile(server[p], dir)

(* The sessions when one process, the only one that runs, has taken a step. *)
LEMMA LoneStep ==
    ASSUME IInv, OneShell, NEW p \in Pids, Running(p), NEW r,
           server' = [server EXCEPT ![p] = r],
           (written \in Seq(Entries))', DirOK(dir, Len(written))',
           r.at \in {"open", "up", "closing"} => InFile(r, dir')
    PROVE  SessionInv'
<1>1. server'[p] = r /\ \A q \in Pids \ {p} : server'[q] = server[q]
  BY DEF IInv, Typed
<1>2. PICK s \in Shells : Progress(s) /\ command[s].at \in Stages
  BY ProcessAssumption DEF IInv, Typed
<1>3. \E o : Only(o)
  BY <1>2 DEF Progress, Between, Starting, Stopping, Stages
<1>4. \A q \in Pids \ {p} : ~Running(q)
  BY <1>3 DEF Only
<1>5. \A q \in Pids : HasSession(q)' => InFile(server[q], dir)'
  BY <1>1, <1>4 DEF HasSession, Running
<1> QED BY <1>5 DEF SessionInv

\* A process may have ended or have gone on, but none has a new session or rotates one.
NoneOpens ==
    \A p \in Pids :
        /\ HasSession(p)' =>
              HasSession(p) /\ server'[p].file = server[p].file /\ server'[p].log = server[p].log
        /\ server'[p].at = "rotating" =>
              server[p].at = "rotating" /\ server'[p].file = server[p].file

(* The sessions when one process has ended, or is at another step of its life. *)
LEMMA NoNewSession ==
    ASSUME SessionInv, UNCHANGED <<dir, written>>, NoneOpens
    PROVE  SessionInv'
<1>1. ASSUME NEW p \in Pids, HasSession(p)' PROVE InFile(server[p], dir)'
  <2>1. InFile(server[p], dir)
    BY <1>1 DEF SessionInv, NoneOpens
  <2> QED BY <1>1, <2>1 DEF InFile, NoneOpens
<1>2. (written \in Seq(Entries))' /\ DirOK(dir, Len(written))'
  BY DEF SessionInv
<1> QED BY <1>1, <1>2 DEF SessionInv

(* The newest session file, when there is one. *)
LEMMA NewestSound ==
    ASSUME NEW top, DirOK(dir, top), FindMostRecentSession # 0
    PROVE  /\ FindMostRecentSession \in 1..Len(dir) /\ Newest.kind = "jsonl"
           /\ Sound(Newest.log) /\ UpTo(Newest.log, top)
<1> DEFINE found == {i \in 1..Len(dir) : dir[i].kind = "jsonl"}
<1>1. Len(dir) \in Nat
  BY FileTypes
<1>2. FindMostRecentSession = LastOf(found) /\ found \in SUBSET (1..Len(dir))
  BY DEF FindMostRecentSession
<1>3. FindMostRecentSession \in found
  <2> HIDE DEF found
  <2> QED BY <1>1, <1>2, LastFound
<1> QED BY <1>3 DEF DirOK, Newest

(* A new session file, as a rotation or the first start of an agent writes it. *)
LEMMA FreshFileOK ==
    ASSUME NEW top, DirOK(dir, top), NEW log, Sound(log), UpTo(log, top)
    PROVE  /\ DirOK(Append(dir, SessionFile(FreshName, TRUE, log)), top)
           /\ \A r : r.file = FreshName /\ r.log = log
                     => InFile(r, Append(dir, SessionFile(FreshName, TRUE, log)))
<1> DEFINE f == SessionFile(FreshName, TRUE, log)
<1>1. FreshName \in Nat /\ FreshName \notin UsedNames
  BY FileTypes, FreshIsNew
<1>2. log \in Seq(Entries)
  BY DEF Sound, Growing
<1>3. f = [name |-> FreshName, kind |-> "jsonl", header |-> TRUE, log |-> log]
  BY DEF SessionFile
<1> HIDE DEF f
<1>4. f \in Files /\ f.kind = "jsonl" /\ f.name = FreshName /\ f.log = log
  <2>1. f.kind = "jsonl" /\ f.name = FreshName /\ f.log = log
    BY <1>3
  <2>2. \A name \in Nat, l \in Seq(Entries) :
          [name |-> name, kind |-> "jsonl", header |-> TRUE, log |-> l] \in Files
    BY DEF Files
  <2>3. f \in Files
    BY <1>1, <1>2, <1>3, <2>2
  <2> QED BY <2>1, <2>3
<1>5. \A i \in 1..Len(dir) : dir[i].name # f.name
  BY <1>1, <1>4 DEF UsedNames
<1>6. /\ DirOK(Append(dir, f), top)
      /\ \A r : r.file = f.name /\ r.log = f.log => InFile(r, Append(dir, f))
  BY <1>4, <1>5, NewFileOK
<1> QED BY <1>4, <1>6 DEF f

(* A rotation writes a part of what is sound, all of it or the lines before a kill. *)
LEMMA WriteRotatedFileKeeps ==
    ASSUME IInv, OneShell, SessionInv, NEW p \in Pids, WriteRotatedFile(p)
    PROVE  SessionInv'
<1> DEFINE entries == RotatedEntries(Newest.log)
           top == Len(written)
<1>1. PICK n \in LinesWritten(Len(entries)) :
        /\ dir' = Append(dir, SessionFile(FreshName, TRUE, SubSeq(entries, 1, n)))
        /\ server' = [server EXCEPT ![p] =
                        IF n < Len(entries) THEN Dead
                        ELSE [at |-> "rotating", file |-> Newest.name, log |-> <<>>]]
  BY DEF WriteRotatedFile
<1>2. DirOK(dir, top) /\ FindMostRecentSession # 0
  BY DEF SessionInv, WriteRotatedFile
<1>3. Sound(Newest.log) /\ UpTo(Newest.log, top)
  BY <1>2, NewestSound
<1>4. Sound(entries) /\ UpTo(entries, top)
  BY <1>3, RotatedSound
<1> HIDE DEF entries
<1>5. n \in 0..Len(entries)
  <2>1. Len(entries) \in Nat
    BY <1>4 DEF Sound, Growing
  <2> QED BY <2>1 DEF LinesWritten
<1> DEFINE log == SubSeq(entries, 1, n)
<1>6. Sound(log) /\ UpTo(log, top)
  BY <1>4, <1>5, PrefixSound
<1>7. dir' = Append(dir, SessionFile(FreshName, TRUE, log))
  BY <1>1
<1> HIDE DEF log
<1>8. DirOK(dir', top)
  BY <1>2, <1>6, <1>7, FreshFileOK
<1>9. UNCHANGED written
  BY DEF WriteRotatedFile
<1>10. PICK r : /\ server' = [server EXCEPT ![p] = r]
                /\ r.at \notin {"open", "up", "closing"}
  <2>1. /\ Dead.at \notin {"open", "up", "closing"}
        /\ [at |-> "rotating", file |-> Newest.name, log |-> <<>>].at
              \notin {"open", "up", "closing"}
    BY DEF Dead
  <2> QED BY <1>1, <2>1
<1>11. Running(p)
  BY DEF WriteRotatedFile, Running
<1>12. (written \in Seq(Entries))' /\ DirOK(dir, Len(written))'
  BY <1>8, <1>9 DEF SessionInv
<1> QED BY <1>10, <1>11, <1>12, LoneStep

(* The archives are no sessions. *)
LEMMA ArchiveOldFileKeeps ==
    ASSUME IInv, OneShell, SessionInv, NEW p \in Pids, ArchiveOldFile(p)
    PROVE  SessionInv'
<1> DEFINE top == Len(written)
           files == Archived(dir, server[p].file)
<1>1. dir' = PruneArchives(files) /\ UNCHANGED written /\ Running(p)
  BY DEF ArchiveOldFile, Running
<1>2. DirOK(files, top)
  BY ArchivedOK DEF SessionInv
<1> HIDE DEF files
<1>3. PICK places : dir' = Selected(files, places)
  BY <1>1 DEF PruneArchives
<1>4. DirOK(dir', top)
  BY <1>2, <1>3, SelectedOK
<1>5. PICK r : server' = [server EXCEPT ![p] = r] /\ r.at = "rotated"
  <2> DEFINE r == [server[p] EXCEPT !.at = "rotated", !.file = 0]
  <2>1. server' = [server EXCEPT ![p] = r]
    BY DEF ArchiveOldFile
  <2>2. server[p] = [at |-> server[p].at, file |-> server[p].file, log |-> server[p].log]
    BY DEF IInv, Typed, IsProcess
  <2>3. r.at = "rotated"
    BY <2>2
  <2> QED BY <2>1, <2>3
<1>6. (written \in Seq(Entries))' /\ DirOK(dir, Len(written))'
  BY <1>1, <1>4 DEF SessionInv
<1> QED BY <1>1, <1>5, <1>6, LoneStep

(* An agent that starts has in memory what the file holds that it opened or made. *)
LEMMA OpenSessionKeeps ==
    ASSUME IInv, OneShell, SessionInv, NEW p \in Pids, OpenSession(p)
    PROVE  SessionInv'
<1> DEFINE top == Len(written)
<1>1. UNCHANGED written /\ Running(p) /\ DirOK(dir, top)
  BY DEF OpenSession, Running, SessionInv
<1>2. CASE FindMostRecentSession # 0
  <2> DEFINE r == [at |-> "open", file |-> Newest.name, log |-> Newest.log]
  <2>1. server' = [server EXCEPT ![p] = r] /\ dir' = dir
    BY <1>2 DEF OpenSession
  <2>2. FindMostRecentSession \in 1..Len(dir) /\ Newest.kind = "jsonl"
    BY <1>1, <1>2, NewestSound
  <2>3. InFile(r, dir')
    BY <2>1, <2>2 DEF InFile, Newest
  <2>4. (written \in Seq(Entries))' /\ DirOK(dir, Len(written))'
    BY <1>1, <2>1 DEF SessionInv
  <2> HIDE DEF r
  <2> QED BY <1>1, <2>1, <2>3, <2>4, LoneStep
<1>3. CASE FindMostRecentSession = 0
  <2> DEFINE r == [at |-> "open", file |-> FreshName, log |-> <<>>]
  <2>1. /\ server' = [server EXCEPT ![p] = r]
        /\ dir' = Append(dir, SessionFile(FreshName, TRUE, <<>>))
    BY <1>3 DEF OpenSession
  <2>2. Sound(<<>>) /\ UpTo(<<>>, top)
    BY DEF Sound, Growing, Linked, UpTo
  <2>3. DirOK(dir', top) /\ InFile(r, dir')
    BY <1>1, <2>1, <2>2, FreshFileOK
  <2>4. (written \in Seq(Entries))' /\ DirOK(dir, Len(written))'
    BY <1>1, <2>3 DEF SessionInv
  <2> HIDE DEF r
  <2> QED BY <1>1, <2>1, <2>3, <2>4, LoneStep
<1> QED BY <1>2, <1>3

(* The entry goes to the file and to memory alike. *)
LEMMA AppendEntryKeeps ==
    ASSUME IInv, OneShell, SessionInv, NEW p \in Pids, AppendEntry(p)
    PROVE  SessionInv'
<1> DEFINE top == Len(written)
<1>1. PICK e \in Following(server[p].log) :
        /\ written' = Append(written, e)
        /\ dir' = Appended(server[p].file, e)
        /\ server' = [server EXCEPT ![p].log = Append(@, e)]
  BY DEF AppendEntry
<1>2. Running(p) /\ HasSession(p)
  BY DEF AppendEntry, HasSession, Running
<1>3. written \in Seq(Entries) /\ DirOK(dir, top) /\ top \in Nat
  BY DEF SessionInv
<1>4. PICK k \in 1..Len(dir) : /\ dir[k].kind = "jsonl" /\ dir[k].name = server[p].file
                               /\ dir[k].log = server[p].log
  BY <1>2 DEF SessionInv, InFile
<1>5. Sound(dir[k].log) /\ UpTo(dir[k].log, top)
  BY <1>3, <1>4 DEF DirOK
<1>6. /\ e \in Entries /\ Sound(Append(dir[k].log, e))
      /\ UpTo(Append(dir[k].log, e), top + 1)
  BY <1>3, <1>4, <1>5, FollowingSound
<1>7. /\ DirOK(dir', top + 1)
      /\ \A r : r.file = dir[k].name /\ r.log = Append(dir[k].log, e) => InFile(r, dir')
  BY <1>1, <1>3, <1>4, <1>6, AppendedOK
<1> DEFINE r == [server[p] EXCEPT !.log = Append(server[p].log, e)]
<1>8. server' = [server EXCEPT ![p] = r]
  BY <1>1
<1>9. r.file = server[p].file /\ r.log = Append(server[p].log, e)
  <2>1. server[p] = [at |-> server[p].at, file |-> server[p].file, log |-> server[p].log]
    BY DEF IInv, Typed, IsProcess
  <2> QED BY <2>1
<1> HIDE DEF r
<1>10. InFile(r, dir')
  BY <1>4, <1>7, <1>9
<1>11. (written \in Seq(Entries))' /\ Len(written') = top + 1
  BY <1>1, <1>3, <1>6
<1>12. DirOK(dir, Len(written))'
  BY <1>7, <1>11
<1> QED BY <1>2, <1>8, <1>10, <1>11, <1>12, LoneStep

(* One process ends, or begins. *)
LEMMA ReplacedOpensNone ==
    ASSUME ServersTyped, NEW p \in Pids, NEW r,
           r.at \notin {"open", "up", "closing", "rotating"},
           server' = [server EXCEPT ![p] = r]
    PROVE  NoneOpens
<1>1. server'[p] = r /\ \A q \in Pids \ {p} : server'[q] = server[q]
  BY DEF ServersTyped
<1> QED BY <1>1 DEF NoneOpens, HasSession

(* One process is at another step. *)
LEMMA AdvancedOpensNone ==
    ASSUME ServersTyped, NEW p \in Pids, NEW phase,
           HasSession(p) \/ phase \notin {"open", "up", "closing"}, phase # "rotating",
           server' = [server EXCEPT ![p].at = phase]
    PROVE  NoneOpens
<1> DEFINE r == [server[p] EXCEPT !.at = phase]
<1>1. server' = [server EXCEPT ![p] = r]
  OBVIOUS
<1>2. server[p] = [at |-> server[p].at, file |-> server[p].file, log |-> server[p].log]
  BY DEF ServersTyped, IsProcess
<1>3. r.at = phase /\ r.file = server[p].file /\ r.log = server[p].log
  BY <1>2
<1> HIDE DEF r
<1>4. server'[p] = r /\ \A q \in Pids \ {p} : server'[q] = server[q]
  BY <1>1 DEF ServersTyped
<1> QED BY <1>3, <1>4 DEF NoneOpens, HasSession

(* SIGTERM. *)
LEMMA TerminatedOpensNone ==
    ASSUME ServersTyped, NEW p \in Pids, server' = Terminated(p)
    PROVE  NoneOpens
<1>1. CASE server[p].at \in {"up", "closing"}
  <2>1. server' = [server EXCEPT ![p].at = "closing"] /\ HasSession(p)
    BY <1>1 DEF Terminated, HasSession
  <2> QED BY <2>1, AdvancedOpensNone
<1>2. CASE server[p].at \notin {"up", "closing"}
  <2>1. server' = [server EXCEPT ![p] = Dead] /\ Dead.at \notin {"open", "up", "closing", "rotating"}
    BY <1>2 DEF Terminated, Dead
  <2> QED BY <2>1, ReplacedOpensNone
<1> QED BY <1>1, <1>2

(* The other steps of a server open no session and write nothing. *)
LEMMA ServerOpensNone ==
    ASSUME ServersTyped, NEW p \in Pids, Listen(p) \/ Close(p) \/ Crash(p)
    PROVE  NoneOpens /\ UNCHANGED <<dir, written>>
<1>1. Dead.at \notin {"open", "up", "closing", "rotating"}
  BY DEF Dead
<1>2. UNCHANGED <<dir, written>>
  BY DEF Listen, Close, Crash
<1>3. \/ server' = [server EXCEPT ![p] = Dead]
      \/ server' = [server EXCEPT ![p].at = "up"] /\ HasSession(p)
  BY DEF Listen, Close, Crash, At, HasSession
<1> QED BY <1>1, <1>2, <1>3, ReplacedOpensNone, AdvancedOpensNone

(* Nor does a step of a command. *)
LEMMA CommandOpensNone ==
    ASSUME IInv, NEW s \in Shells, StartStep(s) \/ StopStep(s)
    PROVE  NoneOpens /\ UNCHANGED <<dir, written>>
<1>1. Progress(s) /\ pidFile \in Pids \cup {0}
  BY DEF IInv, Typed
<1>2. ServersTyped
  BY DEF IInv, Typed, ServersTyped
<1>3. UNCHANGED <<dir, written>>
  BY DEF StartStep, StopStep, Start, RemoveStalePidFile, Spawn, SavePid,
         Stop, Gone, Kill, UnlinkPidFile, StopListener
<1>4. ASSUME UNCHANGED server PROVE NoneOpens
  BY <1>4 DEF NoneOpens, HasSession
<1>5. CASE Start(s) \/ RemoveStalePidFile(s) \/ SavePid(s) \/ Gone(s) \/ UnlinkPidFile(s)
  BY <1>4, <1>5 DEF Start, RemoveStalePidFile, SavePid, Gone, UnlinkPidFile
<1>6. CASE Spawn(s)
  <2>1. PICK p \in Pids : server' = [server EXCEPT ![p].at = "boot"]
    BY <1>6 DEF Spawn, Spawned
  <2>2. "boot" \notin {"open", "up", "closing"}
    OBVIOUS
  <2> QED BY <1>2, <1>3, <2>1, <2>2, AdvancedOpensNone
<1>7. CASE Stop(s)
  <2>1. pidFile \in Pids /\ (server' = Terminated(pidFile) \/ UNCHANGED server)
    BY <1>1, <1>7 DEF Stop
  <2> QED BY <1>2, <1>3, <1>4, <2>1, TerminatedOpensNone
<1>8. CASE Kill(s)
  <2>1. server' = [server EXCEPT ![command[s].pid] = Dead] /\ command[s].pid \in Pids
    BY <1>1, <1>8 DEF Kill, Progress, Stopping
  <2>2. Dead.at \notin {"open", "up", "closing", "rotating"}
    BY DEF Dead
  <2> QED BY <1>2, <1>3, <2>1, <2>2, ReplacedOpensNone
<1>9. CASE StopListener(s)
  <2>1. UNCHANGED server \/ \E p \in Pids : server' = Terminated(p)
    BY <1>9 DEF StopListener
  <2> QED BY <1>2, <1>3, <1>4, <2>1, TerminatedOpensNone
<1> QED BY <1>3, <1>5, <1>6, <1>7, <1>8, <1>9 DEF StartStep, StopStep

-----------------------------------------------------------------------------
(* No session is without its calls *)

(* No file, no session. *)
LEMMA InitSessions == Init => SessionInv
<1> SUFFICES ASSUME Init PROVE SessionInv
  OBVIOUS
<1>1. written \in Seq(Entries) /\ DirOK(dir, Len(written))
  BY DEF Init, DirOK
<1>2. \A p \in Pids : ~HasSession(p)
  BY DEF Init, HasSession, Unborn
<1> QED BY <1>1, <1>2 DEF SessionInv

(* Every step keeps the sessions sound. *)
LEMMA NextSessions == ASSUME OneShell, IInv, SessionInv, [Next]_vars PROVE SessionInv'
<1>1. ServersTyped
  BY DEF IInv, Typed, ServersTyped
<1>2. ASSUME NoneOpens, UNCHANGED <<dir, written>> PROVE SessionInv'
  BY <1>2, NoNewSession
<1>3. CASE \E p \in Pids : ServerStep(p)
  <2> PICK p \in Pids : ServerStep(p)
    BY <1>3
  <2>1. CASE WriteRotatedFile(p)
    BY <2>1, WriteRotatedFileKeeps
  <2>2. CASE ArchiveOldFile(p)
    BY <2>2, ArchiveOldFileKeeps
  <2>3. CASE OpenSession(p)
    BY <2>3, OpenSessionKeeps
  <2>4. CASE AppendEntry(p)
    BY <2>4, AppendEntryKeeps
  <2>5. CASE Listen(p) \/ Close(p) \/ Crash(p)
    BY <1>1, <1>2, <2>5, ServerOpensNone
  <2> QED BY <2>1, <2>2, <2>3, <2>4, <2>5 DEF ServerStep
<1>4. CASE \E s \in Shells : StartStep(s) \/ StopStep(s)
  BY <1>2, <1>4, CommandOpensNone
<1>5. CASE UNCHANGED vars
  <2>1. NoneOpens /\ UNCHANGED <<dir, written>>
    BY <1>5 DEF vars, NoneOpens, HasSession
  <2> QED BY <1>2, <2>1
<1> QED BY <1>3, <1>4, <1>5 DEF Next, ServerStep, StartStep, StopStep

(* No session file holds the result of a tool call without the call, whatever a rotation
   dropped, wherever a kill cut its writing off, and however a failed turn or a
   compaction ended before: a provider would refuse the session at every start
   (rotateSessionIfNeeded, filterOrphanToolResults).                             *)
THEOREM NoOrphansEver == ASSUME OneShell PROVE Spec => []NoOrphanResults
<1>1. Init => IInv /\ SessionInv
  BY InitIInv, InitSessions
<1>2. IInv /\ SessionInv /\ [Next]_vars => (IInv /\ SessionInv)'
  BY NextIInv, NextSessions
<1>3. SessionInv => NoOrphanResults
  BY SoundHasNoOrphans DEF SessionInv, DirOK, NoOrphanResults
<1> QED BY <1>1, <1>2, <1>3, PTL DEF Spec

-----------------------------------------------------------------------------
(* Sizes *)

\* The function that Total defines, up to n.
Totals(f, s, n) ==
    f = [k \in 0..n |-> IF k = 0 THEN 0 ELSE f[k - 1] + Size(s[k])]

(* It exists. *)
LEMMA TotalsExist ==
    ASSUME NEW s, NEW n \in Nat
    PROVE  \E f : Totals(f, s, n)
<1> DEFINE Bad == {k \in Nat : ~ \E f : Totals(f, s, k)}
<1>1. SUFFICES ASSUME Bad # {} PROVE FALSE
  OBVIOUS
<1>2. PICK k \in Bad : \A m \in Bad : k <= m
  <2>1. Bad \in SUBSET Nat
    OBVIOUS
  <2> HIDE DEF Bad
  <2> QED BY <1>1, <2>1, LeastNatural
<1>3. CASE k = 0
  <2>1. Totals([i \in 0..0 |-> 0], s, 0)
    BY DEF Totals
  <2> QED BY <1>2, <1>3, <2>1
<1>4. CASE k # 0
  <2>1. k - 1 \in Nat /\ k - 1 \notin Bad
    BY <1>2, <1>4
  <2>2. PICK f : Totals(f, s, k - 1)
    BY <2>1
  <2> DEFINE last == f[k - 1] + Size(s[k])
             g == [i \in 0..k |-> IF i = k THEN last ELSE f[i]]
  <2>3. \A i \in 0..(k - 1) : g[i] = f[i]
    BY <1>2, <2>1
  <2>4. \A i \in 0..(k - 1) : f[i] = IF i = 0 THEN 0 ELSE f[i - 1] + Size(s[i])
    BY <2>2 DEF Totals
  <2>5. \A i \in 0..k : g[i] = IF i = 0 THEN 0 ELSE g[i - 1] + Size(s[i])
    <3>1. ASSUME NEW i \in 0..k, i = k
          PROVE  g[i] = g[i - 1] + Size(s[i])
      BY <1>4, <2>1, <2>3, <3>1
    <3>2. ASSUME NEW i \in 0..k, i # k
          PROVE  /\ i \in 0..(k - 1) /\ g[i] = f[i]
                 /\ i # 0 => i - 1 \in 0..(k - 1) /\ g[i - 1] = f[i - 1]
      BY <1>2, <2>3, <3>2
    <3> HIDE DEF g
    <3> QED BY <1>4, <2>4, <3>1, <3>2
  <2>6. g = [i \in 0..k |-> g[i]]
    OBVIOUS
  <2> HIDE DEF g
  <2>7. Totals(g, s, k)
    BY <2>5, <2>6 DEF Totals
  <2> QED BY <1>2, <2>7
<1> QED BY <1>3, <1>4

(* Each line adds its size. *)
LEMMA TotalsStep ==
    ASSUME NEW s, NEW n \in Nat, NEW f, Totals(f, s, n)
    PROVE  f[0] = 0 /\ \A k \in 1..n : k - 1 \in 0..n /\ f[k] = f[k - 1] + Size(s[k])
<1>1. ASSUME NEW k \in 0..n PROVE f[k] = IF k = 0 THEN 0 ELSE f[k - 1] + Size(s[k])
  BY DEF Totals
<1>2. \A k \in 1..n : k \in 0..n /\ k # 0 /\ k - 1 \in 0..n
  OBVIOUS
<1>3. 0 \in 0..n
  OBVIOUS
<1> QED BY <1>1, <1>2, <1>3

(* A total is a number. *)
LEMMA TotalsAreNat ==
    ASSUME NEW s, NEW n \in Nat, NEW f, Totals(f, s, n)
    PROVE  \A k \in 0..n : f[k] \in Nat
<1> DEFINE Bad == {k \in 0..n : f[k] \notin Nat}
<1>1. SUFFICES ASSUME Bad # {} PROVE FALSE
  OBVIOUS
<1>2. PICK k \in Bad : \A m \in Bad : k <= m
  <2>1. Bad \in SUBSET Nat
    OBVIOUS
  <2> HIDE DEF Bad
  <2> QED BY <1>1, <2>1, LeastNatural
<1>3. f[0] = 0 /\ \A i \in 1..n : i - 1 \in 0..n /\ f[i] = f[i - 1] + Size(s[i])
  BY TotalsStep
<1>4. k # 0 /\ k \in 1..n /\ ~(k <= k - 1)
  BY <1>2, <1>3
<1>5. k - 1 \in 0..n /\ f[k - 1] \in Nat
  BY <1>2, <1>3, <1>4
<1>6. Size(s[k]) \in Nat
  BY DEF Size
<1> QED BY <1>2, <1>3, <1>4, <1>5, <1>6

(* Total is the last of the totals. *)
LEMMA TotalIs ==
    ASSUME NEW s, Len(s) \in Nat
    PROVE  \E f : Totals(f, s, Len(s)) /\ Total(s) = f[Len(s)]
<1> DEFINE f == CHOOSE g : Totals(g, s, Len(s))
<1>1. Totals(f, s, Len(s))
  BY TotalsExist
<1>2. Total(s) = f[Len(s)]
  BY DEF Total, Totals
<1> QED BY <1>1, <1>2

(* One more line. *)
LEMMA TotalAppend ==
    ASSUME NEW X, NEW s \in Seq(X), NEW e \in X
    PROVE  /\ Total(s) \in Nat
           /\ Total(Append(s, e)) = Total(s) + Size(e)
<1> DEFINE n == Len(s)
           t == Append(s, e)
<1>1. n \in Nat /\ Len(t) = n + 1 /\ t[n + 1] = e /\ \A i \in 1..n : t[i] = s[i]
  OBVIOUS
<1>2. PICK f : Totals(f, s, n) /\ Total(s) = f[n]
  BY <1>1, TotalIs
<1>3. PICK g : Totals(g, t, n + 1) /\ Total(t) = g[n + 1]
  <2>1. Len(t) \in Nat
    BY <1>1
  <2> HIDE DEF t
  <2>2. PICK g : Totals(g, t, Len(t)) /\ Total(t) = g[Len(t)]
    BY <2>1, TotalIs
  <2> QED BY <1>1, <2>2
<1> HIDE DEF n, t
<1> DEFINE m == n + 1
<1>4. m \in Nat /\ m = n + 1
  BY <1>1
<1> HIDE DEF m
<1>5. f[0] = 0 /\ \A k \in 1..n : k - 1 \in 0..n /\ f[k] = f[k - 1] + Size(s[k])
  BY <1>1, <1>2, TotalsStep
<1>6. g[0] = 0 /\ \A k \in 1..m : k - 1 \in 0..m /\ g[k] = g[k - 1] + Size(t[k])
  BY <1>3, <1>4, TotalsStep
<1>7. \A k \in 0..n : f[k] = g[k]
  <2> DEFINE Bad == {k \in 0..n : f[k] # g[k]}
  <2>1. SUFFICES ASSUME Bad # {} PROVE FALSE
    OBVIOUS
  <2>2. PICK k \in Bad : \A j \in Bad : k <= j
    <3>1. Bad \in SUBSET Nat
      BY <1>1
    <3> HIDE DEF Bad
    <3> QED BY <2>1, <3>1, LeastNatural
  <2>3. k # 0 /\ k \in 1..n /\ ~(k <= k - 1) /\ f[k] # g[k]
    BY <1>1, <1>5, <1>6, <2>2
  <2>4. k \in 1..m /\ k - 1 \in 0..n
    BY <1>1, <1>4, <2>3
  <2>5. f[k - 1] = g[k - 1]
    BY <2>2, <2>3, <2>4
  <2>6. f[k] = f[k - 1] + Size(s[k])
    BY <1>5, <2>3
  <2>7. g[k] = g[k - 1] + Size(t[k]) /\ t[k] = s[k]
    BY <1>1, <1>6, <2>3, <2>4
  <2> QED BY <2>3, <2>5, <2>6, <2>7
<1>8. Total(s) \in Nat
  <2>1. n \in 0..n
    BY <1>1
  <2> QED BY <1>1, <1>2, <2>1, TotalsAreNat
<1>9. Total(t) = g[n] + Size(e)
  <2>1. m \in 1..m /\ m - 1 = n
    BY <1>1, <1>4
  <2>2. g[m] = g[m - 1] + Size(t[m])
    BY <1>6, <2>1
  <2> QED BY <1>1, <1>3, <1>4, <2>1, <2>2
<1>10. f[n] = g[n]
  BY <1>1, <1>7
<1> QED BY <1>2, <1>8, <1>9, <1>10 DEF t

(* What is written makes nothing smaller. *)
LEMMA SizeFromGrows ==
    ASSUME NEW X, NEW s \in Seq(X), NEW e \in X, NEW k \in 1..Len(s)
    PROVE  /\ SizeFrom(s, k) \in Nat
           /\ SizeFrom(s, k) <= SizeFrom(Append(s, e), k)
<1> DEFINE n == Len(s)
           u == Append(s, e)
           part == SubSeq(s, k, n)
<1>1. n \in Nat /\ Len(u) = n + 1 /\ u \in Seq(X) /\ u[n + 1] = e
      /\ \A i \in 1..n : u[i] = s[i] /\ s[i] \in X
  OBVIOUS
<1>2. /\ part \in Seq(X) /\ Len(part) = n - k + 1
      /\ \A i \in 1..(n - k + 1) : part[i] = s[k + i - 1]
  <2>1. \A i \in k..n : s[i] \in X
    BY <1>1
  <2>2. k \in Int /\ n \in Int /\ k <= n
    BY <1>1
  <2> QED BY <2>1, <2>2, SubSeqProperties
<1> DEFINE long == SubSeq(u, k, n + 1)
<1>3. /\ long \in Seq(X) /\ Len(long) = n - k + 2
      /\ \A i \in 1..(n - k + 2) : long[i] = u[k + i - 1]
  <2> DEFINE m == n + 1
  <2>1. \A i \in k..m : u[i] \in X
    BY <1>1
  <2>2. k \in Int /\ m \in Int /\ k <= m /\ m - k + 1 = n - k + 2
    BY <1>1
  <2> HIDE DEF m, u
  <2>3. /\ SubSeq(u, k, m) \in Seq(X)
        /\ Len(SubSeq(u, k, m)) = IF k <= m THEN m - k + 1 ELSE 0
        /\ \A i \in 1..(m - k + 1) : SubSeq(u, k, m)[i] = u[k + i - 1]
    BY <2>1, <2>2, SubSeqProperties
  <2> QED BY <2>2, <2>3 DEF m
<1> HIDE DEF u, n, part, long
<1>4. long = Append(part, e)
  <2> DEFINE whole == Append(part, e)
  <2>1. /\ whole \in Seq(X) /\ Len(whole) = n - k + 2 /\ whole[n - k + 2] = e
        /\ \A i \in 1..(n - k + 1) : whole[i] = part[i]
    <3>1. /\ whole \in Seq(X) /\ Len(whole) = Len(part) + 1 /\ whole[Len(part) + 1] = e
          /\ \A i \in 1..Len(part) : whole[i] = part[i]
      BY <1>2
    <3>2. Len(part) + 1 = n - k + 2
      BY <1>1, <1>2
    <3> QED BY <1>2, <3>1, <3>2
  <2> HIDE DEF whole
  <2>2. ASSUME NEW i \in 1..(n - k + 2) PROVE long[i] = whole[i]
    <3>1. CASE i = n - k + 2
      <4>1. long[i] = u[n + 1]
        <5>1. k + i - 1 = n + 1
          BY <1>1, <3>1
        <5> QED BY <1>3, <5>1
      <4> QED BY <1>1, <2>1, <3>1, <4>1
    <3>2. CASE i # n - k + 2
      <4>1. i \in 1..(n - k + 1) /\ k + i - 1 \in 1..n
        BY <1>1, <3>2 DEF n
      <4>2. long[i] = u[k + i - 1] /\ part[i] = s[k + i - 1]
        BY <1>2, <1>3, <4>1
      <4> QED BY <1>1, <2>1, <4>1, <4>2
    <3> QED BY <3>1, <3>2
  <2>3. long = whole
    BY <1>3, <2>1, <2>2, SeqEqual
  <2> QED BY <2>3 DEF whole
<1>5. Total(part) \in Nat /\ Total(long) = Total(part) + Size(e)
  BY <1>2, <1>4, TotalAppend
<1>6. Size(e) \in Nat
  BY DEF Size
<1>7. SizeFrom(s, k) = Total(part)
  BY DEF SizeFrom, part, n
<1>8. SizeFrom(u, k) = Total(long)
  BY <1>1 DEF SizeFrom, long
<1> QED BY <1>5, <1>6, <1>7, <1>8 DEF u

-----------------------------------------------------------------------------
(* Sequences that end alike *)

\* s from m on is t from k on.
SameFrom(s, m, t, k) ==
    /\ Len(s) + k = Len(t) + m
    /\ \A j \in 0..(Len(s) - m) : s[m + j] = t[k + j]

(* The end of a sequence, as SubSeq cuts it off. *)
LEMMA EndOf ==
    ASSUME NEW X, NEW s \in Seq(X), NEW a \in 1..(Len(s) + 1)
    PROVE  LET t == SubSeq(s, a, Len(s))
           IN  /\ t \in Seq(X) /\ Len(t) = Len(s) - a + 1
               /\ \A j \in 0..(Len(s) - a) : t[1 + j] = s[a + j]
               /\ SameFrom(t, 1, s, a)
<1> DEFINE n == Len(s)
           t == SubSeq(s, a, n)
<1>1. n \in Nat /\ \A i \in 1..n : s[i] \in X
  OBVIOUS
<1>2. \A i \in a..n : i \in 1..n
  BY <1>1
<1>3. a \in Int /\ n \in Int /\ \A i \in a..n : s[i] \in X
  BY <1>1, <1>2
<1> HIDE DEF n
<1>4. /\ t \in Seq(X) /\ Len(t) = IF a <= n THEN n - a + 1 ELSE 0
      /\ \A i \in 1..(n - a + 1) : t[i] = s[a + i - 1]
  BY <1>3, SubSeqProperties
<1> HIDE DEF t
<1>5. Len(t) = n - a + 1
  BY <1>1, <1>4 DEF n
<1>6. ASSUME NEW j \in 0..(n - a) PROVE t[1 + j] = s[a + j]
  <2>1. 1 + j \in 1..(n - a + 1) /\ a + (1 + j) - 1 = a + j
    BY <1>1, <1>3
  <2> QED BY <1>4, <2>1
<1>7. SameFrom(t, 1, s, a)
  <2>1. Len(t) + a = Len(s) + 1 /\ Len(t) - 1 = n - a
    BY <1>1, <1>3, <1>5 DEF n
  <2> QED BY <1>6, <2>1 DEF SameFrom
<1> QED BY <1>4, <1>5, <1>6, <1>7 DEF t, n

(* What ends like the end of another one. *)
LEMMA SameTransitive ==
    ASSUME NEW r, NEW s, NEW t, Len(r) \in Nat, Len(s) \in Nat, Len(t) \in Nat,
           NEW l \in Nat, NEW m \in Nat, NEW k \in Nat,
           SameFrom(r, l, s, m), SameFrom(s, m, t, k)
    PROVE  SameFrom(r, l, t, k)
<1>1. Len(r) + m = Len(s) + l /\ Len(s) + k = Len(t) + m
  BY DEF SameFrom
<1>2. Len(r) + k = Len(t) + l /\ Len(r) - l = Len(s) - m
  BY <1>1
<1>3. \A j \in 0..(Len(r) - l) : r[l + j] = s[m + j] /\ s[m + j] = t[k + j]
  BY <1>2 DEF SameFrom
<1> QED BY <1>2, <1>3 DEF SameFrom

(* Two sequences that end alike do so from any later place on. *)
LEMMA SameLater ==
    ASSUME NEW s, NEW t, Len(s) \in Nat, Len(t) \in Nat,
           NEW m \in Nat, NEW k \in Nat, NEW d \in Nat, SameFrom(s, m, t, k)
    PROVE  SameFrom(s, m + d, t, k + d)
<1>1. Len(s) + (k + d) = Len(t) + (m + d)
  BY DEF SameFrom
<1>2. ASSUME NEW j \in 0..(Len(s) - (m + d)) PROVE s[(m + d) + j] = t[(k + d) + j]
  <2>1. d + j \in 0..(Len(s) - m) /\ m + (d + j) = (m + d) + j /\ k + (d + j) = (k + d) + j
    OBVIOUS
  <2>2. s[m + (d + j)] = t[k + (d + j)]
    BY <2>1 DEF SameFrom
  <2> QED BY <2>1, <2>2
<1> QED BY <1>1, <1>2 DEF SameFrom

(* One more element in both. *)
LEMMA SameAppend ==
    ASSUME NEW X, NEW s \in Seq(X), NEW t \in Seq(X), NEW e \in X,
           NEW m \in 1..(Len(s) + 1), NEW k \in 1..(Len(t) + 1), SameFrom(s, m, t, k)
    PROVE  SameFrom(Append(s, e), m, Append(t, e), k)
<1> DEFINE u == Append(s, e)
           v == Append(t, e)
<1>1. /\ Len(s) \in Nat /\ Len(u) = Len(s) + 1 /\ u[Len(s) + 1] = e
      /\ \A i \in 1..Len(s) : u[i] = s[i]
  OBVIOUS
<1>2. /\ Len(t) \in Nat /\ Len(v) = Len(t) + 1 /\ v[Len(t) + 1] = e
      /\ \A i \in 1..Len(t) : v[i] = t[i]
  OBVIOUS
<1> HIDE DEF u, v
<1>3. Len(s) + k = Len(t) + m /\ m \in Nat /\ k \in Nat
  BY <1>1, <1>2 DEF SameFrom
<1>4. ASSUME NEW j \in 0..(Len(u) - m) PROVE u[m + j] = v[k + j]
  <2>1. CASE j = Len(s) + 1 - m
    <3>1. m + j = Len(s) + 1 /\ k + j = Len(t) + 1
      BY <1>1, <1>2, <1>3, <2>1
    <3> QED BY <1>1, <1>2, <3>1
  <2>2. CASE j # Len(s) + 1 - m
    <3>1. j \in 0..(Len(s) - m) /\ m + j \in 1..Len(s) /\ k + j \in 1..Len(t)
      BY <1>1, <1>2, <1>3, <2>2
    <3>2. s[m + j] = t[k + j]
      BY <3>1 DEF SameFrom
    <3> QED BY <1>1, <1>2, <3>1, <3>2
  <2> QED BY <2>1, <2>2
<1>5. Len(u) + k = Len(v) + m
  <2>1. \A a, b \in Nat : a + k = b + m => (a + 1) + k = (b + 1) + m
    BY <1>3
  <2>2. Len(s) \in Nat /\ Len(t) \in Nat /\ Len(u) = Len(s) + 1 /\ Len(v) = Len(t) + 1
    BY <1>1, <1>2
  <2> QED BY <1>3, <2>1, <2>2
<1> QED BY <1>4, <1>5 DEF SameFrom, u, v

(* What ends alike has the same size. *)
LEMMA SameSize ==
    ASSUME NEW X, NEW s \in Seq(X), NEW t \in Seq(X),
           NEW m \in 1..Len(s), NEW k \in 1..Len(t), SameFrom(s, m, t, k)
    PROVE  SizeFrom(s, m) = SizeFrom(t, k)
<1> DEFINE u == SubSeq(s, m, Len(s))
           v == SubSeq(t, k, Len(t))
<1>1. Len(s) \in Nat /\ Len(t) \in Nat /\ Len(s) + k = Len(t) + m
  BY DEF SameFrom
<1>2. m \in Nat /\ k \in Nat /\ m \in 1..(Len(s) + 1) /\ k \in 1..(Len(t) + 1)
  BY <1>1
<1>3. /\ u \in Seq(X) /\ Len(u) = Len(s) - m + 1
      /\ \A j \in 0..(Len(s) - m) : u[1 + j] = s[m + j]
  BY <1>2, EndOf
<1>4. /\ v \in Seq(X) /\ Len(v) = Len(t) - k + 1
      /\ \A j \in 0..(Len(t) - k) : v[1 + j] = t[k + j]
  BY <1>2, EndOf
<1> HIDE DEF u, v
<1>5. Len(u) = Len(v)
  <2>1. \A a, b \in Nat : a + k = b + m => a - m + 1 = b - k + 1
    BY <1>2
  <2> QED BY <1>1, <1>3, <1>4, <2>1
<1>6. ASSUME NEW i \in 1..Len(u) PROVE u[i] = v[i]
  <2> DEFINE j == i - 1
  <2>1. j \in 0..(Len(s) - m) /\ j \in 0..(Len(t) - k) /\ 1 + j = i
    BY <1>1, <1>3, <1>4, <1>5
  <2>2. s[m + j] = t[k + j]
    BY <2>1 DEF SameFrom
  <2> HIDE DEF j
  <2>3. u[1 + j] = s[m + j] /\ v[1 + j] = t[k + j]
    BY <1>3, <1>4, <2>1
  <2> QED BY <2>1, <2>2, <2>3
<1>7. u = v
  BY <1>3, <1>4, <1>5, <1>6, SeqEqual
<1> QED BY <1>7 DEF SizeFrom, u, v

(* The end of a sequence that is selected in full is the end of what is selected. *)
LEMMA SelectedEnd ==
    ASSUME NEW X, NEW s \in Seq(X), NEW places, NEW m \in 1..Len(s),
           \A i \in m..Len(s) : i \in places
    PROVE  \E l \in 1..Len(Selected(s, places)) : SameFrom(Selected(s, places), l, s, m)
<1> DEFINE t == Selected(s, places)
           n == Len(s)
<1>1. t \in Seq(X) /\ PickedFrom(t, s, places, n)
  BY SelectedPicks
<1> HIDE DEF t
<1>2. PICK h : Picked(t, h, s, places, n)
  BY <1>1 DEF PickedFrom
<1>3. /\ \A i \in 1..Len(t) : h[i] \in 1..n /\ t[i] = s[h[i]]
      /\ \A i, j \in 1..Len(t) : i < j => h[i] < h[j]
      /\ \A k \in 1..n : k \in places => \E i \in 1..Len(t) : h[i] = k
  BY <1>2 DEF Picked
<1>4. n \in Nat /\ Len(t) \in Nat /\ n \in 1..n /\ n \in m..n
  BY <1>1
<1>5. \A i \in m..n : i \in 1..n /\ i \in places
  BY <1>4
<1> HIDE DEF n
<1>6. PICK last \in 1..Len(t) : h[last] = n
  BY <1>3, <1>4, <1>5
<1>7. last = Len(t)
  <2>1. SUFFICES ASSUME last < Len(t) PROVE FALSE
    BY <1>4, <1>6
  <2>2. Len(t) \in 1..Len(t)
    BY <1>4, <1>6
  <2>3. h[last] < h[Len(t)] /\ h[Len(t)] \in 1..n
    BY <1>3, <1>6, <2>1, <2>2
  <2> QED BY <1>4, <1>6, <2>3
<1> DEFINE Bad == {d \in 0..(n - m) : ~(Len(t) - d \in 1..Len(t) /\ h[Len(t) - d] = n - d)}
<1>8. Bad = {}
  <2>1. SUFFICES ASSUME Bad # {} PROVE FALSE
    OBVIOUS
  <2>2. PICK d \in Bad : \A c \in Bad : d <= c
    <3>1. Bad \in SUBSET Nat
      BY <1>4
    <3> HIDE DEF Bad
    <3> QED BY <2>1, <3>1, LeastNatural
  <2>3. d # 0
    <3>1. Len(t) - 0 = Len(t) /\ n - 0 = n /\ Len(t) \in 1..Len(t)
      BY <1>4, <1>6
    <3> QED BY <1>6, <1>7, <2>2, <3>1
  <2>4. d - 1 \in 0..(n - m) /\ ~(d <= d - 1)
    BY <1>4, <2>2, <2>3
  <2> DEFINE i == Len(t) - (d - 1)
  <2>5. i \in 1..Len(t) /\ h[i] = n - (d - 1)
    BY <2>2, <2>4
  <2>6. h[i] - 1 = n - d /\ n - d \in m..n /\ i - 1 = Len(t) - d
    BY <1>4, <2>2, <2>4, <2>5
  <2> HIDE DEF i
  <2>7. h[i] - 1 \in 1..n /\ h[i] - 1 \in places
    BY <1>5, <2>6
  <2>8. i > 1 /\ h[i - 1] = h[i] - 1
    BY <1>2, <1>4, <2>5, <2>7, PickedNext
  <2>9. i - 1 \in 1..Len(t)
    BY <1>4, <2>5, <2>8
  <2> QED BY <2>2, <2>6, <2>8, <2>9
<1>9. ASSUME NEW d \in 0..(n - m) PROVE Len(t) - d \in 1..Len(t) /\ h[Len(t) - d] = n - d
  BY <1>8
<1> HIDE DEF Bad
<1> DEFINE l == Len(t) - (n - m)
<1>10. l \in 1..Len(t)
  <2>1. n - m \in 0..(n - m)
    BY <1>4 DEF n
  <2> QED BY <1>9, <2>1
<1>11. Len(t) + m = n + l /\ Len(t) - l = n - m
  BY <1>4 DEF n
<1>12. ASSUME NEW j \in 0..(Len(t) - l) PROVE t[l + j] = s[m + j]
  <2> DEFINE d == n - m - j
  <2>1. d \in 0..(n - m) /\ Len(t) - d = l + j /\ n - d = m + j
    BY <1>4, <1>10, <1>11 DEF n
  <2> HIDE DEF d, l
  <2>2. l + j \in 1..Len(t) /\ h[l + j] = m + j
    BY <1>9, <2>1
  <2> QED BY <1>3, <2>2
<1>13. SameFrom(t, l, s, m)
  <2> HIDE DEF l
  <2> QED BY <1>11, <1>12 DEF SameFrom, n
<1> QED BY <1>10, <1>13 DEF t

(* A sequence of which all is selected. *)
LEMMA SelectedAll ==
    ASSUME NEW X, NEW s \in Seq(X), NEW places, \A i \in 1..Len(s) : i \in places
    PROVE  SameFrom(Selected(s, places), 1, s, 1)
<1> DEFINE t == Selected(s, places)
           n == Len(s)
<1>1. t \in Seq(X) /\ PickedFrom(t, s, places, n)
  BY SelectedPicks
<1>2. n \in Nat /\ Len(t) \in Nat
  BY <1>1
<1>3. CASE n = 0
  <2> HIDE DEF t
  <2>1. PICK h : Picked(t, h, s, places, n)
    BY <1>1 DEF PickedFrom
  <2>2. \A i \in 1..Len(t) : h[i] \in 1..n
    BY <2>1 DEF Picked
  <2>3. Len(t) = 0
    <3>1. SUFFICES ASSUME Len(t) # 0 PROVE FALSE
      OBVIOUS
    <3>2. 1 \in 1..Len(t)
      BY <1>2, <3>1
    <3> QED BY <1>3, <2>2, <3>2
  <2>4. SameFrom(t, 1, s, 1)
    BY <1>3, <2>3 DEF SameFrom
  <2> QED BY <2>4 DEF t
<1>4. CASE n # 0
  <2> DEFINE one == 1
  <2>1. one \in 1..n /\ \A i \in one..n : i \in places
    BY <1>2, <1>4
  <2> HIDE DEF one
  <2>2. PICK l \in 1..Len(t) : SameFrom(t, l, s, one)
    BY <2>1, SelectedEnd
  <2> HIDE DEF t
  <2>3. PICK h : Picked(t, h, s, places, n)
    BY <1>1 DEF PickedFrom
  <2>4. /\ \A i \in 1..Len(t) : h[i] \in 1..n
        /\ \A i, j \in 1..Len(t) : i < j => h[i] < h[j]
        /\ \A i \in 1..n : \E j \in 1..Len(t) : h[j] = i
    BY <2>3 DEF Picked
  <2>5. Len(t) <= n
    <3> DEFINE Bad == {i \in 1..Len(t) : h[i] < i}
    <3>1. Bad = {}
      <4>1. SUFFICES ASSUME Bad # {} PROVE FALSE
        OBVIOUS
      <4>2. PICK i \in Bad : \A k \in Bad : i <= k
        <5>1. Bad \in SUBSET Nat
          BY <1>2
        <5> HIDE DEF Bad
        <5> QED BY <4>1, <5>1, LeastNatural
      <4>3. i \in 1..Len(t) /\ h[i] < i /\ h[i] \in 1..n
        BY <2>4, <4>2
      <4>4. i - 1 \in 1..Len(t) /\ ~(i <= i - 1) /\ i - 1 < i
        BY <1>2, <4>3
      <4>5. h[i - 1] < h[i] /\ h[i - 1] \in 1..n
        BY <2>4, <4>3, <4>4
      <4>6. i - 1 \in Bad
        BY <1>2, <4>3, <4>4, <4>5
      <4> QED BY <4>2, <4>4, <4>6
    <3>2. CASE Len(t) = 0
      BY <1>2, <3>2
    <3>3. CASE Len(t) # 0
      <4>1. Len(t) \in 1..Len(t)
        BY <1>2, <3>3
      <4>2. h[Len(t)] \in 1..n /\ ~(h[Len(t)] < Len(t))
        BY <2>4, <3>1, <4>1
      <4> QED BY <1>2, <4>2
    <3> QED BY <3>2, <3>3
  <2>6. Len(t) + 1 = n + l
    BY <2>2 DEF SameFrom, one
  <2>7. l = 1
    BY <1>2, <2>5, <2>6
  <2>8. SameFrom(t, 1, s, 1)
    BY <2>2, <2>7 DEF one
  <2> QED BY <2>8 DEF t
<1> QED BY <1>3, <1>4

-----------------------------------------------------------------------------
(* What a rotation spares *)

\* Each entry but a compaction follows its parent, unless it is the first one.
Chained(log) ==
    \A i \in 2..Len(log) : log[i].kind # "compaction" => log[i].parent = log[i - 1].id

(* The end of a chain is one. *)
LEMMA ChainedEnd ==
    ASSUME NEW log \in Seq(Entries), Chained(log), NEW a \in 1..(Len(log) + 1)
    PROVE  Chained(SubSeq(log, a, Len(log)))
<1> DEFINE t == SubSeq(log, a, Len(log))
<1>1. /\ Len(t) = Len(log) - a + 1
      /\ \A j \in 0..(Len(log) - a) : t[1 + j] = log[a + j]
  BY EndOf
<1>2. Len(log) \in Nat /\ a \in Nat /\ a >= 1
  OBVIOUS
<1> HIDE DEF t
<1>3. ASSUME NEW i \in 2..Len(t), t[i].kind # "compaction" PROVE t[i].parent = t[i - 1].id
  <2> DEFINE j == i - 1
             k == i - 2
             b == a + j
  <2>1. /\ j \in 0..(Len(log) - a) /\ k \in 0..(Len(log) - a)
        /\ 1 + j = i /\ 1 + k = i - 1 /\ b \in 2..Len(log) /\ a + k = b - 1
    BY <1>1, <1>2
  <2> HIDE DEF j, k
  <2>2. t[i] = log[b] /\ t[i - 1] = log[b - 1]
    <3>1. t[1 + j] = log[a + j] /\ t[1 + k] = log[a + k]
      BY <1>1, <2>1
    <3> QED BY <2>1, <3>1
  <2> HIDE DEF b
  <2> QED BY <1>3, <2>1, <2>2 DEF Chained
<1> QED BY <1>3 DEF Chained, t

(* So is what the filter leaves: it drops whatever hangs on what it drops. *)
LEMMA ChainedFiltered ==
    ASSUME NEW log, Growing(log), Chained(log)
    PROVE  Chained(FilterOrphanToolResults(log))
<1> DEFINE places == {i \in 1..Len(log) : log[i].id \notin DroppedIds(log)}
           t == Selected(log, places)
<1>1. FilterOrphanToolResults(log) = t
  BY DEF FilterOrphanToolResults
<1>2. log \in Seq(Entries) /\ Len(log) \in Nat
  BY EntryTypes DEF Growing
<1>3. t \in Seq(Entries) /\ PickedFrom(t, log, places, Len(log))
  BY <1>2, SelectedPicks
<1>4. PICK h : Picked(t, h, log, places, Len(log))
  BY <1>3 DEF PickedFrom
<1> HIDE DEF t
<1>5. /\ \A i \in 1..Len(t) : h[i] \in 1..Len(log) /\ h[i] \in places /\ t[i] = log[h[i]]
      /\ \A i, j \in 1..Len(t) : i < j => h[i] < h[j]
  <2> HIDE DEF places
  <2> QED BY <1>4 DEF Picked
<1>6. ASSUME NEW i \in 2..Len(t), t[i].kind # "compaction" PROVE t[i].parent = t[i - 1].id
  <2> DEFINE k == h[i]
  <2>1. i \in 1..Len(t) /\ i - 1 \in 1..Len(t) /\ Len(t) \in Nat /\ i - 1 < i
    BY <1>3
  <2>2. k \in 1..Len(log) /\ t[i] = log[k] /\ log[k].id \notin DroppedIds(log)
    BY <1>5, <2>1
  <2>3. k \in 2..Len(log) /\ k - 1 \in 1..Len(log)
    <3>1. h[i - 1] < h[i] /\ h[i - 1] \in 1..Len(log)
      <4> HIDE DEF places
      <4> QED BY <1>5, <2>1
    <3> QED BY <1>2, <2>2, <3>1
  <2> HIDE DEF k
  <2>4. log[k].parent = log[k - 1].id
    BY <1>6, <2>2, <2>3 DEF Chained
  <2>5. k - 1 \in places
    BY <1>6, <2>2, <2>3, <2>4, DroppedClosed
  <2>6. h[i - 1] = k - 1
    <3> HIDE DEF places
    <3> QED BY <1>2, <1>4, <2>1, <2>3, <2>5, PickedNext DEF k
  <2>7. t[i - 1] = log[k - 1]
    <3> HIDE DEF places
    <3> QED BY <1>5, <2>1, <2>6
  <2> QED BY <2>2, <2>4, <2>7
<1> QED BY <1>1, <1>6 DEF Chained

(* What a session holds from a compaction on is not dropped: a compaction answers no
   call, it stops the walk, and the calls of later results follow it.              *)
LEMMA CompactionShields ==
    ASSUME NEW log, Growing(log), Linked(log), Chained(log),
           NEW a \in 1..Len(log), log[a].kind = "compaction"
    PROVE  \A i \in a..Len(log) : log[i].id \notin DroppedIds(log)
<1> DEFINE n == Len(log)
           w == CHOOSE v : Levels(v, log, n)
           Dropped(k) == \E i \in a..n : log[i].id \in w[k]
           Bad == {k \in 0..n : Dropped(k)}
<1>1. n \in Nat /\ \A i \in a..n : i \in 1..n
  BY EntryTypes
<1>2. Levels(w, log, n)
  BY <1>1, LevelsExist
<1>3. DroppedIds(log) = w[n]
  BY DEF DroppedIds, Levels, Children
<1> HIDE DEF w
<1>4. w[0] = OrphanIds(log)
  BY <1>1, <1>2 DEF Levels
<1>5. ASSUME NEW k \in 1..n PROVE k - 1 \in 0..n /\ w[k] = w[k - 1] \cup Children(log, w[k - 1])
  <2>1. k \in 0..n /\ k # 0 /\ k - 1 \in 0..n
    BY <1>1
  <2>2. w[k] = IF k = 0 THEN OrphanIds(log) ELSE w[k - 1] \cup Children(log, w[k - 1])
    BY <1>2, <2>1 DEF Levels
  <2> QED BY <2>1, <2>2
<1> HIDE DEF n
<1>6. ASSUME NEW i \in a..n PROVE log[i].id \notin OrphanIds(log)
  <2>1. SUFFICES ASSUME NEW e \in 1..n, log[e].id = log[i].id, log[e].kind = "result",
                        log[e].call \notin EmittedToolCalls(log)
                 PROVE  FALSE
    BY DEF OrphanIds, IdsAt, n
  <2>2. e = i
    BY <1>1, <2>1, IdsApart DEF n
  <2>3. i # a /\ i > 1 /\ i - 1 \in 1..n
    BY <1>1, <2>1, <2>2
  <2>4. log[i - 1].kind = "call" /\ log[i - 1].id = log[i].call
    BY <1>1, <2>1, <2>2, <2>3 DEF Linked, n
  <2> QED BY <2>1, <2>2, <2>3, <2>4 DEF EmittedToolCalls, IdsAt, n
<1>7. Bad = {}
  <2>1. SUFFICES ASSUME Bad # {} PROVE FALSE
    OBVIOUS
  <2>2. PICK k \in Bad : \A m \in Bad : k <= m
    <3>1. Bad \in SUBSET Nat
      BY <1>1
    <3> HIDE DEF Bad
    <3> QED BY <2>1, <3>1, LeastNatural
  <2>3. k \in 0..n /\ Dropped(k)
    BY <2>2
  <2>4. k # 0
    BY <1>4, <1>6, <2>3
  <2>5. k \in 1..n /\ k - 1 \in 0..n /\ ~(k <= k - 1)
    BY <1>1, <2>3, <2>4
  <2>6. ~Dropped(k - 1)
    BY <2>2, <2>5
  <2>7. PICK i \in a..n : log[i].id \in w[k]
    BY <2>3
  <2>8. log[i].id \in Children(log, w[k - 1])
    BY <1>5, <2>5, <2>6, <2>7
  <2>9. PICK e \in 1..n : /\ log[e].id = log[i].id /\ log[e].kind # "compaction"
                          /\ log[e].parent \in w[k - 1]
    BY <2>8 DEF Children, IdsAt, n
  <2>10. e = i
    BY <1>1, <2>9, IdsApart DEF n
  <2>11. i # a
    BY <2>9, <2>10
  <2>12. i \in 2..n /\ i - 1 \in a..n
    BY <1>1, <2>11
  <2>13. log[i].parent = log[i - 1].id
    BY <2>9, <2>10, <2>12 DEF Chained, n
  <2> QED BY <2>6, <2>9, <2>10, <2>12, <2>13
<1>8. n \in 0..n
  BY <1>1
<1>9. ~Dropped(n)
  BY <1>7, <1>8
<1> QED BY <1>3, <1>9 DEF n

(* Without an orphan nothing is dropped. *)
LEMMA NoOrphanNoDrop ==
    ASSUME NEW log, Len(log) \in Nat, OrphanIds(log) = {}
    PROVE  DroppedIds(log) = {}
<1> DEFINE n == Len(log)
           w == CHOOSE v : Levels(v, log, n)
           Bad == {k \in 0..n : w[k] # {}}
<1>1. Levels(w, log, n)
  BY LevelsExist
<1>2. DroppedIds(log) = w[n]
  BY DEF DroppedIds, Levels, Children
<1> HIDE DEF w
<1>3. w[0] = {}
  BY <1>1 DEF Levels
<1>4. ASSUME NEW k \in 1..n PROVE k - 1 \in 0..n /\ w[k] = w[k - 1] \cup Children(log, w[k - 1])
  <2>1. k \in 0..n /\ k # 0 /\ k - 1 \in 0..n
    OBVIOUS
  <2>2. w[k] = IF k = 0 THEN OrphanIds(log) ELSE w[k - 1] \cup Children(log, w[k - 1])
    BY <1>1, <2>1 DEF Levels
  <2> QED BY <2>1, <2>2
<1>5. Bad = {}
  <2>1. SUFFICES ASSUME Bad # {} PROVE FALSE
    OBVIOUS
  <2>2. PICK k \in Bad : \A m \in Bad : k <= m
    <3>1. Bad \in SUBSET Nat
      OBVIOUS
    <3> HIDE DEF Bad
    <3> QED BY <2>1, <3>1, LeastNatural
  <2>3. k \in 1..n /\ k - 1 \in 0..n /\ ~(k <= k - 1)
    BY <1>3, <2>2
  <2>4. w[k - 1] = {}
    BY <2>2, <2>3
  <2>5. Children(log, {}) = {}
    BY DEF Children, IdsAt
  <2>6. w[k] = {}
    BY <1>4, <2>3, <2>4, <2>5
  <2> QED BY <2>2, <2>6
<1>6. n \in 0..n
  OBVIOUS
<1> QED BY <1>2, <1>5, <1>6

(* The filter leaves a sound session as it is. *)
LEMMA SoundUnfiltered ==
    ASSUME NEW log, Sound(log)
    PROVE  SameFrom(FilterOrphanToolResults(log), 1, log, 1)
<1> DEFINE places == {i \in 1..Len(log) : log[i].id \notin DroppedIds(log)}
<1>1. log \in Seq(Entries) /\ Len(log) \in Nat
  BY DEF Sound, Growing
<1>2. DroppedIds(log) = {}
  BY <1>1, SoundHasNoOrphans, NoOrphanNoDrop
<1>3. \A i \in 1..Len(log) : i \in places
  BY <1>2
<1>4. FilterOrphanToolResults(log) = Selected(log, places)
  BY DEF FilterOrphanToolResults
<1> HIDE DEF places
<1> QED BY <1>1, <1>3, <1>4, SelectedAll

(* And any session from a compaction on. *)
LEMMA FilteredEnd ==
    ASSUME NEW log, Growing(log), Linked(log), Chained(log),
           NEW a \in 1..Len(log), log[a].kind = "compaction",
           NEW m \in a..Len(log)
    PROVE  \E l \in 1..Len(FilterOrphanToolResults(log)) :
               SameFrom(FilterOrphanToolResults(log), l, log, m)
<1> DEFINE places == {i \in 1..Len(log) : log[i].id \notin DroppedIds(log)}
<1>1. log \in Seq(Entries) /\ Len(log) \in Nat
  BY DEF Growing
<1>2. \A i \in a..Len(log) : log[i].id \notin DroppedIds(log)
  BY CompactionShields
<1>3. m \in 1..Len(log) /\ \A i \in m..Len(log) : i \in a..Len(log) /\ i \in 1..Len(log)
  BY <1>1
<1>4. \A i \in m..Len(log) : i \in places
  BY <1>2, <1>3
<1>5. FilterOrphanToolResults(log) = Selected(log, places)
  BY DEF FilterOrphanToolResults
<1> HIDE DEF places
<1> QED BY <1>1, <1>3, <1>4, <1>5, SelectedEnd

-----------------------------------------------------------------------------
(* What a rotation begins with *)

\* a is the place of the last compaction of a session.
LastIn(log, a) ==
    /\ a \in 1..Len(log) /\ log[a].kind = "compaction"
    /\ \A i \in 1..Len(log) : log[i].kind = "compaction" => i <= a

\* The last compaction and the entry it keeps are at these places.
Anchor(log, a, f) == LastIn(log, a) /\ f \in 1..Len(log) /\ log[f].id = log[a].kept

\* From here on an anchored rotation keeps the session.
Cut(a, f) == IF f < a THEN f ELSE a

(* A rotation cuts at the anchor, if there is one, and else takes the tail. *)
LEMMA RotatedCases ==
    ASSUME NEW log, Growing(log)
    PROVE  \/ \E a, f : /\ Anchor(log, a, f)
                        /\ RotatedEntries(log)
                             = FilterOrphanToolResults(SubSeq(log, Cut(a, f), Len(log)))
           \/ /\ \A a, f : ~Anchor(log, a, f)
              /\ RotatedEntries(log) = FilterOrphanToolResults(SelectTailEntries(log))
<1> DEFINE found  == {i \in 1..Len(log) : log[i].kind = "compaction"}
           anchor == FindLastCompaction(log)
           named  == {i \in 1..Len(log) : log[i].id = log[anchor].kept}
           first  == FirstOf(named, Len(log) + 1)
<1>1. Len(log) \in Nat
  BY EntryTypes
<1>2. IF found = {} THEN anchor = 0
      ELSE anchor \in found /\ \A i \in found : i <= anchor
  <2>1. anchor = LastOf(found) /\ found \in SUBSET (1..Len(log))
    BY DEF FindLastCompaction
  <2> HIDE DEF found, anchor
  <2> QED BY <1>1, <2>1, LastFound
<1>3. IF named = {} THEN first = Len(log) + 1 ELSE first \in named
  <2>1. named \in SUBSET Nat
    OBVIOUS
  <2> HIDE DEF named
  <2> QED BY <2>1, FirstFound
<1>4. RotatedEntries(log)
        = IF anchor # 0 /\ first <= Len(log)
          THEN FilterOrphanToolResults(SubSeq(log, Cut(anchor, first), Len(log)))
          ELSE FilterOrphanToolResults(SelectTailEntries(log))
  BY DEF RotatedEntries, Cut
<1>5. CASE anchor # 0 /\ first <= Len(log)
  <2>1. LastIn(log, anchor)
    <3>1. anchor \in found /\ \A i \in found : i <= anchor
      <4> HIDE DEF found, anchor
      <4> QED BY <1>2, <1>5
    <3> HIDE DEF anchor
    <3> QED BY <3>1 DEF LastIn
  <2>2. first \in named
    <3> HIDE DEF named, first, anchor
    <3> QED BY <1>1, <1>3, <1>5
  <2>3. Anchor(log, anchor, first)
    <3> HIDE DEF first, anchor
    <3> QED BY <2>1, <2>2 DEF Anchor
  <2>4. RotatedEntries(log) = FilterOrphanToolResults(SubSeq(log, Cut(anchor, first), Len(log)))
    BY <1>4, <1>5
  <2> HIDE DEF first, anchor
  <2> QED BY <2>3, <2>4
<1>6. CASE ~(anchor # 0 /\ first <= Len(log))
  <2>1. ASSUME NEW a, NEW f, Anchor(log, a, f) PROVE FALSE
    <3>1. a \in found
      BY <2>1 DEF Anchor, LastIn
    <3>2. anchor \in found /\ a <= anchor
      <4> HIDE DEF found, anchor
      <4> QED BY <1>2, <3>1
    <3>3. anchor <= a /\ a \in Nat /\ anchor \in Nat
      <4> HIDE DEF anchor
      <4> QED BY <1>1, <2>1, <3>2 DEF Anchor, LastIn
    <3>4. anchor = a /\ anchor # 0
      <4> HIDE DEF anchor
      <4> QED BY <1>1, <2>1, <3>2, <3>3 DEF Anchor, LastIn
    <3>5. f \in named
      <4> HIDE DEF anchor
      <4> QED BY <2>1, <3>4 DEF Anchor
    <3>6. first <= Len(log)
      <4>1. first \in named
        <5> HIDE DEF named, first
        <5> QED BY <1>3, <3>5
      <4> HIDE DEF first, anchor
      <4> QED BY <4>1, <1>1
    <3> QED BY <1>6, <3>4, <3>6
  <2>2. RotatedEntries(log) = FilterOrphanToolResults(SelectTailEntries(log))
    BY <1>4, <1>6
  <2> QED BY <2>1, <2>2
<1> QED BY <1>5, <1>6

\* The tail of a session begins here.
TailStart(log, a) ==
    /\ a \in 1..(Len(log) + 1)
    /\ a <= Len(log) => log[a].kind = "user"
    /\ \A m \in 1..Len(log) :
            log[m].kind = "user" /\ SizeFrom(log, m) <= TailBudget => a <= m

(* It begins with a turn of the user, the first one that fits the budget. *)
LEMMA TailCases ==
    ASSUME NEW log, Len(log) \in Nat
    PROVE  \E a : TailStart(log, a) /\ SelectTailEntries(log) = SubSeq(log, a, Len(log))
<1> DEFINE none == Len(log) + 1
           fits == {i \in 1..Len(log) : SizeFrom(log, i) <= TailBudget}
           first == FirstOf(fits, none)
           starts == {i \in first..Len(log) : IsUserTurnStart(log[i])}
           start == FirstOf(starts, none)
<1>1. SelectTailEntries(log) = SubSeq(log, start, Len(log))
  BY DEF SelectTailEntries
<1>2. /\ fits = {} => first = none
      /\ fits # {} => first \in fits /\ \A i \in fits : first <= i
  <2>1. fits \in SUBSET Nat
    OBVIOUS
  <2> HIDE DEF fits
  <2> QED BY <2>1, FirstFound
<1>3. first \in 1..(Len(log) + 1)
  <2>1. \A i \in fits : i \in 1..(Len(log) + 1)
    OBVIOUS
  <2>2. none \in 1..(Len(log) + 1)
    OBVIOUS
  <2> HIDE DEF fits, first, none
  <2> QED BY <1>2, <2>1, <2>2
<1>4. \A i \in fits : first <= i
  <2> HIDE DEF fits, first
  <2> QED BY <1>2
<1> HIDE DEF first
<1>5. /\ starts = {} => start = none
      /\ starts # {} => start \in starts /\ \A i \in starts : start <= i
  <2>1. starts \in SUBSET Nat
    BY <1>3
  <2> HIDE DEF starts
  <2> QED BY <2>1, FirstFound
<1>6. start \in 1..(Len(log) + 1)
  <2>1. \A i \in starts : i \in 1..(Len(log) + 1)
    BY <1>3
  <2>2. none \in 1..(Len(log) + 1)
    OBVIOUS
  <2> HIDE DEF starts, start, none
  <2> QED BY <1>5, <2>1, <2>2
<1>7. ASSUME start <= Len(log) PROVE log[start].kind = "user"
  <2>1. start \in starts
    <3>1. start # none
      <4> HIDE DEF start
      <4> QED BY <1>6, <1>7
    <3> HIDE DEF starts, start, none
    <3> QED BY <1>5, <3>1
  <2> HIDE DEF start
  <2> QED BY <2>1 DEF IsUserTurnStart
<1>8. ASSUME NEW m \in 1..Len(log), log[m].kind = "user", SizeFrom(log, m) <= TailBudget
      PROVE  start <= m
  <2>1. m \in fits
    BY <1>8
  <2>2. first <= m
    <3> HIDE DEF fits
    <3> QED BY <1>4, <2>1
  <2>3. m \in starts
    BY <1>3, <1>8, <2>2 DEF IsUserTurnStart
  <2> HIDE DEF starts, start
  <2> QED BY <1>5, <2>3
<1> HIDE DEF start
<1> QED BY <1>1, <1>6, <1>7, <1>8 DEF TailStart

(* The end of a sound session is sound when it does not begin with a result. *)
LEMMA EndSound ==
    ASSUME NEW log, Sound(log), NEW top, UpTo(log, top), NEW a \in 1..(Len(log) + 1),
           a <= Len(log) => log[a].kind # "result"
    PROVE  LET t == SubSeq(log, a, Len(log))
           IN  /\ Sound(t) /\ SameFrom(t, 1, log, a)
               /\ SameFrom(FilterOrphanToolResults(t), 1, log, a)
               /\ FilterOrphanToolResults(t) \in Seq(Entries)
<1> DEFINE t == SubSeq(log, a, Len(log))
           u == FilterOrphanToolResults(t)
<1>1. Growing(log) /\ Linked(log) /\ log \in Seq(Entries) /\ Len(log) \in Nat /\ a \in Nat
  BY EntryTypes DEF Sound, Growing
<1>2. Len(log) \in 0..Len(log)
  BY <1>1
<1>3. /\ Growing(t) /\ Linked(t) /\ UpTo(t, top)
      /\ 1 \in 1..Len(t) => a \in 1..Len(log) /\ t[1] = log[a]
  BY <1>1, <1>2, PartLinked
<1>4. SameFrom(t, 1, log, a)
  BY <1>1, EndOf
<1> HIDE DEF t, u
<1>5. Sound(t)
  BY <1>3 DEF Sound
<1>6. SameFrom(u, 1, t, 1)
  BY <1>5, SoundUnfiltered DEF u
<1>7. Sound(u)
  BY <1>3, FilteredSound DEF u
<1>8. u \in Seq(Entries) /\ Len(u) \in Nat /\ Len(t) \in Nat
  BY <1>3, <1>7, EntryTypes DEF Sound, Growing
<1> DEFINE one == 1
<1>9. one \in Nat /\ SameFrom(u, one, t, one) /\ SameFrom(t, one, log, a)
  BY <1>4, <1>6
<1> HIDE DEF one
<1>10. SameFrom(u, one, log, a)
  BY <1>1, <1>8, <1>9, SameTransitive
<1>11. SameFrom(u, 1, log, a)
  BY <1>10 DEF one
<1> QED BY <1>4, <1>5, <1>8, <1>11 DEF t, u

-----------------------------------------------------------------------------
(* What the newest session holds of the history *)

\* The history from its k-th entry on is the last turns: they fit the tail of a rotation.
Recent(k) ==
    /\ \A j \in Compactions : j < k
    /\ written[k].kind = "user"
    /\ SizeFrom(written, k) <= TailBudget

\* The session ends with the history from its k-th entry on.
Held(log, k) == \E m \in 1..Len(log) : SameFrom(log, m, written, k)

\* No compaction cuts between a call and its result.
Whole == \A j \in Compactions : ~Severs(written[j])

LastCompaction(c) == c \in Compactions /\ \A j \in Compactions : j <= c

\* The session is the history from its k-th entry on, and holds what the last
\* compaction keeps.
Covers(log, k) ==
    /\ SameFrom(log, 1, written, k)
    /\ \A c : LastCompaction(c) => k <= written[c].kept /\ written[c].kept < c

Remembered(log) ==
    /\ Chained(log)
    /\ \A k \in 1..Len(written) : Recent(k) => Held(log, k)
    /\ Whole => \E k \in 1..(Len(written) + 1) : Covers(log, k)

\* The id of an entry is its place in the history.
Numbered == \A i \in 1..Len(written) : written[i].id = i

(* A rotation holds on to the last turns. *)
LEMMA RecentSurvives ==
    ASSUME NEW log, Sound(log), NEW top, UpTo(log, top), Chained(log), written \in Seq(Entries),
           NEW k \in 1..Len(written), Recent(k), Held(log, k)
    PROVE  Held(RotatedEntries(log), k)
<1> DEFINE n == Len(log)
           rotated == RotatedEntries(log)
<1>1. Growing(log) /\ Linked(log) /\ log \in Seq(Entries) /\ n \in Nat
  BY EntryTypes DEF Sound, Growing
<1>2. Len(written) \in Nat /\ k \in Nat
  OBVIOUS
<1>3. PICK m \in 1..n : SameFrom(log, m, written, k)
  BY DEF Held
<1>4. n + k = Len(written) + m /\ m \in Nat /\ \A j \in 0..(n - m) : log[m + j] = written[k + j]
  BY <1>1, <1>3 DEF SameFrom
<1>5. ASSUME NEW i \in m..n PROVE log[i].kind # "compaction"
  <2> DEFINE j == i - m
  <2>1. j \in 0..(n - m) /\ m + j = i /\ k + j \in 1..Len(written) /\ ~(k + j < k)
    BY <1>1, <1>2, <1>4
  <2> HIDE DEF j
  <2>2. log[i] = written[k + j]
    BY <1>4, <2>1
  <2>3. k + j \notin Compactions
    BY <2>1 DEF Recent
  <2> QED BY <2>1, <2>2, <2>3 DEF Compactions
<1>6. log[m].kind = "user"
  <2>1. 0 \in 0..(n - m) /\ m + 0 = m /\ k + 0 = k
    BY <1>1, <1>2
  <2>2. log[m] = written[k]
    BY <1>4, <2>1
  <2> QED BY <2>2 DEF Recent
<1>7. Sound(rotated)
  BY RotatedSound
<1>8. rotated \in Seq(Entries) /\ Len(rotated) \in Nat
  BY <1>7, EntryTypes DEF Sound, Growing
<1>9. ASSUME NEW l \in 1..Len(rotated), SameFrom(rotated, l, log, m) PROVE Held(rotated, k)
  <2>1. l \in Nat
    OBVIOUS
  <2> HIDE DEF rotated, n
  <2>2. SameFrom(rotated, l, written, k)
    BY <1>1, <1>2, <1>3, <1>4, <1>8, <1>9, <2>1, SameTransitive DEF n
  <2> QED BY <2>2 DEF Held
<1>10. CASE \E a, f : /\ Anchor(log, a, f)
                      /\ rotated = FilterOrphanToolResults(SubSeq(log, Cut(a, f), n))
  <2> PICK a, f : /\ Anchor(log, a, f)
                  /\ rotated = FilterOrphanToolResults(SubSeq(log, Cut(a, f), n))
    BY <1>10
  <2> DEFINE b == Cut(a, f)
             t == SubSeq(log, b, n)
  <2>1. a \in 1..n /\ f \in 1..n /\ log[a].kind = "compaction"
    BY DEF Anchor, LastIn
  <2>2. b \in 1..(n + 1) /\ b \in Nat /\ b <= a /\ a < m /\ a \in Nat
    <3>1. a \notin m..n
      BY <1>5, <2>1
    <3> QED BY <1>1, <2>1, <3>1 DEF Cut
  <2> HIDE DEF b
  <2>3. /\ Growing(t) /\ Linked(t)
        /\ Len(t) = n - b + 1
    <3>1. n \in 0..n
      BY <1>1
    <3>2. b <= n
      BY <1>1, <2>1, <2>2
    <3>3. /\ Growing(t) /\ Linked(t)
          /\ Len(t) = IF b <= n THEN n - b + 1 ELSE 0
      BY <1>1, <2>2, <3>1, PartLinked
    <3> QED BY <3>2, <3>3
  <2>4. Chained(t)
    BY <1>1, <2>2, ChainedEnd
  <2>5. SameFrom(t, 1, log, b) /\ \A j \in 0..(n - b) : t[1 + j] = log[b + j]
    BY <1>1, <2>2, EndOf
  <2> HIDE DEF t
  <2> DEFINE c == a - b
             x == 1 + c
             d == m - b
             y == 1 + d
  <2>6. /\ c \in 0..(n - b) /\ b + c = a /\ d \in Nat /\ b + d = m
        /\ x \in 1..Len(t) /\ y \in x..Len(t) /\ y \in Nat
    <3>1. n \in Nat /\ m \in 1..n /\ a \in Nat /\ b \in Nat /\ b >= 1 /\ b <= a /\ a < m
      BY <1>1, <2>2
    <3>2. Len(t) = n - b + 1
      BY <2>3
    <3> HIDE DEF n
    <3>3. c \in 0..(n - b) /\ b + c = a /\ d \in Nat /\ b + d = m
      BY <3>1
    <3>4. x \in 1..(n - b + 1) /\ y \in x..(n - b + 1) /\ y \in Nat
      BY <3>1
    <3> QED BY <3>2, <3>3, <3>4
  <2>7. t[x].kind = "compaction"
    <3> HIDE DEF c
    <3>1. t[1 + c] = log[b + c]
      BY <2>5, <2>6
    <3> QED BY <2>1, <2>6, <3>1
  <2>8. SameFrom(t, y, log, m)
    <3> DEFINE one == 1
    <3>1. one \in Nat /\ SameFrom(t, one, log, b) /\ Len(t) \in Nat
      BY <1>1, <2>2, <2>3, <2>5
    <3> HIDE DEF one, d
    <3>2. SameFrom(t, one + d, log, b + d)
      BY <1>1, <2>2, <2>6, <3>1, SameLater
    <3> QED BY <2>6, <3>2 DEF one
  <2> HIDE DEF x, y
  <2>9. PICK l \in 1..Len(rotated) : SameFrom(rotated, l, t, y)
    <3>1. rotated = FilterOrphanToolResults(t)
      BY DEF b, t
    <3> HIDE DEF rotated
    <3>2. \E l \in 1..Len(FilterOrphanToolResults(t)) :
              SameFrom(FilterOrphanToolResults(t), l, t, y)
      BY <2>3, <2>4, <2>6, <2>7, FilteredEnd
    <3> QED BY <3>1, <3>2
  <2>10. SameFrom(rotated, l, log, m)
    <3>1. Len(t) \in Nat /\ l \in Nat
      BY <1>1, <1>8, <2>2, <2>3, <2>6
    <3> HIDE DEF rotated
    <3> QED BY <1>1, <1>4, <1>8, <2>6, <2>8, <2>9, <3>1, SameTransitive
  <2> HIDE DEF rotated
  <2> QED BY <1>9, <2>10 DEF rotated
<1>11. CASE rotated = FilterOrphanToolResults(SelectTailEntries(log))
  <2>1. PICK a : TailStart(log, a) /\ SelectTailEntries(log) = SubSeq(log, a, n)
    BY <1>1, TailCases
  <2>2. SizeFrom(log, m) <= TailBudget
    BY <1>1, <1>3, SameSize DEF Recent
  <2>3. a \in 1..(n + 1) /\ a \in Nat /\ a <= m /\ (a <= n => log[a].kind # "result")
    BY <1>1, <1>6, <2>1, <2>2 DEF TailStart
  <2> DEFINE t == SubSeq(log, a, n)
  <2>4. SameFrom(FilterOrphanToolResults(t), 1, log, a)
    BY <2>3, EndSound
  <2>5. rotated = FilterOrphanToolResults(t)
    BY <1>11, <2>1
  <2> HIDE DEF t, rotated
  <2> DEFINE d == m - a
             l == 1 + d
  <2>6. d \in Nat /\ a + d = m /\ l \in Nat /\ l >= 1
    BY <1>4, <2>3
  <2>7. SameFrom(rotated, l, log, m)
    <3> DEFINE one == 1
    <3>1. one \in Nat /\ SameFrom(rotated, one, log, a)
      BY <2>4, <2>5
    <3> HIDE DEF one, d
    <3>2. SameFrom(rotated, one + d, log, a + d)
      BY <1>1, <1>8, <2>3, <2>6, <3>1, SameLater
    <3> QED BY <2>6, <3>2 DEF one
  <2>8. l \in 1..Len(rotated)
    <3>1. Len(rotated) + m = n + l
      BY <2>7 DEF SameFrom
    <3> HIDE DEF l
    <3> QED BY <1>1, <1>4, <1>8, <2>6, <3>1
  <2> HIDE DEF l
  <2> QED BY <1>9, <2>7, <2>8 DEF rotated
<1> QED BY <1>1, <1>10, <1>11, RotatedCases

(* And, when no compaction cuts between a call and its result, to what the last one
   keeps, to the summary and to all that follows.                               *)
LEMMA WholeSurvives ==
    ASSUME NEW log, Sound(log), NEW top, UpTo(log, top), written \in Seq(Entries), Numbered, Whole,
           NEW k \in 1..(Len(written) + 1), Covers(log, k)
    PROVE  \E i \in 1..(Len(written) + 1) : Covers(RotatedEntries(log), i)
<1> DEFINE n == Len(log)
           rotated == RotatedEntries(log)
<1>1. Growing(log) /\ Linked(log) /\ log \in Seq(Entries) /\ n \in Nat
  BY EntryTypes DEF Sound, Growing
<1>2. Len(written) \in Nat /\ k \in Nat /\ k >= 1
  OBVIOUS
<1>3. SameFrom(log, 1, written, k) /\ n + k = Len(written) + 1
  BY DEF Covers, SameFrom
<1>4. ASSUME NEW i \in 1..n
      PROVE  k + i - 1 \in 1..Len(written) /\ log[i] = written[k + i - 1] /\ log[i].id = k + i - 1
  <2> DEFINE j == i - 1
             x == k + i - 1
  <2>1. j \in 0..(n - 1) /\ 1 + j = i /\ k + j = x /\ x \in 1..Len(written)
    BY <1>1, <1>2, <1>3
  <2> HIDE DEF j, x
  <2>2. log[1 + j] = written[k + j]
    BY <2>1, <1>3 DEF SameFrom
  <2>3. log[i] = written[x] /\ written[x].id = x
    BY <2>1, <2>2 DEF Numbered
  <2> QED BY <2>1, <2>3 DEF x
<1>5. ASSUME NEW c, LastCompaction(c)
      PROVE  /\ c \in 1..Len(written) /\ written[c].kind = "compaction"
             /\ written[c].kept \in Nat
             /\ k <= written[c].kept /\ written[c].kept < c
             /\ LastIn(log, c - k + 1)
  <2>1. c \in 1..Len(written) /\ written[c].kind = "compaction"
    BY <1>5 DEF LastCompaction, Compactions
  <2>2. k <= written[c].kept /\ written[c].kept < c /\ written[c].kept \in Nat
    <3>1. written[c] \in Entries
      BY <2>1
    <3> QED BY <1>5, <3>1 DEF Covers, Entries
  <2> DEFINE a == c - k + 1
  <2>3. a \in 1..n /\ k + a - 1 = c
    BY <1>1, <1>2, <1>3, <2>1, <2>2
  <2>4. log[a].kind = "compaction"
    BY <1>4, <2>1, <2>3
  <2>5. ASSUME NEW i \in 1..n, log[i].kind = "compaction" PROVE i <= a
    <3>1. k + i - 1 \in Compactions
      BY <1>4, <2>5 DEF Compactions
    <3>2. k + i - 1 <= c
      BY <1>5, <3>1 DEF LastCompaction
    <3> QED BY <1>1, <1>2, <2>1, <3>2
  <2>6. LastIn(log, a)
    <3> HIDE DEF a
    <3> QED BY <2>3, <2>4, <2>5 DEF LastIn
  <2> QED BY <2>1, <2>2, <2>6
<1>6. rotated \in Seq(Entries) /\ Len(rotated) \in Nat
  <2>1. Sound(rotated)
    BY RotatedSound
  <2> HIDE DEF rotated
  <2> QED BY <2>1, EntryTypes DEF Sound, Growing
<1>7. ASSUME NEW b \in 1..(n + 1), SameFrom(rotated, 1, log, b)
      PROVE  k + b - 1 \in 1..(Len(written) + 1) /\ SameFrom(rotated, 1, written, k + b - 1)
  <2> DEFINE one == 1
             d == b - 1
             x == k + b - 1
  <2>1. one \in Nat /\ d \in Nat /\ one + d = b /\ k + d = x /\ SameFrom(log, one, written, k)
    BY <1>1, <1>2, <1>3
  <2>2. x \in 1..(Len(written) + 1) /\ x \in Nat /\ b \in Nat
    BY <1>1, <1>2, <1>3
  <2> HIDE DEF one, d, x
  <2>3. SameFrom(log, one + d, written, k + d)
    BY <1>1, <1>2, <2>1, SameLater
  <2>4. SameFrom(log, b, written, x) /\ SameFrom(rotated, one, log, b)
    BY <1>7, <2>1, <2>3 DEF one
  <2> HIDE DEF rotated, n
  <2>5. SameFrom(rotated, one, written, x)
    BY <1>1, <1>2, <1>6, <2>1, <2>2, <2>4, SameTransitive DEF n
  <2> QED BY <2>2, <2>5 DEF one, x
<1>8. CASE \E a, f : /\ Anchor(log, a, f)
                     /\ rotated = FilterOrphanToolResults(SubSeq(log, Cut(a, f), n))
  <2> PICK a, f : /\ Anchor(log, a, f)
                  /\ rotated = FilterOrphanToolResults(SubSeq(log, Cut(a, f), n))
    BY <1>8
  <2>1. a \in 1..n /\ f \in 1..n /\ log[a].kind = "compaction" /\ log[f].id = log[a].kept
    BY DEF Anchor, LastIn
  <2> DEFINE c == k + a - 1
             b == k + f - 1
  <2>2. c \in 1..Len(written) /\ log[a] = written[c]
    BY <1>4, <2>1
  <2>3. b \in 1..Len(written) /\ log[f] = written[b] /\ log[f].id = b
    BY <1>4, <2>1
  <2>4. LastCompaction(c)
    <3>1. c \in Compactions
      <4> HIDE DEF c
      <4> QED BY <2>1, <2>2 DEF Compactions
    <3>2. ASSUME NEW j \in Compactions PROVE j <= c
      <4>1. SUFFICES ASSUME c < j PROVE FALSE
        BY <2>2, <3>2 DEF Compactions
      <4> DEFINE i == j - k + 1
      <4>2. j \in 1..Len(written) /\ written[j].kind = "compaction"
        BY <3>2 DEF Compactions
      <4>3. i \in 1..n /\ k + i - 1 = j /\ a < i
        BY <1>1, <1>2, <1>3, <2>1, <4>1, <4>2
      <4>4. log[i].kind = "compaction"
        BY <1>4, <4>2, <4>3
      <4>5. i <= a
        <5> HIDE DEF i
        <5> QED BY <4>3, <4>4 DEF Anchor, LastIn
      <4> QED BY <2>1, <4>3, <4>5
    <3> HIDE DEF c
    <3> QED BY <3>1, <3>2 DEF LastCompaction
  <2>5. written[c].kept = b /\ b < c
    <3> HIDE DEF b, c
    <3> QED BY <1>5, <2>1, <2>2, <2>3, <2>4
  <2>6. Cut(a, f) = f
    BY <1>2, <2>1, <2>5 DEF Cut
  <2>7. log[f].kind # "result"
    <3>1. ~Severs(written[c])
      <4> HIDE DEF c
      <4> QED BY <2>4 DEF Whole, LastCompaction
    <3> HIDE DEF b, c
    <3> QED BY <2>3, <2>5, <3>1 DEF Severs
  <2>8. SameFrom(rotated, 1, log, f)
    <3>1. rotated = FilterOrphanToolResults(SubSeq(log, f, n))
      BY <2>6
    <3>2. f \in 1..(n + 1)
      BY <1>1, <2>1
    <3>3. SameFrom(FilterOrphanToolResults(SubSeq(log, f, n)), 1, log, f)
      BY <2>7, <3>2, EndSound
    <3> HIDE DEF rotated
    <3> QED BY <3>1, <3>3
  <2>9. b \in 1..(Len(written) + 1) /\ SameFrom(rotated, 1, written, b)
    <3>1. f \in 1..(n + 1)
      BY <1>1, <2>1
    <3> HIDE DEF rotated
    <3> QED BY <1>7, <2>8, <3>1
  <2>10. ASSUME NEW e, LastCompaction(e) PROVE b <= written[e].kept /\ written[e].kept < e
    <3>1. e = c
      <4>1. e <= c /\ c <= e
        <5> HIDE DEF c
        <5> QED BY <2>4, <2>10 DEF LastCompaction
      <4>2. e \in 1..Len(written)
        BY <1>5, <2>10
      <4> HIDE DEF c
      <4> QED BY <2>2, <4>1, <4>2
    <3>2. b <= b
      BY <2>3
    <3> HIDE DEF b, c
    <3> QED BY <2>5, <3>1, <3>2
  <2> HIDE DEF b, rotated
  <2>11. Covers(rotated, b)
    BY <2>9, <2>10 DEF Covers
  <2> QED BY <2>9, <2>11 DEF rotated
<1>9. CASE /\ \A a, f : ~Anchor(log, a, f)
           /\ rotated = FilterOrphanToolResults(SelectTailEntries(log))
  <2>1. ASSUME NEW c, LastCompaction(c) PROVE FALSE
    <3> DEFINE f == written[c].kept - k + 1
               a == c - k + 1
    <3>1. /\ c \in 1..Len(written) /\ written[c].kept \in Nat
          /\ k <= written[c].kept /\ written[c].kept < c /\ LastIn(log, a)
      BY <1>5, <2>1
    <3>2. f \in 1..n /\ k + f - 1 = written[c].kept
      <4>1. \A x, y \in Nat : k <= x /\ x < y /\ y < n + k
                => x - k + 1 \in 1..n /\ k + (x - k + 1) - 1 = x
        BY <1>1, <1>2
      <4>2. c \in Nat /\ c < n + k
        BY <1>2, <1>3, <3>1
      <4> QED BY <3>1, <4>1, <4>2
    <3>3. a \in 1..n /\ k + a - 1 = c
      BY <1>1, <1>2, <1>3, <3>1
    <3>4. log[f].id = written[c].kept /\ log[a] = written[c]
      <4>1. log[f].id = k + f - 1
        <5> HIDE DEF f
        <5> QED BY <1>4, <3>2
      <4>2. log[a] = written[k + a - 1]
        <5> HIDE DEF a
        <5> QED BY <1>4, <3>3
      <4> QED BY <3>2, <3>3, <4>1, <4>2
    <3> HIDE DEF f, a
    <3>5. Anchor(log, a, f)
      BY <3>1, <3>2, <3>4 DEF Anchor
    <3> QED BY <1>9, <3>5
  <2>2. PICK a : TailStart(log, a) /\ SelectTailEntries(log) = SubSeq(log, a, n)
    BY <1>1, TailCases
  <2>3. a \in 1..(n + 1) /\ (a <= n => log[a].kind # "result")
    BY <1>1, <2>2 DEF TailStart
  <2>4. SameFrom(rotated, 1, log, a)
    <3>1. rotated = FilterOrphanToolResults(SubSeq(log, a, n))
      BY <1>9, <2>2
    <3>2. SameFrom(FilterOrphanToolResults(SubSeq(log, a, n)), 1, log, a)
      BY <2>3, EndSound
    <3> HIDE DEF rotated
    <3> QED BY <3>1, <3>2
  <2> DEFINE b == k + a - 1
  <2> HIDE DEF rotated
  <2>5. b \in 1..(Len(written) + 1) /\ SameFrom(rotated, 1, written, b)
    BY <1>7, <2>3, <2>4
  <2>6. Covers(rotated, b)
    BY <2>1, <2>5 DEF Covers
  <2> QED BY <2>5, <2>6 DEF rotated
<1>10. \/ \E a, f : /\ Anchor(log, a, f)
                    /\ rotated = FilterOrphanToolResults(SubSeq(log, Cut(a, f), n))
       \/ /\ \A a, f : ~Anchor(log, a, f)
          /\ rotated = FilterOrphanToolResults(SelectTailEntries(log))
  BY <1>1, RotatedCases
<1> QED BY <1>8, <1>9, <1>10

(* A rotation forgets nothing that it should not. *)
LEMMA RotatedRemembers ==
    ASSUME NEW log, Sound(log), NEW top, UpTo(log, top), written \in Seq(Entries), Numbered,
           Remembered(log)
    PROVE  Remembered(RotatedEntries(log))
<1>1. Growing(log) /\ Linked(log) /\ log \in Seq(Entries) /\ Len(log) \in Nat /\ Chained(log)
  BY EntryTypes DEF Sound, Growing, Remembered
<1>2. Chained(RotatedEntries(log))
  <2>1. ASSUME NEW a \in 1..(Len(log) + 1)
        PROVE  Chained(FilterOrphanToolResults(SubSeq(log, a, Len(log))))
    <3> DEFINE t == SubSeq(log, a, Len(log))
    <3>1. Len(log) \in 0..Len(log)
      BY <1>1
    <3>2. Growing(t)
      BY <1>1, <3>1, PartLinked
    <3>3. Chained(t)
      BY <1>1, ChainedEnd
    <3> HIDE DEF t
    <3>4. Chained(FilterOrphanToolResults(t))
      BY <3>2, <3>3, ChainedFiltered
    <3> QED BY <3>4 DEF t
  <2>2. PICK a \in 1..(Len(log) + 1) :
            RotatedEntries(log) = FilterOrphanToolResults(SubSeq(log, a, Len(log)))
    <3>1. CASE \E a, f : /\ Anchor(log, a, f)
                         /\ RotatedEntries(log)
                              = FilterOrphanToolResults(SubSeq(log, Cut(a, f), Len(log)))
      <4>1. PICK a, f : /\ Anchor(log, a, f)
                        /\ RotatedEntries(log)
                             = FilterOrphanToolResults(SubSeq(log, Cut(a, f), Len(log)))
        BY <3>1
      <4>2. Cut(a, f) \in 1..(Len(log) + 1)
        BY <1>1, <4>1 DEF Anchor, LastIn, Cut
      <4> QED BY <4>1, <4>2
    <3>2. CASE RotatedEntries(log) = FilterOrphanToolResults(SelectTailEntries(log))
      <4>1. PICK a : TailStart(log, a) /\ SelectTailEntries(log) = SubSeq(log, a, Len(log))
        BY <1>1, TailCases
      <4> QED BY <3>2, <4>1 DEF TailStart
    <3> QED BY <1>1, <3>1, <3>2, RotatedCases
  <2> QED BY <2>1, <2>2
<1>3. ASSUME NEW k \in 1..Len(written), Recent(k) PROVE Held(RotatedEntries(log), k)
  <2>1. Held(log, k)
    BY <1>3 DEF Remembered
  <2> QED BY <1>1, <1>3, <2>1, RecentSurvives
<1>4. ASSUME Whole PROVE \E k \in 1..(Len(written) + 1) : Covers(RotatedEntries(log), k)
  <2>1. PICK k \in 1..(Len(written) + 1) : Covers(log, k)
    BY <1>4 DEF Remembered
  <2> QED BY <1>4, <2>1, WholeSurvives
<1> QED BY <1>2, <1>3, <1>4 DEF Remembered

(* What an agent writes is remembered too. *)
LEMMA AppendRemembers ==
    ASSUME written \in Seq(Entries), Numbered, NEW log, Sound(log), UpTo(log, Len(written)),
           Remembered(log), NEW e \in Following(log), written' = Append(written, e)
    PROVE  Numbered' /\ Remembered(Append(log, e))'
<1> DEFINE n == Len(log)
           top == Len(written)
           t == Append(log, e)
<1>1. log \in Seq(Entries) /\ n \in Nat /\ top \in Nat /\ e \in Entries /\ (log = <<>> <=> n = 0)
  BY FollowingSound DEF Sound, Growing
<1>2. /\ e.id = top + 1
      /\ log # <<>> => e.parent = log[n].id
      /\ e.kind = "compaction" => e.kept \in CutPoints(log)
  BY DEF Following
<1>3. /\ written' \in Seq(Entries) /\ Len(written') = top + 1 /\ written'[top + 1] = e
      /\ \A i \in 1..top : written'[i] = written[i]
      /\ \A i \in 1..Len(written') : i \in 1..top \/ i = top + 1
      /\ \A i \in 1..top : i \in 1..Len(written') /\ i < top + 1 /\ i \in Nat
      /\ top + 1 \in 1..Len(written')
  BY <1>1
<1>4. /\ t \in Seq(Entries) /\ Len(t) = n + 1 /\ t[n + 1] = e
      /\ \A i \in 1..n : t[i] = log[i]
  BY <1>1
<1> HIDE DEF t, n, top
<1>5. Numbered'
  BY <1>2, <1>3 DEF Numbered, top
<1>6. Chained(t)
  <2> SUFFICES ASSUME NEW i \in 2..Len(t), t[i].kind # "compaction" PROVE t[i].parent = t[i - 1].id
    BY DEF Chained
  <2>1. CASE i = n + 1
    <3>1. n \in 1..n /\ n # 0 /\ i - 1 = n
      BY <1>1, <2>1
    <3> QED BY <1>1, <1>2, <1>4, <2>1, <3>1
  <2>2. CASE i # n + 1
    <3>1. i \in 2..n /\ i \in 1..n /\ i - 1 \in 1..n
      BY <1>1, <1>4, <2>2
    <3>2. log[i].kind # "compaction" => log[i].parent = log[i - 1].id
      BY <3>1 DEF Remembered, Chained, n
    <3> QED BY <1>4, <3>1, <3>2
  <2> QED BY <2>1, <2>2
<1>7. /\ \A j \in Compactions : j \in Compactions'
      /\ \A j \in Compactions' : j \in Compactions \/ (j = top + 1 /\ e.kind = "compaction")
      /\ \A j \in Compactions : j \in 1..top
  <2>1. Compactions = {i \in 1..top : written[i].kind = "compaction"}
    BY DEF Compactions, top
  <2>2. Compactions' = {i \in 1..Len(written') : written'[i].kind = "compaction"}
    BY DEF Compactions
  <2> QED BY <1>3, <2>1, <2>2
<1>8. ASSUME NEW m \in 1..(n + 1), NEW k \in 1..(top + 1), SameFrom(log, m, written, k)
      PROVE  SameFrom(t, m, written', k)
  <2>1. m \in 1..(Len(log) + 1) /\ k \in 1..(Len(written) + 1)
    BY DEF n, top
  <2>2. SameFrom(Append(log, e), m, Append(written, e), k)
    BY <1>1, <1>8, <2>1, SameAppend
  <2> QED BY <2>2 DEF t
<1>9. ASSUME NEW k \in 1..Len(written'), Recent(k)' PROVE Held(t, k)'
  <2>1. CASE k = top + 1
    <3> DEFINE m == n + 1
    <3>1. m \in 1..(n + 1) /\ m \in 1..Len(t) /\ k \in 1..(top + 1)
      BY <1>1, <1>3, <1>4
    <3>2. SameFrom(log, m, written, k)
      <4>1. Len(log) + k = Len(written) + m /\ Len(log) - m = -1
        BY <1>1, <2>1 DEF n, top
      <4>2. 0..(Len(log) - m) = {}
        BY <4>1
      <4> HIDE DEF m
      <4> QED BY <4>1, <4>2 DEF SameFrom
    <3> HIDE DEF m
    <3>3. SameFrom(t, m, written', k)
      BY <1>8, <3>1, <3>2
    <3> QED BY <3>1, <3>3 DEF Held
  <2>2. CASE k # top + 1
    <3>1. k \in 1..top /\ k \in 1..Len(written) /\ k \in 1..(top + 1)
      BY <1>1, <1>3, <2>2 DEF top
    <3>2. Recent(k)
      <4>1. SizeFrom(written, k) \in Nat /\ SizeFrom(written, k) <= SizeFrom(Append(written, e), k)
        BY <1>1, <3>1, SizeFromGrows
      <4>2. SizeFrom(written', k) <= TailBudget
        BY <1>9 DEF Recent
      <4>3. SizeFrom(written', k) \in Nat
        <5>1. PICK x : x = written'
          OBVIOUS
        <5>2. x \in Seq(Entries) /\ k \in 1..Len(x)
          BY <1>3, <5>1
        <5>3. SizeFrom(x, k) \in Nat
          BY <1>1, <5>2, SizeFromGrows
        <5> QED BY <5>1, <5>3
      <4>4. SizeFrom(written, k) <= TailBudget
        <5> DEFINE x == SizeFrom(written, k)
                   y == SizeFrom(written', k)
        <5>1. x \in Nat /\ y \in Nat /\ x <= y /\ y <= TailBudget
          BY <4>1, <4>2, <4>3
        <5> HIDE DEF x, y
        <5>2. x <= TailBudget
          BY <5>1, RotationAssumption
        <5> QED BY <5>2 DEF x
      <4>5. written[k].kind = "user" /\ \A j \in Compactions : j < k
        BY <1>3, <1>7, <1>9, <3>1 DEF Recent
      <4> QED BY <4>4, <4>5 DEF Recent
    <3>3. PICK m \in 1..n : SameFrom(log, m, written, k)
      BY <3>1, <3>2 DEF Remembered, Held, n
    <3>4. m \in 1..(n + 1) /\ m \in 1..Len(t)
      BY <1>1, <1>4
    <3>5. SameFrom(t, m, written', k)
      BY <1>8, <3>1, <3>3, <3>4
    <3> QED BY <3>4, <3>5 DEF Held
  <2> QED BY <2>1, <2>2
<1>10. ASSUME Whole' PROVE \E k \in 1..(Len(written') + 1) : Covers(t, k)'
  <2>1. Whole
    <3> SUFFICES ASSUME NEW j \in Compactions, NEW i \in 1..Len(written),
                        written[i].id = written[j].kept, written[i].kind = "result"
                 PROVE  FALSE
      BY DEF Whole, Severs
    <3>1. j \in 1..top /\ i \in 1..top /\ j \in Compactions'
      BY <1>7 DEF top
    <3>2. written'[j] = written[j] /\ written'[i] = written[i] /\ i \in 1..Len(written')
      BY <1>3, <3>1
    <3> QED BY <1>10, <3>1, <3>2 DEF Whole, Severs
  <2>2. PICK k \in 1..(Len(written) + 1) : Covers(log, k)
    BY <2>1 DEF Remembered
  <2>3. k \in 1..(top + 1) /\ k \in 1..(Len(written') + 1) /\ k \in Nat /\ 1 \in 1..(n + 1)
    BY <1>1, <1>3 DEF top
  <2>4. SameFrom(log, 1, written, k)
    BY <2>2 DEF Covers
  <2>5. SameFrom(t, 1, written', k)
    BY <1>8, <2>3, <2>4
  <2>6. ASSUME NEW c, LastCompaction(c)' PROVE k <= written'[c].kept /\ written'[c].kept < c
    <3>1. CASE c = top + 1 /\ e.kind = "compaction"
      <4>1. PICK i \in 1..n : e.kept = log[i].id
        BY <1>2, <3>1 DEF CutPoints, n
      <4> DEFINE j == i - 1
                 x == k + i - 1
      <4>2. j \in 0..(n - 1) /\ 1 + j = i /\ k + j = x
        BY <1>1, <2>3
      <4>3. n + k = top + 1
        BY <2>4 DEF SameFrom, n, top
      <4>4. x \in 1..top /\ k <= x /\ x < top + 1
        BY <1>1, <2>3, <4>3
      <4> HIDE DEF j, x
      <4>5. log[1 + j] = written[k + j]
        BY <2>4, <4>2 DEF SameFrom, n
      <4>6. written[x].id = x
        BY <4>4 DEF Numbered, top
      <4>7. e.kept = x
        BY <4>1, <4>2, <4>5, <4>6
      <4> QED BY <1>3, <3>1, <4>4, <4>7
    <3>2. CASE c \in Compactions
      <4>1. LastCompaction(c)
        BY <1>7, <2>6, <3>2 DEF LastCompaction
      <4>2. written'[c] = written[c]
        BY <1>3, <1>7, <3>2
      <4> QED BY <2>2, <4>1, <4>2 DEF Covers
    <3> QED BY <1>7, <2>6, <3>1, <3>2 DEF LastCompaction
  <2>7. Covers(t, k)'
    BY <2>5, <2>6 DEF Covers
  <2> QED BY <2>3, <2>7
<1>11. Remembered(t)'
  BY <1>6, <1>9, <1>10 DEF Remembered
<1> QED BY <1>5, <1>11 DEF t

-----------------------------------------------------------------------------
(* The newest file of the directory *)

NewestIn(files, i) ==
    /\ i \in 1..Len(files) /\ files[i].kind = "jsonl"
    /\ \A j \in 1..Len(files) : files[j].kind = "jsonl" => j <= i

(* It is the one that findMostRecentSession finds. *)
LEMMA NewestFound ==
    ASSUME NEW files, Len(files) \in Nat
    PROVE  LET m == LastOf({i \in 1..Len(files) : files[i].kind = "jsonl"})
           IN  /\ m # 0 => NewestIn(files, m)
               /\ \A i : NewestIn(files, i) => m = i
<1> DEFINE found == {i \in 1..Len(files) : files[i].kind = "jsonl"}
           m == LastOf(found)
<1>1. found \in SUBSET (1..Len(files))
  OBVIOUS
<1>2. IF found = {} THEN m = 0 ELSE m \in found /\ \A i \in found : i <= m
  <2> HIDE DEF found
  <2> QED BY <1>1, LastFound
<1> HIDE DEF m
<1>3. m # 0 => NewestIn(files, m)
  <2> SUFFICES ASSUME m # 0 PROVE NewestIn(files, m)
    OBVIOUS
  <2>1. m \in found /\ \A i \in found : i <= m
    <3> HIDE DEF found
    <3> QED BY <1>2
  <2> QED BY <2>1 DEF NewestIn
<1>4. ASSUME NEW i, NewestIn(files, i) PROVE m = i
  <2>1. i \in found /\ \A j \in found : j <= i
    BY <1>4 DEF NewestIn
  <2>2. m \in found /\ i <= m /\ m <= i
    <3> HIDE DEF found
    <3> QED BY <1>2, <2>1
  <2> QED BY <2>1, <2>2
<1> QED BY <1>3, <1>4 DEF m

(* A file put last is the newest. *)
LEMMA LastIsNewest ==
    ASSUME NEW files \in Seq(Files), NEW f \in Files, f.kind = "jsonl"
    PROVE  LET t == Append(files, f)
           IN  /\ Len(t) \in Nat
               /\ \E i : NewestIn(t, i) /\ i # 0 /\ t[i] = f
<1> DEFINE t == Append(files, f)
           n == Len(files) + 1
<1>1. /\ Len(t) = n /\ t[n] = f /\ n \in Nat /\ n \in 1..n /\ n # 0
      /\ \A j \in 1..n : j <= n
  OBVIOUS
<1> HIDE DEF t, n
<1>2. NewestIn(t, n)
  BY <1>1 DEF NewestIn
<1> QED BY <1>1, <1>2 DEF t

(* The newest file stays it when archives go and another file becomes one. *)
LEMMA NewestStays ==
    ASSUME NEW files, NEW top, DirOK(files, top), NEW i, NewestIn(files, i),
           NEW name, files[i].name # name
    PROVE  LET t == PruneArchives(Archived(files, name))
           IN  /\ Len(t) \in Nat
               /\ \E j : NewestIn(t, j) /\ j # 0 /\ t[j] = files[i]
<1> DEFINE renamed  == Archived(files, name)
           archives == {j \in 1..Len(renamed) : renamed[j].kind = "archived"}
           newer(j) == Cardinality({k \in archives : k > j})
           pruned   == {j \in archives : KeepCount > 0 /\ newer(j) >= KeepCount}
           places   == (1..Len(renamed)) \ pruned
           t        == Selected(renamed, places)
<1>1. DirOK(renamed, top)
  BY ArchivedOK
<1>2. renamed \in Seq(Files) /\ Len(renamed) \in Nat
  BY <1>1, FileTypes DEF DirOK
<1>3. PruneArchives(renamed) = t
  BY DEF PruneArchives
<1>4. Len(renamed) = Len(files)
      /\ \A j \in 1..Len(files) :
            renamed[j] = IF files[j].name = name THEN [files[j] EXCEPT !.kind = "archived"]
                         ELSE files[j]
  <2>1. renamed = [j \in 1..Len(files) |->
                     IF files[j].name = name THEN [files[j] EXCEPT !.kind = "archived"]
                     ELSE files[j]]
    BY DEF Archived
  <2>2. Len(files) \in Nat
    BY FileTypes
  <2>3. DOMAIN renamed = 1..Len(files)
    BY <2>1
  <2>4. DOMAIN renamed = 1..Len(renamed)
    <3> HIDE DEF renamed
    <3> QED BY <1>2
  <2>5. Len(renamed) = Len(files)
    <3> HIDE DEF renamed
    <3> QED BY <1>2, <2>2, <2>3, <2>4
  <2> QED BY <2>1, <2>5
<1>5. i \in 1..Len(files) /\ renamed[i] = files[i] /\ files[i].kind = "jsonl"
  BY <1>4 DEF NewestIn
<1>6. ASSUME NEW j \in 1..Len(renamed), renamed[j].kind = "jsonl" PROVE j <= i
  <2>1. j \in 1..Len(files)
    BY <1>4
  <2>2. files[j] = [name |-> files[j].name, kind |-> files[j].kind,
                    header |-> files[j].header, log |-> files[j].log]
    <3>1. files[j] \in Files
      BY <2>1, FileTypes
    <3> QED BY <3>1 DEF Files
  <2>3. [files[j] EXCEPT !.kind = "archived"].kind = "archived"
    BY <2>2
  <2>4. renamed[j] = files[j]
    BY <1>4, <1>6, <2>1, <2>3
  <2> QED BY <1>6, <2>1, <2>4 DEF NewestIn
<1>7. i \in places /\ i \in 1..Len(renamed)
  <2>1. i \notin archives
    BY <1>5
  <2> QED BY <1>4, <1>5, <2>1
<1> HIDE DEF renamed, pruned, places, t
<1>8. t \in Seq(Files) /\ PickedFrom(t, renamed, places, Len(renamed))
  BY <1>2, SelectedPicks DEF t
<1>9. PICK h : Picked(t, h, renamed, places, Len(renamed))
  BY <1>8 DEF PickedFrom
<1>10. /\ \A j \in 1..Len(t) : h[j] \in 1..Len(renamed) /\ t[j] = renamed[h[j]]
       /\ \A j, k \in 1..Len(t) : j < k => h[j] < h[k]
       /\ \A k \in 1..Len(renamed) : k \in places => \E j \in 1..Len(t) : h[j] = k
  BY <1>9 DEF Picked
<1>11. PICK j \in 1..Len(t) : h[j] = i
  BY <1>7, <1>10
<1>12. Len(t) \in Nat
  BY <1>8
<1>13. ASSUME NEW k \in 1..Len(t), t[k].kind = "jsonl" PROVE k <= j
  <2>1. SUFFICES ASSUME j < k PROVE FALSE
    BY <1>12
  <2>2. h[k] <= i /\ h[j] < h[k] /\ h[k] \in Nat /\ i \in Nat
    <3>1. h[k] \in 1..Len(renamed) /\ t[k] = renamed[h[k]]
      BY <1>10
    <3>2. h[k] <= i
      BY <1>6, <1>13, <3>1
    <3>3. h[j] < h[k]
      BY <1>10, <2>1
    <3> QED BY <1>2, <1>7, <3>1, <3>2, <3>3
  <2> QED BY <1>11, <2>2
<1>14. t[j] = files[i] /\ j # 0
  BY <1>5, <1>10, <1>11, <1>12
<1>15. NewestIn(t, j)
  BY <1>5, <1>13, <1>14 DEF NewestIn
<1>16. t = PruneArchives(Archived(files, name))
  BY <1>3 DEF renamed
<1> QED BY <1>12, <1>14, <1>15, <1>16

\* What the next start of the agent would go on from.
Current == IF FindMostRecentSession = 0 THEN <<>> ELSE Newest.log

\* The agent appends to the newest file, a rotation archives another one, and the newest
\* file holds what may not be forgotten.
MemoryInv ==
    /\ Numbered
    /\ Remembered(Current)
    /\ \A p \in Pids :
        /\ HasSession(p) => FindMostRecentSession # 0 /\ Newest.name = server[p].file
        /\ server[p].at = "rotating" =>
              FindMostRecentSession # 0 /\ Newest.name # server[p].file

(* The next state's newest file. *)
LEMMA NewestNext ==
    ASSUME Len(dir') \in Nat, NEW f, NEW i, NewestIn(dir', i), i # 0, dir'[i] = f
    PROVE  /\ FindMostRecentSession' # 0 /\ Newest' = f
           /\ Current' = f.log
<1>1. FindMostRecentSession' = i
  <2>1. FindMostRecentSession' = LastOf({j \in 1..Len(dir') : dir'[j].kind = "jsonl"})
    BY DEF FindMostRecentSession
  <2>2. PICK x : x = dir'
    OBVIOUS
  <2>3. Len(x) \in Nat /\ NewestIn(x, i)
    BY <2>2 DEF NewestIn
  <2>4. LastOf({j \in 1..Len(x) : x[j].kind = "jsonl"}) = i
    BY <2>3, NewestFound
  <2> QED BY <2>1, <2>2, <2>4
<1> QED BY <1>1 DEF Newest, Current

(* And this one's. *)
LEMMA NewestNow ==
    ASSUME NEW top, DirOK(dir, top), FindMostRecentSession # 0
    PROVE  NewestIn(dir, FindMostRecentSession)
<1>1. Len(dir) \in Nat
  BY FileTypes
<1>2. FindMostRecentSession = LastOf({i \in 1..Len(dir) : dir[i].kind = "jsonl"})
  BY DEF FindMostRecentSession
<1> QED BY <1>1, <1>2, NewestFound

(* What the newest session file holds is sound, and so is nothing. *)
LEMMA CurrentSound ==
    ASSUME NEW top, DirOK(dir, top)
    PROVE  Sound(Current) /\ UpTo(Current, top)
<1>1. Sound(<<>>) /\ UpTo(<<>>, top)
  BY DEF Sound, Growing, Linked, UpTo
<1> QED BY <1>1, NewestSound DEF Current

(* What is remembered when one process, the only one that runs, has taken a step. *)
LEMMA LoneMemory ==
    ASSUME IInv, OneShell, NEW p \in Pids, Running(p), NEW r,
           server' = [server EXCEPT ![p] = r],
           Numbered', Remembered(Current)',
           r.at \in {"open", "up", "closing"} =>
               FindMostRecentSession' # 0 /\ Newest'.name = r.file,
           r.at = "rotating" => FindMostRecentSession' # 0 /\ Newest'.name # r.file
    PROVE  MemoryInv'
<1>1. server'[p] = r /\ \A q \in Pids \ {p} : server'[q] = server[q]
  BY DEF IInv, Typed
<1>2. PICK s \in Shells : Progress(s) /\ command[s].at \in Stages
  BY ProcessAssumption DEF IInv, Typed
<1>3. \E o : Only(o)
  BY <1>2 DEF Progress, Between, Starting, Stopping, Stages
<1>4. \A q \in Pids \ {p} : server'[q].at \notin {"rotating", "open", "up", "closing"}
  BY <1>1, <1>3 DEF Only, Running
<1>5. ASSUME NEW q \in Pids
      PROVE  /\ HasSession(q)' => FindMostRecentSession' # 0 /\ Newest'.name = server'[q].file
             /\ server'[q].at = "rotating" =>
                   FindMostRecentSession' # 0 /\ Newest'.name # server'[q].file
  <2>1. CASE q = p
    BY <1>1, <2>1 DEF HasSession
  <2>2. CASE q # p
    BY <1>4, <2>2 DEF HasSession
  <2> QED BY <2>1, <2>2
<1> QED BY <1>5 DEF MemoryInv

\* The same history, and the same to go on from.
SameMemory == UNCHANGED written /\ Current' = Current

(* What is remembered then. *)
LEMMA SameRemembered ==
    ASSUME Numbered, Remembered(Current), SameMemory
    PROVE  Numbered' /\ Remembered(Current)'
<1>1. PICK log : log = Current
  OBVIOUS
<1>2. Current' = log /\ written' = written
  BY <1>1 DEF SameMemory
<1>3. Compactions' = Compactions /\ \A k : LastCompaction(k)' <=> LastCompaction(k)
  BY <1>2 DEF Compactions, LastCompaction
<1>4. Whole' <=> Whole
  BY <1>2, <1>3 DEF Whole, Severs
<1>5. \A k : Recent(k)' <=> Recent(k)
  BY <1>2, <1>3 DEF Recent
<1>6. \A k : (Held(log, k)' <=> Held(log, k)) /\ (Covers(log, k)' <=> Covers(log, k))
  BY <1>2, <1>3 DEF Held, Covers
<1>7. Remembered(log)'
  BY <1>1, <1>2, <1>4, <1>5, <1>6 DEF Remembered
<1>8. Numbered'
  BY <1>2 DEF Numbered
<1> QED BY <1>2, <1>7, <1>8

(* Nobody begins to write. *)
LEMMA NoneOpensMemory ==
    ASSUME MemoryInv, UNCHANGED <<dir, written>>, NoneOpens
    PROVE  MemoryInv'
<1>1. FindMostRecentSession' = FindMostRecentSession
  BY DEF FindMostRecentSession
<1>2. Newest' = Newest
  BY <1>1 DEF Newest
<1>3. SameMemory
  BY <1>1, <1>2 DEF SameMemory, Current
<1>4. Numbered' /\ Remembered(Current)'
  BY <1>3, SameRemembered DEF MemoryInv
<1>5. ASSUME NEW p \in Pids
      PROVE  /\ HasSession(p)' => FindMostRecentSession' # 0 /\ Newest'.name = server'[p].file
             /\ server'[p].at = "rotating" =>
                   FindMostRecentSession' # 0 /\ Newest'.name # server'[p].file
  BY <1>1, <1>2 DEF NoneOpens, MemoryInv
<1> QED BY <1>4, <1>5 DEF MemoryInv

(* The rotated file holds what the newest one held of the last turns. *)
LEMMA WriteRotatedFileRemembers ==
    ASSUME IInv, OneShell, SessionInv, MemoryInv, "torn" \notin Env,
           NEW p \in Pids, WriteRotatedFile(p)
    PROVE  MemoryInv'
<1> DEFINE top == Len(written)
           entries == RotatedEntries(Newest.log)
           f == SessionFile(FreshName, TRUE, entries)
           r == [at |-> "rotating", file |-> Newest.name, log |-> <<>>]
<1>1. DirOK(dir, top) /\ written \in Seq(Entries) /\ UNCHANGED written /\ Running(p)
  BY DEF SessionInv, WriteRotatedFile, Running
<1>2. FindMostRecentSession # 0 /\ Current = Newest.log
  BY DEF WriteRotatedFile, Current
<1>3. Sound(Newest.log) /\ UpTo(Newest.log, top)
  BY <1>1, <1>2, NewestSound
<1>4. Sound(entries) /\ entries \in Seq(Entries) /\ Len(entries) \in Nat
  <2>1. Sound(entries)
    BY <1>3, RotatedSound
  <2> HIDE DEF entries
  <2> QED BY <2>1, EntryTypes DEF Sound, Growing
<1>5. dir' = Append(dir, f) /\ server' = [server EXCEPT ![p] = r]
  <2>1. PICK n \in LinesWritten(Len(entries)) :
          /\ dir' = Append(dir, SessionFile(FreshName, TRUE, SubSeq(entries, 1, n)))
          /\ server' = [server EXCEPT ![p] = IF n < Len(entries) THEN Dead ELSE r]
    BY DEF WriteRotatedFile
  <2> HIDE DEF entries, r
  <2>2. n = Len(entries)
    BY <2>1 DEF LinesWritten
  <2>3. SubSeq(entries, 1, n) = entries
    BY <1>4, <2>2
  <2>4. dir' = Append(dir, f)
    BY <2>1, <2>3
  <2>5. server' = [server EXCEPT ![p] = r]
    <3>1. ~(n < Len(entries))
      BY <1>4, <2>2
    <3> QED BY <2>1, <3>1
  <2> QED BY <2>4, <2>5
<1>6. FreshName \in Nat /\ FreshName # Newest.name
  <2>1. FreshName \in Nat /\ FreshName \notin UsedNames
    BY <1>1, FileTypes, FreshIsNew
  <2>2. FindMostRecentSession \in 1..Len(dir)
    BY <1>1, <1>2, NewestSound
  <2>3. Newest.name \in UsedNames
    BY <2>2 DEF UsedNames, Newest
  <2> QED BY <2>1, <2>3
<1> HIDE DEF entries
<1>7. f \in Files /\ f.kind = "jsonl" /\ f.name = FreshName /\ f.log = entries
  <2>1. \A name \in Nat, l \in Seq(Entries) :
          [name |-> name, kind |-> "jsonl", header |-> TRUE, log |-> l] \in Files
    BY DEF Files
  <2> QED BY <1>4, <1>6, <2>1 DEF SessionFile
<1>8. FindMostRecentSession' # 0 /\ Newest' = f /\ Current' = entries
  <2> HIDE DEF f
  <2>1. dir \in Seq(Files)
    BY <1>1 DEF DirOK
  <2>2. /\ Len(dir') \in Nat
        /\ \E i : NewestIn(dir', i) /\ i # 0 /\ dir'[i] = f
    BY <1>5, <1>7, <2>1, LastIsNewest
  <2> QED BY <1>7, <2>2, NewestNext
<1>9. Numbered' /\ Remembered(Current)'
  <2>1. PICK log : log = Newest.log
    OBVIOUS
  <2>2. Remembered(log)
    BY <1>2, <2>1 DEF MemoryInv
  <2>3. PICK new : new = RotatedEntries(log)
    OBVIOUS
  <2>4. Numbered /\ Remembered(new)
    BY <1>1, <1>3, <2>1, <2>2, <2>3, RotatedRemembers DEF MemoryInv
  <2>5. Current' = new
    BY <1>8, <2>1, <2>3 DEF entries
  <2>6. Compactions' = Compactions /\ \A k : LastCompaction(k)' <=> LastCompaction(k)
    BY <1>1 DEF Compactions, LastCompaction
  <2>7. Whole' <=> Whole
    BY <1>1, <2>6 DEF Whole, Severs
  <2>8. \A k : Recent(k)' <=> Recent(k)
    BY <1>1, <2>6 DEF Recent
  <2>9. \A k : (Held(new, k)' <=> Held(new, k)) /\ (Covers(new, k)' <=> Covers(new, k))
    BY <1>1, <2>6 DEF Held, Covers
  <2>10. Remembered(new)' /\ Numbered'
    BY <1>1, <2>4, <2>7, <2>8, <2>9 DEF Remembered, Numbered
  <2> QED BY <2>5, <2>10
<1>10. r.at = "rotating" /\ r.file = Newest.name
  OBVIOUS
<1> HIDE DEF f, r
<1>11. Newest'.name # r.file
  BY <1>6, <1>7, <1>8, <1>10
<1> QED BY <1>1, <1>5, <1>8, <1>9, <1>10, <1>11, LoneMemory

(* The file that a rotation archives is not the newest. *)
LEMMA ArchiveOldFileRemembers ==
    ASSUME IInv, OneShell, SessionInv, MemoryInv, NEW p \in Pids, ArchiveOldFile(p)
    PROVE  MemoryInv'
<1>1. /\ DirOK(dir, Len(written)) /\ UNCHANGED written /\ Running(p)
      /\ dir' = PruneArchives(Archived(dir, server[p].file))
      /\ server[p].at = "rotating"
  BY DEF SessionInv, ArchiveOldFile, Running
<1>2. FindMostRecentSession # 0 /\ Newest.name # server[p].file
  BY <1>1 DEF MemoryInv
<1>3. NewestIn(dir, FindMostRecentSession)
  BY <1>1, <1>2, NewestNow
<1>4. /\ Len(dir') \in Nat
      /\ \E i : NewestIn(dir', i) /\ i # 0 /\ dir'[i] = Newest
  <2> DEFINE i == FindMostRecentSession
             name == server[p].file
  <2>1. NewestIn(dir, i) /\ dir[i] = Newest /\ dir[i].name # name
    BY <1>2, <1>3 DEF Newest
  <2>2. dir' = PruneArchives(Archived(dir, name))
    BY <1>1
  <2> HIDE DEF i, name
  <2>3. LET t == PruneArchives(Archived(dir, name))
        IN  /\ Len(t) \in Nat
            /\ \E j : NewestIn(t, j) /\ j # 0 /\ t[j] = dir[i]
    BY <1>1, <2>1, NewestStays
  <2> QED BY <2>1, <2>2, <2>3
<1>5. PICK f : f = Newest
  OBVIOUS
<1>6. FindMostRecentSession' # 0 /\ Newest' = f /\ Current' = f.log
  BY <1>4, <1>5, NewestNext
<1>7. SameMemory
  BY <1>1, <1>2, <1>5, <1>6 DEF SameMemory, Current
<1>8. Numbered' /\ Remembered(Current)'
  BY <1>7, SameRemembered DEF MemoryInv
<1>9. PICK r : server' = [server EXCEPT ![p] = r] /\ r.at = "rotated"
  <2> DEFINE r == [server[p] EXCEPT !.at = "rotated", !.file = 0]
  <2>1. server' = [server EXCEPT ![p] = r]
    BY DEF ArchiveOldFile
  <2>2. server[p] = [at |-> server[p].at, file |-> server[p].file, log |-> server[p].log]
    BY DEF IInv, Typed, IsProcess
  <2>3. r.at = "rotated"
    BY <2>2
  <2> QED BY <2>1, <2>3
<1> QED BY <1>1, <1>8, <1>9, LoneMemory

(* An agent goes on from the newest file, or begins one when there is none. *)
LEMMA OpenSessionRemembers ==
    ASSUME IInv, OneShell, SessionInv, MemoryInv, NEW p \in Pids, OpenSession(p)
    PROVE  MemoryInv'
<1>1. UNCHANGED written /\ Running(p) /\ DirOK(dir, Len(written))
  BY DEF OpenSession, Running, SessionInv
<1>2. CASE FindMostRecentSession # 0
  <2> DEFINE r == [at |-> "open", file |-> Newest.name, log |-> Newest.log]
  <2>1. server' = [server EXCEPT ![p] = r] /\ dir' = dir
    BY <1>2 DEF OpenSession
  <2>2. FindMostRecentSession' = FindMostRecentSession
    BY <2>1 DEF FindMostRecentSession
  <2>3. Newest' = Newest
    BY <2>1, <2>2 DEF Newest
  <2>4. SameMemory
    BY <1>1, <2>2, <2>3 DEF SameMemory, Current
  <2>5. Numbered' /\ Remembered(Current)'
    BY <2>4, SameRemembered DEF MemoryInv
  <2>6. r.at = "open" /\ r.file = Newest.name
    OBVIOUS
  <2> HIDE DEF r
  <2>7. FindMostRecentSession' # 0 /\ Newest'.name = r.file
    BY <1>2, <2>2, <2>3, <2>6
  <2> QED BY <1>1, <2>1, <2>5, <2>6, <2>7, LoneMemory
<1>3. CASE FindMostRecentSession = 0
  <2> DEFINE r == [at |-> "open", file |-> FreshName, log |-> <<>>]
             f == SessionFile(FreshName, TRUE, <<>>)
  <2>1. server' = [server EXCEPT ![p] = r] /\ dir' = Append(dir, f)
    BY <1>3 DEF OpenSession
  <2>2. FreshName \in Nat
    BY <1>1, FileTypes, FreshIsNew
  <2>3. f \in Files /\ f.kind = "jsonl" /\ f.name = FreshName /\ f.log = <<>>
    <3>1. <<>> \in Seq(Entries)
      OBVIOUS
    <3>2. \A name \in Nat, l \in Seq(Entries) :
            [name |-> name, kind |-> "jsonl", header |-> TRUE, log |-> l] \in Files
      BY DEF Files
    <3> QED BY <2>2, <3>1, <3>2 DEF SessionFile
  <2>4. r.at = "open" /\ r.file = FreshName
    OBVIOUS
  <2> HIDE DEF r, f
  <2>5. FindMostRecentSession' # 0 /\ Newest' = f /\ Current' = f.log
    <3>1. dir \in Seq(Files)
      BY <1>1 DEF DirOK
    <3>2. /\ Len(dir') \in Nat
          /\ \E i : NewestIn(dir', i) /\ i # 0 /\ dir'[i] = f
      BY <2>1, <2>3, <3>1, LastIsNewest
    <3>3. PICK g : g = f
      OBVIOUS
    <3>4. FindMostRecentSession' # 0 /\ Newest' = g /\ Current' = g.log
      BY <3>2, <3>3, NewestNext
    <3> QED BY <3>3, <3>4
  <2>6. SameMemory
    BY <1>1, <1>3, <2>3, <2>5 DEF SameMemory, Current
  <2>7. Numbered' /\ Remembered(Current)'
    BY <2>6, SameRemembered DEF MemoryInv
  <2>8. Newest'.name = r.file
    BY <2>3, <2>4, <2>5
  <2> QED BY <1>1, <2>1, <2>4, <2>5, <2>7, <2>8, LoneMemory
<1> QED BY <1>2, <1>3

(* What an agent has in memory is what the newest file holds. *)
LEMMA InMemory ==
    ASSUME SessionInv, MemoryInv, NEW p \in Pids, HasSession(p)
    PROVE  /\ FindMostRecentSession \in 1..Len(dir) /\ Newest.kind = "jsonl"
           /\ Newest.name = server[p].file /\ Newest.log = server[p].log
           /\ Current = server[p].log
<1>1. FindMostRecentSession # 0 /\ Newest.name = server[p].file /\ DirOK(dir, Len(written))
  BY DEF MemoryInv, SessionInv
<1>2. FindMostRecentSession \in 1..Len(dir) /\ Newest.kind = "jsonl"
  BY <1>1, NewestSound
<1>3. PICK i \in 1..Len(dir) : /\ dir[i].kind = "jsonl" /\ dir[i].name = server[p].file
                               /\ dir[i].log = server[p].log
  BY DEF SessionInv, InFile
<1>4. i = FindMostRecentSession
  BY <1>1, <1>2, <1>3 DEF DirOK, Newest
<1> QED BY <1>1, <1>2, <1>3, <1>4 DEF Newest, Current

(* An entry becomes part of the history and of the newest file, which stays the newest. *)
LEMMA AppendEntryRemembers ==
    ASSUME IInv, OneShell, SessionInv, MemoryInv, NEW p \in Pids, AppendEntry(p)
    PROVE  MemoryInv'
<1> DEFINE top == Len(written)
           k == FindMostRecentSession
<1>1. PICK e \in Following(server[p].log) :
        /\ written' = Append(written, e)
        /\ dir' = Appended(server[p].file, e)
        /\ server' = [server EXCEPT ![p].log = Append(@, e)]
  BY DEF AppendEntry
<1>2. Running(p) /\ HasSession(p)
  BY DEF AppendEntry, HasSession, Running
<1>3. /\ k \in 1..Len(dir) /\ dir[k].kind = "jsonl" /\ dir[k].name = server[p].file
      /\ dir[k].log = server[p].log /\ Current = server[p].log
  BY <1>2, InMemory DEF Newest
<1>4. written \in Seq(Entries) /\ DirOK(dir, top)
  BY DEF SessionInv
<1>5. PICK log : log = server[p].log
  OBVIOUS
<1>6. Sound(log) /\ UpTo(log, top)
  BY <1>3, <1>4, <1>5 DEF DirOK
<1>7. e \in Entries /\ e \in Following(log)
  BY <1>1, <1>4, <1>5, <1>6, FollowingSound
<1> DEFINE rest == Selected(dir, (1..Len(dir)) \ {k})
           f == [dir[k] EXCEPT !.log = Append(dir[k].log, e)]
<1>8. dir' = Append(rest, f)
  <2> HIDE DEF k, rest, f
  <2>1. Appended(dir[k].name, e)
          = Append(Selected(dir, (1..Len(dir)) \ {k}),
                   [dir[k] EXCEPT !.log = Append(dir[k].log, e)])
    BY <1>3, <1>4, AppendedIs
  <2> QED BY <1>1, <1>3, <2>1 DEF rest, f
<1>9. rest \in Seq(Files)
  <2>1. dir \in Seq(Files)
    BY <1>4 DEF DirOK
  <2> QED BY <2>1, SelectedPicks
<1>10. f \in Files /\ f.kind = "jsonl" /\ f.name = server[p].file /\ f.log = Append(log, e)
  <2> HIDE DEF k
  <2>1. dir[k] \in Files /\ dir[k].log \in Seq(Entries)
    BY <1>3, <1>4, FileTypes
  <2>2. Append(dir[k].log, e) \in Seq(Entries)
    BY <1>7, <2>1
  <2> QED BY <1>3, <1>5, <2>1, <2>2 DEF Files
<1> HIDE DEF rest, f, k
<1>11. FindMostRecentSession' # 0 /\ Newest' = f /\ Current' = f.log
  <2>1. /\ Len(dir') \in Nat
        /\ \E i : NewestIn(dir', i) /\ i # 0 /\ dir'[i] = f
    BY <1>8, <1>9, <1>10, LastIsNewest
  <2>2. PICK g : g = f
    OBVIOUS
  <2>3. FindMostRecentSession' # 0 /\ Newest' = g /\ Current' = g.log
    BY <2>1, <2>2, NewestNext
  <2> QED BY <2>2, <2>3
<1>12. Numbered' /\ Remembered(Current)'
  <2>1. Numbered /\ Remembered(log)
    BY <1>3, <1>5 DEF MemoryInv
  <2>2. Numbered' /\ Remembered(Append(log, e))'
    BY <1>1, <1>4, <1>6, <1>7, <2>1, AppendRemembers
  <2>3. Current' = Append(log, e)
    BY <1>10, <1>11
  <2> QED BY <2>2, <2>3
<1> DEFINE r == [server[p] EXCEPT !.log = Append(server[p].log, e)]
<1>13. server' = [server EXCEPT ![p] = r]
  BY <1>1
<1>14. r.at = server[p].at /\ r.file = server[p].file
  <2>1. server[p] = [at |-> server[p].at, file |-> server[p].file, log |-> server[p].log]
    BY DEF IInv, Typed, IsProcess
  <2> QED BY <2>1
<1> HIDE DEF r
<1>15. Newest'.name = r.file /\ r.at # "rotating"
  BY <1>2, <1>10, <1>11, <1>14 DEF HasSession
<1> QED BY <1>2, <1>11, <1>12, <1>13, <1>15, LoneMemory

-----------------------------------------------------------------------------
(* Nothing is forgotten *)

(* There is nothing to remember. *)
LEMMA InitMemory == Init => MemoryInv
<1> SUFFICES ASSUME Init PROVE MemoryInv
  OBVIOUS
<1>1. written = <<>> /\ dir = <<>> /\ \A p \in Pids : server[p].at = "unborn"
  BY DEF Init, Unborn
<1>2. FindMostRecentSession = 0
  <2>1. {i \in 1..Len(dir) : dir[i].kind = "jsonl"} = {}
    BY <1>1
  <2> QED BY <2>1 DEF FindMostRecentSession, LastOf
<1>3. Current = <<>>
  BY <1>2 DEF Current
<1>4. Compactions = {}
  BY <1>1 DEF Compactions
<1>5. Covers(<<>>, 1)
  <2>1. Len(<<>>) + 1 = Len(written) + 1 /\ 0..(Len(<<>>) - 1) = {}
    BY <1>1
  <2>2. SameFrom(<<>>, 1, written, 1)
    BY <2>1 DEF SameFrom
  <2> QED BY <1>4, <2>2 DEF Covers, LastCompaction
<1>6. Remembered(<<>>)
  <2>1. Chained(<<>>)
    BY DEF Chained
  <2>2. 1..Len(written) = {} /\ 1 \in 1..(Len(written) + 1)
    BY <1>1
  <2> QED BY <1>5, <2>1, <2>2 DEF Remembered
<1>7. Numbered
  BY <1>1 DEF Numbered
<1> QED BY <1>1, <1>3, <1>6, <1>7 DEF MemoryInv, HasSession

(* No step makes a session forget. *)
LEMMA NextMemory ==
    ASSUME OneShell, "torn" \notin Env, IInv, SessionInv, MemoryInv, [Next]_vars
    PROVE  MemoryInv'
<1>1. ServersTyped
  BY DEF IInv, Typed, ServersTyped
<1>2. ASSUME NoneOpens, UNCHANGED <<dir, written>> PROVE MemoryInv'
  BY <1>2, NoneOpensMemory
<1>3. CASE \E p \in Pids : ServerStep(p)
  <2> PICK p \in Pids : ServerStep(p)
    BY <1>3
  <2>1. CASE WriteRotatedFile(p)
    BY <2>1, WriteRotatedFileRemembers
  <2>2. CASE ArchiveOldFile(p)
    BY <2>2, ArchiveOldFileRemembers
  <2>3. CASE OpenSession(p)
    BY <2>3, OpenSessionRemembers
  <2>4. CASE AppendEntry(p)
    BY <2>4, AppendEntryRemembers
  <2>5. CASE Listen(p) \/ Close(p) \/ Crash(p)
    BY <1>1, <1>2, <2>5, ServerOpensNone
  <2> QED BY <2>1, <2>2, <2>3, <2>4, <2>5 DEF ServerStep
<1>4. CASE \E s \in Shells : StartStep(s) \/ StopStep(s)
  BY <1>2, <1>4, CommandOpensNone
<1>5. CASE UNCHANGED vars
  <2>1. NoneOpens /\ UNCHANGED <<dir, written>>
    BY <1>5 DEF vars, NoneOpens, HasSession
  <2> QED BY <1>2, <2>1
<1> QED BY <1>3, <1>4, <1>5 DEF Next, ServerStep, StartStep, StopStep

(* What is remembered is what may not be forgotten. *)
LEMMA MemoryHoldsDue ==
    ASSUME SessionInv, MemoryInv
    PROVE  NothingForgotten
<1> SUFFICES ASSUME NEW p \in Pids, HasSession(p), NEW i \in 1..Len(written), Due(i)
             PROVE  written[i].id \in IdsOf(server[p].log)
  BY DEF NothingForgotten
<1> DEFINE log == server[p].log
           top == Len(written)
<1>1. Remembered(log) /\ log \in Seq(Entries)
  <2>1. Current = log
    BY InMemory
  <2>2. Sound(Current)
    BY CurrentSound DEF SessionInv
  <2> QED BY <2>1, <2>2 DEF MemoryInv, Sound, Growing
<1>2. Len(log) \in Nat /\ top \in Nat /\ i \in Nat
  BY <1>1 DEF SessionInv
<1> HIDE DEF log
<1>3. ASSUME NEW m \in Nat, m >= 1, NEW k \in Nat, k <= i, SameFrom(log, m, written, k)
      PROVE  written[i].id \in IdsOf(log)
  <2> DEFINE j == i - k
             x == m + j
  <2>1. Len(log) + k = top + m
    BY <1>3 DEF SameFrom
  <2>2. j \in 0..(Len(log) - m) /\ k + j = i /\ x \in 1..Len(log)
    BY <1>2, <1>3, <2>1
  <2> HIDE DEF j
  <2>3. log[m + j] = written[k + j]
    BY <1>3, <2>2 DEF SameFrom
  <2>4. x \in 1..Len(log) /\ log[x] = written[i]
    BY <2>2, <2>3
  <2> HIDE DEF x
  <2> QED BY <2>4 DEF IdsOf
<1>4. CASE /\ Compactions # {} /\ \A j \in Compactions : j <= i
           /\ \A j \in Compactions : ~Severs(written[j])
  <2>1. PICK k \in 1..(top + 1) : Covers(log, k)
    BY <1>1, <1>4 DEF Remembered, Whole
  <2>2. PICK c : LastCompaction(c)
    <3>1. Compactions \in SUBSET (1..top)
      BY DEF Compactions
    <3>2. LastOf(Compactions) \in Compactions /\ \A j \in Compactions : j <= LastOf(Compactions)
      BY <1>2, <1>4, <3>1, LastFound
    <3> QED BY <3>2 DEF LastCompaction
  <2>3. c \in 1..top /\ c <= i
    BY <1>4, <2>2 DEF LastCompaction, Compactions
  <2>4. k <= written[c].kept /\ written[c].kept < c /\ written[c].kept \in Nat
    <3>1. written[c] \in Entries
      BY <2>3 DEF SessionInv
    <3> QED BY <2>1, <2>2, <3>1 DEF Covers, Entries
  <2>5. k \in Nat /\ k <= i
    BY <1>2, <2>3, <2>4
  <2>6. SameFrom(log, 1, written, k)
    BY <2>1 DEF Covers
  <2> DEFINE one == 1
  <2>7. one \in Nat /\ one >= 1 /\ SameFrom(log, one, written, k)
    BY <2>6
  <2> HIDE DEF one
  <2> QED BY <1>3, <2>5, <2>7 DEF log
<1>5. CASE \E k \in 1..i : Recent(k)
  <2>1. PICK k \in 1..i : Recent(k)
    BY <1>5
  <2>2. k \in 1..top /\ k \in Nat /\ k <= i
    BY <1>2
  <2>3. PICK m \in 1..Len(log) : SameFrom(log, m, written, k)
    BY <1>1, <2>1, <2>2 DEF Remembered, Held
  <2>4. m \in Nat /\ m >= 1
    BY <1>2
  <2> QED BY <1>3, <2>2, <2>3, <2>4 DEF log
<1> QED BY <1>4, <1>5 DEF Due, Recent

(* Whatever was rotated, however often, and wherever a server was killed between two
   steps, an agent that starts has its last summary with what follows it, or the last
   turns that fit the tail of a rotation (rotateSessionIfNeeded, selectTailEntries). A
   kill in the middle of writing the rotated file is excluded: it loses the rest of the
   history (README, section 5).                                                       *)
THEOREM NothingForgottenEver ==
    ASSUME OneShell, "torn" \notin Env PROVE Spec => []NothingForgotten
<1>1. Init => IInv /\ SessionInv /\ MemoryInv
  BY InitIInv, InitSessions, InitMemory
<1>2. IInv /\ SessionInv /\ MemoryInv /\ [Next]_vars => (IInv /\ SessionInv /\ MemoryInv)'
  BY NextIInv, NextSessions, NextMemory
<1>3. SessionInv /\ MemoryInv => NothingForgotten
  BY MemoryHoldsDue
<1> QED BY <1>1, <1>2, <1>3, PTL DEF Spec
=============================================================================
