---------------------------- MODULE NarratorJob ----------------------------
(***************************************************************************)
(* The scheduled work of the Narrator: the job rows of trackJobExecution,  *)
(* the daily-summary and memory-update handlers with the cursors they keep *)
(* in the frontmatter of files (scheduler/jobs.ts), the ticks that start   *)
(* them (scheduler.ts), catch-up and stale rows at server start            *)
(* (server.ts), and the project story a Conductor asks for.                *)
(*                                                                         *)
(* The Narrator's host is what DeliveryContract promises, with the order   *)
(* AgentHost keeps: deliveries are answered at the head of the queue, or   *)
(* rejected anywhere in it. A handler is cut at its awaits. The cursor     *)
(* files are written one after the other without an await, so only the end *)
(* of the process can come between two of them.                            *)
(***************************************************************************)
EXTENDS Integers, Sequences, FiniteSets, SequencesExt, FiniteSetsExt

CONSTANTS
    Projects,      \* projects with a Conductor
    Guide,         \* the Guide, the agent outside all projects (the Narrator aside)
    Summary,       \* the daily summary as the target of a delivery
    Memory,        \* memory.md
    Story,         \* a project story
    Jobs,          \* numbers for job_execution rows
    MaxTime,       \* the clock stops here
    DayLength,     \* clock units per calendar day
    Interval,      \* daily_summary_interval_minutes, in clock units
    MaxActivity,   \* how many session entries and database rows the agents write
    Tables,        \* the tables whose changes are delivered
    Budget,        \* catchUpBudgetBytes, beyond the header: entries and rows have size 1
    DbBudget,      \* the share of it for database changes
    FirstInstall,  \* TRUE: no file has a cursor yet
    Env            \* what may happen, a subset of AllEvents

AllEvents == {"timeouts",   \* a handler may outlast its deadline
              "stops",      \* the process may end and be started again
              "rejects",    \* deliveries may be rejected
              "offline",    \* the network check may fail
              "archives",   \* a Conductor may be archived
              "memory",     \* the memory-update job runs
              "story"}      \* a Conductor may trigger the project story

ASSUME NarratorAssumption ==
    /\ IsFiniteSet(Projects)
    /\ Cardinality({Guide, Summary, Memory, Story}) = 4
    /\ Projects \cap {Guide, Summary, Memory, Story} = {}
    /\ Jobs \subseteq Nat \ {0}
    /\ MaxTime \in Nat
    /\ DayLength \in Nat \ {0}
    /\ Interval \in Nat \ {0}
    /\ {MaxActivity, Budget, DbBudget} \subseteq Nat
    /\ IsFiniteSet(Tables) /\ "session" \notin Tables
    /\ FirstInstall \in BOOLEAN
    /\ Env \subseteq AllEvents

VARIABLES
    now,        \* the clock
    server,     \* down, starting (start() before the jobs are registered), up
    catchUp,    \* checkNarratorCatchUp: off, network, daily, memory
    active,     \* projects whose Conductor is not archived
    happened,   \* session entries and changed rows: whose, which and when
    summary,    \* last_narrator_update_ts of each day's summary file
    logs,       \* last_narrator_update_ts of each project's log.md
    memory,     \* last_narrator_update_ts of memory.md
    row,        \* job_execution.status
    job,        \* the handler of each row, as far as the process remembers it
    queue,      \* the Narrator's unanswered deliveries, oldest first
    told        \* what the Narrator has processed: entry, for what, and how

files == <<summary, logs, memory>>
vars  == <<now, server, catchUp, active, happened, files, row, job, queue, told>>

-----------------------------------------------------------------------------
(* Cursors *)

Absent == -2   \* no file
Blank  == -1   \* a file without last_narrator_update_ts

Day(t) == t \div DayLength
Days   == 0..Day(MaxTime)
Today  == Day(now)

\* getMostRecentSummaryTimestamp, after today's file, which is the newest.
MostRecent ==
    LET dated == {d \in Days : summary[d] >= 0}
    IN  IF dated = {} THEN Blank ELSE summary[CHOOSE d \in dated : \A e \in dated : e <= d]

\* resolveDailySummaryTimestamp: the summaries, then memory.md.
Resolved == IF MostRecent >= 0 THEN MostRecent ELSE memory

\* The start of a daily summary's window; Blank if the handler throws instead.
LastRun ==
    IF Resolved >= 0 THEN Resolved
    ELSE IF \E d \in Days \ {Today} : summary[d] # Absent THEN Blank
    ELSE IF now > Interval THEN now - Interval ELSE 0

Sources == Projects \cup {Guide}

-----------------------------------------------------------------------------
(* What is delivered *)

\* What a session entry or a changed row is reduced to. The Guide's rows are
\* those of no project.
Entry(a, in) == [of |-> a, in |-> in, at |-> now]

\* The entries and rows of [lastRunTs, newRunTs).
Window(from, to) == {e \in happened : from <= e.at /\ e.at < to}

\* collectAgentActivityWithTimestamps, for the agents of these scopes.
Activity(S, sources) == {e \in S : e.of \in sources /\ e.in = "session"}

\* collectProjectDbChanges, and collectNonProjectDbChanges for all projects
\* whose Conductor is archived, and none.
ProjectChanges(S, p) == {e \in S : e.of = p /\ e.in \in Tables}
OtherChanges(S)      == {e \in S : e.of \notin active /\ e.in \in Tables}

\* truncateOldestToFit: the newest entries that fit; the others are gone.
Newest(S, budget) ==
    CHOOSE kept \in SUBSET S :
        /\ Cardinality(kept) = Min({budget, Cardinality(S)})
        /\ \A e \in kept, d \in S \ kept : d.at <= e.at

\* truncateDbChangesToFit: the budget is divided among the tables with rows.
KeptChanges(S, budget) ==
    LET used    == {e.in : e \in S}
        rows(t) == {e \in S : e.in = t}
    IN  UNION {Newest(rows(t), budget \div Cardinality(used)) : t \in used}

\* A delivery: the entries it shows, and those a note counts as dropped.
Delivery(j, target, kept, all, day) ==
    [job |-> j, target |-> target, kept |-> kept, dropped |-> all \ kept, day |-> day]

\* The rows are shown first, session entries as far as they still fit.
Fitted(changes, entries) ==
    changes \cup Newest(entries, Max({0, Budget - Cardinality(changes)}))

\* The log of a project has the Guide's session, but only the project's rows.
ProjectLog(j, S, p) ==
    LET entries == Activity(S, {p, Guide})
        changes == ProjectChanges(S, p)
    IN  Delivery(j, p, Fitted(KeptChanges(changes, DbBudget), entries), entries \cup changes,
                 Today)

\* hasChanges: whether the daily summary has a section for the project.
HasChanges(S, p) == Activity(S, {p}) \cup ProjectChanges(S, p) # {}

\* Fault: the log of a project is for its own activity only.
HasActivityOfItsOwn(S, p) == HasChanges(S, p)

\* hasActivity: whether its log gets a delivery.
HasActivity(S, p) == Activity(S, {p, Guide}) \cup ProjectChanges(S, p) # {}

\* The daily summary has a section for each project with changes and one for the rest.
\* The sections share the budget for rows; all session entries compete for what is left.
Collected(S) ==
    Activity(S, active \cup {Guide}) \cup (UNION {ProjectChanges(S, p) : p \in active})
        \cup OtherChanges(S)
DailySummary(j, S) ==
    LET sections == {p \in active : HasChanges(S, p)}
        share    == DbBudget \div (Cardinality(sections) + 1)
        changes  == (UNION {KeptChanges(ProjectChanges(S, p), share) : p \in sections})
                        \cup KeptChanges(OtherChanges(S), share)
    IN  Delivery(j, Summary, Fitted(changes, Activity(S, active \cup {Guide})), Collected(S),
                 Today)

-----------------------------------------------------------------------------
(* Jobs *)

NoJob == [kind |-> "none", trigger |-> "cron", at |-> "none", to |-> 0, waiting |-> {},
          failed |-> FALSE, left |-> <<>>, ends |-> "resolved"]

Running(j) == job[j].at \notin {"none", "over"}
Settling   == {"writing", "resolved", "skipped", "threw"}

\* A handler is past its last await, or catch-up continues: nothing else runs.
Busy == catchUp = "memory" \/ \E j \in Jobs : job[j].at \in Settling

Idle == server # "down" /\ ~Busy

\* Bound: the rows are numbered and run out.
Fresh(j) == row[j] = "none" /\ \A i \in Jobs : i < j => row[i] # "none"

\* createJobExecution, then the handler as far as reclaimBloatedSession.
StartJob(j, kind, trigger) ==
    /\ Fresh(j)
    /\ row' = [row EXCEPT ![j] = "running"]
    /\ job' = [job EXCEPT ![j] = [NoJob EXCEPT !.kind = kind, !.trigger = trigger,
                                     !.at = "reclaim", !.to = now]]

\* advanceFrontmatterCursors: the summary first, then every project's log.
CursorFiles == <<Summary>> \o SetToSeq(active)

\* Past the awaits: write the cursors that are left, then end as given.
Advancing(record, left, ends) == [record EXCEPT !.at = "writing", !.left = left, !.ends = ends]

Init ==
    /\ now = 0
    /\ server = "down"
    /\ catchUp = "off"
    /\ active = Projects
    /\ happened = {}
    /\ summary = [d \in Days |-> IF d = 0 /\ ~FirstInstall THEN 0 ELSE Absent]
    /\ logs = [p \in Projects |-> IF FirstInstall THEN Absent ELSE 0]
    /\ memory = IF FirstInstall THEN Blank ELSE 0
    /\ row = [j \in Jobs |-> "none"]
    /\ job = [j \in Jobs |-> NoJob]
    /\ queue = <<>>
    /\ told = {}

\* Scheduler.schedule: a tick starts its handler whether or not the last one is done.
CronTick(j, kind) ==
    /\ server = "up"
    /\ ~Busy
    /\ kind = "memory-update" => "memory" \in Env
    /\ StartJob(j, kind, "cron")
    /\ UNCHANGED <<now, server, catchUp, active, happened, files, queue, told>>

\* A cron handler asks isNetworkAvailable first.
NetworkDown(j) ==
    /\ Idle
    /\ "offline" \in Env
    /\ job[j].at = "reclaim"
    /\ job[j].trigger = "cron"
    /\ job' = [job EXCEPT ![j].at = "skipped"]
    /\ UNCHANGED <<now, server, catchUp, active, happened, files, row, queue, told>>

ReclaimFails(j) ==
    /\ Idle
    /\ job[j].at = "reclaim"
    /\ "rejects" \in Env
    /\ job' = [job EXCEPT ![j].at = "threw"]
    /\ UNCHANGED <<now, server, catchUp, active, happened, files, row, queue, told>>

\* Deliver a batch and await all of it.
Send(j, batch) ==
    /\ queue' = queue \o batch
    /\ job' = [job EXCEPT ![j].at = "delivering", ![j].to = now,
                          ![j].waiting = {batch[i].target : i \in DOMAIN batch},
                          ![j].left = IF job[j].kind = "memory-update" THEN <<Memory>> ELSE CursorFiles]

\* buildAndDeliverDailySummary, from reclaimBloatedSession to Promise.allSettled.
BuildSummary(j) ==
    LET all    == Window(LastRun, now)
        logged == SetToSeq({p \in active : HasActivity(all, p)})
        batch  == [i \in DOMAIN logged |-> ProjectLog(j, all, logged[i])]
    IN  /\ Idle
        /\ job[j].at = "reclaim"
        /\ job[j].kind = "daily-summary"
        /\ summary' = [summary EXCEPT ![Today] = IF @ = Absent THEN Blank ELSE @]
        /\ IF LastRun = Blank
           THEN /\ job' = [job EXCEPT ![j].at = "threw"]
                /\ UNCHANGED <<logs, queue>>
           ELSE /\ logs' = [p \in Projects |->
                               IF p \in active /\ logs[p] = Absent THEN Blank ELSE logs[p]]
                /\ \/ /\ Collected(all) = {}
                      /\ job' = [job EXCEPT ![j] =
                                    Advancing([@ EXCEPT !.to = now], CursorFiles, "skipped")]
                      /\ UNCHANGED queue
                   \/ /\ Collected(all) # {}
                      /\ Send(j, batch \o <<DailySummary(j, all)>>)
        /\ UNCHANGED <<now, server, catchUp, active, happened, memory, row, told>>

\* buildAndDeliverMemoryUpdate up to its await; knowledge files may be over their budget.
BuildMemory(j) ==
    LET since == IF memory >= 0 THEN Day(memory) ELSE 0
        days  == {d \in Days : d >= since /\ summary[d] # Absent}
        read  == {t.entry : t \in {u \in told : u.in = Summary /\ u.day \in days}}
    IN  /\ Idle
        /\ job[j].at = "reclaim"
        /\ job[j].kind = "memory-update"
        /\ \/ /\ days = {}
              /\ job' = [job EXCEPT ![j].at = "skipped"]
              /\ UNCHANGED queue
           \/ Send(j, <<Delivery(j, Memory, read, read, Today)>>)
        /\ UNCHANGED <<now, server, catchUp, active, happened, files, row, told>>

-----------------------------------------------------------------------------
(* The Narrator answers *)

\* Fault: the deliveries that succeeded are enough.
AnsweredSome(record, m, ok) ==
    LET waiting == record.waiting \ {m.target}
        next    == [record EXCEPT !.waiting = waiting]
    IN  IF waiting # {} THEN next ELSE Advancing(next, record.left, "resolved")

\* Promise.allSettled: with the last answer the handler goes on, all-or-nothing.
Answered(record, m, ok) ==
    LET waiting == record.waiting \ {m.target}
        failed  == record.failed \/ ~ok
        next    == [record EXCEPT !.waiting = waiting, !.failed = failed]
    IN  IF waiting # {} THEN next
        ELSE IF failed THEN [next EXCEPT !.at = "threw"]
        ELSE Advancing(next, record.left, "resolved")

\* The promise of delivery m settles; nobody awaits those of a project story.
Settle(m, ok) ==
    job' = IF m.job \in Jobs THEN [job EXCEPT ![m.job] = Answered(@, m, ok)] ELSE job

\* A run of the Narrator ends: the oldest delivery is in its file.
NarratorProcesses ==
    /\ Idle
    /\ queue # <<>>
    /\ LET d == Head(queue)
           Read(S, how) == [entry : S, in : {d.target}, day : {d.day}, how : {how}]
       IN  told' = told \cup Read(d.kept, "shown") \cup Read(d.dropped, "noted")
    /\ queue' = Tail(queue)
    /\ Settle(Head(queue), TRUE)
    /\ UNCHANGED <<now, server, catchUp, active, happened, files, row>>

NarratorRejects(i) ==
    /\ Idle
    /\ "rejects" \in Env
    /\ queue' = RemoveAt(queue, i)
    /\ Settle(queue[i], FALSE)
    /\ UNCHANGED <<now, server, catchUp, active, happened, files, row, told>>

-----------------------------------------------------------------------------
(* The handler ends *)

\* writeFrontmatterField and the commit, one file at a time.
WriteCursor(j) ==
    LET f == Head(job[j].left)
        d == Day(job[j].to)
    IN  /\ job[j].at = "writing"
        /\ summary' = IF f = Summary THEN [summary EXCEPT ![d] = job[j].to] ELSE summary
        /\ logs' = IF f \in Projects THEN [logs EXCEPT ![f] = job[j].to] ELSE logs
        /\ memory' = IF f = Memory THEN job[j].to ELSE memory
        /\ job' = [job EXCEPT ![j].left = Tail(@),
                              ![j].at = IF Len(job[j].left) = 1 THEN job[j].ends ELSE "writing"]
        /\ UNCHANGED <<now, server, catchUp, active, happened, row, queue, told>>

\* Fault: the end of a handler is recorded although its timer has fired.
FinalStatusesAlways(j) ==
    CASE job[j].at = "resolved" -> {"completed"}
      [] job[j].at = "threw"    -> {"failed"}
      [] job[j].at = "skipped"  -> {"skipped"}

\* What trackJobExecution writes when the handler settles: nothing once the timer has
\* won. Past the deadline, with the timer late on a starved loop, a skip is a failure.
FinalStatuses(j) ==
    IF row[j] # "running" THEN {row[j]}
    ELSE CASE job[j].at = "resolved" -> {"completed"}
           [] job[j].at = "threw"    -> {"failed"}
           [] job[j].at = "skipped"  -> {"skipped"} \cup (IF "timeouts" \in Env THEN {"failed"} ELSE {})

\* checkNarratorCatchUp awaits its daily summary, and then looks at memory.md.
Caught(j) ==
    IF row[j] = "running" /\ job[j].trigger = "catch-up" /\ job[j].kind = "daily-summary"
    THEN "memory" ELSE catchUp

\* Promise.race, after the handler has resolved or thrown.
RaceEnds(j) ==
    /\ job[j].at \in {"resolved", "skipped", "threw"}
    /\ \E status \in FinalStatuses(j) : row' = [row EXCEPT ![j] = status]
    /\ catchUp' = Caught(j)
    /\ job' = [job EXCEPT ![j] = [NoJob EXCEPT !.at = "over"]]
    /\ UNCHANGED <<now, server, active, happened, files, queue, told>>

\* Fault: the timer covers the handler only up to its deliveries.
TimerFiresEarly(j) ==
    /\ Idle
    /\ "timeouts" \in Env
    /\ job[j].at = "reclaim"
    /\ row[j] = "running"
    /\ row' = [row EXCEPT ![j] = "failed"]
    /\ catchUp' = Caught(j)
    /\ UNCHANGED <<now, server, active, happened, files, job, queue, told>>

\* The timer wins the race; the handler goes on, detached.
TimerFires(j) ==
    /\ Idle
    /\ "timeouts" \in Env
    /\ Running(j)
    /\ row[j] = "running"
    /\ row' = [row EXCEPT ![j] = "failed"]
    /\ catchUp' = Caught(j)
    /\ UNCHANGED <<now, server, active, happened, files, job, queue, told>>

-----------------------------------------------------------------------------
(* The server *)

\* The process is killed, crashes, or exits from stop(), which waits for no handler.
ProcessEnds ==
    /\ "stops" \in Env
    /\ server # "down"
    /\ server' = "down"
    /\ catchUp' = "off"
    /\ queue' = <<>>
    /\ job' = [j \in Jobs |-> IF Running(j) THEN [NoJob EXCEPT !.at = "over"] ELSE job[j]]
    /\ UNCHANGED <<now, active, happened, files, row, told>>

\* start(): the Guide, the Narrator and the other agents are back before the jobs are.
AgentsRestored ==
    /\ server = "down"
    /\ server' = "starting"
    /\ UNCHANGED <<now, catchUp, active, happened, files, row, job, queue, told>>

\* failStaleJobExecutions
StaleRowsFailed == [j \in Jobs |-> IF row[j] = "running" THEN "failed" ELSE row[j]]

\* start(): fail stale rows, register the jobs, start the catch-up.
JobsRegistered ==
    /\ server = "starting"
    /\ server' = "up"
    /\ row' = StaleRowsFailed
    /\ catchUp' = "network"
    /\ UNCHANGED <<now, active, happened, files, job, queue, told>>

\* checkNarratorCatchUp, when the network check answers.
CatchUpSummary ==
    /\ Idle
    /\ catchUp = "network"
    /\ \/ /\ "offline" \in Env
          /\ catchUp' = "off"
          /\ UNCHANGED <<row, job>>
       \/ /\ Resolved >= 0 /\ now - Resolved > Interval
          /\ \E j \in Jobs : StartJob(j, "daily-summary", "catch-up")
          /\ catchUp' = "daily"
       \/ /\ Resolved < 0 \/ now - Resolved <= Interval \/ \A j \in Jobs : ~Fresh(j)
          /\ catchUp' = "memory"
          /\ UNCHANGED <<row, job>>
    /\ UNCHANGED <<now, server, active, happened, files, queue, told>>

CatchUpMemory ==
    /\ catchUp = "memory"
    /\ \A j \in Jobs : job[j].at \notin Settling
    /\ catchUp' = "off"
    /\ IF memory >= 0 /\ now - memory > DayLength /\ "memory" \in Env /\ \E j \in Jobs : Fresh(j)
       THEN \E j \in Jobs : StartJob(j, "memory-update", "catch-up")
       ELSE UNCHANGED <<row, job>>
    /\ UNCHANGED <<now, server, active, happened, files, queue, told>>

-----------------------------------------------------------------------------
(* The agents and the clock *)

\* An agent writes a session entry or a row. Bound: MaxActivity of them.
AgentWorks(a) ==
    /\ Idle
    /\ a \in active \cup {Guide}
    /\ Cardinality(happened) < MaxActivity
    /\ \E in \in Tables \cup {"session"} : happened' = happened \cup {Entry(a, in)}
    /\ UNCHANGED <<now, server, catchUp, active, files, row, job, queue, told>>

ConductorArchived(p) ==
    /\ Idle
    /\ "archives" \in Env
    /\ active' = active \ {p}
    /\ UNCHANGED <<now, server, catchUp, happened, files, row, job, queue, told>>

\* Message 1: as the log of the job, but neither cut nor noted.
FinalLog(p, from) ==
    LET all == Activity(Window(from, now), {p, Guide}) \cup ProjectChanges(Window(from, now), p)
    IN  Delivery(0, p, all, all, Today)

\* Message 2: the whole project, its rows and, by its log, the rest.
StoryData(p) ==
    LET all == Activity(Window(0, now), {p}) \cup ProjectChanges(Window(0, now), p)
    IN  Delivery(0, Story, all, all, Today)

\* Fault: the story data goes first.
StoryBatchReversed(p, from) == <<StoryData(p), FinalLog(p, from)>>

StoryBatch(p, from) == <<FinalLog(p, from), StoryData(p)>>

\* trigger_project_story: two deliveries nobody awaits, the second with the whole project.
\* Bound: one story, of a project with activity.
TriggerStory(p) ==
    LET from == IF logs[p] >= 0 THEN logs[p] ELSE now
    IN  /\ Idle
        /\ "story" \in Env
        /\ p \in active
        /\ \A i \in DOMAIN queue : queue[i].target # Story
        /\ \A t \in told : t.in # Story
        /\ StoryData(p).kept # {}
        /\ queue' = queue \o StoryBatch(p, from)
        /\ UNCHANGED <<now, server, catchUp, active, happened, files, row, job, told>>

TimePasses ==
    /\ ~Busy
    /\ now < MaxTime
    /\ now' = now + 1
    /\ UNCHANGED <<server, catchUp, active, happened, files, row, job, queue, told>>

JobStep(j) ==
    \/ NetworkDown(j) \/ ReclaimFails(j) \/ BuildSummary(j) \/ BuildMemory(j)
    \/ WriteCursor(j) \/ RaceEnds(j)
    \/ TimerFires(j)
    \/ \E kind \in {"daily-summary", "memory-update"} : CronTick(j, kind)

Next ==
    \/ \E j \in Jobs : JobStep(j)
    \/ NarratorProcesses
    \/ \E i \in DOMAIN queue : NarratorRejects(i)
    \/ ProcessEnds \/ AgentsRestored \/ JobsRegistered \/ CatchUpSummary \/ CatchUpMemory
    \/ \E a \in Sources : AgentWorks(a)
    \/ \E p \in Projects : ConductorArchived(p) \/ TriggerStory(p)
    \/ TimePasses

(* Timers fire, microtasks run, and a stopped server is started again. Nothing is
   assumed of the Narrator: it may never answer.                                *)
Fairness ==
    /\ WF_vars(AgentsRestored)
    /\ WF_vars(JobsRegistered)
    /\ WF_vars(CatchUpMemory)
    /\ \A j \in Jobs :
        /\ WF_vars(TimerFires(j))
        /\ WF_vars(WriteCursor(j))
        /\ WF_vars(RaceEnds(j))

Spec == Init /\ [][Next]_vars /\ Fairness

-----------------------------------------------------------------------------
(* Properties *)

Stamps == -2..MaxTime
Entries == [of : Sources, in : Tables \cup {"session"}, at : 0..MaxTime]
Targets == Projects \cup {Summary, Memory, Story}
JobRecords ==
    [kind : {"none", "daily-summary", "memory-update"}, trigger : {"cron", "catch-up"},
     at : {"none", "reclaim", "delivering", "over"} \cup Settling, to : 0..MaxTime,
     waiting : SUBSET Targets, failed : BOOLEAN, left : Seq(Targets), ends : {"resolved", "skipped"}]

TypeOK ==
    /\ now \in 0..MaxTime
    /\ server \in {"down", "starting", "up"}
    /\ catchUp \in {"off", "network", "daily", "memory"}
    /\ active \subseteq Projects
    /\ happened \subseteq Entries
    /\ summary \in [Days -> Stamps]
    /\ logs \in [Projects -> Stamps]
    /\ memory \in Stamps
    /\ row \in [Jobs -> {"none", "running", "completed", "skipped", "failed"}]
    /\ job \in [Jobs -> JobRecords]
    /\ queue \in Seq([job : Jobs \cup {0}, target : Targets, kept : SUBSET Entries,
                     dropped : SUBSET Entries, day : Days])
    /\ told \subseteq [entry : Entries, in : Targets, day : Days, how : {"shown", "noted"}]

(* Nothing falls between two windows: an entry or a changed row older than the cursor
   has been processed by the Narrator as part of a daily summary, or was counted by the
   note of one it did not fit into, whatever was rejected, timed out, overlapped or
   crashed in between (jobs.ts 1278, "All-or-nothing"; 85, annotateTruncation). A
   project counts for as long as its Conductor is not archived.                      *)
NothingSkipped ==
    \A e \in happened :
        e.of \in active \cup {Guide} /\ e.at < Resolved
        => \E t \in told : t.entry = e /\ t.in = Summary

(* What the log of a project shows: the sessions of its agents and of the Guide, and
   the rows of the project.                                                        *)
LogShows(p) ==
    {e \in happened : e.of = p \/ (e.of = Guide /\ e.in = "session")}

(* The log of a project is whole up to its cursor: the story, whose final log update
   starts there (trigger-project-story.ts), misses nothing older, although the cursors
   are written one file after the other and handlers overlap, fail and crash.      *)
LogWhole ==
    \A p \in Projects : \A e \in LogShows(p) :
        e.at < logs[p] => \E t \in told : t.entry = e /\ t.in = p

(* "On skip (no activity), the cursor still advances to prevent re-scanning the same
   empty window" (docs/scheduler.md 70): what the cursor has passed is not scanned
   again, although handlers overlap and outlive their timeout.                    *)
CursorForward == [][Resolved' >= Resolved]_vars

(* "Each execution row is written to exactly once" (jobs.ts 1511): a final status
   stays, when the handler of a timed-out job ends later and after a restart, too. *)
FinalRowKept ==
    [][\A j \in Jobs : row[j] \notin {"none", "running"} => row'[j] = row[j]]_vars

(* No row says running forever: the timer bounds a handler whose deliveries are never
   answered, and a restart fails the rows of the process before.                 *)
RowsSettle == \A j \in Jobs : row[j] = "running" ~> row[j] # "running"

(* memory.md has every narrative that its cursor says it has. *)
MemoryComplete ==
    \A t \in told :
        t.in = Summary /\ t.day < Day(memory)
        => \E u \in told : u.entry = t.entry /\ u.in = Memory

(* The story of a project is written from a log that covers the project: the final log
   update, processed first, reaches back to the last one.                        *)
StoryComplete ==
    \A t \in told : t.in = Story => \E u \in told : u.entry = t.entry /\ u.in = t.entry.of

(* "If a job fails, the cursor stays stale" (docs/scheduler.md 105): a job whose row
   says failed writes no cursor.                                                 *)
FailedJobKeepsCursors ==
    [][\A j \in Jobs : row[j] = "failed" => ~WriteCursor(j)]_vars

(* "The next cron tick retries from the same lastRunTs" (jobs.ts 1279): while the
   cursors stay, so does the start of the window.                                *)
SameWindowRetried == [][files' = files => LastRun' = LastRun]_vars
=============================================================================
