------------------------- MODULE NarratorJob_proofs -------------------------
(***************************************************************************)
(* The Narrator is told everything its cursors have passed, for any number *)
(* of overlapping, failing, timed out and interrupted handlers; a job row  *)
(* that has its final status keeps it; and a story follows a whole log.    *)
(***************************************************************************)
EXTENDS NarratorJob, FiniteSetTheorems, TLAPS

-----------------------------------------------------------------------------
(* The invariant *)

\* What has a cursor and an agent activity of its own: the daily summary, each log.
Readers == {Summary} \cup Projects

\* The entries that a reader is to be told.
Shows(x) == IF x = Summary THEN {e \in happened : e.of \in active \cup {Guide}} ELSE LogShows(x)

ToldTo(x, e) == \E t \in told : t.entry = e /\ t.in = x

\* Reader x was told all that happened before this time.
Until(x, time) == \A e \in Shows(x) : e.at < time => ToldTo(x, e)

InLeft(j, x) == \E i \in 1..Len(job[j].left) : job[j].left[i] = x

\* Entry e is in a delivery to x which the handler of j still awaits.
Queued(j, x, e) ==
    /\ x \in job[j].waiting
    /\ \E i \in 1..Len(queue) :
        queue[i].job = j /\ queue[i].target = x /\ e \in queue[i].kept \cup queue[i].dropped

(* While no delivery failed: what x is not yet told, up to the cursor that the handler
   will write, is in the queue.                                                     *)
Promised(j) ==
    job[j].at = "delivering" /\ ~job[j].failed =>
        \A x \in Readers : InLeft(j, x) =>
            \A e \in Shows(x) : e.at < job[j].to => ToldTo(x, e) \/ Queued(j, x, e)

(* A handler writes a cursor only when it is true. *)
Earned(j) ==
    job[j].at = "writing" => \A x \in Readers : InLeft(j, x) => Until(x, job[j].to)

(* The summary's cursor is written first, the log of every project after it. *)
SummaryFirst(j) ==
    job[j].at \in {"delivering", "writing"} =>
        /\ job[j].left # <<>>
        /\ \A i \in 1..Len(job[j].left) :
            job[j].left[i] = Summary => i = 1 /\ \A p \in active : InLeft(j, p)

(* A delivery in the queue is awaited by its handler, under its own name. *)
QueueAwaited ==
    /\ \A i \in 1..Len(queue) : queue[i].job \in Jobs =>
            /\ job[queue[i].job].at = "delivering"
            /\ queue[i].target \in job[queue[i].job].waiting
    /\ \A i, k \in 1..Len(queue) :
            i # k /\ queue[i].job = queue[k].job /\ queue[i].job \in Jobs
            => queue[i].target # queue[k].target

\* A sequence, whatever its elements are.
IsSeq(s) == s \in Seq({s[i] : i \in DOMAIN s})

Records ==
    [kind : {"none", "daily-summary", "memory-update"}, trigger : {"cron", "catch-up"},
     at : {"none", "reclaim", "delivering", "over"} \cup Settling, to : Nat,
     waiting : SUBSET Targets, failed : BOOLEAN, left : Seq(Targets), ends : {"resolved", "skipped"}]

Typed ==
    /\ now \in Nat
    /\ active \subseteq Projects
    /\ summary \in [Days -> Int]
    /\ logs \in [Projects -> Int]
    /\ job \in [Jobs -> Records]
    /\ IsSeq(queue)
    /\ \A e \in happened : e.at \in Nat /\ e.in \in Tables \cup {"session"} /\ e.of \in Sources

(* Nothing is from the future. *)
Past ==
    /\ \A d \in Days : summary[d] <= now
    /\ \A p \in Projects : logs[p] <= now
    /\ \A j \in Jobs : job[j].to <= now
    /\ \A e \in happened : e.at <= now

Statuses == {"none", "running", "completed", "skipped", "failed"}

RowTyped == row \in [Jobs -> Statuses]

(* The process knows of no handler for a row that is not there. *)
NotStarted == \A j \in Jobs : row[j] = "none" => job[j].at = "none"

Dated == \E d \in Days : summary[d] >= 0

Whole ==
    /\ \A x \in {Summary} \cup active : Until(x, Resolved)
    /\ \A p \in Projects : Until(p, logs[p])

IInv ==
    /\ Typed
    /\ RowTyped
    /\ NotStarted
    /\ Past
    /\ Dated
    /\ Whole
    /\ QueueAwaited
    /\ \A j \in Jobs : Promised(j) /\ Earned(j) /\ SummaryFirst(j)

-----------------------------------------------------------------------------
(* Sequences *)

(* A sequence of anything is a sequence of its elements. *)
LEMMA SeqIsSeq ==
    ASSUME NEW X, NEW s \in Seq(X)
    PROVE  IsSeq(s)
<1>1. s \in [1..Len(s) -> {s[i] : i \in DOMAIN s}] /\ Len(s) \in Nat
  OBVIOUS
<1> QED BY <1>1 DEF IsSeq

\* q is s, and t after it.
Joined(s, t, q) ==
    /\ IsSeq(q)
    /\ Len(s) \in Nat /\ Len(t) \in Nat /\ Len(q) = Len(s) + Len(t)
    /\ \A i \in 1..Len(s) : i \in 1..Len(q) /\ q[i] = s[i]
    /\ \A i \in 1..Len(t) : Len(s) + i \in 1..Len(q) /\ q[Len(s) + i] = t[i]
    /\ \A i \in 1..Len(q) :
        (i \in 1..Len(s)) \/ (i - Len(s) \in 1..Len(t) /\ q[i] = t[i - Len(s)])

(* That is what concatenation makes. *)
LEMMA ConcatIsSeq ==
    ASSUME NEW s, IsSeq(s), NEW t, IsSeq(t), NEW q, q = s \o t
    PROVE  Joined(s, t, q)
<1> DEFINE S == {s[i] : i \in DOMAIN s}
           T == {t[i] : i \in DOMAIN t}
           U == S \cup T
<1>1. s \in Seq(U) /\ t \in Seq(U)
  <2>1. s \in Seq(S) /\ t \in Seq(T)
    BY DEF IsSeq
  <2> HIDE DEF S, T
  <2> QED BY <2>1
<1> HIDE DEF U
<1>2. q \in Seq(U)
  BY <1>1
<1>3. IsSeq(q)
  BY <1>2, SeqIsSeq
<1> QED BY <1>1, <1>3 DEF Joined

\* t is s without its element i.
Without(s, t, i) ==
    /\ IsSeq(t)
    /\ Len(t) = Len(s) - 1
    /\ \A k \in 1..Len(t) : t[k] = IF k < i THEN s[k] ELSE s[k + 1]

(* The tail of a queue is the queue without its head. *)
LEMMA TailWithout ==
    ASSUME NEW s, IsSeq(s), s # <<>>
    PROVE  Without(s, Tail(s), 1)
<1> DEFINE S == {s[i] : i \in DOMAIN s}
<1>1. s \in Seq(S)
  BY DEF IsSeq
<1> HIDE DEF S
<1>2. Tail(s) \in Seq(S) /\ Len(Tail(s)) = Len(s) - 1
  BY <1>1
<1>3. \A k \in 1..Len(Tail(s)) : Tail(s)[k] = s[k + 1]
  BY <1>1
<1>4. IsSeq(Tail(s))
  BY <1>2, SeqIsSeq
<1> QED BY <1>2, <1>3, <1>4 DEF Without

(* Removing at a place leaves the queue without what was there. *)
LEMMA RemoveAtWithout ==
    ASSUME NEW s, IsSeq(s), NEW i \in 1..Len(s)
    PROVE  Without(s, RemoveAt(s, i), i)
<1> DEFINE S == {s[k] : k \in DOMAIN s}
           a == SubSeq(s, 1, i - 1)
           b == SubSeq(s, i + 1, Len(s))
<1>1. s \in Seq(S)
  BY DEF IsSeq
<1> HIDE DEF S
<1>2. /\ a \in Seq(S) /\ Len(a) = i - 1
      /\ \A k \in 1..(i - 1) : a[k] = s[k]
  BY <1>1
<1>3. /\ b \in Seq(S) /\ Len(b) = Len(s) - i
      /\ \A k \in 1..(Len(s) - i) : b[k] = s[k + i]
  BY <1>1
<1> HIDE DEF a, b
<1>4. a \o b \in Seq(S) /\ Len(a \o b) = Len(s) - 1
  <2>1. a \in Seq(S) /\ b \in Seq(S)
    BY <1>2, <1>3
  <2>3. a \o b \in Seq(S)
    BY <2>1
  <2>4. Len(a \o b) = Len(a) + Len(b)
    BY <2>1
  <2>2. Len(s) \in Nat /\ i \in Int
    BY <1>1
  <2> QED BY <1>2, <1>3, <2>2, <2>3, <2>4
<1>5. \A k \in 1..Len(a \o b) : (a \o b)[k] = IF k < i THEN s[k] ELSE s[k + 1]
  BY <1>1, <1>2, <1>3, <1>4
<1>6. RemoveAt(s, i) = a \o b
  BY DEF RemoveAt, a, b
<1>7. IsSeq(a \o b)
  BY <1>4, SeqIsSeq
<1> QED BY <1>4, <1>5, <1>6, <1>7 DEF Without

\* t holds what s holds at other places than i, each at a place of its own.
Remains(s, t, i) ==
    /\ \A k \in 1..Len(s) : k # i => \E m \in 1..Len(t) : t[m] = s[k]
    /\ \A k \in 1..Len(t) : \E m \in 1..Len(s) \ {i} : t[k] = s[m]
    /\ \A k, l \in 1..Len(t) : k # l =>
          \E m, n \in 1..Len(s) \ {i} : m # n /\ t[k] = s[m] /\ t[l] = s[n]

(* What is not removed is still there. *)
LEMMA WithoutKeeps ==
    ASSUME NEW s, IsSeq(s), NEW t, NEW i \in 1..Len(s), Without(s, t, i)
    PROVE  Remains(s, t, i)
<1>1. Len(s) \in Nat
  BY DEF IsSeq
<1> DEFINE from(k) == IF k < i THEN k ELSE k + 1
<1>2. \A k \in 1..Len(t) : from(k) \in 1..Len(s) \ {i} /\ t[k] = s[from(k)]
  BY <1>1 DEF Without
<1>3. \A k, l \in 1..Len(t) : k # l => from(k) # from(l)
  BY <1>1 DEF Without
<1>4. ASSUME NEW k \in 1..Len(s), k # i PROVE \E m \in 1..Len(t) : t[m] = s[k]
  <2>1. CASE k < i
    <3>1. k \in 1..Len(t) /\ t[k] = s[k]
      BY <1>1, <2>1 DEF Without
    <3> QED BY <3>1
  <2>2. CASE k > i
    <3>1. k - 1 \in 1..Len(t) /\ t[k - 1] = s[k]
      BY <1>1, <2>2 DEF Without
    <3> QED BY <3>1
  <2> QED BY <1>1, <1>4, <2>1, <2>2
<1> HIDE DEF from
<1>5. \A k, l \in 1..Len(t) : k # l =>
        \E m, n \in 1..Len(s) \ {i} : m # n /\ t[k] = s[m] /\ t[l] = s[n]
  BY <1>2, <1>3
<1> QED BY <1>2, <1>4, <1>5 DEF Remains

(* SetToSeq lists every element of a finite set once. *)
LEMMA SetToSeqLists ==
    ASSUME NEW S, IsFiniteSet(S)
    PROVE  /\ SetToSeq(S) \in Seq(S)
           /\ \A i, k \in 1..Len(SetToSeq(S)) : i # k => SetToSeq(S)[i] # SetToSeq(S)[k]
           /\ \A x \in S : \E i \in 1..Len(SetToSeq(S)) : SetToSeq(S)[i] = x
<1> DEFINE n == Cardinality(S)
           f == SetToSeq(S)
<1>1. n \in Nat /\ ExistsBijection(1..n, S)
  BY FS_CardinalityType
<1>2. \E g \in [1..n -> S] : IsInjective(g)
  BY <1>1 DEF ExistsBijection, Bijection, Injection
<1>3. f \in [1..n -> S] /\ IsInjective(f)
  BY <1>2 DEF SetToSeq
<1>4. f \in Injection(1..n, S)
  BY <1>3 DEF Injection
<1>5. Cardinality(1..n) = n
  BY <1>1, FS_Interval
<1>6. f \in Surjection(1..n, S)
  BY <1>4, <1>5, FS_Injection
<1>7. f \in Seq(S) /\ Len(f) = n
  BY <1>1, <1>3
<1> QED BY <1>3, <1>6, <1>7 DEF Surjection, IsInjective

-----------------------------------------------------------------------------
(* Cursors *)

(* A bounded set of numbers that is not empty has a greatest element. *)
LEMMA GreatestExists ==
    ASSUME NEW S \in SUBSET Int, S # {}, NEW n \in Int, \A k \in S : k <= n
    PROVE  \E m \in S : \A k \in S : k <= m
<1> DEFINE T == {n - k : k \in S}
<1>1. T \in SUBSET Nat /\ T # {}
  <2>1. \A k \in S : n - k \in Nat /\ n - k \in T
    OBVIOUS
  <2> QED BY <2>1
<1>2. PICK x \in T : \A y \in T : <<y, x>> \notin OpToRel(<, Nat)
  <2> HIDE DEF T
  <2> QED BY <1>1, NatLessThanWellFounded, WFMin
<1>3. \A y \in T : ~(y < x)
  BY <1>1, <1>2 DEF OpToRel
<1>4. PICK m \in S : x = n - m
  BY <1>2
<1>5. ASSUME NEW k \in S PROVE k <= m
  <2>1. n - k \in T
    OBVIOUS
  <2>2. ~(n - k < x)
    BY <1>3, <2>1
  <2> QED BY <1>4, <2>2
<1> QED BY <1>5

(* Among the days that have a cursor there is a newest. *)
LEMMA NewestDay ==
    ASSUME NEW f \in [Days -> Int], \E d \in Days : f[d] >= 0
    PROVE  \E d \in {e \in Days : f[e] >= 0} : \A e \in {b \in Days : f[b] >= 0} : e <= d
<1> DEFINE D == {d \in Days : f[d] >= 0}
<1>1. Day(MaxTime) \in Int
  BY NarratorAssumption DEF Day
<1>2. D \in SUBSET Int /\ D # {} /\ \A d \in D : d <= Day(MaxTime)
  BY <1>1 DEF Days
<1>3. \E d \in D : \A e \in D : e <= d
  <2> HIDE DEF D
  <2> QED BY <1>1, <1>2, GreatestExists
<1> QED BY <1>3

(* The resolved cursor is the one of the newest summary that has one... *)
LEMMA ResolvedNewest ==
    ASSUME summary \in [Days -> Int], Dated
    PROVE  \E d \in Days :
                /\ summary[d] = Resolved /\ summary[d] >= 0
                /\ \A e \in Days : summary[e] >= 0 => e <= d
<1> DEFINE D == {d \in Days : summary[d] >= 0}
           m == CHOOSE d \in D : \A e \in D : e <= d
<1>1. \E d \in D : \A e \in D : e <= d
  BY NewestDay DEF Dated
<1>2. m \in D /\ \A e \in D : e <= m
  BY <1>1
<1>3. Resolved = summary[m]
  BY <1>2 DEF Resolved, MostRecent
<1> QED BY <1>2, <1>3

(* ...and so it is after a step. *)
LEMMA ResolvedNewestNext ==
    ASSUME summary' \in [Days -> Int], Dated'
    PROVE  \E d \in Days :
                /\ summary'[d] = Resolved' /\ summary'[d] >= 0
                /\ \A e \in Days : summary'[e] >= 0 => e <= d
<1> DEFINE D == {d \in Days : summary'[d] >= 0}
           m == CHOOSE d \in D : \A e \in D : e <= d
<1>1. \E d \in D : \A e \in D : e <= d
  BY NewestDay DEF Dated
<1>2. m \in D /\ \A e \in D : e <= m
  BY <1>1
<1>3. Resolved' = summary'[m]
  BY <1>2 DEF Resolved, MostRecent
<1> QED BY <1>2, <1>3

(* Where one summary's cursor is written, the resolved one becomes that or stays. *)
LEMMA ResolvedMoves ==
    ASSUME summary \in [Days -> Int], Dated,
           NEW d, NEW t \in Nat, summary' = [summary EXCEPT ![d] = t]
    PROVE  /\ summary' \in [Days -> Int]
           /\ Dated'
           /\ Resolved' \in {Resolved, t}
<1>1. PICK a \in Days : /\ summary[a] = Resolved /\ summary[a] >= 0
                        /\ \A e \in Days : summary[e] >= 0 => e <= a
  BY ResolvedNewest
<1>2. \A e \in Days : summary'[e] = IF e = d THEN t ELSE summary[e]
  OBVIOUS
<1>3. summary' \in [Days -> Int]
  <2>1. DOMAIN summary' = Days /\ summary' = [e \in Days |-> summary'[e]]
    OBVIOUS
  <2>2. \A e \in Days : summary'[e] \in Int
    BY <1>2
  <2> QED BY <2>1, <2>2
<1>4. summary'[a] >= 0
  BY <1>1, <1>2
<1>5. Dated'
  BY <1>4 DEF Dated
<1>6. PICK b \in Days : /\ summary'[b] = Resolved' /\ summary'[b] >= 0
                        /\ \A e \in Days : summary'[e] >= 0 => e <= b
  BY <1>3, <1>5, ResolvedNewestNext
<1>7. CASE b = d
  BY <1>2, <1>3, <1>5, <1>6, <1>7
<1>8. CASE b # d
  <2>1. b <= a /\ a <= b
    BY <1>1, <1>2, <1>4, <1>6, <1>8
  <2>2. a = b
    BY <2>1 DEF Days
  <2>3. Resolved' = summary[a]
    BY <1>2, <1>6, <1>8, <2>2
  <2> QED BY <1>1, <1>3, <1>5, <2>3
<1> QED BY <1>3, <1>5, <1>7, <1>8

(* Where no cursor appears or disappears, the resolved one stays. *)
LEMMA ResolvedStays ==
    ASSUME summary \in [Days -> Int], Dated, summary' \in [Days -> Int],
           \A d \in Days : summary[d] >= 0 \/ summary'[d] >= 0 => summary'[d] = summary[d]
    PROVE  Dated' /\ Resolved' = Resolved
<1>1. PICK a \in Days : /\ summary[a] = Resolved /\ summary[a] >= 0
                        /\ \A e \in Days : summary[e] >= 0 => e <= a
  BY ResolvedNewest
<1>2. Dated'
  BY <1>1 DEF Dated
<1>3. PICK b \in Days : /\ summary'[b] = Resolved' /\ summary'[b] >= 0
                        /\ \A e \in Days : summary'[e] >= 0 => e <= b
  BY <1>2, ResolvedNewestNext
<1>4. b <= a /\ a <= b
  BY <1>1, <1>3
<1>5. a = b
  BY <1>4 DEF Days
<1> QED BY <1>1, <1>2, <1>3, <1>5

-----------------------------------------------------------------------------
(* Steps that tell nothing and write no cursor *)

Awaiting == {"delivering", "writing"}

\* The deliveries of j that were in the queue are in it.
Keeps(j) ==
    \A i \in 1..Len(queue) : queue[i].job = j => \E k \in 1..Len(queue') : queue'[k] = queue[i]

(* A handler that neither moves nor loses a delivery keeps its promises. *)
LEMMA JobKept ==
    ASSUME NEW j \in Jobs, Promised(j), Earned(j), SummaryFirst(j),
           job'[j] = job[j], happened' = happened, active' \subseteq active, told \subseteq told',
           Keeps(j)
    PROVE  Promised(j)' /\ Earned(j)' /\ SummaryFirst(j)'
<1>1. \A x \in Readers : Shows(x)' \subseteq Shows(x)
  BY DEF Shows, LogShows
<1>2. \A x \in Readers : \A e : ToldTo(x, e) => ToldTo(x, e)'
  BY DEF ToldTo
<1>3. \A x \in Readers : InLeft(j, x)' <=> InLeft(j, x)
  BY DEF InLeft
<1>4. \A x \in Readers : \A e : Queued(j, x, e) => Queued(j, x, e)'
  BY DEF Queued, Keeps
<1>5. Promised(j)'
  BY <1>1, <1>2, <1>3, <1>4 DEF Promised
<1>6. Earned(j)'
  BY <1>1, <1>2, <1>3 DEF Earned, Until
<1>7. SummaryFirst(j)'
  BY DEF SummaryFirst, InLeft
<1> QED BY <1>5, <1>6, <1>7

(* One that awaits nothing has made none. *)
LEMMA JobQuiet ==
    ASSUME NEW j \in Jobs, job'[j].at \notin Awaiting
    PROVE  Promised(j)' /\ Earned(j)' /\ SummaryFirst(j)'
BY DEF Awaiting, Promised, Earned, SummaryFirst

(* The cursors stay true. *)
LEMMA WholeKept ==
    ASSUME Whole, Typed, Dated, UNCHANGED files, happened' = happened, active' \subseteq active,
           told \subseteq told'
    PROVE  Whole' /\ Dated'
<1>1. \A x \in Readers : Shows(x)' \subseteq Shows(x)
  BY DEF Shows, LogShows
<1>2. \A x \in Readers : \A e : ToldTo(x, e) => ToldTo(x, e)'
  BY DEF ToldTo
<1>3. Dated' /\ Resolved' = Resolved
  BY ResolvedStays DEF files, Typed
<1>4. \A x \in Readers : \A t : Until(x, t) => Until(x, t)'
  BY <1>1, <1>2 DEF Until
<1> QED BY <1>3, <1>4 DEF Whole, Readers, files, Typed

(* A step that sends nothing, tells nothing and writes no file. *)
LEMMA QuietKeeps ==
    ASSUME IInv, Typed', RowTyped', NotStarted', Past', QueueAwaited', UNCHANGED files,
           happened' = happened, active' \subseteq active, told' = told,
           \A j \in Jobs : (job'[j] = job[j] /\ Keeps(j)) \/ job'[j].at \notin Awaiting
    PROVE  IInv'
<1>1. Whole' /\ Dated'
  BY WholeKept DEF IInv
<1>2. ASSUME NEW j \in Jobs PROVE Promised(j)' /\ Earned(j)' /\ SummaryFirst(j)'
  BY JobKept, JobQuiet DEF IInv
<1> QED BY <1>1, <1>2 DEF IInv

Places == {"none", "reclaim", "delivering", "over"} \cup Settling

(* A handler moves on. *)
LEMMA JobMoves ==
    ASSUME Typed, NEW j \in Jobs, NEW at \in Places, job' = [job EXCEPT ![j].at = at]
    PROVE  /\ job' \in [Jobs -> Records]
           /\ job'[j].at = at /\ job'[j].to = job[j].to
           /\ \A i \in Jobs \ {j} : job'[i] = job[i]
<1>1. job[j] \in Records
  BY DEF Typed
<1>2. [job[j] EXCEPT !.at = at] \in Records
  BY <1>1 DEF Records, Places, Settling
<1> QED BY <1>1, <1>2 DEF Typed, Records

(* What a handler is at first, and when it is over. *)
LEMMA NoJobTyped ==
    ASSUME NEW kind \in {"daily-summary", "memory-update"}, NEW trigger \in {"cron", "catch-up"},
           NEW to \in Nat
    PROVE  /\ [NoJob EXCEPT !.at = "over"] \in Records
           /\ [NoJob EXCEPT !.kind = kind, !.trigger = trigger, !.at = "reclaim", !.to = to] \in Records
<1>1. <<>> \in Seq(Targets)
  OBVIOUS
<1>2. NoJob \in Records
  BY <1>1 DEF Records, NoJob
<1> HIDE DEF NoJob
<1> QED BY <1>2 DEF Records

(* A row gets its handler. *)
LEMMA JobStarts ==
    ASSUME IInv, NEW j \in Jobs, NEW kind \in {"daily-summary", "memory-update"},
           NEW trigger \in {"cron", "catch-up"}, StartJob(j, kind, trigger),
           UNCHANGED <<now, active, happened, files, queue, told>>
    PROVE  IInv'
<1>1. /\ job' = [job EXCEPT ![j] = [NoJob EXCEPT !.kind = kind, !.trigger = trigger,
                                        !.at = "reclaim", !.to = now]]
      /\ row' = [row EXCEPT ![j] = "running"]
      /\ row[j] = "none"
  BY DEF StartJob, Fresh
<1>2. job' \in [Jobs -> Records]
  <2>1. [NoJob EXCEPT !.kind = kind, !.trigger = trigger, !.at = "reclaim", !.to = now] \in Records
    BY NoJobTyped DEF IInv, Typed
  <2> QED BY <1>1, <2>1 DEF IInv, Typed
<1>3. /\ job'[j].at = "reclaim" /\ job'[j].to = now
      /\ \A i \in Jobs \ {j} : job'[i] = job[i]
  BY <1>1 DEF IInv, Typed, NoJob
<1>4. Typed' /\ RowTyped' /\ NotStarted'
  BY <1>1, <1>2, <1>3 DEF IInv, Typed, RowTyped, NotStarted, Statuses, files, IsSeq
<1>5. Past'
  BY <1>3 DEF IInv, Past, Typed, files
<1>6. QueueAwaited'
  <2>1. \A i \in 1..Len(queue) : queue[i].job # j
    BY <1>1 DEF IInv, NotStarted, QueueAwaited
  <2> QED BY <1>3, <2>1 DEF IInv, QueueAwaited
<1>7. \A i \in Jobs : (job'[i] = job[i] /\ Keeps(i)) \/ job'[i].at \notin Awaiting
  BY <1>3 DEF Keeps, Awaiting
<1> QED BY <1>4, <1>5, <1>6, <1>7, QuietKeeps DEF files

(* The steps of a handler that end it or keep it from delivering. *)
LEMMA StopsShort ==
    ASSUME IInv, NEW j \in Jobs, NEW at \in {"skipped", "threw"}, job[j].at = "reclaim",
           job' = [job EXCEPT ![j].at = at],
           UNCHANGED <<now, active, happened, files, row, queue, told>>
    PROVE  IInv'
<1>1. at \in Places
  BY DEF Places, Settling
<1>2. /\ job' \in [Jobs -> Records]
      /\ job'[j].at = at /\ job'[j].to = job[j].to
      /\ \A i \in Jobs \ {j} : job'[i] = job[i]
  BY <1>1, JobMoves DEF IInv
<1>3. Typed' /\ RowTyped' /\ NotStarted'
  BY <1>2 DEF IInv, Typed, RowTyped, NotStarted, files, IsSeq
<1>4. Past'
  BY <1>2 DEF IInv, Past, files
<1>5. QueueAwaited'
  BY <1>2 DEF IInv, QueueAwaited
<1>6. \A i \in Jobs : (job'[i] = job[i] /\ Keeps(i)) \/ job'[i].at \notin Awaiting
  BY <1>2 DEF Keeps, Awaiting
<1> QED BY <1>3, <1>4, <1>5, <1>6, QuietKeeps DEF files

(* The race with the timer: the handler is over, or goes on without its row. *)
LEMMA RaceEndsKeeps ==
    ASSUME IInv, NEW j \in Jobs, RaceEnds(j)
    PROVE  IInv'
<1>1. /\ job' = [job EXCEPT ![j] = [NoJob EXCEPT !.at = "over"]]
      /\ job[j].at \in {"resolved", "skipped", "threw"}
      /\ UNCHANGED <<now, active, happened, files, queue, told>>
  BY DEF RaceEnds
<1>2. job' \in [Jobs -> Records]
  <2>1. [NoJob EXCEPT !.at = "over"] \in Records
    BY NoJobTyped DEF IInv, Typed
  <2> QED BY <1>1, <2>1 DEF IInv, Typed
<1>3. /\ job'[j].at = "over" /\ job'[j].to = 0
      /\ \A i \in Jobs \ {j} : job'[i] = job[i]
  BY <1>1 DEF IInv, Typed, NoJob
<1>4. PICK status \in FinalStatuses(j) : row' = [row EXCEPT ![j] = status]
  BY DEF RaceEnds
<1>5. status \in Statuses \ {"none"}
  <2>1. row[j] \in Statuses \ {"none"}
    BY <1>1 DEF IInv, RowTyped, NotStarted
  <2> QED BY <1>1, <1>4, <2>1 DEF FinalStatuses, Statuses
<1>6. Typed' /\ RowTyped' /\ NotStarted'
  BY <1>1, <1>2, <1>3, <1>4, <1>5 DEF IInv, Typed, RowTyped, NotStarted, files, IsSeq
<1>7. Past'
  BY <1>1, <1>3 DEF IInv, Past, Typed, files
<1>8. QueueAwaited'
  <2>1. \A i \in 1..Len(queue) : queue[i].job # j
    BY <1>1 DEF IInv, QueueAwaited
  <2> QED BY <1>1, <1>3, <2>1 DEF IInv, QueueAwaited
<1>9. \A i \in Jobs : (job'[i] = job[i] /\ Keeps(i)) \/ job'[i].at \notin Awaiting
  BY <1>1, <1>3 DEF Keeps, Awaiting
<1> QED BY <1>1, <1>6, <1>7, <1>8, <1>9, QuietKeeps DEF files

(* The job timer fails the row; the handler goes on. *)
LEMMA TimerFiresKeeps ==
    ASSUME IInv, NEW j \in Jobs, TimerFires(j)
    PROVE  IInv'
<1>1. /\ row' = [row EXCEPT ![j] = "failed"]
      /\ UNCHANGED <<now, active, happened, files, job, queue, told>>
  BY DEF TimerFires
<1>2. Typed' /\ RowTyped' /\ NotStarted'
  BY <1>1 DEF IInv, Typed, RowTyped, NotStarted, Statuses, files, IsSeq
<1>3. Past' /\ QueueAwaited'
  BY <1>1 DEF IInv, Past, QueueAwaited, files
<1>4. \A i \in Jobs : job'[i] = job[i] /\ Keeps(i)
  BY <1>1 DEF Keeps
<1> QED BY <1>1, <1>2, <1>3, <1>4, QuietKeeps DEF files

(* Whatever the process knew of its handlers and their deliveries is gone. *)
LEMMA ProcessEndsKeeps ==
    ASSUME IInv, ProcessEnds
    PROVE  IInv'
<1>1. /\ job' = [j \in Jobs |-> IF Running(j) THEN [NoJob EXCEPT !.at = "over"] ELSE job[j]]
      /\ queue' = <<>>
      /\ UNCHANGED <<now, active, happened, files, row, told>>
  BY DEF ProcessEnds
<1>2. ASSUME NEW j \in Jobs
      PROVE  /\ job'[j] \in Records
             /\ job'[j].at \notin Awaiting
             /\ job'[j].to \in {0, job[j].to}
             /\ job[j].at = "none" => job'[j].at = "none"
  <2>1. CASE Running(j)
    <3>1. job'[j] = [NoJob EXCEPT !.at = "over"]
      BY <1>1, <2>1
    <3>2. job'[j] \in Records
      BY <3>1, NoJobTyped DEF IInv, Typed
    <3> QED BY <2>1, <3>1, <3>2 DEF Running, NoJob, Awaiting
  <2>2. CASE ~Running(j)
    <3>1. job'[j] = job[j]
      BY <1>1, <2>2
    <3> QED BY <2>2, <3>1 DEF Running, Awaiting, IInv, Typed
  <2> QED BY <2>1, <2>2
<1>3. Typed' /\ RowTyped' /\ NotStarted'
  <2>1. job' \in [Jobs -> Records]
    BY <1>1, <1>2
  <2>2. IsSeq(queue')
    BY <1>1 DEF IsSeq
  <2> QED BY <1>1, <1>2, <2>1, <2>2 DEF IInv, Typed, RowTyped, NotStarted, files
<1>4. Past' /\ QueueAwaited'
  BY <1>1, <1>2 DEF IInv, Past, Typed, QueueAwaited, files
<1> QED BY <1>1, <1>2, <1>3, <1>4, QuietKeeps DEF files

(* The server's and the clock's steps. *)
LEMMA ServerKeeps ==
    ASSUME IInv,
           \/ AgentsRestored \/ JobsRegistered \/ TimePasses
           \/ \E p \in Projects : ConductorArchived(p)
           \/ UNCHANGED vars
    PROVE  IInv'
<1>1. /\ UNCHANGED <<happened, files, job, queue, told>>
      /\ active' \subseteq active
      /\ now' \in {now, now + 1}
      /\ row' \in {row, StaleRowsFailed}
  BY DEF AgentsRestored, JobsRegistered, TimePasses, ConductorArchived, vars
<1>2. RowTyped' /\ NotStarted'
  BY <1>1 DEF IInv, RowTyped, NotStarted, Statuses, StaleRowsFailed
<1>3. Typed'
  BY <1>1 DEF IInv, Typed, files, IsSeq
<1>4. Past'
  <2>1. now' >= now
    BY <1>1 DEF IInv, Typed
  <2> QED BY <1>1, <2>1 DEF IInv, Past, Typed, Records, files
<1>5. QueueAwaited'
  BY <1>1 DEF IInv, QueueAwaited
<1>6. \A j \in Jobs : job'[j] = job[j] /\ Keeps(j)
  BY <1>1 DEF Keeps
<1> QED BY <1>1, <1>2, <1>3, <1>4, <1>5, <1>6, QuietKeeps

(* checkNarratorCatchUp starts a job or looks on. *)
LEMMA CatchUpKeeps ==
    ASSUME IInv, CatchUpSummary \/ CatchUpMemory
    PROVE  IInv'
<1>1. UNCHANGED <<now, active, happened, files, queue, told>>
  BY DEF CatchUpSummary, CatchUpMemory
<1>2. \/ \E j \in Jobs : StartJob(j, "daily-summary", "catch-up")
      \/ \E j \in Jobs : StartJob(j, "memory-update", "catch-up")
      \/ UNCHANGED <<row, job>>
  BY DEF CatchUpSummary, CatchUpMemory
<1>3. CASE \E j \in Jobs : StartJob(j, "daily-summary", "catch-up")
  BY <1>1, <1>3, JobStarts
<1>4. CASE \E j \in Jobs : StartJob(j, "memory-update", "catch-up")
  BY <1>1, <1>4, JobStarts
<1>5. CASE UNCHANGED <<row, job>>
  <2>1. Typed' /\ RowTyped' /\ NotStarted' /\ Past' /\ QueueAwaited'
    BY <1>1, <1>5 DEF IInv, Typed, RowTyped, NotStarted, Past, QueueAwaited, files, IsSeq
  <2>2. \A j \in Jobs : job'[j] = job[j] /\ Keeps(j)
    BY <1>1, <1>5 DEF Keeps
  <2> QED BY <1>1, <2>1, <2>2, QuietKeeps
<1> QED BY <1>2, <1>3, <1>4, <1>5

(* What happens now is after every cursor. *)
LEMMA AgentWorksKeeps ==
    ASSUME IInv, NEW a \in Sources, AgentWorks(a)
    PROVE  IInv'
<1>1. PICK in \in Tables \cup {"session"} : happened' = happened \cup {Entry(a, in)}
  BY DEF AgentWorks
<1>2. UNCHANGED <<now, active, files, row, job, queue, told>>
  BY DEF AgentWorks
<1> DEFINE new == Entry(a, in)
<1>3. new.at = now /\ new.in = in /\ new.of = a
  BY DEF Entry
<1>4. Typed' /\ RowTyped' /\ NotStarted' /\ Past' /\ QueueAwaited'
  <2>1. Typed'
    BY <1>1, <1>2, <1>3 DEF IInv, Typed, files, IsSeq
  <2>2. Past'
    BY <1>1, <1>2, <1>3 DEF IInv, Past, Typed, files
  <2> QED BY <1>2, <2>1, <2>2 DEF IInv, RowTyped, NotStarted, QueueAwaited
<1>5. \A x \in Readers : Shows(x)' \subseteq Shows(x) \cup {new}
  BY <1>1, <1>2 DEF Shows, LogShows
<1>6. /\ \A x : \A e : ToldTo(x, e)' <=> ToldTo(x, e)
      /\ \A j \in Jobs : \A x, e : Queued(j, x, e)' <=> Queued(j, x, e)
      /\ \A j \in Jobs : \A x : InLeft(j, x)' <=> InLeft(j, x)
  BY <1>2 DEF ToldTo, Queued, InLeft
<1>7. ASSUME NEW x \in Readers, NEW t \in Int, t <= now, Until(x, t) PROVE Until(x, t)'
  BY <1>3, <1>5, <1>6, <1>7 DEF Until, IInv, Typed
<1>8. Whole' /\ Dated'
  <2>1. Resolved' = Resolved /\ Dated'
    BY <1>2, ResolvedStays DEF IInv, Typed, files
  <2>2. Resolved \in Int /\ Resolved <= now
    BY ResolvedNewest DEF IInv, Typed, Past
  <2>3. \A x \in {Summary} \cup active' : x \in Readers /\ Until(x, Resolved)
    BY <1>2 DEF IInv, Whole, Readers, Typed
  <2>4. \A p \in Projects : p \in Readers /\ Until(p, logs[p]) /\ logs[p] \in Int /\ logs[p] <= now
    BY DEF IInv, Whole, Readers, Typed, Past
  <2>5. \A x \in {Summary} \cup active' : Until(x, Resolved)'
    BY <1>7, <2>1, <2>2, <2>3
  <2>6. \A p \in Projects : Until(p, logs[p])'
    BY <1>2, <1>7, <2>4 DEF files
  <2> QED BY <2>1, <2>5, <2>6 DEF Whole
<1>9. ASSUME NEW j \in Jobs PROVE Promised(j)' /\ Earned(j)' /\ SummaryFirst(j)'
  <2>1. job[j].to \in Int /\ job[j].to <= now /\ job'[j] = job[j]
    BY <1>2 DEF IInv, Typed, Records, Past
  <2>2. Promised(j)'
    <3> SUFFICES ASSUME job[j].at = "delivering", ~job[j].failed,
                        NEW x \in Readers, InLeft(j, x), NEW e \in Shows(x)', e.at < job[j].to
                 PROVE  ToldTo(x, e)' \/ Queued(j, x, e)'
      BY <1>6, <2>1 DEF Promised
    <3>1. e # new
      BY <1>3, <2>1 DEF IInv, Typed
    <3> QED BY <1>5, <1>6, <3>1 DEF IInv, Promised
  <2>3. Earned(j)'
    BY <1>6, <1>7, <2>1 DEF IInv, Earned
  <2>4. SummaryFirst(j)'
    BY <1>2, <1>6, <2>1 DEF IInv, SummaryFirst
  <2> QED BY <2>2, <2>3, <2>4
<1> QED BY <1>4, <1>8, <1>9 DEF IInv

-----------------------------------------------------------------------------
(* A delivery is answered or rejected *)

(* An answer takes its target off those that are awaited, and no more. *)
LEMMA AnsweredTyped ==
    ASSUME NEW r \in Records, NEW m, NEW ok \in BOOLEAN
    PROVE  /\ Answered(r, m, ok) \in Records
           /\ Answered(r, m, ok).to = r.to
           /\ Answered(r, m, ok).left = r.left
           /\ Answered(r, m, ok).waiting = r.waiting \ {m.target}
           /\ Answered(r, m, ok).failed <=> (r.failed \/ ~ok)
           /\ Answered(r, m, ok).at =
                IF r.waiting \ {m.target} # {} THEN r.at
                ELSE IF r.failed \/ ~ok THEN "threw" ELSE "writing"
<1> DEFINE W == r.waiting \ {m.target}
           F == r.failed \/ ~ok
           next == [r EXCEPT !.waiting = W, !.failed = F]
<1>1. /\ next \in Records
      /\ next.to = r.to /\ next.left = r.left /\ next.waiting = W /\ next.failed = F /\ next.at = r.at
  BY DEF Records
<1>2. Answered(r, m, ok) = IF W # {} THEN next
                           ELSE IF F THEN [next EXCEPT !.at = "threw"]
                           ELSE Advancing(next, r.left, "resolved")
  BY DEF Answered
<1> HIDE DEF next, W, F
<1>3. [next EXCEPT !.at = "threw"] \in Records
  BY <1>1 DEF Records, Settling
<1>4. Advancing(next, r.left, "resolved") \in Records
  BY <1>1 DEF Records, Settling, Advancing
<1>5. CASE W # {}
  BY <1>1, <1>2, <1>5 DEF W, F
<1>6. CASE W = {} /\ F
  <2>1. Answered(r, m, ok) = [next EXCEPT !.at = "threw"]
    BY <1>2, <1>6
  <2> QED BY <1>1, <1>3, <1>6, <2>1 DEF W, F, Records
<1>7. CASE W = {} /\ ~F
  <2>1. Answered(r, m, ok) = Advancing(next, r.left, "resolved")
    BY <1>2, <1>7
  <2> QED BY <1>1, <1>4, <1>7, <2>1 DEF W, F, Records, Advancing
<1> QED BY <1>5, <1>6, <1>7

(* The Narrator's host answers a delivery: what was kept or noted is told. *)
LEMMA AnswerKeeps ==
    ASSUME IInv, NEW i \in 1..Len(queue), NEW ok \in BOOLEAN,
           Without(queue, queue', i), Settle(queue[i], ok), told \subseteq told',
           ok => \A e \in queue[i].kept \cup queue[i].dropped :
                    \E t \in told' : t.entry = e /\ t.in = queue[i].target,
           UNCHANGED <<now, active, happened, files, row>>
    PROVE  IInv'
<1> DEFINE m == queue[i]
<1>1. /\ \A k \in 1..Len(queue) : k # i => \E l \in 1..Len(queue') : queue'[l] = queue[k]
      /\ \A k \in 1..Len(queue') : \E l \in 1..Len(queue) \ {i} : queue'[k] = queue[l]
      /\ \A k, l \in 1..Len(queue') : k # l =>
            \E c, d \in 1..Len(queue) \ {i} : c # d /\ queue'[k] = queue[c] /\ queue'[l] = queue[d]
  <2>1. IsSeq(queue)
    BY DEF IInv, Typed
  <2>2. Remains(queue, queue', i)
    BY <2>1, WithoutKeeps
  <2> QED BY <2>2 DEF Remains
<1>2. IsSeq(queue')
  BY DEF Without
<1>3. Whole' /\ Dated'
  BY WholeKept DEF IInv
<1>4. \A j \in Jobs : m.job # j => Keeps(j)
  BY <1>1 DEF Keeps
<1>7. ASSUME NEW k \in 1..Len(queue'), NEW l \in 1..Len(queue'), k # l,
             queue'[k].job = queue'[l].job, queue'[k].job \in Jobs
      PROVE  queue'[k].target # queue'[l].target
  <2>1. PICK c \in 1..Len(queue) \ {i}, d \in 1..Len(queue) \ {i} :
                c # d /\ queue'[k] = queue[c] /\ queue'[l] = queue[d]
    BY <1>1, <1>7
  <2> QED BY <1>7, <2>1 DEF IInv, QueueAwaited
<1>5. CASE m.job \notin Jobs
  <2>1. job' = job
    BY <1>5 DEF Settle
  <2>2. Typed' /\ RowTyped' /\ NotStarted' /\ Past'
    BY <1>2, <2>1 DEF IInv, Typed, RowTyped, NotStarted, Past, files
  <2>3. QueueAwaited'
    <3>1. \A k \in 1..Len(queue') : queue'[k].job \in Jobs =>
            /\ job'[queue'[k].job].at = "delivering"
            /\ queue'[k].target \in job'[queue'[k].job].waiting
      <4> SUFFICES ASSUME NEW k \in 1..Len(queue'), queue'[k].job \in Jobs
                   PROVE  /\ job[queue'[k].job].at = "delivering"
                          /\ queue'[k].target \in job[queue'[k].job].waiting
        BY <2>1
      <4>1. PICK l \in 1..Len(queue) \ {i} : queue'[k] = queue[l]
        BY <1>1
      <4> QED BY <4>1 DEF IInv, QueueAwaited
    <3> QED BY <1>7, <3>1 DEF QueueAwaited
  <2>4. \A j \in Jobs : Promised(j)' /\ Earned(j)' /\ SummaryFirst(j)'
    BY <1>4, <1>5, <2>1, JobKept DEF IInv
  <2> QED BY <1>3, <2>2, <2>3, <2>4 DEF IInv
<1>6. CASE m.job \in Jobs
  <2> SUFFICES ASSUME NEW j \in Jobs, m.job = j PROVE IInv'
    BY <1>6
  <2> DEFINE W == job[j].waiting \ {m.target}
             F == job[j].failed \/ ~ok
  <2>1. /\ job'[j] \in Records
        /\ job'[j].to = job[j].to /\ job'[j].left = job[j].left
        /\ job'[j].waiting = W /\ (job'[j].failed <=> F)
        /\ job'[j].at = IF W # {} THEN job[j].at ELSE IF F THEN "threw" ELSE "writing"
        /\ job' = [job EXCEPT ![j] = job'[j]]
    <3>1. job' = [job EXCEPT ![j] = Answered(job[j], m, ok)]
      BY <1>6 DEF Settle
    <3>2. job'[j] = Answered(job[j], m, ok) /\ job[j] \in Records
      BY <3>1 DEF IInv, Typed
    <3> DEFINE r == job[j]
    <3>3. r \in Records /\ job'[j] = Answered(r, m, ok)
      BY <3>2
    <3>4. /\ W = r.waiting \ {m.target}
          /\ F <=> r.failed \/ ~ok
      OBVIOUS
    <3> HIDE DEF r, W, F, m
    <3>5. /\ job'[j] \in Records
          /\ job'[j].to = r.to /\ job'[j].left = r.left
          /\ job'[j].waiting = W /\ (job'[j].failed <=> F)
          /\ job'[j].at = IF W # {} THEN r.at ELSE IF F THEN "threw" ELSE "writing"
      BY <3>3, <3>4, AnsweredTyped
    <3>6. job' = [job EXCEPT ![j] = job'[j]]
      BY <3>1, <3>2
    <3> QED BY <3>5, <3>6 DEF r
  <2>2. \A k \in Jobs \ {j} : job'[k] = job[k]
    BY <2>1 DEF IInv, Typed
  <2>3. job[j].at = "delivering" /\ m.target \in job[j].waiting
    BY DEF IInv, QueueAwaited
  <2> HIDE DEF W, F
  <2>4. Typed' /\ RowTyped' /\ NotStarted' /\ Past'
    <3>1. job' \in [Jobs -> Records]
      BY <2>1, <2>2 DEF IInv, Typed
    <3>2. Typed' /\ RowTyped'
      BY <1>2, <3>1 DEF IInv, Typed, RowTyped, files
    <3>3. NotStarted'
      BY <2>2, <2>3 DEF IInv, NotStarted
    <3>4. Past'
      BY <2>1, <2>2 DEF IInv, Past, files
    <3> QED BY <3>2, <3>3, <3>4
  <2>5. \A k \in 1..Len(queue) \ {i} : queue[k].job = j => queue[k].target \in W
    BY DEF IInv, QueueAwaited, W
  <2>6. QueueAwaited'
    <3>1. ASSUME NEW k \in 1..Len(queue'), queue'[k].job \in Jobs
          PROVE  /\ job'[queue'[k].job].at = "delivering"
                 /\ queue'[k].target \in job'[queue'[k].job].waiting
      <4>1. PICK l \in 1..Len(queue) \ {i} : queue'[k] = queue[l]
        BY <1>1
      <4>2. CASE queue[l].job = j
        BY <2>1, <2>3, <2>5, <4>1, <4>2
      <4>3. CASE queue[l].job # j
        BY <2>2, <3>1, <4>1, <4>3 DEF IInv, QueueAwaited
      <4> QED BY <4>2, <4>3
    <3>2. \A k, l \in 1..Len(queue') :
            k # l /\ queue'[k].job = queue'[l].job /\ queue'[k].job \in Jobs
            => queue'[k].target # queue'[l].target
      BY <1>7
    <3> QED BY <3>1, <3>2 DEF QueueAwaited
  <2>7. \A k \in Jobs \ {j} : Promised(k)' /\ Earned(k)' /\ SummaryFirst(k)'
    BY <1>4, <2>2, JobKept DEF IInv
  <2>8. ASSUME ok, NEW x \in Readers, NEW e, ToldTo(x, e) \/ Queued(j, x, e)
        PROVE  ToldTo(x, e)' \/ (x \in W /\ Queued(j, x, e)')
    <3>1. CASE ToldTo(x, e)
      BY <3>1 DEF ToldTo
    <3>2. CASE Queued(j, x, e)
      <4>1. PICK k \in 1..Len(queue) :
                queue[k].job = j /\ queue[k].target = x /\ e \in queue[k].kept \cup queue[k].dropped
        BY <3>2 DEF Queued
      <4>2. CASE k = i
        BY <2>8, <4>1, <4>2 DEF ToldTo
      <4>3. CASE k # i
        <5>1. x \in W
          BY <2>5, <4>1, <4>3
        <5>2. PICK l \in 1..Len(queue') : queue'[l] = queue[k]
          BY <1>1, <4>3
        <5>3. Queued(j, x, e)'
          BY <2>1, <4>1, <5>1, <5>2 DEF Queued
        <5> QED BY <5>1, <5>3
      <4> QED BY <4>2, <4>3
    <3> QED BY <2>8, <3>1, <3>2
  <2>9. \A x : InLeft(j, x)' <=> InLeft(j, x)
    BY <2>1 DEF InLeft
  <2>10. \A x \in Readers : Shows(x)' = Shows(x)
    BY DEF Shows, LogShows
  <2>11. Promised(j)'
    BY <2>1, <2>3, <2>8, <2>9, <2>10 DEF IInv, Promised, F
  <2>12. Earned(j)'
    <3> SUFFICES ASSUME job'[j].at = "writing" PROVE Earned(j)'
      BY DEF Earned
    <3>1. W = {} /\ ok /\ ~job[j].failed
      BY <2>1, <2>3 DEF F
    <3> QED BY <2>1, <2>3, <2>8, <2>9, <2>10, <3>1 DEF IInv, Promised, Earned, Until
  <2>13. SummaryFirst(j)'
    BY <2>1, <2>3, <2>9 DEF IInv, SummaryFirst
  <2> QED BY <1>3, <2>4, <2>6, <2>7, <2>11, <2>12, <2>13 DEF IInv
<1> QED BY <1>5, <1>6

(* A run of the Narrator ends, or a delivery is rejected. *)
LEMMA NarratorKeeps ==
    ASSUME IInv, NarratorProcesses \/ \E i \in DOMAIN queue : NarratorRejects(i)
    PROVE  IInv'
<1>1. IsSeq(queue) /\ DOMAIN queue = 1..Len(queue) /\ Len(queue) \in Nat
  BY DEF IInv, Typed, IsSeq
<1>2. CASE NarratorProcesses
  <2> DEFINE d == Head(queue)
             Read(S, how) == [entry : S, in : {d.target}, day : {d.day}, how : {how}]
  <2>1. /\ queue # <<>>
        /\ told' = told \cup Read(d.kept, "shown") \cup Read(d.dropped, "noted")
        /\ queue' = Tail(queue)
        /\ Settle(d, TRUE)
        /\ UNCHANGED <<now, active, happened, files, row>>
    BY <1>2 DEF NarratorProcesses
  <2>2. 1 \in 1..Len(queue) /\ d = queue[1]
    BY <1>1, <2>1 DEF IsSeq
  <2>3. Without(queue, queue', 1)
    BY <1>1, <2>1, TailWithout
  <2>4. ASSUME NEW e \in d.kept \cup d.dropped
        PROVE  \E t \in told' : t.entry = e /\ t.in = d.target
    <3>1. CASE e \in d.kept
      <4> DEFINE t == [entry |-> e, in |-> d.target, day |-> d.day, how |-> "shown"]
      <4>1. t \in Read(d.kept, "shown") /\ t.entry = e /\ t.in = d.target
        BY <3>1
      <4> QED BY <2>1, <4>1
    <3>2. CASE e \in d.dropped
      <4> DEFINE t == [entry |-> e, in |-> d.target, day |-> d.day, how |-> "noted"]
      <4>1. t \in Read(d.dropped, "noted") /\ t.entry = e /\ t.in = d.target
        BY <3>2
      <4> QED BY <2>1, <4>1
    <3> QED BY <3>1, <3>2
  <2>5. told \subseteq told'
    BY <2>1
  <2> HIDE DEF d
  <2>6. Settle(d, TRUE) /\ UNCHANGED <<now, active, happened, files, row>>
    BY <2>1
  <2>7. Settle(queue[1], TRUE)
    BY <2>2, <2>6
  <2>8. \A e \in queue[1].kept \cup queue[1].dropped :
                \E t \in told' : t.entry = e /\ t.in = queue[1].target
    BY <2>2, <2>4
  <2> QED BY <2>2, <2>3, <2>5, <2>6, <2>7, <2>8, AnswerKeeps
<1>3. ASSUME NEW i \in DOMAIN queue, NarratorRejects(i) PROVE IInv'
  <2>1. /\ queue' = RemoveAt(queue, i)
        /\ Settle(queue[i], FALSE)
        /\ UNCHANGED <<now, active, happened, files, row, told>>
    BY <1>3 DEF NarratorRejects
  <2>2. Without(queue, queue', i)
    BY <1>1, <2>1, RemoveAtWithout
  <2> QED BY <1>1, <2>1, <2>2, AnswerKeeps
<1> QED BY <1>2, <1>3

-----------------------------------------------------------------------------
(* Deliveries are queued *)

(* Nobody awaits the two deliveries of a story. *)
LEMMA TriggerStoryKeeps ==
    ASSUME IInv, NEW p \in Projects, TriggerStory(p)
    PROVE  IInv'
<1>1. PICK from : queue' = queue \o StoryBatch(p, from)
  BY DEF TriggerStory
<1>2. UNCHANGED <<now, active, happened, files, row, job, told>>
  BY DEF TriggerStory
<1> DEFINE b == StoryBatch(p, from)
<1>3. b = <<FinalLog(p, from), StoryData(p)>>
  BY DEF StoryBatch
<1>4. IsSeq(b) /\ Len(b) = 2
  <2>1. b \in Seq({FinalLog(p, from), StoryData(p)}) /\ Len(b) = 2
    BY <1>3
  <2> QED BY <2>1, SeqIsSeq
<1>5. \A k \in 1..Len(b) : b[k].job = 0
  <2>1. FinalLog(p, from).job = 0 /\ StoryData(p).job = 0
    BY DEF FinalLog, StoryData, Delivery
  <2>2. \A k \in 1..Len(b) : b[k] \in {FinalLog(p, from), StoryData(p)}
    BY <1>3, <1>4
  <2> QED BY <2>1, <2>2
<1>6. 0 \notin Jobs
  BY NarratorAssumption
<1>7. IsSeq(queue)
  BY DEF IInv, Typed
<1>12. queue' = queue \o b
  BY <1>1
<1> HIDE DEF b
<1>13. Joined(queue, b, queue')
  BY <1>4, <1>7, <1>12, ConcatIsSeq
<1>8. /\ IsSeq(queue')
      /\ \A k \in 1..Len(queue) : k \in 1..Len(queue') /\ queue'[k] = queue[k]
      /\ \A k \in 1..Len(queue') : queue'[k].job \in Jobs =>
            k \in 1..Len(queue) /\ queue'[k] = queue[k]
  BY <1>4, <1>5, <1>6, <1>13 DEF Joined
<1>9. Typed' /\ RowTyped' /\ NotStarted' /\ Past'
  BY <1>2, <1>8 DEF IInv, Typed, RowTyped, NotStarted, Past, files
<1>10. QueueAwaited'
  BY <1>2, <1>8 DEF IInv, QueueAwaited
<1>11. \A j \in Jobs : Keeps(j)
  BY <1>8 DEF Keeps
<1> QED BY <1>2, <1>9, <1>10, <1>11, QuietKeeps

-----------------------------------------------------------------------------
(* Cursors are written *)

(* A handler writes its next cursor: all that it passes has been told. *)
LEMMA WriteCursorKeeps ==
    ASSUME IInv, NEW j \in Jobs, WriteCursor(j)
    PROVE  IInv'
<1> SUFFICES ASSUME NEW f, f = Head(job[j].left), NEW l, l = job[j].left, NEW to, to = job[j].to
             PROVE  IInv'
  OBVIOUS
<1>1. /\ job[j].at = "writing"
      /\ summary' = IF f = Summary THEN [summary EXCEPT ![Day(to)] = to] ELSE summary
      /\ logs' = IF f \in Projects THEN [logs EXCEPT ![f] = to] ELSE logs
      /\ job' = [job EXCEPT ![j].left = Tail(@),
                            ![j].at = IF Len(l) = 1 THEN job[j].ends ELSE "writing"]
      /\ UNCHANGED <<now, active, happened, row, queue, told>>
  BY DEF WriteCursor
<1>2. /\ job[j] \in Records /\ l \in Seq(Targets) /\ to \in Nat /\ to <= now
      /\ l # <<>>
  BY <1>1 DEF IInv, Typed, Records, Past, SummaryFirst
<1>3. /\ Len(l) \in Nat /\ Len(l) > 0 /\ 1 \in 1..Len(l) /\ f = l[1]
      /\ Tail(l) \in Seq(Targets) /\ Len(Tail(l)) = Len(l) - 1
      /\ \A i \in 1..Len(Tail(l)) : i + 1 \in 1..Len(l) /\ Tail(l)[i] = l[i + 1]
  BY <1>2
<1>4. /\ job'[j] \in Records
      /\ job'[j].to = to /\ job'[j].left = Tail(l)
      /\ job'[j].at = IF Len(l) = 1 THEN job[j].ends ELSE "writing"
      /\ \A i \in Jobs \ {j} : job'[i] = job[i]
  BY <1>1, <1>2, <1>3 DEF IInv, Typed, Records, Settling
<1>5. job' \in [Jobs -> Records]
  BY <1>1, <1>4 DEF IInv, Typed
<1>6. \A x, t : Until(x, t)' <=> Until(x, t)
  BY <1>1 DEF Until, Shows, LogShows, ToldTo
<1>7. InLeft(j, f)
  BY <1>3 DEF InLeft
<1>8. f \in Readers => Until(f, to)
  BY <1>1, <1>7 DEF IInv, Earned
<1>9. f = Summary => \A x \in {Summary} \cup active : Until(x, to)
  <2>1. f = Summary => \A p \in active : InLeft(j, p)
    BY <1>1, <1>3 DEF IInv, SummaryFirst
  <2> QED BY <1>1, <1>8, <2>1 DEF IInv, Typed, Earned, Readers
<1>10. summary' \in [Days -> Int] /\ Dated' /\ Resolved' \in {Resolved, to}
       /\ (f # Summary => Resolved' = Resolved)
  <2>1. CASE f = Summary
    BY <1>1, <1>2, <2>1, ResolvedMoves DEF IInv, Typed
  <2>2. CASE f # Summary
    BY <1>1, <2>2, ResolvedStays DEF IInv, Typed
  <2> QED BY <2>1, <2>2
<1>11. logs' \in [Projects -> Int]
  BY <1>1, <1>2 DEF IInv, Typed
<1>12. Whole'
  <2>1. ASSUME NEW x \in {Summary} \cup active' PROVE Until(x, Resolved)'
    <3>1. Until(x, Resolved)
      BY <1>1 DEF IInv, Whole
    <3>2. Until(x, Resolved')
      BY <1>1, <1>9, <1>10, <3>1
    <3> QED BY <1>1, <3>2 DEF Until, Shows, LogShows, ToldTo
  <2>2. ASSUME NEW p \in Projects PROVE Until(p, logs[p])'
    <3>1. Until(p, logs'[p])
      BY <1>1, <1>8 DEF IInv, Whole, Typed, Readers
    <3> QED BY <1>1, <3>1 DEF Until, Shows, LogShows, ToldTo
  <2> QED BY <2>1, <2>2 DEF Whole
<1>13. Typed' /\ RowTyped' /\ NotStarted'
  <2>1. Typed'
    BY <1>1, <1>5, <1>10, <1>11 DEF IInv, Typed, IsSeq
  <2>2. RowTyped' /\ NotStarted'
    BY <1>1, <1>4 DEF IInv, RowTyped, NotStarted
  <2> QED BY <2>1, <2>2
<1>14. Past'
  <2>1. \A d \in Days : summary'[d] <= now
    BY <1>1, <1>2 DEF IInv, Typed, Past
  <2>2. \A p \in Projects : logs'[p] <= now
    BY <1>1, <1>2 DEF IInv, Typed, Past
  <2>3. \A i \in Jobs : job'[i].to <= now
    BY <1>2, <1>4 DEF IInv, Past
  <2> QED BY <1>1, <2>1, <2>2, <2>3 DEF IInv, Past
<1>15. QueueAwaited'
  <2>1. \A i \in 1..Len(queue) : queue[i].job # j
    BY <1>1 DEF IInv, QueueAwaited
  <2>2. queue' = queue /\ \A i \in Jobs \ {j} : job'[i] = job[i]
    BY <1>1, <1>4
  <2> QED BY <2>1, <2>2 DEF IInv, QueueAwaited
<1>16. \A i \in Jobs \ {j} : Promised(i)' /\ Earned(i)' /\ SummaryFirst(i)'
  <2>1. \A i \in Jobs : Keeps(i)
    BY <1>1 DEF Keeps
  <2> QED BY <1>1, <1>4, <2>1, JobKept DEF IInv
<1>17. Promised(j)' /\ Earned(j)' /\ SummaryFirst(j)'
  <2>1. CASE Len(l) = 1
    <3>1. job'[j].at \notin Awaiting
      BY <1>2, <1>4, <2>1 DEF Records, Awaiting
    <3> QED BY <3>1, JobQuiet
  <2>2. CASE Len(l) # 1
    <3>1. job'[j].at = "writing" /\ job'[j].left # <<>>
      <4>1. Len(Tail(l)) # 0
        <5>1. Len(l) \in Nat /\ Len(Tail(l)) = Len(l) - 1
          BY <1>3
        <5> QED BY <2>2, <5>1
      <4>2. Tail(l) # <<>>
        BY <4>1
      <4> QED BY <1>4, <2>2, <4>2
    <3>2. \A x : InLeft(j, x)' => InLeft(j, x)
      BY <1>3, <1>4 DEF InLeft
    <3>3. Earned(j)'
      <4>1. \A x \in Readers : InLeft(j, x) => Until(x, to)
        BY <1>1 DEF IInv, Earned
      <4>2. \A x \in Readers : Until(x, to)' <=> Until(x, job[j].to)'
        BY <1>4
      <4> QED BY <1>6, <3>2, <4>1, <4>2 DEF Earned
    <3>4. \A i \in 1..Len(job'[j].left) : job'[j].left[i] # Summary
      <4>1. \A i \in 1..Len(l) : l[i] = Summary => i = 1
        BY <1>1 DEF IInv, SummaryFirst
      <4>2. \A i \in 1..Len(Tail(l)) : i + 1 # 1
        BY <1>3
      <4> QED BY <1>3, <1>4, <4>1, <4>2
    <3> QED BY <3>1, <3>3, <3>4 DEF Promised, SummaryFirst
  <2> QED BY <2>1, <2>2
<1> QED BY <1>10, <1>12, <1>13, <1>14, <1>15, <1>16, <1>17 DEF IInv

\* The deliveries of one handler, under different names.
BatchOf(j, batch) ==
    /\ IsSeq(batch)
    /\ \A i \in 1..Len(batch) : batch[i].job = j /\ batch[i].target \in Targets
    /\ \A i, k \in 1..Len(batch) : i # k => batch[i].target # batch[k].target

\* The cursors that will be written, the summary's first.
CursorsIn(L) ==
    /\ L \in Seq(Targets) /\ L # <<>>
    /\ \A i \in 1..Len(L) : L[i] = Summary =>
            i = 1 /\ \A p \in active : \E k \in 1..Len(L) : L[k] = p

\* Reader x was told, or the batch tells it, everything there is.
Covers(batch, x) ==
    \A e \in Shows(x) : e.at < now =>
        \/ ToldTo(x, e)
        \/ \E i \in 1..Len(batch) :
                batch[i].target = x /\ e \in batch[i].kept \cup batch[i].dropped

Sends(j, batch, L) ==
    /\ queue' = queue \o batch
    /\ job' = [job EXCEPT ![j].at = "delivering", ![j].to = now,
                          ![j].waiting = {batch[i].target : i \in DOMAIN batch},
                          ![j].left = L]
    /\ UNCHANGED <<now, active, happened, row, told>>

CursorsTrueNext ==
    /\ Whole' /\ Dated'
    /\ summary' \in [Days -> Int] /\ logs' \in [Projects -> Int]
    /\ \A d \in Days : summary'[d] <= now
    /\ \A p \in Projects : logs'[p] <= now

(* A handler sends its batch: it will write these cursors when all of it is answered. *)
LEMMA SendKeeps ==
    ASSUME IInv, NEW j \in Jobs, job[j].at = "reclaim",
           NEW batch, BatchOf(j, batch), NEW L, CursorsIn(L), Sends(j, batch, L),
           \A x \in Readers : (\E k \in 1..Len(L) : L[k] = x) => Covers(batch, x),
           CursorsTrueNext
    PROVE  IInv'
<1> DEFINE W == {batch[i].target : i \in DOMAIN batch}
<1>1. DOMAIN batch = 1..Len(batch) /\ Len(batch) \in Nat
  BY DEF BatchOf, IsSeq
<1>2. W \in SUBSET Targets /\ \A i \in 1..Len(batch) : batch[i].target \in W
  BY <1>1 DEF BatchOf
<1>3. job' = [job EXCEPT ![j].at = "delivering", ![j].to = now, ![j].waiting = W, ![j].left = L]
  BY DEF Sends
<1> HIDE DEF W
<1>4. job[j] \in Records /\ now \in Nat /\ job \in [Jobs -> Records]
  BY DEF IInv, Typed
<1>5. /\ job'[j].at = "delivering" /\ job'[j].to = now /\ job'[j].waiting = W /\ job'[j].left = L
      /\ \A i \in Jobs \ {j} : job'[i] = job[i]
  BY <1>3, <1>4 DEF Records
<1>6. job' \in [Jobs -> Records]
  BY <1>2, <1>3, <1>4 DEF Records, CursorsIn
<1>7. Joined(queue, batch, queue')
  <2>1. IsSeq(queue) /\ IsSeq(batch) /\ queue' = queue \o batch
    BY DEF IInv, Typed, BatchOf, Sends
  <2> QED BY <2>1, ConcatIsSeq
<1>19. UNCHANGED <<now, active, happened, row, told>>
  BY DEF Sends
<1>8. Typed' /\ RowTyped' /\ NotStarted'
  <2>1. IsSeq(queue')
    BY <1>7 DEF Joined
  <2>2. Typed'
    BY <1>6, <1>19, <2>1 DEF IInv, Typed, CursorsTrueNext
  <2>3. RowTyped' /\ NotStarted'
    BY <1>5, <1>19 DEF IInv, RowTyped, NotStarted
  <2> QED BY <2>2, <2>3
<1>9. Past'
  BY <1>4, <1>5, <1>19 DEF IInv, Past, CursorsTrueNext
<1>10. \A i \in 1..Len(queue) : queue[i].job # j
  BY DEF IInv, QueueAwaited
<1>11. /\ \A k \in 1..Len(queue) : k \in 1..Len(queue') /\ queue'[k] = queue[k]
       /\ \A k \in 1..Len(batch) : \E i \in 1..Len(queue') : queue'[i] = batch[k]
       /\ \A k \in 1..Len(queue') :
            \/ (k \in 1..Len(queue) /\ queue'[k].job # j)
            \/ (k - Len(queue) \in 1..Len(batch) /\ queue'[k] = batch[k - Len(queue)]
                    /\ queue'[k].job = j)
  <2>1. \A k \in 1..Len(batch) : Len(queue) + k \in 1..Len(queue') /\ queue'[Len(queue) + k] = batch[k]
    BY <1>7 DEF Joined
  <2>2. \A k \in 1..Len(batch) : batch[k].job = j
    BY DEF BatchOf
  <2>3. \A k \in 1..Len(queue) : k \in 1..Len(queue') /\ queue'[k] = queue[k]
    BY <1>7 DEF Joined
  <2>4. \A k \in 1..Len(queue') :
            \/ k \in 1..Len(queue)
            \/ (k - Len(queue) \in 1..Len(batch) /\ queue'[k] = batch[k - Len(queue)])
    BY <1>7 DEF Joined
  <2> QED BY <1>10, <2>1, <2>2, <2>3, <2>4
<1>12. QueueAwaited'
  <2>1. ASSUME NEW k \in 1..Len(queue'), queue'[k].job \in Jobs
        PROVE  /\ job'[queue'[k].job].at = "delivering"
               /\ queue'[k].target \in job'[queue'[k].job].waiting
    <3>1. CASE queue'[k].job # j
      <4>1. k \in 1..Len(queue) /\ queue'[k] = queue[k]
        BY <1>11, <3>1
      <4> QED BY <1>5, <2>1, <3>1, <4>1 DEF IInv, QueueAwaited
    <3>2. CASE queue'[k].job = j
      <4>1. k - Len(queue) \in 1..Len(batch) /\ queue'[k] = batch[k - Len(queue)]
        BY <1>11, <3>2
      <4> QED BY <1>2, <1>5, <3>2, <4>1
    <3> QED BY <3>1, <3>2
  <2>2. ASSUME NEW i \in 1..Len(queue'), NEW k \in 1..Len(queue'), i # k,
               queue'[i].job = queue'[k].job, queue'[i].job \in Jobs
        PROVE  queue'[i].target # queue'[k].target
    <3>1. CASE queue'[i].job # j
      <4>1. i \in 1..Len(queue) /\ queue'[i] = queue[i] /\ k \in 1..Len(queue) /\ queue'[k] = queue[k]
        BY <1>11, <2>2, <3>1
      <4> QED BY <2>2, <4>1 DEF IInv, QueueAwaited
    <3>2. CASE queue'[i].job = j
      <4> DEFINE a == i - Len(queue)
                 b == k - Len(queue)
      <4>1. a \in 1..Len(batch) /\ queue'[i] = batch[a]
        BY <1>11, <3>2
      <4>2. b \in 1..Len(batch) /\ queue'[k] = batch[b]
        BY <1>11, <2>2, <3>2
      <4>3. a # b
        BY <1>7, <2>2 DEF Joined
      <4> HIDE DEF a, b
      <4> QED BY <4>1, <4>2, <4>3 DEF BatchOf
    <3> QED BY <3>1, <3>2
  <2> QED BY <2>1, <2>2 DEF QueueAwaited
<1>13. \A i \in Jobs \ {j} : Promised(i)' /\ Earned(i)' /\ SummaryFirst(i)'
  <2>1. \A i \in Jobs : Keeps(i)
    BY <1>11 DEF Keeps
  <2> QED BY <1>5, <1>19, <2>1, JobKept DEF IInv
<1>14. \A x : InLeft(j, x)' <=> \E k \in 1..Len(L) : L[k] = x
  BY <1>5 DEF InLeft
<1>15. \A x : \A e : ToldTo(x, e)' <=> ToldTo(x, e)
  BY <1>19 DEF ToldTo
<1>16. Promised(j)'
  <2> SUFFICES ASSUME NEW x \in Readers, InLeft(j, x)', NEW e \in Shows(x)', e.at < now
               PROVE  ToldTo(x, e)' \/ Queued(j, x, e)'
    BY <1>5 DEF Promised
  <2>1. e \in Shows(x)
    BY <1>19 DEF Shows, LogShows
  <2>2. CASE ToldTo(x, e)
    BY <1>15, <2>2
  <2>3. CASE ~ToldTo(x, e)
    <3>1. PICK i \in 1..Len(batch) :
                batch[i].target = x /\ e \in batch[i].kept \cup batch[i].dropped
      BY <1>14, <2>1, <2>3 DEF Covers
    <3>2. PICK k \in 1..Len(queue') : queue'[k] = batch[i]
      BY <1>11
    <3>3. batch[i].job = j /\ x \in W
      BY <1>2, <3>1 DEF BatchOf
    <3>4. Queued(j, x, e)'
      BY <1>5, <3>1, <3>2, <3>3 DEF Queued
    <3> QED BY <3>4
  <2> QED BY <2>2, <2>3
<1>17. Earned(j)'
  BY <1>5 DEF Earned
<1>18. SummaryFirst(j)'
  BY <1>5, <1>14, <1>19 DEF SummaryFirst, CursorsIn
<1> QED BY <1>8, <1>9, <1>12, <1>13, <1>16, <1>17, <1>18 DEF IInv, CursorsTrueNext

-----------------------------------------------------------------------------
(* What the daily summary collects *)

(* The two files are different ones. *)
LEMMA SummaryNotMemory == Summary # Memory
<1> SUFFICES ASSUME Summary = Memory PROVE FALSE
  OBVIOUS
<1>1. {Guide, Summary, Memory, Story} = ({Guide} \cup {Memory}) \cup {Story}
  OBVIOUS
<1>2. IsFiniteSet({Guide}) /\ Cardinality({Guide}) = 1
  BY FS_Singleton
<1>3. /\ IsFiniteSet({Guide} \cup {Memory})
      /\ Cardinality({Guide} \cup {Memory}) \in {1, 2}
  BY <1>2, FS_AddElement
<1>4. Cardinality(({Guide} \cup {Memory}) \cup {Story}) \in {1, 2, 3}
  BY <1>3, FS_AddElement
<1> QED BY <1>1, <1>4, NarratorAssumption

(* The cursors of a daily summary: the summary's, and each unarchived project's. *)
LEMMA CursorFilesListed ==
    ASSUME active \subseteq Projects
    PROVE  /\ CursorsIn(CursorFiles)
           /\ \A k \in 1..Len(CursorFiles) : CursorFiles[k] \in {Summary} \cup active
<1> SUFFICES ASSUME NEW a, a = SetToSeq(active), NEW c, c = CursorFiles
             PROVE  /\ CursorsIn(c)
                    /\ \A k \in 1..Len(c) : c[k] \in {Summary} \cup active
  OBVIOUS
<1>1. IsFiniteSet(active)
  BY NarratorAssumption, FS_Subset
<1>2. a \in Seq(active) /\ \A x \in active : \E i \in 1..Len(a) : a[i] = x
  BY <1>1, SetToSeqLists
<1>3. <<Summary>> \in Seq({Summary}) /\ Len(<<Summary>>) = 1 /\ <<Summary>>[1] = Summary
  OBVIOUS
<1>4. IsSeq(<<Summary>>) /\ IsSeq(a)
  BY <1>2, <1>3, SeqIsSeq
<1>5. c = <<Summary>> \o a
  BY DEF CursorFiles
<1>6. Joined(<<Summary>>, a, c)
  BY <1>4, <1>5, ConcatIsSeq
<1>7. /\ Len(a) \in Nat /\ Len(c) = 1 + Len(a) /\ IsSeq(c)
      /\ c[1] = Summary
      /\ \A k \in 1..Len(a) : 1 + k \in 1..Len(c) /\ c[1 + k] = a[k]
      /\ \A k \in 1..Len(c) : k = 1 \/ (k - 1 \in 1..Len(a) /\ c[k] = a[k - 1])
  <2> DEFINE one == <<Summary>>
  <2>1. Len(one) = 1 /\ one[1] = Summary /\ Joined(one, a, c)
    BY <1>3, <1>6
  <2> HIDE DEF one
  <2> QED BY <2>1 DEF Joined
<1>8. \A k \in 1..Len(a) : a[k] \in active
  BY <1>2
<1>9. Summary \notin Projects
  BY NarratorAssumption
<1>10. \A k \in 1..Len(c) : c[k] \in {Summary} \cup active /\ (c[k] = Summary => k = 1)
  BY <1>7, <1>8, <1>9
<1>11. c \in Seq(Targets) /\ c # <<>>
  <2>1. c \in Seq({c[i] : i \in DOMAIN c}) /\ DOMAIN c = 1..Len(c)
    BY <1>7 DEF IsSeq
  <2>2. c \in [1..Len(c) -> Targets] /\ Len(c) \in Nat
    BY <1>7, <1>10, <2>1 DEF Targets
  <2>3. c \in Seq(Targets)
    BY <2>2
  <2> QED BY <1>7, <2>3
<1>12. \A p \in active : \E k \in 1..Len(c) : c[k] = p
  <2> SUFFICES ASSUME NEW p \in active PROVE \E k \in 1..Len(c) : c[k] = p
    OBVIOUS
  <2>1. PICK i \in 1..Len(a) : a[i] = p
    BY <1>2
  <2> QED BY <1>7, <2>1
<1> QED BY <1>10, <1>11, <1>12 DEF CursorsIn

(* A file that is created has no cursor: nothing is said to be told that was not. *)
LEMMA FilesCreated ==
    ASSUME IInv,
           summary' = [summary EXCEPT ![Today] = IF @ = Absent THEN Blank ELSE @],
           logs' = [p \in Projects |-> IF p \in active /\ logs[p] = Absent THEN Blank ELSE logs[p]],
           UNCHANGED <<active, happened, told>>
    PROVE  CursorsTrueNext
<1>1. \A d \in Days : summary'[d] = summary[d] \/ (summary[d] = -2 /\ summary'[d] = -1)
  BY DEF IInv, Typed, Absent, Blank
<1>2. summary' \in [Days -> Int]
  <2>1. summary' = [d \in Days |-> summary'[d]]
    BY DEF IInv, Typed
  <2>2. \A d \in Days : summary'[d] \in Int
    BY <1>1 DEF IInv, Typed
  <2> QED BY <2>1, <2>2
<1>3. \A p \in Projects : logs'[p] = logs[p] \/ logs'[p] = -1
  BY DEF Blank
<1>4. logs' \in [Projects -> Int]
  BY <1>3 DEF IInv, Typed
<1>5. Dated' /\ Resolved' = Resolved
  BY <1>1, <1>2, ResolvedStays DEF IInv, Typed
<1>6. \A x, t : Until(x, t)' <=> Until(x, t)
  BY DEF Until, Shows, LogShows, ToldTo
<1>7. \A p \in Projects : Until(p, logs'[p])
  <2> SUFFICES ASSUME NEW p \in Projects PROVE Until(p, logs'[p])
    OBVIOUS
  <2>1. CASE logs'[p] = logs[p]
    BY <2>1 DEF IInv, Whole
  <2>2. CASE logs'[p] = -1
    <3>1. \A e \in Shows(p) : ~(e.at < -1)
      BY DEF Shows, LogShows, IInv, Typed
    <3> QED BY <2>2, <3>1 DEF Until
  <2> QED BY <1>3, <2>1, <2>2
<1>8. Whole'
  <2>1. \A x \in {Summary} \cup active' : Until(x, Resolved)'
    BY <1>5, <1>6 DEF IInv, Whole
  <2>2. \A p \in Projects : Until(p, logs[p])'
    BY <1>6, <1>7
  <2> QED BY <2>1, <2>2 DEF Whole
<1>9. /\ \A d \in Days : summary'[d] <= now
      /\ \A p \in Projects : logs'[p] <= now
  BY <1>1, <1>3 DEF IInv, Typed, Past
<1> QED BY <1>2, <1>4, <1>5, <1>8, <1>9 DEF CursorsTrueNext

(* What a reader is still to be told is in the window that starts at the cursor. *)
LEMMA Outstanding ==
    ASSUME IInv, NEW x \in {Summary} \cup active, NEW e \in Shows(x), e.at < now, ~ToldTo(x, e)
    PROVE  e \in Window(LastRun, now)
<1>1. Resolved >= 0 /\ Resolved \in Int
  BY ResolvedNewest DEF IInv, Typed
<1>2. LastRun = Resolved
  BY <1>1 DEF LastRun
<1>3. ~(e.at < Resolved)
  BY DEF IInv, Whole, Until
<1>4. e \in happened
  BY DEF Shows, LogShows
<1> QED BY <1>1, <1>2, <1>3, <1>4 DEF Window, IInv, Typed

(* The daily summary is about all of it, the log of a project about what is its own. *)
LEMMA ShownCollected ==
    ASSUME IInv, NEW S, S \subseteq happened, NEW x \in {Summary} \cup active,
           NEW e \in Shows(x), e \in S
    PROVE  /\ e \in Collected(S)
           /\ x # Summary => e \in Activity(S, {x, Guide}) \cup ProjectChanges(S, x)
<1>1. e.in \in Tables \cup {"session"} /\ active \subseteq Projects
  BY DEF IInv, Typed
<1>2. Guide \notin Projects /\ Summary \notin Projects
  BY NarratorAssumption
<1>3. \/ e.of \in active
      \/ e.of = Guide /\ (x # Summary => e.in = "session")
  BY <1>1, <1>2 DEF Shows, LogShows
<1>4. e \in Collected(S)
  <2>1. CASE e.in = "session"
    BY <1>3, <2>1 DEF Collected, Activity
  <2>2. CASE e.in \in Tables /\ e.of \in active
    <3>1. e \in ProjectChanges(S, e.of)
      BY <2>2 DEF ProjectChanges
    <3>2. e \in UNION {ProjectChanges(S, p) : p \in active}
      BY <2>2, <3>1
    <3> QED BY <3>2 DEF Collected
  <2>3. CASE e.in \in Tables /\ e.of = Guide
    <3>1. e \in OtherChanges(S)
      BY <1>1, <1>2, <2>3 DEF OtherChanges
    <3> QED BY <3>1 DEF Collected
  <2> QED BY <1>1, <1>3, <2>1, <2>2, <2>3
<1>5. x # Summary => e \in Activity(S, {x, Guide}) \cup ProjectChanges(S, x)
  BY <1>1, <1>2 DEF Shows, LogShows, Activity, ProjectChanges
<1> QED BY <1>4, <1>5

(* No activity: the handler has nothing to deliver and advances its cursors. *)
LEMMA SkipKeeps ==
    ASSUME IInv, NEW j \in Jobs, job[j].at = "reclaim",
           job' = [job EXCEPT ![j] = Advancing([@ EXCEPT !.to = now], CursorFiles, "skipped")],
           Collected(Window(LastRun, now)) = {}, CursorsTrueNext,
           UNCHANGED <<now, active, happened, row, queue, told>>
    PROVE  IInv'
<1> SUFFICES ASSUME NEW L, L = CursorFiles PROVE IInv'
  OBVIOUS
<1>1. /\ CursorsIn(L)
      /\ \A k \in 1..Len(L) : L[k] \in {Summary} \cup active
  BY CursorFilesListed DEF IInv, Typed
<1>2. job[j] \in Records /\ now \in Nat /\ job \in [Jobs -> Records]
  BY DEF IInv, Typed
<1> DEFINE r == [job[j] EXCEPT !.to = now]
<1>3. r \in Records /\ r.to = now
  BY <1>2 DEF Records
<1>4. job' = [job EXCEPT ![j] = Advancing(r, L, "skipped")]
  OBVIOUS
<1> HIDE DEF r
<1>5. /\ Advancing(r, L, "skipped") \in Records
      /\ Advancing(r, L, "skipped").at = "writing"
      /\ Advancing(r, L, "skipped").to = now
      /\ Advancing(r, L, "skipped").left = L
  BY <1>1, <1>3 DEF Advancing, Records, Settling, CursorsIn
<1>6. /\ job' \in [Jobs -> Records]
      /\ job'[j].at = "writing" /\ job'[j].to = now /\ job'[j].left = L
      /\ \A i \in Jobs \ {j} : job'[i] = job[i]
  BY <1>2, <1>4, <1>5
<1>7. Typed' /\ RowTyped' /\ NotStarted'
  <2>1. Typed'
    BY <1>6 DEF IInv, Typed, CursorsTrueNext, IsSeq
  <2>2. RowTyped' /\ NotStarted'
    BY <1>6 DEF IInv, RowTyped, NotStarted
  <2> QED BY <2>1, <2>2
<1>8. Past'
  BY <1>2, <1>6 DEF IInv, Past, CursorsTrueNext
<1>9. QueueAwaited'
  <2>1. \A i \in 1..Len(queue) : queue[i].job # j
    BY DEF IInv, QueueAwaited
  <2>2. queue' = queue /\ \A i \in Jobs \ {j} : job'[i] = job[i]
    BY <1>6
  <2> QED BY <2>1, <2>2 DEF IInv, QueueAwaited
<1>10. \A i \in Jobs \ {j} : Promised(i)' /\ Earned(i)' /\ SummaryFirst(i)'
  <2>1. \A i \in Jobs : Keeps(i)
    BY DEF Keeps
  <2> QED BY <1>6, <2>1, JobKept DEF IInv
<1>11. \A x \in {Summary} \cup active : Until(x, now)
  <2> SUFFICES ASSUME NEW x \in {Summary} \cup active, NEW e \in Shows(x), e.at < now, ~ToldTo(x, e)
               PROVE  FALSE
    BY DEF Until
  <2>1. e \in Window(LastRun, now) /\ Window(LastRun, now) \subseteq happened
    BY Outstanding DEF Window
  <2>2. e \in Collected(Window(LastRun, now))
    BY <2>1, ShownCollected
  <2> QED BY <2>2
<1>12. \A x : InLeft(j, x)' <=> \E k \in 1..Len(L) : L[k] = x
  BY <1>6 DEF InLeft
<1>13. \A x, t : Until(x, t)' <=> Until(x, t)
  BY DEF Until, Shows, LogShows, ToldTo
<1>14. Earned(j)'
  <2> SUFFICES ASSUME NEW x \in Readers, InLeft(j, x)' PROVE Until(x, job[j].to)'
    BY DEF Earned
  <2>1. Until(x, now)
    BY <1>1, <1>11, <1>12
  <2>2. Until(x, now)'
    <3> SUFFICES ASSUME NEW t, t = now PROVE Until(x, t)'
      OBVIOUS
    <3> QED BY <1>13, <2>1
  <2> QED BY <1>6, <2>2
<1>15. Promised(j)' /\ SummaryFirst(j)'
  BY <1>1, <1>6, <1>12 DEF Promised, SummaryFirst, CursorsIn
<1> QED BY <1>7, <1>8, <1>9, <1>10, <1>14, <1>15 DEF IInv, CursorsTrueNext

(* The memory update stands for no cursor that anything is skipped by. *)
LEMMA BuildMemoryKeeps ==
    ASSUME IInv, NEW j \in Jobs, BuildMemory(j)
    PROVE  IInv'
<1>1. /\ job[j].at = "reclaim" /\ job[j].kind = "memory-update"
      /\ UNCHANGED <<now, active, happened, files, row, told>>
  BY DEF BuildMemory
<1>2. CASE job' = [job EXCEPT ![j].at = "skipped"] /\ UNCHANGED queue
  BY <1>1, <1>2, StopsShort
<1>3. ASSUME NEW read, Send(j, <<Delivery(j, Memory, read, read, Today)>>)
      PROVE  IInv'
  <2> SUFFICES ASSUME NEW d, d = Delivery(j, Memory, read, read, Today),
                      NEW b, b = <<d>>, NEW L, L = <<Memory>>
               PROVE  IInv'
    OBVIOUS
  <2>1. /\ b \in Seq({d}) /\ Len(b) = 1 /\ b[1] = d
        /\ L \in Seq(Targets) /\ Len(L) = 1 /\ L[1] = Memory
    BY DEF Targets
  <2>2. BatchOf(j, b)
    <3>1. IsSeq(b)
      BY <2>1, SeqIsSeq
    <3>2. d.job = j /\ d.target \in Targets
      BY DEF Delivery, Targets
    <3> QED BY <2>1, <3>1, <3>2 DEF BatchOf
  <2>3. Memory \notin Readers
    BY SummaryNotMemory, NarratorAssumption DEF Readers
  <2>4. CursorsIn(L)
    BY <2>1, <2>3 DEF CursorsIn, Readers
  <2>5. Sends(j, b, L)
    <3>1. Send(j, b)
      BY <1>3
    <3>2. L = IF job[j].kind = "memory-update" THEN <<Memory>> ELSE CursorFiles
      BY <1>1
    <3> QED BY <1>1, <3>1, <3>2 DEF Send, Sends
  <2>6. CursorsTrueNext
    <3>1. Whole' /\ Dated'
      BY <1>1, WholeKept DEF IInv
    <3> QED BY <1>1, <3>1 DEF IInv, Typed, Past, CursorsTrueNext, files
  <2>7. \A x \in Readers : ~ \E k \in 1..Len(L) : L[k] = x
    BY <2>1, <2>3
  <2> QED BY <1>1, <2>2, <2>4, <2>5, <2>6, <2>7, SendKeeps
<1> QED BY <1>2, <1>3 DEF BuildMemory

\* A function on 1..n is a sequence.
LEMMA FunctionIsSeq ==
    ASSUME NEW n \in Nat, NEW f, f = [i \in 1..n |-> f[i]]
    PROVE  IsSeq(f) /\ Len(f) = n
<1> DEFINE S == {f[i] : i \in DOMAIN f}
<1>1. f \in [1..n -> S]
  OBVIOUS
<1>2. f \in Seq(S) /\ Len(f) = n
  <2> HIDE DEF S
  <2> QED BY <1>1
<1> QED BY <1>2, SeqIsSeq

(* The elements of a sequence over a set. *)
LEMMA SeqElements ==
    ASSUME NEW X, NEW s \in Seq(X)
    PROVE  Len(s) \in Nat /\ DOMAIN s = 1..Len(s) /\ \A i \in 1..Len(s) : s[i] \in X
OBVIOUS

(* The batch of a daily summary shows or notes everything in the window. *)
LEMMA SummaryBatch ==
    ASSUME IInv, NEW j \in Jobs, NEW all, all = Window(LastRun, now),
           NEW logged, logged = SetToSeq({p \in active : HasActivity(all, p)}),
           NEW batch, batch = [i \in DOMAIN logged |-> ProjectLog(j, all, logged[i])]
                                \o <<DailySummary(j, all)>>
    PROVE  /\ BatchOf(j, batch)
           /\ \A x \in {Summary} \cup active : Covers(batch, x)
<1> DEFINE P == {p \in active : HasActivity(all, p)}
<1>1. /\ active \subseteq Projects /\ IsFiniteSet(P)
      /\ Summary \notin Projects
  <2>1. active \subseteq Projects
    BY DEF IInv, Typed
  <2> QED BY <2>1, NarratorAssumption, FS_Subset
<1>2. /\ logged \in Seq(P)
      /\ \A i, k \in 1..Len(logged) : i # k => logged[i] # logged[k]
      /\ \A p \in P : \E i \in 1..Len(logged) : logged[i] = p
  BY <1>1, SetToSeqLists
<1>3. /\ Len(logged) \in Nat /\ DOMAIN logged = 1..Len(logged)
      /\ \A i \in 1..Len(logged) : logged[i] \in P
  <2> HIDE DEF P
  <2> QED BY <1>2, SeqElements
<1> SUFFICES ASSUME NEW own, own = [i \in 1..Len(logged) |-> ProjectLog(j, all, logged[i])],
                    NEW one, one = <<DailySummary(j, all)>>
             PROVE  /\ BatchOf(j, batch)
                    /\ \A x \in {Summary} \cup active : Covers(batch, x)
  OBVIOUS
<1>4. IsSeq(own) /\ Len(own) = Len(logged)
  BY <1>3, FunctionIsSeq
<1>5. IsSeq(one) /\ Len(one) = 1 /\ one[1] = DailySummary(j, all)
  <2>1. one \in Seq({DailySummary(j, all)}) /\ Len(one) = 1 /\ one[1] = DailySummary(j, all)
    OBVIOUS
  <2> QED BY <2>1, SeqIsSeq
<1>6. batch = own \o one
  BY <1>3
<1>7. Joined(own, one, batch)
  BY <1>4, <1>5, <1>6, ConcatIsSeq
<1>8. \A i \in 1..Len(own) : /\ own[i].job = j /\ own[i].target = logged[i]
                             /\ Activity(all, {logged[i], Guide}) \cup ProjectChanges(all, logged[i])
                                    \subseteq own[i].kept \cup own[i].dropped
  <2>1. \A i \in 1..Len(own) : own[i] = ProjectLog(j, all, logged[i])
    BY <1>4
  <2>2. \A p : /\ ProjectLog(j, all, p).job = j /\ ProjectLog(j, all, p).target = p
               /\ Activity(all, {p, Guide}) \cup ProjectChanges(all, p)
                    \subseteq ProjectLog(j, all, p).kept \cup ProjectLog(j, all, p).dropped
    BY DEF ProjectLog, Delivery
  <2>3. ASSUME NEW i \in 1..Len(own)
        PROVE  /\ own[i].job = j /\ own[i].target = logged[i]
               /\ Activity(all, {logged[i], Guide}) \cup ProjectChanges(all, logged[i])
                    \subseteq own[i].kept \cup own[i].dropped
    <3>1. own[i] = ProjectLog(j, all, logged[i])
      BY <2>1
    <3>2. /\ ProjectLog(j, all, logged[i]).job = j /\ ProjectLog(j, all, logged[i]).target = logged[i]
          /\ Activity(all, {logged[i], Guide}) \cup ProjectChanges(all, logged[i])
                \subseteq ProjectLog(j, all, logged[i]).kept \cup ProjectLog(j, all, logged[i]).dropped
      BY <2>2
    <3> QED BY <3>1, <3>2
  <2> QED BY <2>3
<1>9. /\ one[1].job = j /\ one[1].target = Summary
      /\ Collected(all) \subseteq one[1].kept \cup one[1].dropped
  BY <1>5 DEF DailySummary, Delivery
<1>10. \A i \in 1..Len(own) : own[i].target \in active /\ own[i].target # Summary
  BY <1>1, <1>3, <1>4, <1>8
<1>11. /\ Len(own) \in Nat /\ Len(batch) = Len(own) + 1
       /\ \A i \in 1..Len(own) : i \in 1..Len(batch) /\ batch[i] = own[i]
       /\ Len(own) + 1 \in 1..Len(batch) /\ batch[Len(own) + 1] = one[1]
       /\ \A i \in 1..Len(batch) : i \in 1..Len(own) \/ i = Len(own) + 1
  <2>1. Len(one) = 1 /\ \A i \in 1..Len(one) : i = 1
    BY <1>5
  <2>2. /\ Len(own) \in Nat /\ Len(batch) = Len(own) + 1
        /\ \A i \in 1..Len(own) : i \in 1..Len(batch) /\ batch[i] = own[i]
        /\ Len(own) + 1 \in 1..Len(batch) /\ batch[Len(own) + 1] = one[1]
    <3>1. 1 \in 1..Len(one)
      BY <2>1
    <3> QED BY <1>7, <2>1, <3>1 DEF Joined
  <2>3. \A i \in 1..Len(batch) : i \in 1..Len(own) \/ i = Len(own) + 1
    BY <2>2
  <2> QED BY <2>2, <2>3
<1>12. BatchOf(j, batch)
  <2>1. IsSeq(batch)
    BY <1>7 DEF Joined
  <2>2. \A i \in 1..Len(batch) : batch[i].job = j /\ batch[i].target \in Targets
    <3> SUFFICES ASSUME NEW i \in 1..Len(batch) PROVE batch[i].job = j /\ batch[i].target \in Targets
      OBVIOUS
    <3>1. CASE i \in 1..Len(own)
      <4>1. batch[i] = own[i] /\ own[i].job = j /\ own[i].target \in active
        BY <1>8, <1>10, <1>11, <3>1
      <4>2. own[i].target \in Projects
        BY <1>1, <4>1
      <4> QED BY <4>1, <4>2 DEF Targets
    <3>2. CASE i = Len(own) + 1
      BY <1>9, <1>11, <3>2 DEF Targets
    <3> QED BY <1>11, <3>1, <3>2
  <2>3. ASSUME NEW i \in 1..Len(batch), NEW k \in 1..Len(batch), i # k
        PROVE  batch[i].target # batch[k].target
    <3>1. CASE i \in 1..Len(own) /\ k \in 1..Len(own)
      <4>1. own[i].target = logged[i] /\ own[k].target = logged[k]
        BY <1>8, <3>1
      <4>2. logged[i] # logged[k]
        BY <1>2, <1>4, <2>3, <3>1
      <4> QED BY <1>11, <3>1, <4>1, <4>2
    <3>2. CASE i = Len(own) + 1 /\ k \in 1..Len(own)
      <4>1. batch[i].target = Summary
        BY <1>9, <1>11, <3>2
      <4>2. batch[k].target # Summary
        BY <1>10, <1>11, <3>2
      <4> QED BY <4>1, <4>2
    <3>3. CASE i \in 1..Len(own) /\ k = Len(own) + 1
      <4>1. batch[k].target = Summary
        BY <1>9, <1>11, <3>3
      <4>2. batch[i].target # Summary
        BY <1>10, <1>11, <3>3
      <4> QED BY <4>1, <4>2
    <3> QED BY <1>11, <2>3, <3>1, <3>2, <3>3
  <2> QED BY <2>1, <2>2, <2>3 DEF BatchOf
<1>13. ASSUME NEW x \in {Summary} \cup active, NEW e \in Shows(x), e.at < now, ~ToldTo(x, e)
       PROVE  \E i \in 1..Len(batch) : batch[i].target = x /\ e \in batch[i].kept \cup batch[i].dropped
  <2>1. e \in all /\ all \subseteq happened
    BY <1>13, Outstanding DEF Window
  <2>2. /\ e \in Collected(all)
        /\ x # Summary => e \in Activity(all, {x, Guide}) \cup ProjectChanges(all, x)
    BY <2>1, ShownCollected
  <2>3. CASE x = Summary
    BY <1>9, <1>11, <2>2, <2>3
  <2>4. CASE x # Summary
    <3>1. x \in P
      BY <2>2, <2>4 DEF HasActivity
    <3>2. PICK i \in 1..Len(logged) : logged[i] = x
      BY <1>2, <3>1
    <3>3. own[i].target = x /\ e \in own[i].kept \cup own[i].dropped
      BY <1>4, <1>8, <2>2, <2>4, <3>2
    <3> QED BY <1>4, <1>11, <3>3
  <2> QED BY <2>3, <2>4
<1> QED BY <1>12, <1>13 DEF Covers

(* A daily summary is built: each delivery holds what its log is to be told. *)
LEMMA BuildSummaryKeeps ==
    ASSUME IInv, NEW j \in Jobs, BuildSummary(j)
    PROVE  IInv'
<1> SUFFICES ASSUME NEW all, all = Window(LastRun, now),
                    NEW logged, logged = SetToSeq({p \in active : HasActivity(all, p)}),
                    NEW batch, batch = [i \in DOMAIN logged |-> ProjectLog(j, all, logged[i])]
                                         \o <<DailySummary(j, all)>>
             PROVE  IInv'
  OBVIOUS
<1>1. Resolved >= 0 /\ Resolved \in Int
  BY ResolvedNewest DEF IInv, Typed
<1>2. LastRun # Blank
  BY <1>1 DEF LastRun, Blank
<1>3. /\ job[j].at = "reclaim" /\ job[j].kind = "daily-summary"
      /\ summary' = [summary EXCEPT ![Today] = IF @ = Absent THEN Blank ELSE @]
      /\ logs' = [p \in Projects |-> IF p \in active /\ logs[p] = Absent THEN Blank ELSE logs[p]]
      /\ UNCHANGED <<now, active, happened, row, told>>
      /\ \/ /\ Collected(all) = {}
            /\ job' = [job EXCEPT ![j] = Advancing([@ EXCEPT !.to = now], CursorFiles, "skipped")]
            /\ UNCHANGED queue
         \/ Send(j, batch)
  BY <1>2 DEF BuildSummary
<1>4. CursorsTrueNext
  BY <1>3, FilesCreated
<1>5. CASE /\ Collected(all) = {}
           /\ job' = [job EXCEPT ![j] = Advancing([@ EXCEPT !.to = now], CursorFiles, "skipped")]
           /\ UNCHANGED queue
  BY <1>3, <1>4, <1>5, SkipKeeps
<1>6. CASE Send(j, batch)
  <2>1. /\ BatchOf(j, batch)
        /\ \A x \in {Summary} \cup active : Covers(batch, x)
    BY SummaryBatch
  <2>2. /\ CursorsIn(CursorFiles)
        /\ \A k \in 1..Len(CursorFiles) : CursorFiles[k] \in {Summary} \cup active
    BY CursorFilesListed DEF IInv, Typed
  <2>3. Sends(j, batch, CursorFiles)
    BY <1>3, <1>6 DEF Send, Sends
  <2> QED BY <1>3, <1>4, <2>1, <2>2, <2>3, SendKeeps
<1> QED BY <1>3, <1>5, <1>6

-----------------------------------------------------------------------------
(* The theorems *)

(* After the first day: the summary of day 0, the logs and memory.md have cursors. *)
LEMMA InitInv ==
    ASSUME Init, ~FirstInstall
    PROVE  IInv
<1>1. 0 \in Days /\ Day(0) = 0
  <2>1. MaxTime \in Nat /\ DayLength \in Nat \ {0}
    BY NarratorAssumption
  <2>2. MaxTime \div DayLength \in Nat /\ 0 \div DayLength = 0
    BY <2>1
  <2> QED BY <2>2 DEF Days, Day
<1>2. /\ now = 0 /\ active = Projects /\ happened = {} /\ queue = <<>> /\ told = {}
      /\ summary = [d \in Days |-> IF d = 0 THEN 0 ELSE Absent]
      /\ logs = [p \in Projects |-> 0]
      /\ row = [j \in Jobs |-> "none"]
      /\ job = [j \in Jobs |-> NoJob]
  BY DEF Init
<1>3. NoJob \in Records /\ NoJob.at = "none" /\ NoJob.to = 0
  <2>1. <<>> \in Seq(Targets)
    OBVIOUS
  <2> QED BY <2>1 DEF Records, NoJob
<1>4. Typed /\ RowTyped /\ NotStarted
  <2>1. IsSeq(queue)
    BY <1>2 DEF IsSeq
  <2> QED BY <1>2, <1>3, <2>1 DEF Typed, RowTyped, NotStarted, Statuses, Absent
<1>5. Past /\ Dated
  BY <1>1, <1>2, <1>3 DEF Past, Dated, Absent
<1>6. Whole
  BY <1>2 DEF Whole, Until, Shows, LogShows
<1>7. QueueAwaited
  BY <1>2 DEF QueueAwaited
<1>8. \A j \in Jobs : Promised(j) /\ Earned(j) /\ SummaryFirst(j)
  BY <1>2, <1>3 DEF Promised, Earned, SummaryFirst
<1> QED BY <1>4, <1>5, <1>6, <1>7, <1>8 DEF IInv

(* Every step keeps the invariant. *)
LEMMA NextKeeps ==
    ASSUME IInv, [Next]_vars
    PROVE  IInv'
<1>1. ASSUME NEW j \in Jobs, JobStep(j) PROVE IInv'
  <2>1. CASE NetworkDown(j)
    BY <2>1, StopsShort DEF NetworkDown
  <2>2. CASE ReclaimFails(j)
    BY <2>2, StopsShort DEF ReclaimFails
  <2>3. CASE BuildSummary(j)
    BY <2>3, BuildSummaryKeeps
  <2>4. CASE BuildMemory(j)
    BY <2>4, BuildMemoryKeeps
  <2>5. CASE WriteCursor(j)
    BY <2>5, WriteCursorKeeps
  <2>6. CASE RaceEnds(j)
    BY <2>6, RaceEndsKeeps
  <2>7. CASE TimerFires(j)
    BY <2>7, TimerFiresKeeps
  <2>8. ASSUME NEW kind \in {"daily-summary", "memory-update"}, CronTick(j, kind) PROVE IInv'
    BY <2>8, JobStarts DEF CronTick
  <2> QED BY <1>1, <2>1, <2>2, <2>3, <2>4, <2>5, <2>6, <2>7, <2>8 DEF JobStep
<1>2. CASE NarratorProcesses \/ \E i \in DOMAIN queue : NarratorRejects(i)
  BY <1>2, NarratorKeeps
<1>3. CASE ProcessEnds
  BY <1>3, ProcessEndsKeeps
<1>4. CASE CatchUpSummary \/ CatchUpMemory
  BY <1>4, CatchUpKeeps
<1>5. ASSUME NEW a \in Sources, AgentWorks(a) PROVE IInv'
  BY <1>5, AgentWorksKeeps
<1>6. ASSUME NEW p \in Projects, TriggerStory(p) PROVE IInv'
  BY <1>6, TriggerStoryKeeps
<1>7. CASE \/ AgentsRestored \/ JobsRegistered \/ TimePasses
           \/ \E p \in Projects : ConductorArchived(p)
           \/ UNCHANGED vars
  BY <1>7, ServerKeeps
<1> QED BY <1>1, <1>2, <1>3, <1>4, <1>5, <1>6, <1>7 DEF Next

(* From files that have cursors on, the invariant always holds. *)
THEOREM Invariance == ASSUME ~FirstInstall PROVE Spec => []IInv
<1>1. Init => IInv
  BY InitInv
<1>2. IInv /\ [Next]_vars => IInv'
  BY NextKeeps
<1> QED BY <1>1, <1>2, PTL DEF Spec

(* What the cursor has passed was told as part of a daily summary, or noted as dropped
   from one: buildAndDeliverDailySummary advances it only when every delivery was
   answered (jobs.ts 1278). At first install there is no cursor yet; the fallback's
   window starts a little before now.                                             *)
THEOREM Told == ASSUME ~FirstInstall PROVE Spec => []NothingSkipped
<1>1. IInv => NothingSkipped
  <2> SUFFICES ASSUME IInv, NEW e \in happened, e.of \in active \cup {Guide}, e.at < Resolved
               PROVE  \E t \in told : t.entry = e /\ t.in = Summary
    BY DEF NothingSkipped
  <2>1. e \in Shows(Summary)
    BY DEF Shows
  <2> QED BY <2>1 DEF IInv, Whole, Until, ToldTo
<1> QED BY <1>1, Invariance, PTL

(* The log of every project is whole up to its cursor (jobs.ts 1300). *)
THEOREM LogsWhole == ASSUME ~FirstInstall PROVE Spec => []LogWhole
<1>1. IInv => LogWhole
  <2> SUFFICES ASSUME IInv, NEW p \in Projects, NEW e \in LogShows(p), e.at < logs[p]
               PROVE  \E t \in told : t.entry = e /\ t.in = p
    BY DEF LogWhole
  <2>1. p # Summary
    BY NarratorAssumption
  <2>2. e \in Shows(p)
    BY <2>1 DEF Shows
  <2> QED BY <2>2 DEF IInv, Whole, Until, ToldTo
<1> QED BY <1>1, Invariance, PTL

(* A row is written to once after its handler started (jobs.ts 1511): not by the
   handler that outlives its timer, not by a restart. First install or not.       *)
THEOREM RowsFinal == Spec => FinalRowKept
<1>1. Init => RowTyped
  BY DEF Init, RowTyped, Statuses
<1>2. ASSUME RowTyped, [Next]_vars
      PROVE  /\ RowTyped'
             /\ \A j \in Jobs : row[j] \notin {"none", "running"} => row'[j] = row[j]
  <2>1. ASSUME NEW j \in Jobs, NEW kind, NEW trigger, StartJob(j, kind, trigger)
        PROVE  /\ RowTyped'
               /\ \A i \in Jobs : row[i] \notin {"none", "running"} => row'[i] = row[i]
    BY <1>2, <2>1 DEF RowTyped, StartJob, Fresh, Statuses
  <2>2. ASSUME NEW j \in Jobs, RaceEnds(j)
        PROVE  /\ RowTyped'
               /\ \A i \in Jobs : row[i] \notin {"none", "running"} => row'[i] = row[i]
    <3>1. PICK status \in FinalStatuses(j) : row' = [row EXCEPT ![j] = status]
      BY <2>2 DEF RaceEnds
    <3>2. status \in Statuses /\ (row[j] # "running" => status = row[j])
      BY <1>2, <2>2, <3>1 DEF RaceEnds, FinalStatuses, RowTyped, Statuses
    <3> QED BY <1>2, <3>1, <3>2 DEF RowTyped
  <2>3. ASSUME NEW j \in Jobs, TimerFires(j)
        PROVE  /\ RowTyped'
               /\ \A i \in Jobs : row[i] \notin {"none", "running"} => row'[i] = row[i]
    BY <1>2, <2>3 DEF RowTyped, TimerFires, Statuses
  <2>4. CASE row' = StaleRowsFailed
    BY <1>2, <2>4 DEF RowTyped, StaleRowsFailed, Statuses
  <2>5. CASE row' = row
    BY <1>2, <2>5 DEF RowTyped
  <2>6. \/ row' = row \/ row' = StaleRowsFailed
        \/ \E j \in Jobs : RaceEnds(j) \/ TimerFires(j) \/ \E kind, trigger : StartJob(j, kind, trigger)
    <3>1. ASSUME NEW j \in Jobs, JobStep(j)
          PROVE  row' = row \/ RaceEnds(j) \/ TimerFires(j) \/ \E kind, trigger : StartJob(j, kind, trigger)
      BY <3>1 DEF JobStep, NetworkDown, ReclaimFails, BuildSummary, BuildMemory, WriteCursor, CronTick
    <3>2. CatchUpSummary \/ CatchUpMemory =>
            row' = row \/ \E j \in Jobs : \E kind, trigger : StartJob(j, kind, trigger)
      BY DEF CatchUpSummary, CatchUpMemory
    <3> QED BY <1>2, <3>1, <3>2 DEF Next, vars, NarratorProcesses, NarratorRejects, ProcessEnds,
              AgentsRestored, JobsRegistered, AgentWorks, ConductorArchived, TriggerStory, TimePasses
  <2> QED BY <2>1, <2>2, <2>3, <2>4, <2>5, <2>6
<1>3. RowTyped /\ [Next]_vars =>
        [\A j \in Jobs : row[j] \notin {"none", "running"} => row'[j] = row[j]]_vars
  BY <1>2
<1>4. RowTyped /\ [Next]_vars => RowTyped'
  BY <1>2
<1> QED BY <1>1, <1>3, <1>4, PTL DEF Spec, FinalRowKept

-----------------------------------------------------------------------------
(* The story of a project *)

\* Entry e is in a delivery to x, at one of the first n places of the queue.
QueuedBefore(n, x, e) ==
    \E k \in 1..Len(queue) :
        k <= n /\ queue[k].target = x /\ e \in queue[k].kept \cup queue[k].dropped

(* When a story's turn comes, the log has what it shows: it was told, or is ahead of it. *)
StoryFollows ==
    \A i \in 1..Len(queue) : queue[i].target = Story =>
        \A e \in queue[i].kept \cup queue[i].dropped :
            ToldTo(e.of, e) \/ QueuedBefore(i - 1, e.of, e)

(* The log of a project does not lose its cursor. *)
LogsDated == \A p \in Projects : logs[p] >= 0

SInv == IInv /\ LogsDated /\ StoryFollows /\ StoryComplete

(* A story is neither the summary nor memory.md nor a log. *)
LEMMA StoryApart == Story # Summary /\ Story # Memory /\ Story \notin Projects
<1>1. ASSUME NEW x, NEW y, NEW z PROVE Cardinality({x, y, z}) \in {1, 2, 3}
  <2>1. {x, y, z} = ({x} \cup {y}) \cup {z}
    OBVIOUS
  <2>2. IsFiniteSet({x}) /\ Cardinality({x}) = 1
    BY FS_Singleton
  <2>3. /\ IsFiniteSet({x} \cup {y})
        /\ Cardinality({x} \cup {y}) \in {1, 2}
    BY <2>2, FS_AddElement
  <2>4. Cardinality(({x} \cup {y}) \cup {z}) \in {1, 2, 3}
    BY <2>3, FS_AddElement
  <2> QED BY <2>1, <2>4
<1>2. CASE Story = Summary
  <2>1. {Guide, Summary, Memory, Story} = {Guide, Summary, Memory}
    BY <1>2
  <2>2. Cardinality({Guide, Summary, Memory}) \in {1, 2, 3}
    BY <1>1
  <2> QED BY <2>1, <2>2, NarratorAssumption
<1>3. CASE Story = Memory
  <2>1. {Guide, Summary, Memory, Story} = {Guide, Summary, Memory}
    BY <1>3
  <2>2. Cardinality({Guide, Summary, Memory}) \in {1, 2, 3}
    BY <1>1
  <2> QED BY <2>1, <2>2, NarratorAssumption
<1> QED BY <1>2, <1>3, NarratorAssumption

(* A step that tells nothing and puts no story in the queue. *)
LEMMA StoryKept ==
    ASSUME StoryFollows, StoryComplete, told' = told,
           \A i \in 1..Len(queue') : i \in 1..Len(queue) \/ queue'[i].target # Story,
           \A i \in 1..Len(queue') : i \in 1..Len(queue) => queue'[i] = queue[i],
           \A i \in 1..Len(queue') : \A k \in 1..Len(queue) : k <= i => k \in 1..Len(queue')
    PROVE  StoryFollows' /\ StoryComplete'
<1>1. StoryComplete'
  BY DEF StoryComplete
<1>2. ASSUME NEW i \in 1..Len(queue'), queue'[i].target = Story,
             NEW e \in queue'[i].kept \cup queue'[i].dropped
      PROVE  ToldTo(e.of, e)' \/ QueuedBefore(i - 1, e.of, e)'
  <2>1. i \in 1..Len(queue) /\ queue'[i] = queue[i]
    BY <1>2
  <2>2. CASE ToldTo(e.of, e)
    BY <2>2 DEF ToldTo
  <2>3. CASE QueuedBefore(i - 1, e.of, e)
    <3>1. PICK k \in 1..Len(queue) :
                k <= i - 1 /\ queue[k].target = e.of /\ e \in queue[k].kept \cup queue[k].dropped
      BY <2>3 DEF QueuedBefore
    <3>2. k \in 1..Len(queue') /\ queue'[k] = queue[k]
      BY <2>1, <3>1
    <3> QED BY <3>1, <3>2 DEF QueuedBefore
  <2> QED BY <1>2, <2>1, <2>2, <2>3 DEF StoryFollows
<1> QED BY <1>1, <1>2 DEF StoryFollows

(* The queue is left alone, or emptied. *)
LEMMA StoryQuiet ==
    ASSUME StoryFollows, StoryComplete, told' = told, queue' \in {queue, <<>>}
    PROVE  StoryFollows' /\ StoryComplete'
<1>1. CASE queue' = queue
  BY <1>1 DEF StoryFollows, StoryComplete, ToldTo, QueuedBefore
<1>2. CASE queue' = <<>>
  BY <1>2 DEF StoryFollows, StoryComplete
<1> QED BY <1>1, <1>2

(* A handler's batch has no story in it. *)
LEMMA StorySent ==
    ASSUME StoryFollows, StoryComplete, told' = told, IsSeq(queue), NEW batch, IsSeq(batch),
           queue' = queue \o batch, \A i \in 1..Len(batch) : batch[i].target # Story
    PROVE  StoryFollows' /\ StoryComplete'
<1>1. Joined(queue, batch, queue')
  BY ConcatIsSeq
<1>2. /\ \A i \in 1..Len(queue') : i \in 1..Len(queue) \/ queue'[i].target # Story
      /\ \A i \in 1..Len(queue) : i \in 1..Len(queue') /\ queue'[i] = queue[i]
  BY <1>1 DEF Joined
<1> QED BY <1>2, StoryKept

(* The handlers send to the summary, to logs and to memory.md. *)
LEMMA HandlersSendNoStory ==
    ASSUME SInv, NEW j \in Jobs, BuildSummary(j) \/ BuildMemory(j)
    PROVE  StoryFollows' /\ StoryComplete'
<1>1. told' = told /\ IsSeq(queue)
  BY DEF SInv, IInv, Typed, BuildSummary, BuildMemory
<1>2. CASE queue' = queue
  BY <1>1, <1>2, StoryQuiet DEF SInv
<1>3. CASE BuildSummary(j) /\ queue' # queue
  <2> DEFINE all == Window(LastRun, now)
             P == {p \in active : HasActivity(all, p)}
             logged == SetToSeq(P)
             own == [i \in DOMAIN logged |-> ProjectLog(j, all, logged[i])]
             one == <<DailySummary(j, all)>>
  <2>1. queue' = queue \o (own \o one)
    BY <1>3 DEF BuildSummary, Send
  <2>2. active \subseteq Projects /\ IsFiniteSet(P)
    <3>1. active \subseteq Projects
      BY DEF SInv, IInv, Typed
    <3> QED BY <3>1, NarratorAssumption, FS_Subset
  <2>3. /\ Len(logged) \in Nat /\ DOMAIN logged = 1..Len(logged)
        /\ \A i \in 1..Len(logged) : logged[i] \in P
    <3>1. logged \in Seq(P)
      BY <2>2, SetToSeqLists
    <3> HIDE DEF P
    <3> QED BY <3>1, SeqElements
  <2>4. own = [i \in 1..Len(logged) |-> ProjectLog(j, all, logged[i])]
    BY <2>3
  <2> HIDE DEF logged
  <2>5. IsSeq(own) /\ Len(own) = Len(logged)
    <3>1. own = [i \in 1..Len(logged) |-> own[i]]
      BY <2>4
    <3> HIDE DEF own
    <3> QED BY <2>3, <3>1, FunctionIsSeq
  <2>6. \A i \in 1..Len(own) : own[i].target # Story
    <3>1. ASSUME NEW i \in 1..Len(own) PROVE own[i].target = logged[i] /\ logged[i] \in P
      BY <2>3, <2>4, <2>5, <3>1 DEF ProjectLog, Delivery
    <3> QED BY <2>2, <3>1, StoryApart
  <2>7. IsSeq(one) /\ Len(one) = 1 /\ one[1].target # Story
    <3>1. one \in Seq({DailySummary(j, all)}) /\ Len(one) = 1 /\ one[1] = DailySummary(j, all)
      OBVIOUS
    <3>2. one[1].target = Summary
      BY <3>1 DEF DailySummary, Delivery
    <3> QED BY <3>1, <3>2, SeqIsSeq, StoryApart
  <2> HIDE DEF own, one
  <2>8. Joined(own, one, own \o one)
    BY <2>5, <2>7, ConcatIsSeq
  <2>9. IsSeq(own \o one) /\ \A i \in 1..Len(own \o one) : (own \o one)[i].target # Story
    BY <2>6, <2>7, <2>8 DEF Joined
  <2> QED BY <1>1, <2>1, <2>9, StorySent DEF SInv
<1>4. CASE BuildMemory(j) /\ queue' # queue
  <2>1. PICK read : queue' = queue \o <<Delivery(j, Memory, read, read, Today)>>
    BY <1>4 DEF BuildMemory, Send
  <2> DEFINE b == <<Delivery(j, Memory, read, read, Today)>>
  <2>2. IsSeq(b) /\ Len(b) = 1 /\ b[1].target = Memory
    <3>1. b \in Seq({Delivery(j, Memory, read, read, Today)}) /\ Len(b) = 1
      OBVIOUS
    <3>2. b[1].target = Memory
      BY DEF Delivery
    <3> QED BY <3>1, <3>2, SeqIsSeq
  <2>3. queue' = queue \o b
    BY <2>1
  <2> HIDE DEF b
  <2>4. \A i \in 1..Len(b) : b[i].target # Story
    BY <2>2, StoryApart
  <2> QED BY <1>1, <2>2, <2>3, <2>4, StorySent DEF SInv
<1> QED BY <1>2, <1>3, <1>4

(* The Narrator processes the head of its queue: if that is the story, what it shows is
   in the log already; if it is the log, the story behind it has it told.             *)
LEMMA StoryProcessed ==
    ASSUME SInv, NarratorProcesses
    PROVE  StoryFollows' /\ StoryComplete'
<1> DEFINE d == queue[1]
           Read(S, how) == [entry : S, in : {d.target}, day : {d.day}, how : {how}]
<1>1. IsSeq(queue) /\ queue # <<>> /\ queue' = Tail(queue)
  BY DEF SInv, IInv, Typed, NarratorProcesses
<1>2. Len(queue) \in Nat /\ 1 \in 1..Len(queue) /\ Head(queue) = d
  BY <1>1 DEF IsSeq
<1>3. told' = told \cup Read(d.kept, "shown") \cup Read(d.dropped, "noted")
  BY <1>2 DEF NarratorProcesses
<1>4. /\ Len(queue') = Len(queue) - 1
      /\ \A k \in 1..Len(queue') : queue'[k] = queue[k + 1]
  <2>1. Without(queue, queue', 1)
    BY <1>1, TailWithout
  <2> QED BY <2>1 DEF Without
<1>5. ASSUME NEW e \in d.kept \cup d.dropped
      PROVE  \E t \in told' : t.entry = e /\ t.in = d.target
  <2>1. CASE e \in d.kept
    <3> DEFINE t == [entry |-> e, in |-> d.target, day |-> d.day, how |-> "shown"]
    <3>1. t \in Read(d.kept, "shown") /\ t.entry = e /\ t.in = d.target
      BY <2>1
    <3> QED BY <1>3, <3>1
  <2>2. CASE e \in d.dropped
    <3> DEFINE t == [entry |-> e, in |-> d.target, day |-> d.day, how |-> "noted"]
    <3>1. t \in Read(d.dropped, "noted") /\ t.entry = e /\ t.in = d.target
      BY <2>2
    <3> QED BY <1>3, <3>1
  <2> QED BY <2>1, <2>2
<1>6. told \subseteq told' /\ \A t \in told' \ told : t.entry \in d.kept \cup d.dropped /\ t.in = d.target
  BY <1>3
<1> HIDE DEF d
<1>7. ASSUME NEW t \in told', t.in = Story
      PROVE  \E u \in told' : u.entry = t.entry /\ u.in = t.entry.of
  <2>1. CASE t \in told
    <3>1. \E u \in told : u.entry = t.entry /\ u.in = t.entry.of
      BY <1>7, <2>1 DEF SInv, StoryComplete
    <3> QED BY <1>6, <3>1
  <2>2. CASE t \notin told
    <3> DEFINE e == t.entry
    <3>1. d.target = Story /\ e \in d.kept \cup d.dropped
      BY <1>6, <1>7, <2>2
    <3>2. ToldTo(e.of, e) \/ QueuedBefore(0, e.of, e)
      BY <1>2, <3>1 DEF SInv, StoryFollows, d
    <3>3. ~QueuedBefore(0, e.of, e)
      BY <1>2 DEF QueuedBefore
    <3> QED BY <1>6, <3>2, <3>3 DEF ToldTo
  <2> QED BY <2>1, <2>2
<1>8. ASSUME NEW i \in 1..Len(queue'), queue'[i].target = Story,
             NEW e \in queue'[i].kept \cup queue'[i].dropped
      PROVE  ToldTo(e.of, e)' \/ QueuedBefore(i - 1, e.of, e)'
  <2>1. i \in Nat /\ i + 1 \in 1..Len(queue) /\ queue'[i] = queue[i + 1]
    BY <1>2, <1>4
  <2>2. ToldTo(e.of, e) \/ QueuedBefore((i + 1) - 1, e.of, e)
    BY <1>8, <2>1 DEF SInv, StoryFollows
  <2>3. CASE ToldTo(e.of, e)
    BY <1>6, <2>3 DEF ToldTo
  <2>4. CASE QueuedBefore((i + 1) - 1, e.of, e)
    <3>1. PICK k \in 1..Len(queue) :
                k <= i /\ queue[k].target = e.of /\ e \in queue[k].kept \cup queue[k].dropped
      BY <2>1, <2>4 DEF QueuedBefore
    <3>2. CASE k = 1
      BY <1>5, <3>1, <3>2 DEF ToldTo, d
    <3>3. CASE k # 1
      <4>1. k - 1 \in 1..Len(queue') /\ k - 1 <= i - 1 /\ queue'[k - 1] = queue[k]
        BY <1>2, <1>4, <2>1, <3>1, <3>3
      <4> QED BY <3>1, <4>1 DEF QueuedBefore
    <3> QED BY <3>2, <3>3
  <2> QED BY <2>2, <2>3, <2>4
<1> QED BY <1>7, <1>8 DEF StoryFollows, StoryComplete

(* The final log update is sent first, and reaches back to where the log ends. *)
LEMMA StoryTriggered ==
    ASSUME SInv, NEW p \in Projects, TriggerStory(p)
    PROVE  StoryFollows' /\ StoryComplete'
<1> DEFINE from == logs[p]
           f == FinalLog(p, from)
           s == StoryData(p)
           b == <<f, s>>
<1>1. queue' = queue \o b /\ told' = told
  BY DEF SInv, LogsDated, TriggerStory, StoryBatch
<1>2. IsSeq(queue)
  BY DEF SInv, IInv, Typed
<1>3. IsSeq(b) /\ Len(b) = 2 /\ b[1] = f /\ b[2] = s
  <2>1. b \in Seq({f, s}) /\ Len(b) = 2 /\ b[1] = f /\ b[2] = s
    OBVIOUS
  <2> QED BY <2>1, SeqIsSeq
<1>4. /\ f.target = p
      /\ f.kept = Activity(Window(from, now), {p, Guide}) \cup ProjectChanges(Window(from, now), p)
  BY DEF FinalLog, Delivery
<1>5. /\ s.kept \cup s.dropped = Activity(Window(0, now), {p}) \cup ProjectChanges(Window(0, now), p)
  BY DEF StoryData, Delivery
<1>6. p # Story /\ p # Summary
  BY NarratorAssumption
<1>7. from \in Int
  BY DEF SInv, IInv, Typed
<1>8. ASSUME NEW e \in s.kept \cup s.dropped
      PROVE  e.of = p /\ (ToldTo(p, e) \/ e \in f.kept)
  <2>1. e \in happened /\ e.at < now /\ e.at \in Nat /\ e.of = p /\ e.in \in Tables \cup {"session"}
    BY <1>5, <1>8 DEF SInv, IInv, Typed, Activity, ProjectChanges, Window
  <2>2. CASE e.at < from
    <3>1. Until(p, from) /\ e \in Shows(p)
      BY <1>6, <2>1 DEF SInv, IInv, Whole, Shows, LogShows
    <3> QED BY <2>1, <2>2, <3>1 DEF Until
  <2>3. CASE ~(e.at < from)
    <3>1. e \in Window(from, now)
      BY <1>7, <2>1, <2>3 DEF Window
    <3> QED BY <1>4, <2>1, <3>1 DEF Activity, ProjectChanges
  <2> QED BY <2>2, <2>3
<1> HIDE DEF b, f, s, from
<1>9. Joined(queue, b, queue')
  BY <1>1, <1>2, <1>3, ConcatIsSeq
<1> DEFINE n == Len(queue)
<1>10. /\ n \in Nat /\ Len(queue') = n + 2
       /\ queue'[n + 1] = f /\ queue'[n + 2] = s
       /\ \A i \in 1..n : queue'[i] = queue[i]
  <2>1. 1 \in 1..Len(b) /\ 2 \in 1..Len(b)
    BY <1>3
  <2> QED BY <1>3, <1>9, <2>1 DEF Joined
<1>11. \A i \in 1..Len(queue') : i \in 1..n \/ i = n + 1 \/ i = n + 2
  BY <1>10
<1>12. ASSUME NEW i \in 1..Len(queue'), queue'[i].target = Story,
              NEW e \in queue'[i].kept \cup queue'[i].dropped
       PROVE  ToldTo(e.of, e)' \/ QueuedBefore(i - 1, e.of, e)'
  <2>1. CASE i \in 1..n
    <3>1. ToldTo(e.of, e) \/ QueuedBefore(i - 1, e.of, e)
      BY <1>10, <1>12, <2>1 DEF SInv, StoryFollows
    <3>2. CASE ToldTo(e.of, e)
      BY <1>1, <3>2 DEF ToldTo
    <3>3. CASE QueuedBefore(i - 1, e.of, e)
      <4>1. PICK k \in 1..n :
                  k <= i - 1 /\ queue[k].target = e.of /\ e \in queue[k].kept \cup queue[k].dropped
        BY <3>3 DEF QueuedBefore
      <4>2. k \in 1..Len(queue') /\ queue'[k] = queue[k]
        BY <1>10, <4>1
      <4> QED BY <4>1, <4>2 DEF QueuedBefore
    <3> QED BY <3>1, <3>2, <3>3
  <2>2. CASE i = n + 1
    BY <1>4, <1>6, <1>10, <1>12, <2>2
  <2>3. CASE i = n + 2
    <3>1. e.of = p /\ (ToldTo(p, e) \/ e \in f.kept)
      BY <1>8, <1>10, <1>12, <2>3
    <3>2. n + 1 \in 1..Len(queue') /\ n + 1 <= i - 1 /\ queue'[n + 1].target = p
      BY <1>4, <1>10, <2>3
    <3>3. e \in f.kept => QueuedBefore(i - 1, p, e)'
      BY <1>10, <3>2 DEF QueuedBefore
    <3>4. ToldTo(p, e) => ToldTo(p, e)'
      BY <1>1 DEF ToldTo
    <3> QED BY <3>1, <3>3, <3>4
  <2> QED BY <1>11, <2>1, <2>2, <2>3
<1>13. StoryComplete'
  BY <1>1 DEF SInv, StoryComplete
<1> QED BY <1>12, <1>13 DEF StoryFollows

(* A log that has a cursor keeps one. *)
LEMMA LogsDatedKept ==
    ASSUME SInv, [Next]_vars
    PROVE  LogsDated'
<1>1. CASE logs' = logs
  BY <1>1 DEF SInv, LogsDated
<1>2. ASSUME NEW j \in Jobs, BuildSummary(j) PROVE LogsDated'
  BY <1>1, <1>2 DEF SInv, LogsDated, BuildSummary, Absent
<1>3. ASSUME NEW j \in Jobs, WriteCursor(j) PROVE LogsDated'
  <2>1. job[j].to \in Nat /\ logs \in [Projects -> Int]
    BY DEF SInv, IInv, Typed, Records
  <2>2. \/ logs' = logs
        \/ logs' = [logs EXCEPT ![Head(job[j].left)] = job[j].to]
    BY <1>3 DEF WriteCursor
  <2> QED BY <1>1, <2>1, <2>2 DEF SInv, LogsDated
<1>4. \/ logs' = logs
      \/ \E j \in Jobs : BuildSummary(j) \/ WriteCursor(j)
  BY DEF Next, vars, files, JobStep, NetworkDown, ReclaimFails, BuildMemory, RaceEnds, TimerFires,
         CronTick, NarratorProcesses, NarratorRejects, ProcessEnds, AgentsRestored, JobsRegistered,
         CatchUpSummary, CatchUpMemory, AgentWorks, ConductorArchived, TriggerStory, TimePasses
<1> QED BY <1>1, <1>2, <1>3, <1>4

(* The story of a project is written from a log that covers the project: the final log
   update is queued ahead of the story data and reaches back to the log's cursor, up to
   which the log is whole (trigger-project-story.ts). Where a delivery may be rejected,
   the story may follow a log update that never was; nobody awaits the two.           *)
THEOREM StoriesWhole ==
    ASSUME ~FirstInstall, "rejects" \notin Env PROVE Spec => []StoryComplete
<1>1. Init => SInv
  <2> SUFFICES ASSUME Init PROVE SInv
    OBVIOUS
  <2>1. IInv
    BY InitInv
  <2>2. LogsDated /\ StoryFollows /\ StoryComplete
    BY DEF Init, LogsDated, StoryFollows, StoryComplete
  <2> QED BY <2>1, <2>2 DEF SInv
<1>2. SInv /\ [Next]_vars => SInv'
  <2> SUFFICES ASSUME SInv, [Next]_vars PROVE SInv'
    OBVIOUS
  <2>1. IInv' /\ LogsDated'
    BY NextKeeps, LogsDatedKept DEF SInv
  <2>2. ASSUME NEW j \in Jobs, BuildSummary(j) \/ BuildMemory(j)
        PROVE  StoryFollows' /\ StoryComplete'
    BY <2>2, HandlersSendNoStory
  <2>3. ASSUME NarratorProcesses PROVE StoryFollows' /\ StoryComplete'
    BY <2>3, StoryProcessed
  <2>4. ASSUME NEW p \in Projects, TriggerStory(p) PROVE StoryFollows' /\ StoryComplete'
    BY <2>4, StoryTriggered
  <2>5. ASSUME told' = told, queue' \in {queue, <<>>} PROVE StoryFollows' /\ StoryComplete'
    BY <2>5, StoryQuiet DEF SInv
  <2>6. \/ told' = told /\ queue' \in {queue, <<>>}
        \/ NarratorProcesses
        \/ \E j \in Jobs : BuildSummary(j) \/ BuildMemory(j)
        \/ \E p \in Projects : TriggerStory(p)
    <3>1. ASSUME NEW j \in Jobs, JobStep(j)
          PROVE  (told' = told /\ queue' = queue) \/ BuildSummary(j) \/ BuildMemory(j)
      BY <3>1 DEF JobStep, NetworkDown, ReclaimFails, WriteCursor, RaceEnds, TimerFires, CronTick
    <3>2. \A i : ~NarratorRejects(i)
      BY DEF NarratorRejects
    <3> QED BY <3>1, <3>2 DEF Next, vars, ProcessEnds, AgentsRestored, JobsRegistered,
               CatchUpSummary, CatchUpMemory, AgentWorks, ConductorArchived, TimePasses
  <2> QED BY <2>1, <2>2, <2>3, <2>4, <2>5, <2>6 DEF SInv
<1>3. SInv => StoryComplete
  BY DEF SInv
<1> QED BY <1>1, <1>2, <1>3, PTL DEF Spec
=============================================================================
