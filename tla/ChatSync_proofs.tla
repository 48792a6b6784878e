-------------------------- MODULE ChatSync_proofs --------------------------
(***************************************************************************)
(* Proofs about ChatSync. Two invariants carry them, both about what a tab *)
(* will show once it has received the messages that are on their way: that *)
(* it is in step with the chat cache (CoreInv), and what its draft, stream *)
(* and wait come to (FlagInv). Receiving a message changes neither, so the *)
(* work is in what the server sends.                                       *)
(***************************************************************************)
EXTENDS ChatSync, SequenceTheorems, WellFoundedInduction, FiniteSetTheorems, TLAPS

RowType == [id : Nat, by : Authors]

Distinct(s) == \A i, j \in 1..Len(s) : s[i].id = s[j].id => i = j

-----------------------------------------------------------------------------
(* What loadHistory keeps of the messages that are shown *)

\* The least element of a set of naturals.
LEMMA LeastNatural ==
    ASSUME NEW N \in SUBSET Nat, N # {}
    PROVE  \E n \in N : \A m \in N : n <= m
<1>1. PICK n \in N : \A m \in N : <<m, n>> \notin OpToRel(<, Nat)
  BY NatLessThanWellFounded, WFMin
<1>2. \A m \in N : ~ (m < n)
  BY <1>1 DEF OpToRel
<1> QED BY <1>2

\* The function that Without defines, up to n.
Filters(f, messages, ids, n) ==
    f = [k \in 0..n |-> IF k = 0 THEN <<>>
                        ELSE IF messages[k].id \in ids THEN f[k - 1]
                        ELSE Append(f[k - 1], messages[k])]

(* It exists. *)
LEMMA FilterExists ==
    ASSUME NEW messages, NEW ids, NEW n \in Nat
    PROVE  \E f : Filters(f, messages, ids, n)
<1> DEFINE Bad == {k \in Nat : ~ \E f : Filters(f, messages, ids, k)}
<1>1. SUFFICES ASSUME Bad # {} PROVE FALSE
  OBVIOUS
<1>2. PICK k \in Bad : \A m \in Bad : k <= m
  <2>1. Bad \in SUBSET Nat
    OBVIOUS
  <2> HIDE DEF Bad
  <2> QED BY <1>1, <2>1, LeastNatural
<1>3. CASE k = 0
  <2>1. Filters([i \in 0..0 |-> <<>>], messages, ids, 0)
    BY DEF Filters
  <2> QED BY <1>2, <1>3, <2>1
<1>4. CASE k # 0
  <2>1. k - 1 \in Nat /\ k - 1 \notin Bad
    BY <1>2, <1>4
  <2>2. PICK f : Filters(f, messages, ids, k - 1)
    BY <2>1
  <2> DEFINE last == IF messages[k].id \in ids THEN f[k - 1] ELSE Append(f[k - 1], messages[k])
             g == [i \in 0..k |-> IF i = k THEN last ELSE f[i]]
  <2>3. \A i \in 0..(k - 1) : g[i] = f[i]
    BY <1>2, <2>1
  <2>4. \A i \in 0..(k - 1) : f[i] = IF i = 0 THEN <<>>
                                   ELSE IF messages[i].id \in ids THEN f[i - 1]
                                   ELSE Append(f[i - 1], messages[i])
    BY <2>2 DEF Filters
  <2>5. \A i \in 0..k : g[i] = IF i = 0 THEN <<>>
                              ELSE IF messages[i].id \in ids THEN g[i - 1]
                              ELSE Append(g[i - 1], messages[i])
    <3>1. ASSUME NEW i \in 0..k, i = k
          PROVE  g[i] = IF messages[i].id \in ids THEN g[i - 1] ELSE Append(g[i - 1], messages[i])
      BY <1>4, <2>1, <2>3, <3>1
    <3>2. ASSUME NEW i \in 0..k, i # k
          PROVE  /\ i \in 0..(k - 1) /\ g[i] = f[i]
                 /\ i # 0 => i - 1 \in 0..(k - 1) /\ g[i - 1] = f[i - 1]
      BY <1>2, <2>3, <3>2
    <3> HIDE DEF g
    <3> QED BY <1>4, <2>4, <3>1, <3>2
  <2>6. g = [i \in 0..k |-> g[i]]
    OBVIOUS
  <2> HIDE DEF g
  <2>7. Filters(g, messages, ids, k)
    BY <2>5, <2>6 DEF Filters
  <2> QED BY <1>2, <2>7
<1> QED BY <1>3, <1>4

\* What has been kept of the first n messages.
Kept(s, messages, ids, n) ==
    /\ s \in Seq(RowType)
    /\ Distinct(s)
    /\ \A i \in 1..Len(s) : s[i].id \notin ids /\ \E k \in 1..n : s[i].id = messages[k].id
    /\ \A k \in 1..n : messages[k].id \notin ids => \E i \in 1..Len(s) : s[i].id = messages[k].id

(* One more message. *)
LEMMA KeepOne ==
    ASSUME NEW messages \in Seq(RowType), Distinct(messages), NEW ids,
           NEW n \in Nat, n + 1 <= Len(messages), NEW s, Kept(s, messages, ids, n)
    PROVE  Kept(IF messages[n + 1].id \in ids THEN s ELSE Append(s, messages[n + 1]),
                messages, ids, n + 1)
<1>1. /\ s \in Seq(RowType) /\ Len(s) \in Nat /\ Distinct(s)
      /\ \A i \in 1..Len(s) : s[i].id \notin ids /\ \E k \in 1..n : s[i].id = messages[k].id
      /\ \A k \in 1..n : messages[k].id \notin ids => \E i \in 1..Len(s) : s[i].id = messages[k].id
  BY DEF Kept
<1>2. \A k \in 1..(n + 1) : k \in 1..n \/ k = n + 1
  OBVIOUS
<1>3. CASE messages[n + 1].id \in ids
  BY <1>1, <1>2, <1>3 DEF Kept
<1>4. CASE messages[n + 1].id \notin ids
  <2> DEFINE t == Append(s, messages[n + 1])
  <2>1. messages[n + 1] \in RowType
    OBVIOUS
  <2>2. /\ t \in Seq(RowType) /\ Len(t) = Len(s) + 1
        /\ t[Len(s) + 1] = messages[n + 1]
        /\ \A i \in 1..Len(s) : i \in 1..Len(t) /\ t[i] = s[i]
        /\ \A i \in 1..Len(t) : i \in 1..Len(s) \/ i = Len(s) + 1
    BY <1>1, <2>1
  <2>3. \A i \in 1..Len(s) : s[i].id # messages[n + 1].id
    <3>1. \A k \in 1..n : messages[k].id # messages[n + 1].id
      BY DEF Distinct
    <3> QED BY <1>1, <3>1
  <2> HIDE DEF t
  <2>4. Distinct(t)
    BY <1>1, <2>2, <2>3 DEF Distinct
  <2>5. ASSUME NEW i \in 1..Len(t)
        PROVE  t[i].id \notin ids /\ \E k \in 1..(n + 1) : t[i].id = messages[k].id
    <3>1. CASE i \in 1..Len(s)
      BY <1>1, <2>2, <3>1
    <3>2. CASE i = Len(s) + 1
      BY <1>4, <2>2, <3>2
    <3> QED BY <2>2, <3>1, <3>2
  <2>6. ASSUME NEW k \in 1..(n + 1), messages[k].id \notin ids
        PROVE  \E i \in 1..Len(t) : t[i].id = messages[k].id
    <3>1. CASE k \in 1..n
      <4>1. PICK i \in 1..Len(s) : s[i].id = messages[k].id
        BY <1>1, <2>6, <3>1
      <4> QED BY <2>2, <4>1
    <3>2. CASE k = n + 1
      <4>1. Len(s) + 1 \in 1..Len(t)
        BY <1>1, <2>2
      <4> QED BY <2>2, <3>2, <4>1
    <3> QED BY <1>2, <3>1, <3>2
  <2>7. Kept(t, messages, ids, n + 1)
    BY <2>2, <2>4, <2>5, <2>6 DEF Kept
  <2> QED BY <1>4, <2>7 DEF t
<1> QED BY <1>3, <1>4

(* Without keeps the messages with another id, each once. *)
LEMMA WithoutKeeps ==
    ASSUME NEW messages \in Seq(RowType), Distinct(messages), NEW ids
    PROVE  Kept(Without(messages, ids), messages, ids, Len(messages))
<1> DEFINE n == Len(messages)
           f == CHOOSE g : Filters(g, messages, ids, n)
<1>1. n \in Nat
  OBVIOUS
<1>2. Filters(f, messages, ids, n)
  BY <1>1, FilterExists
<1>3. Without(messages, ids) = f[n]
  BY DEF Without, Filters
<1> HIDE DEF f
<1>4. f[0] = <<>>
  BY <1>1, <1>2 DEF Filters
<1>5. ASSUME NEW k \in Nat, k + 1 <= n
      PROVE  f[k + 1] = IF messages[k + 1].id \in ids THEN f[k] ELSE Append(f[k], messages[k + 1])
  <2>1. k + 1 \in 0..n /\ k + 1 # 0 /\ (k + 1) - 1 = k
    BY <1>1, <1>5
  <2>2. f[k + 1] = IF messages[k + 1].id \in ids THEN f[(k + 1) - 1]
                   ELSE Append(f[(k + 1) - 1], messages[k + 1])
    BY <1>2, <2>1 DEF Filters
  <2> QED BY <2>1, <2>2
<1> HIDE DEF n
<1> DEFINE Bad == {k \in 0..n : ~ Kept(f[k], messages, ids, k)}
<1>6. Bad = {}
  <2>1. SUFFICES ASSUME Bad # {} PROVE FALSE
    OBVIOUS
  <2>2. Bad \in SUBSET Nat
    OBVIOUS
  <2>3. PICK k \in Bad : \A m \in Bad : k <= m
    <3> HIDE DEF Bad
    <3> QED BY <2>1, <2>2, LeastNatural
  <2>4. k # 0
    <3>1. Kept(<<>>, messages, ids, 0)
      BY DEF Kept, Distinct
    <3> QED BY <1>4, <2>3, <3>1
  <2>5. k - 1 \in Nat /\ (k - 1) + 1 = k /\ k <= n /\ k - 1 \in 0..n /\ ~(k <= k - 1)
    BY <1>1, <2>3, <2>4
  <2>6. Kept(f[k - 1], messages, ids, k - 1)
    BY <2>3, <2>5
  <2>7. Kept(f[k], messages, ids, k)
    <3>1. f[k] = IF messages[k].id \in ids THEN f[k - 1] ELSE Append(f[k - 1], messages[k])
      BY <1>5, <2>5
    <3>2. Kept(IF messages[(k - 1) + 1].id \in ids THEN f[k - 1]
               ELSE Append(f[k - 1], messages[(k - 1) + 1]), messages, ids, (k - 1) + 1)
      BY <2>5, <2>6, KeepOne DEF n
    <3> QED BY <2>5, <3>1, <3>2
  <2> QED BY <2>3, <2>7
<1>7. n \in 0..n
  BY <1>1
<1> QED BY <1>3, <1>6, <1>7 DEF n

-----------------------------------------------------------------------------
(* Messages *)

Signals == {"chunk", "tool", "end", "ready", "error"}

Messages ==
    {Event(name) : name \in Signals} \cup {Added(row) : row \in RowType}
    \cup {[type |-> "history", rows |-> s] : s \in {t \in Seq(RowType) : Distinct(t)}}

(* What each kind of message holds. *)
LEMMA MessageForms ==
    \A m \in Messages :
        /\ m.type \in Signals \cup {"added", "history"}
        /\ m.type = "added" => m.row \in RowType
        /\ m.type = "history" => m.rows \in Seq(RowType) /\ Distinct(m.rows)
BY DEF Messages, Signals, Event, Added

(* A signal is a message. *)
LEMMA SignalForms ==
    \A name \in Signals : Event(name) \in Messages /\ Event(name).type = name
BY DEF Messages, Event

(* So is a row that is added. *)
LEMMA AddedForm ==
    \A row \in RowType : /\ Added(row) \in Messages /\ Added(row).type = "added"
                         /\ Added(row).row = row
BY DEF Messages, Added

-----------------------------------------------------------------------------
(* What is on its way to a tab that shows the messages M, when d is in its channel *)

Carries(m, id) ==
    \/ m.type = "added" /\ m.row.id = id
    \/ m.type = "history" /\ id \in Ids(m.rows)

\* The tab shows id, or will when it has received n messages.
Told(M, d, n, id) == id \in Ids(M) \/ \E k \in 1..n : Carries(d[k], id)

\* The channel and what is shown are well formed, with ids up to top.
WellFormed(M, d, top) ==
    /\ M \in Seq(RowType) /\ Distinct(M)
    /\ d \in Seq(Messages)
    /\ \A id \in Nat : Told(M, d, Len(d), id) => id <= top

\* A pair of rows is shown in order, and the first if the second is.
Ordered(s, p) ==
    /\ \A m, n \in 1..Len(s) : s[m].id = p[1] /\ s[n].id = p[2] => m < n
    /\ p[2] \in Ids(s) => p[1] \in Ids(s)

NoSnapshot(d) == \A k \in 1..Len(d) : d[k].type # "history"

(* A snapshot on its way has the pairs in order, and nothing that it lacks was sent
   before it.                                                                     *)
Comprehensive(P, Z, M, d, k) ==
    d[k].type = "history" =>
        /\ \A p \in P : Ordered(d[k].rows, p)
        /\ \A z \in Z : z \notin Ids(d[k].rows) => ~Told(M, d, k - 1, z)

(* A row on its way is new to the tab, and what comes before it in a pair was sent
   before it.                                                                     *)
Timely(P, Z, M, d, k) ==
    d[k].type = "added" =>
        /\ d[k].row.id \in Z => ~Told(M, d, k - 1, d[k].row.id)
        /\ \A p \in P : p[2] = d[k].row.id => Told(M, d, k - 1, p[1])

\* All messages on their way are such.
Streamed(P, Z, M, d) ==
    /\ P \subseteq Z \X Z
    /\ \A k \in 1..Len(d) : Comprehensive(P, Z, M, d, k) /\ Timely(P, Z, M, d, k)

\* The pairs P of the ids Z will be shown in order.
Orderly(P, Z, M, d) ==
    /\ Streamed(P, Z, M, d)
    /\ NoSnapshot(d) => \A p \in P : Ordered(M, p)

(* The ids of rows, by their places. *)
LEMMA IdsOfRows ==
    ASSUME NEW s \in Seq(RowType)
    PROVE  \A id : id \in Ids(s) <=> \E i \in 1..Len(s) : s[i].id = id
BY DEF Ids

(* Every row has an id, which is a number. *)
LEMMA RowIds ==
    ASSUME NEW s \in Seq(RowType)
    PROVE  \A i \in 1..Len(s) : s[i].id \in Nat /\ s[i].id \in Ids(s)
<1>1. \A i \in 1..Len(s) : s[i] \in RowType
  OBVIOUS
<1> QED BY <1>1 DEF Ids, RowType

-----------------------------------------------------------------------------
(* A tab receives a message *)

\* What is shown after a message.
Heard(M, m) ==
    IF m.type = "added" THEN WithRow(M, m.row)
    ELSE IF m.type = "history" THEN Merged(M, m.rows) ELSE M

(* A row is appended, or takes the place of its former self. *)
LEMMA WithRowShows ==
    ASSUME NEW M \in Seq(RowType), Distinct(M), NEW row \in RowType
    PROVE  /\ WithRow(M, row) \in Seq(RowType)
           /\ Distinct(WithRow(M, row))
           /\ \A id : id \in Ids(WithRow(M, row)) <=> id \in Ids(M) \/ id = row.id
           /\ \A i \in 1..Len(M) : i \in 1..Len(WithRow(M, row)) /\ WithRow(M, row)[i].id = M[i].id
           /\ \A i \in 1..Len(WithRow(M, row)) :
                i \in 1..Len(M) \/ (i = Len(M) + 1 /\ row.id \notin Ids(M) /\ WithRow(M, row)[i].id = row.id)
<1> DEFINE W == WithRow(M, row)
<1>1. Len(M) \in Nat /\ \A i \in 1..Len(M) : M[i] \in RowType
  OBVIOUS
<1>2. CASE row.id \in Ids(M)
  <2>1. W = [i \in 1..Len(M) |-> IF M[i].id = row.id THEN row ELSE M[i]]
    BY <1>2 DEF WithRow
  <2>2. \A i \in 1..Len(M) : (IF M[i].id = row.id THEN row ELSE M[i]) \in RowType
    BY <1>1
  <2>3. W \in Seq(RowType) /\ Len(W) = Len(M)
    BY <1>1, <2>1, <2>2
  <2>4. \A i \in 1..Len(M) : W[i].id = M[i].id
    BY <1>1, <2>1
  <2> HIDE DEF W
  <2>5. Distinct(W)
    BY <2>3, <2>4 DEF Distinct
  <2>6. \A id : id \in Ids(W) <=> id \in Ids(M)
    BY <2>3, <2>4, IdsOfRows
  <2> QED BY <1>2, <2>3, <2>4, <2>5, <2>6 DEF W
<1>3. CASE row.id \notin Ids(M)
  <2>1. W = Append(M, row)
    BY <1>3 DEF WithRow
  <2>2. /\ W \in Seq(RowType) /\ Len(W) = Len(M) + 1
        /\ \A i \in 1..Len(M) : i \in 1..Len(W) /\ W[i] = M[i]
        /\ W[Len(M) + 1] = row
        /\ \A i \in 1..Len(W) : i \in 1..Len(M) \/ i = Len(M) + 1
        /\ Len(M) + 1 \in 1..Len(W)
    BY <1>1, <2>1
  <2> HIDE DEF W
  <2>3. \A i \in 1..Len(M) : W[i].id # row.id
    BY <1>3, <2>2, IdsOfRows
  <2>4. Distinct(W)
    BY <1>1, <2>2, <2>3 DEF Distinct
  <2>5. \A id : id \in Ids(W) <=> id \in Ids(M) \/ id = row.id
    BY <2>2, IdsOfRows
  <2> QED BY <1>3, <2>2, <2>4, <2>5 DEF W
<1> QED BY <1>2, <1>3

(* A snapshot comes first, what it lacks follows. *)
LEMMA MergedShows ==
    ASSUME NEW M \in Seq(RowType), Distinct(M), NEW rows \in Seq(RowType), Distinct(rows)
    PROVE  /\ Merged(M, rows) \in Seq(RowType)
           /\ Distinct(Merged(M, rows))
           /\ \A id : id \in Ids(Merged(M, rows)) <=> id \in Ids(rows) \/ id \in Ids(M)
           /\ \A i \in 1..Len(rows) : i \in 1..Len(Merged(M, rows)) /\ Merged(M, rows)[i] = rows[i]
           /\ \A i \in 1..Len(Merged(M, rows)) :
                i \in 1..Len(rows) \/ (i > Len(rows) /\ Merged(M, rows)[i].id \notin Ids(rows))
<1> DEFINE w == Without(M, Ids(rows))
           W == Merged(M, rows)
<1>1. Kept(w, M, Ids(rows), Len(M))
  BY WithoutKeeps
<1> HIDE DEF w
<1>2. /\ w \in Seq(RowType) /\ Distinct(w)
      /\ \A i \in 1..Len(w) : w[i].id \notin Ids(rows) /\ w[i].id \in Ids(M)
      /\ \A id : id \in Ids(M) /\ id \notin Ids(rows) => id \in Ids(w)
  <2>1. \A i \in 1..Len(w) : w[i].id \in Ids(M)
    BY <1>1, IdsOfRows DEF Kept
  <2>2. ASSUME NEW id \in Ids(M), id \notin Ids(rows) PROVE id \in Ids(w)
    <3>1. PICK k \in 1..Len(M) : M[k].id = id
      BY IdsOfRows
    <3>2. PICK i \in 1..Len(w) : w[i].id = id
      BY <1>1, <2>2, <3>1 DEF Kept
    <3>3. w \in Seq(RowType)
      BY <1>1 DEF Kept
    <3> QED BY <3>2, <3>3, IdsOfRows
  <2> QED BY <1>1, <2>1, <2>2 DEF Kept
<1>3. W = rows \o w
  BY DEF Merged, w
<1>4. /\ W \in Seq(RowType) /\ Len(W) = Len(rows) + Len(w)
      /\ Len(rows) \in Nat /\ Len(w) \in Nat
      /\ \A i \in 1..Len(rows) : i \in 1..Len(W) /\ W[i] = rows[i]
      /\ \A i \in 1..Len(w) : Len(rows) + i \in 1..Len(W) /\ W[Len(rows) + i] = w[i]
  BY <1>2, <1>3
<1>5. ASSUME NEW i \in 1..Len(W)
      PROVE  i \in 1..Len(rows) \/ (i > Len(rows) /\ i - Len(rows) \in 1..Len(w)
                                    /\ W[i] = w[i - Len(rows)])
  <2>1. CASE i <= Len(rows)
    BY <1>4, <2>1
  <2>2. CASE i > Len(rows)
    <3>1. i - Len(rows) \in 1..Len(w) /\ Len(rows) + (i - Len(rows)) = i
      BY <1>4, <2>2
    <3> QED BY <1>4, <2>2, <3>1
  <2> QED BY <1>4, <2>1, <2>2
<1> HIDE DEF W
<1>6. Distinct(W)
  <2> SUFFICES ASSUME NEW i \in 1..Len(W), NEW j \in 1..Len(W), W[i].id = W[j].id
               PROVE  i = j
    BY DEF Distinct
  <2>1. CASE i \in 1..Len(rows) /\ j \in 1..Len(rows)
    BY <1>4, <2>1 DEF Distinct
  <2>2. CASE i > Len(rows) /\ j > Len(rows)
    <3>1. /\ i - Len(rows) \in 1..Len(w) /\ W[i] = w[i - Len(rows)]
          /\ j - Len(rows) \in 1..Len(w) /\ W[j] = w[j - Len(rows)]
      BY <1>4, <1>5, <2>2
    <3>2. i - Len(rows) = j - Len(rows)
      BY <1>2, <3>1 DEF Distinct
    <3> QED BY <1>4, <3>2
  <2>3. ASSUME NEW a \in 1..Len(rows), NEW b \in 1..Len(W), b > Len(rows)
        PROVE  W[a].id # W[b].id
    <3>1. W[b].id \notin Ids(rows)
      <4>1. b - Len(rows) \in 1..Len(w) /\ W[b] = w[b - Len(rows)]
        BY <1>4, <1>5, <2>3
      <4> QED BY <1>2, <4>1
    <3>2. W[a].id \in Ids(rows)
      BY <1>4, IdsOfRows
    <3> QED BY <3>1, <3>2
  <2> QED BY <1>5, <2>1, <2>2, <2>3
<1>7. \A id : id \in Ids(W) <=> id \in Ids(rows) \/ id \in Ids(M)
  <2>1. ASSUME NEW id \in Ids(W) PROVE id \in Ids(rows) \/ id \in Ids(M)
    <3>1. PICK i \in 1..Len(W) : W[i].id = id
      BY <1>4, IdsOfRows
    <3> QED BY <1>2, <1>4, <1>5, <3>1, IdsOfRows
  <2>2. ASSUME NEW id \in Ids(rows) PROVE id \in Ids(W)
    <3>1. PICK i \in 1..Len(rows) : rows[i].id = id
      BY IdsOfRows
    <3> QED BY <1>4, <3>1, IdsOfRows
  <2>3. ASSUME NEW id \in Ids(w) PROVE id \in Ids(W)
    <3>1. PICK i \in 1..Len(w) : w[i].id = id
      BY <1>2, IdsOfRows
    <3> QED BY <1>4, <3>1, IdsOfRows
  <2> QED BY <1>2, <2>1, <2>2, <2>3
<1>8. ASSUME NEW i \in 1..Len(W)
      PROVE  i \in 1..Len(rows) \/ (i > Len(rows) /\ W[i].id \notin Ids(rows))
  BY <1>2, <1>5
<1> QED BY <1>4, <1>6, <1>7, <1>8 DEF W

(* What a message adds to what is shown. *)
LEMMA HeardShows ==
    ASSUME NEW M \in Seq(RowType), Distinct(M), NEW m \in Messages
    PROVE  /\ Heard(M, m) \in Seq(RowType)
           /\ Distinct(Heard(M, m))
           /\ \A id : id \in Ids(Heard(M, m)) <=> id \in Ids(M) \/ Carries(m, id)
<1>1. CASE m.type = "added"
  <2>1. m.row \in RowType
    BY <1>1, MessageForms
  <2> QED BY <1>1, <2>1, WithRowShows DEF Heard, Carries
<1>2. CASE m.type = "history"
  <2>1. m.rows \in Seq(RowType) /\ Distinct(m.rows)
    BY <1>2, MessageForms
  <2> QED BY <1>2, <2>1, MergedShows DEF Heard, Carries
<1>3. CASE m.type \notin {"added", "history"}
  BY <1>3 DEF Heard, Carries
<1> QED BY <1>1, <1>2, <1>3

(* The channel without its first message. *)
LEMMA TailShifts ==
    ASSUME NEW X, NEW d \in Seq(X), d # <<>>
    PROVE  /\ Tail(d) \in Seq(X) /\ Head(d) \in X /\ Head(d) = d[1]
           /\ Len(d) \in Nat /\ Len(d) >= 1 /\ Len(Tail(d)) = Len(d) - 1
           /\ \A k \in 1..Len(Tail(d)) : k + 1 \in 1..Len(d) /\ Tail(d)[k] = d[k + 1]
OBVIOUS

(* What is shown and what is on its way are together the same as before. *)
LEMMA ToldShifts ==
    ASSUME NEW M \in Seq(RowType), Distinct(M), NEW d \in Seq(Messages), d # <<>>,
           NEW n \in Nat, n <= Len(d) - 1, NEW id
    PROVE  Told(Heard(M, Head(d)), Tail(d), n, id) <=> Told(M, d, n + 1, id)
<1>1. /\ Head(d) \in Messages /\ Head(d) = d[1] /\ Len(d) \in Nat
      /\ Len(Tail(d)) = Len(d) - 1
      /\ \A k \in 1..Len(Tail(d)) : Tail(d)[k] = d[k + 1]
  BY TailShifts
<1>2. id \in Ids(Heard(M, Head(d))) <=> id \in Ids(M) \/ Carries(d[1], id)
  BY <1>1, HeardShows
<1>3. (\E k \in 1..n : Carries(Tail(d)[k], id)) <=> \E k \in 2..(n + 1) : Carries(d[k], id)
  <2>1. ASSUME NEW k \in 1..n, Carries(Tail(d)[k], id)
        PROVE  \E i \in 2..(n + 1) : Carries(d[i], id)
    <3>1. k \in 1..Len(Tail(d)) /\ k + 1 \in 2..(n + 1)
      BY <1>1
    <3> QED BY <1>1, <2>1, <3>1
  <2>2. ASSUME NEW k \in 2..(n + 1), Carries(d[k], id)
        PROVE  \E i \in 1..n : Carries(Tail(d)[i], id)
    <3>1. k - 1 \in 1..Len(Tail(d)) /\ k - 1 \in 1..n /\ (k - 1) + 1 = k
      BY <1>1
    <3> QED BY <1>1, <2>2, <3>1
  <2> QED BY <2>1, <2>2
<1>4. (\E k \in 1..(n + 1) : Carries(d[k], id))
        <=> Carries(d[1], id) \/ \E k \in 2..(n + 1) : Carries(d[k], id)
  <2>1. \A k \in 1..(n + 1) : k = 1 \/ k \in 2..(n + 1)
    OBVIOUS
  <2>2. 1 \in 1..(n + 1) /\ \A k \in 2..(n + 1) : k \in 1..(n + 1)
    OBVIOUS
  <2> QED BY <2>1, <2>2
<1> QED BY <1>2, <1>3, <1>4 DEF Told

(* A message that is received leaves the rest in order. *)
LEMMA HearStreams ==
    ASSUME NEW M \in Seq(RowType), Distinct(M), NEW d \in Seq(Messages), d # <<>>,
           NEW P, NEW Z, Streamed(P, Z, M, d)
    PROVE  Streamed(P, Z, Heard(M, Head(d)), Tail(d))
<1> DEFINE W == Heard(M, Head(d))
           t == Tail(d)
<1>1. /\ Len(d) \in Nat /\ Len(t) = Len(d) - 1
      /\ \A k \in 1..Len(t) : k + 1 \in 1..Len(d) /\ t[k] = d[k + 1]
  BY TailShifts
<1>2. ASSUME NEW k \in 1..Len(t), NEW id
      PROVE  Told(W, t, k - 1, id) <=> Told(M, d, (k + 1) - 1, id)
  <2>1. k - 1 \in Nat /\ k - 1 <= Len(d) - 1 /\ (k - 1) + 1 = (k + 1) - 1
    BY <1>1
  <2> QED BY <2>1, ToldShifts
<1> HIDE DEF W, t
<1>3. ASSUME NEW k \in 1..Len(t)
      PROVE  Comprehensive(P, Z, W, t, k) /\ Timely(P, Z, W, t, k)
  <2>1. Comprehensive(P, Z, M, d, k + 1) /\ Timely(P, Z, M, d, k + 1) /\ t[k] = d[k + 1]
    BY <1>1 DEF Streamed
  <2>2. Comprehensive(P, Z, W, t, k)
    BY <1>2, <2>1 DEF Comprehensive
  <2>3. Timely(P, Z, W, t, k)
    BY <1>2, <2>1 DEF Timely
  <2> QED BY <2>2, <2>3
<1> QED BY <1>3 DEF Streamed, W, t

(* After a snapshot the pairs are in order. *)
LEMMA SnapshotOrders ==
    ASSUME NEW M \in Seq(RowType), Distinct(M), NEW rows \in Seq(RowType), Distinct(rows),
           NEW Z, NEW p \in Z \X Z, Ordered(rows, p),
           \A z \in Z : z \notin Ids(rows) => z \notin Ids(M)
    PROVE  Ordered(Merged(M, rows), p)
<1> DEFINE W == Merged(M, rows)
<1>1. /\ W \in Seq(RowType)
      /\ \A id : id \in Ids(W) <=> id \in Ids(rows) \/ id \in Ids(M)
      /\ \A i \in 1..Len(rows) : i \in 1..Len(W) /\ W[i] = rows[i]
      /\ \A i \in 1..Len(W) : i \in 1..Len(rows) \/ W[i].id \notin Ids(rows)
  BY MergedShows
<1> HIDE DEF W
<1>2. p[1] \in Z /\ p[2] \in Z
  OBVIOUS
<1>3. ASSUME NEW i \in 1..Len(W), W[i].id \in Z
      PROVE  i \in 1..Len(rows) /\ W[i] = rows[i]
  <2>1. W[i].id \in Ids(rows)
    BY <1>1, <1>3, IdsOfRows
  <2> QED BY <1>1, <2>1
<1>4. ASSUME NEW m \in 1..Len(W), NEW n \in 1..Len(W), W[m].id = p[1], W[n].id = p[2]
      PROVE  m < n
  BY <1>2, <1>3, <1>4 DEF Ordered
<1>5. p[2] \in Ids(W) => p[1] \in Ids(W)
  BY <1>1, <1>2 DEF Ordered
<1> QED BY <1>4, <1>5 DEF Ordered, W

(* After a row that is new the pairs are in order. *)
LEMMA RowOrders ==
    ASSUME NEW M \in Seq(RowType), Distinct(M), NEW row \in RowType,
           NEW Z, NEW p \in Z \X Z, Ordered(M, p),
           row.id \in Z => row.id \notin Ids(M),
           p[2] = row.id => p[1] \in Ids(M)
    PROVE  Ordered(WithRow(M, row), p)
<1> DEFINE W == WithRow(M, row)
<1>1. /\ W \in Seq(RowType)
      /\ \A id : id \in Ids(W) <=> id \in Ids(M) \/ id = row.id
      /\ \A i \in 1..Len(M) : i \in 1..Len(W) /\ W[i].id = M[i].id
      /\ \A i \in 1..Len(W) :
           i \in 1..Len(M) \/ (i = Len(M) + 1 /\ row.id \notin Ids(M) /\ W[i].id = row.id)
  BY WithRowShows
<1> HIDE DEF W
<1>2. p[1] \in Z /\ p[2] \in Z
  OBVIOUS
<1>3. ASSUME NEW m \in 1..Len(W), NEW n \in 1..Len(W), W[m].id = p[1], W[n].id = p[2]
      PROVE  m < n
  <2>1. CASE m \in 1..Len(M) /\ n \in 1..Len(M)
    BY <1>1, <1>3, <2>1 DEF Ordered
  <2>2. CASE n \notin 1..Len(M)
    <3>1. n = Len(M) + 1 /\ p[2] = row.id /\ row.id \notin Ids(M)
      BY <1>1, <1>3, <2>2
    <3>2. p[1] \in Ids(M) /\ p[1] # row.id
      BY <3>1
    <3>3. m \in 1..Len(M)
      BY <1>1, <1>3, <3>2
    <3> QED BY <3>1, <3>3
  <2>3. CASE m \notin 1..Len(M) /\ n \in 1..Len(M)
    <3>1. p[1] \notin Ids(M)
      BY <1>1, <1>3, <2>3
    <3>2. p[2] \in Ids(M)
      BY <1>1, <1>3, <2>3, IdsOfRows
    <3> QED BY <3>1, <3>2 DEF Ordered
  <2> QED BY <2>1, <2>2, <2>3
<1>4. p[2] \in Ids(W) => p[1] \in Ids(W)
  BY <1>1 DEF Ordered
<1> QED BY <1>3, <1>4 DEF Ordered, W

(* So a tab that receives a message will still show the pairs in order. *)
LEMMA HearOrders ==
    ASSUME NEW M \in Seq(RowType), Distinct(M), NEW d \in Seq(Messages), d # <<>>,
           NEW P, NEW Z, Orderly(P, Z, M, d)
    PROVE  Orderly(P, Z, Heard(M, Head(d)), Tail(d))
<1> DEFINE W == Heard(M, Head(d))
           t == Tail(d)
<1>1. Streamed(P, Z, W, t)
  BY HearStreams DEF Orderly
<1>2. /\ Head(d) \in Messages /\ Head(d) = d[1] /\ Len(d) \in Nat /\ 1 \in 1..Len(d)
      /\ Len(t) = Len(d) - 1 /\ \A k \in 1..Len(t) : t[k] = d[k + 1]
  BY TailShifts
<1> HIDE DEF t
<1>3. P \subseteq Z \X Z /\ Comprehensive(P, Z, M, d, 1) /\ Timely(P, Z, M, d, 1)
  BY <1>2 DEF Orderly, Streamed
<1>4. \A id : Told(M, d, 1 - 1, id) <=> id \in Ids(M)
  BY DEF Told
<1>5. ASSUME NoSnapshot(t), NEW p \in P PROVE Ordered(W, p)
  <2>1. p \in Z \X Z
    BY <1>3
  <2>2. CASE d[1].type = "history"
    <3>1. d[1].rows \in Seq(RowType) /\ Distinct(d[1].rows)
      BY <1>2, <2>2, MessageForms
    <3>2. Ordered(d[1].rows, p) /\ \A z \in Z : z \notin Ids(d[1].rows) => z \notin Ids(M)
      BY <1>3, <1>4, <2>2 DEF Comprehensive
    <3>3. Ordered(Merged(M, d[1].rows), p)
      BY <2>1, <3>1, <3>2, SnapshotOrders
    <3> QED BY <1>2, <2>2, <3>3 DEF Heard
  <2>3. CASE d[1].type # "history"
    <3>1. NoSnapshot(d)
      <4> SUFFICES ASSUME NEW k \in 1..Len(d) PROVE d[k].type # "history"
        BY DEF NoSnapshot
      <4>1. CASE k = 1
        BY <2>3, <4>1
      <4>2. CASE k # 1
        <5>1. k - 1 \in 1..Len(t) /\ (k - 1) + 1 = k
          BY <1>2, <4>2
        <5> QED BY <1>2, <1>5, <5>1 DEF NoSnapshot
      <4> QED BY <4>1, <4>2
    <3>2. Ordered(M, p)
      BY <3>1 DEF Orderly
    <3>3. CASE d[1].type = "added"
      <4>1. d[1].row \in RowType
        BY <1>2, <3>3, MessageForms
      <4>2. /\ d[1].row.id \in Z => d[1].row.id \notin Ids(M)
            /\ p[2] = d[1].row.id => p[1] \in Ids(M)
        BY <1>3, <1>4, <3>3 DEF Timely
      <4>3. Ordered(WithRow(M, d[1].row), p)
        BY <2>1, <3>2, <4>1, <4>2, RowOrders
      <4> QED BY <1>2, <3>3, <4>3 DEF Heard
    <3>4. CASE d[1].type # "added"
      BY <1>2, <2>3, <3>2, <3>4 DEF Heard
    <3> QED BY <3>3, <3>4
  <2> QED BY <2>2, <2>3
<1> QED BY <1>1, <1>5 DEF Orderly, t

(* A tab that receives a message will be told of the same ids. *)
LEMMA HearTells ==
    ASSUME NEW M \in Seq(RowType), Distinct(M), NEW d \in Seq(Messages), d # <<>>, NEW id
    PROVE  Told(Heard(M, Head(d)), Tail(d), Len(Tail(d)), id) <=> Told(M, d, Len(d), id)
<1>1. Len(Tail(d)) \in Nat /\ Len(Tail(d)) <= Len(d) - 1 /\ Len(Tail(d)) + 1 = Len(d)
  BY TailShifts
<1> QED BY <1>1, ToldShifts

(* A message that is received leaves what is shown and the channel well formed. *)
LEMMA HearKeepsForm ==
    ASSUME NEW M, NEW d, d # <<>>, NEW top, WellFormed(M, d, top)
    PROVE  WellFormed(Heard(M, Head(d)), Tail(d), top)
<1>1. /\ M \in Seq(RowType) /\ Distinct(M) /\ d \in Seq(Messages)
      /\ \A id \in Nat : Told(M, d, Len(d), id) => id <= top
  BY DEF WellFormed
<1>2. Heard(M, Head(d)) \in Seq(RowType) /\ Distinct(Heard(M, Head(d))) /\ Tail(d) \in Seq(Messages)
  BY <1>1, TailShifts, HeardShows
<1>3. \A id : Told(Heard(M, Head(d)), Tail(d), Len(Tail(d)), id) <=> Told(M, d, Len(d), id)
  BY <1>1, HearTells
<1> QED BY <1>1, <1>2, <1>3 DEF WellFormed

-----------------------------------------------------------------------------
(* A message is sent to a tab *)

(* A sequence with one more element. *)
LEMMA AppendShifts ==
    ASSUME NEW X, NEW d \in Seq(X), NEW m \in X
    PROVE  /\ Append(d, m) \in Seq(X) /\ Len(d) \in Nat /\ Len(Append(d, m)) = Len(d) + 1
           /\ Append(d, m)[Len(d) + 1] = m
           /\ \A k \in 1..Len(d) : k \in 1..Len(Append(d, m)) /\ Append(d, m)[k] = d[k]
           /\ \A k \in 1..Len(Append(d, m)) : k \in 1..Len(d) \/ k = Len(d) + 1
OBVIOUS

(* What the tab is told before, and with the new message. *)
LEMMA ToldAppends ==
    ASSUME NEW M, NEW d \in Seq(Messages), NEW m \in Messages, NEW id
    PROVE  /\ \A n \in Nat : n <= Len(d) => (Told(M, Append(d, m), n, id) <=> Told(M, d, n, id))
           /\ Told(M, Append(d, m), Len(Append(d, m)), id)
                <=> Told(M, d, Len(d), id) \/ Carries(m, id)
<1> DEFINE e == Append(d, m)
<1>1. /\ Len(d) \in Nat /\ Len(e) = Len(d) + 1 /\ e[Len(d) + 1] = m
      /\ \A k \in 1..Len(d) : k \in 1..Len(e) /\ e[k] = d[k]
      /\ \A k \in 1..Len(e) : k \in 1..Len(d) \/ k = Len(d) + 1
  BY AppendShifts
<1> HIDE DEF e
<1>2. ASSUME NEW n \in Nat, n <= Len(d) PROVE Told(M, e, n, id) <=> Told(M, d, n, id)
  <2>1. \A k \in 1..n : k \in 1..Len(d)
    BY <1>1, <1>2
  <2> QED BY <1>1, <2>1 DEF Told
<1>3. Told(M, e, Len(e), id) <=> Told(M, d, Len(d), id) \/ Carries(m, id)
  <2>1. Len(d) + 1 \in 1..Len(e)
    BY <1>1
  <2> QED BY <1>1, <2>1 DEF Told
<1> QED BY <1>2, <1>3 DEF e

(* It fits. *)
Fits(P, Z, M, d, m) ==
    /\ m.type = "history" =>
        /\ \A p \in P : Ordered(m.rows, p)
        /\ \A z \in Z : z \notin Ids(m.rows) => ~Told(M, d, Len(d), z)
    /\ m.type = "added" =>
        /\ m.row.id \in Z => ~Told(M, d, Len(d), m.row.id)
        /\ \A p \in P : p[2] = m.row.id => Told(M, d, Len(d), p[1])

(* A message that fits is in order among those on their way. *)
LEMMA AppendStreams ==
    ASSUME NEW M, NEW d \in Seq(Messages), NEW m \in Messages,
           NEW P, NEW Z, Streamed(P, Z, M, d), Fits(P, Z, M, d, m)
    PROVE  Streamed(P, Z, M, Append(d, m))
<1> DEFINE e == Append(d, m)
<1>1. /\ Len(d) \in Nat /\ e[Len(d) + 1] = m
      /\ \A k \in 1..Len(d) : e[k] = d[k]
      /\ \A k \in 1..Len(e) : k \in 1..Len(d) \/ k = Len(d) + 1
  BY AppendShifts
<1>2. \A id : \A n \in Nat : n <= Len(d) => (Told(M, e, n, id) <=> Told(M, d, n, id))
  BY ToldAppends
<1> HIDE DEF e
<1>3. ASSUME NEW k \in 1..Len(e) PROVE Comprehensive(P, Z, M, e, k) /\ Timely(P, Z, M, e, k)
  <2>1. CASE k \in 1..Len(d)
    <3>1. Comprehensive(P, Z, M, d, k) /\ Timely(P, Z, M, d, k) /\ e[k] = d[k]
      BY <1>1, <2>1 DEF Streamed
    <3>2. k - 1 \in Nat /\ k - 1 <= Len(d)
      BY <1>1, <2>1
    <3>3. \A id : Told(M, e, k - 1, id) <=> Told(M, d, k - 1, id)
      BY <1>2, <3>2
    <3>4. Comprehensive(P, Z, M, e, k)
      BY <3>1, <3>3 DEF Comprehensive
    <3>5. Timely(P, Z, M, e, k)
      BY <3>1, <3>3 DEF Timely
    <3> QED BY <3>4, <3>5
  <2>2. CASE k = Len(d) + 1
    <3>1. e[k] = m /\ k - 1 = Len(d)
      BY <1>1, <2>2
    <3>2. \A id : Told(M, e, k - 1, id) <=> Told(M, d, Len(d), id)
      BY <1>1, <1>2, <3>1
    <3>3. Comprehensive(P, Z, M, e, k)
      BY <3>1, <3>2 DEF Comprehensive, Fits
    <3>4. Timely(P, Z, M, e, k)
      BY <3>1, <3>2 DEF Timely, Fits
    <3> QED BY <3>3, <3>4
  <2> QED BY <1>1, <1>3, <2>1, <2>2
<1> QED BY <1>3 DEF Streamed, e

(* So are the pairs, after a snapshot or as before. *)
LEMMA AppendOrders ==
    ASSUME NEW M, NEW d \in Seq(Messages), NEW m \in Messages,
           NEW P, NEW Z, Streamed(P, Z, M, d), Fits(P, Z, M, d, m),
           m.type = "history" \/ Orderly(P, Z, M, d)
    PROVE  Orderly(P, Z, M, Append(d, m))
<1>1. /\ Len(d) \in Nat /\ Append(d, m)[Len(d) + 1] = m /\ Len(d) + 1 \in 1..Len(Append(d, m))
      /\ \A k \in 1..Len(d) : k \in 1..Len(Append(d, m)) /\ Append(d, m)[k] = d[k]
  BY AppendShifts
<1>2. NoSnapshot(Append(d, m)) => NoSnapshot(d) /\ m.type # "history"
  BY <1>1 DEF NoSnapshot
<1> QED BY <1>2, AppendStreams DEF Orderly

(* A message with known ids leaves the channel well formed. *)
LEMMA AppendKeepsForm ==
    ASSUME NEW M, NEW d, NEW top, WellFormed(M, d, top), NEW m \in Messages,
           \A id \in Nat : Carries(m, id) => id <= top
    PROVE  WellFormed(M, Append(d, m), top)
<1>1. d \in Seq(Messages) /\ Append(d, m) \in Seq(Messages)
  BY DEF WellFormed
<1>2. \A id : Told(M, Append(d, m), Len(Append(d, m)), id)
                <=> Told(M, d, Len(d), id) \/ Carries(m, id)
  BY <1>1, ToldAppends
<1> QED BY <1>1, <1>2 DEF WellFormed

-----------------------------------------------------------------------------
(* The cache C, for a tab with these own rows *)

Members(C, O) == Ids(C) \ O

Pairs(C, O) ==
    {p \in Members(C, O) \X Members(C, O) :
        \E i, j \in 1..Len(C) : i < j /\ p = <<C[i].id, C[j].id>>}

\* The tab will show the whole cache, and the rows that are not its own in order.
InStep(C, O, M, d) ==
    /\ \A id \in Ids(C) : Told(M, d, Len(d), id)
    /\ Orderly(Pairs(C, O), Members(C, O), M, d)

(* Fewer pairs of fewer rows are in order too. *)
LEMMA FewerOrdered ==
    ASSUME NEW P, NEW Z, NEW M, NEW d, Orderly(P, Z, M, d),
           NEW Q, Q \subseteq P, NEW Y, Y \subseteq Z, Q \subseteq Y \X Y
    PROVE  Orderly(Q, Y, M, d)
<1>1. ASSUME NEW k \in 1..Len(d)
      PROVE  Comprehensive(Q, Y, M, d, k) /\ Timely(Q, Y, M, d, k)
  <2>1. Comprehensive(P, Z, M, d, k) /\ Timely(P, Z, M, d, k)
    BY DEF Orderly, Streamed
  <2>2. Comprehensive(Q, Y, M, d, k)
    BY <2>1 DEF Comprehensive
  <2>3. Timely(Q, Y, M, d, k)
    BY <2>1 DEF Timely
  <2> QED BY <2>2, <2>3
<1> QED BY <1>1 DEF Orderly, Streamed

(* A row that the tab has not been told of may follow all others. *)
LEMMA NewOrdered ==
    ASSUME NEW P, NEW Z, NEW M \in Seq(RowType), NEW d \in Seq(Messages),
           Orderly(P, Z, M, d), NEW y, ~Told(M, d, Len(d), y)
    PROVE  Orderly(P \cup {<<x, y>> : x \in Z}, Z \cup {y}, M, d)
<1> DEFINE Q == P \cup {<<x, y>> : x \in Z}
           Y == Z \cup {y}
<1>1. y \notin Ids(M) /\ \A k \in 1..Len(d) : ~Carries(d[k], y)
  BY DEF Told
<1>2. \A k \in 1..Len(d) : ~Told(M, d, k - 1, y)
  <2>1. Len(d) \in Nat
    OBVIOUS
  <2>2. \A k \in 1..Len(d) : \A i \in 1..(k - 1) : i \in 1..Len(d)
    BY <2>1
  <2> QED BY <1>1, <2>2 DEF Told
<1>3. \A p \in Q : p \in P \/ (p[1] \in Z /\ p[2] = y)
  OBVIOUS
<1>4. Q \subseteq Y \X Y
  BY DEF Orderly, Streamed
<1> HIDE DEF Q
<1>5. \A s : s \in Seq(RowType) /\ y \notin Ids(s) => \A p \in Q : p \in P \/ Ordered(s, p)
  <2> SUFFICES ASSUME NEW s \in Seq(RowType), y \notin Ids(s), NEW p \in Q, p \notin P
               PROVE  Ordered(s, p)
    OBVIOUS
  <2>1. p[2] = y
    BY <1>3
  <2>2. \A n \in 1..Len(s) : s[n].id # y
    BY IdsOfRows
  <2> QED BY <2>1, <2>2 DEF Ordered
<1>6. ASSUME NEW k \in 1..Len(d)
      PROVE  Comprehensive(Q, Y, M, d, k) /\ Timely(Q, Y, M, d, k)
  <2>1. Comprehensive(P, Z, M, d, k) /\ Timely(P, Z, M, d, k) /\ d[k] \in Messages
    BY DEF Orderly, Streamed
  <2>2. Comprehensive(Q, Y, M, d, k)
    <3> SUFFICES ASSUME d[k].type = "history"
                 PROVE  /\ \A p \in Q : Ordered(d[k].rows, p)
                        /\ \A z \in Y : z \notin Ids(d[k].rows) => ~Told(M, d, k - 1, z)
      BY DEF Comprehensive
    <3>1. d[k].rows \in Seq(RowType) /\ y \notin Ids(d[k].rows)
      BY <1>1, <2>1, MessageForms DEF Carries
    <3>2. \A p \in Q : Ordered(d[k].rows, p)
      BY <1>5, <2>1, <3>1 DEF Comprehensive
    <3> QED BY <1>2, <2>1, <3>2 DEF Comprehensive
  <2>3. Timely(Q, Y, M, d, k)
    <3> SUFFICES ASSUME d[k].type = "added"
                 PROVE  /\ d[k].row.id \in Y => ~Told(M, d, k - 1, d[k].row.id)
                        /\ \A p \in Q : p[2] = d[k].row.id => Told(M, d, k - 1, p[1])
      BY DEF Timely
    <3>1. d[k].row.id # y
      BY <1>1 DEF Carries
    <3> QED BY <1>3, <2>1, <3>1 DEF Timely
  <2> QED BY <2>2, <2>3
<1>7. NoSnapshot(d) => \A p \in Q : Ordered(M, p)
  BY <1>1, <1>5 DEF Orderly
<1> QED BY <1>4, <1>6, <1>7 DEF Orderly, Streamed, Q

(* The pairs are of members. *)
LEMMA PairsOfMembers ==
    ASSUME NEW C, NEW O
    PROVE  Pairs(C, O) \subseteq Members(C, O) \X Members(C, O)
BY DEF Pairs

(* The members and pairs of a cache that has grown by one row. *)
LEMMA GrownCache ==
    ASSUME NEW C \in Seq(RowType), NEW row \in RowType, row.id \notin Ids(C), NEW O
    PROVE  /\ Ids(Append(C, row)) = Ids(C) \cup {row.id}
           /\ Members(Append(C, row), O) \subseteq Members(C, O) \cup ({row.id} \ O)
           /\ \A p \in Pairs(Append(C, row), O) :
                p \in Pairs(C, O) \/ (p[1] \in Members(C, O) /\ p[2] = row.id /\ p = <<p[1], row.id>>)
<1> DEFINE E == Append(C, row)
<1>1. /\ E \in Seq(RowType) /\ Len(C) \in Nat /\ Len(E) = Len(C) + 1 /\ E[Len(C) + 1] = row
      /\ \A k \in 1..Len(C) : k \in 1..Len(E) /\ E[k] = C[k]
      /\ \A k \in 1..Len(E) : k \in 1..Len(C) \/ k = Len(C) + 1
  BY AppendShifts
<1> HIDE DEF E
<1>2. Ids(E) = Ids(C) \cup {row.id}
  <2>1. \A id : id \in Ids(E) <=> id \in Ids(C) \/ id = row.id
    <3>1. Len(C) + 1 \in 1..Len(E)
      BY <1>1
    <3> QED BY <1>1, <3>1, IdsOfRows
  <2> QED BY <2>1
<1>3. Members(E, O) \subseteq Members(C, O) \cup ({row.id} \ O)
  BY <1>2 DEF Members
<1>4. ASSUME NEW p \in Pairs(E, O)
      PROVE  p \in Pairs(C, O) \/ (p[1] \in Members(C, O) /\ p[2] = row.id /\ p = <<p[1], row.id>>)
  <2>1. PICK i \in 1..Len(E), j \in 1..Len(E) : i < j /\ p = <<E[i].id, E[j].id>>
    BY DEF Pairs
  <2>2. E[i].id \notin O /\ E[j].id \notin O
    BY <2>1 DEF Pairs, Members
  <2>3. i \in 1..Len(C) /\ E[i] = C[i]
    BY <1>1, <2>1
  <2>4. E[i].id \in Members(C, O)
    BY <2>2, <2>3, RowIds DEF Members
  <2>5. CASE j \in 1..Len(C)
    <3>1. E[j] = C[j] /\ E[j].id \in Members(C, O)
      BY <1>1, <2>2, <2>5, RowIds DEF Members
    <3> QED BY <2>1, <2>3, <2>4, <2>5, <3>1 DEF Pairs
  <2>6. CASE j = Len(C) + 1
    <3>1. E[j] = row
      BY <1>1, <2>6
    <3> QED BY <2>1, <2>4, <3>1
  <2> QED BY <1>1, <2>5, <2>6
<1> QED BY <1>2, <1>3, <1>4 DEF E

(* A row that the cache and the tab do not have is pushed and sent. *)
LEMMA PushOne ==
    ASSUME NEW C \in Seq(RowType), NEW O, NEW M \in Seq(RowType), NEW d \in Seq(Messages),
           InStep(C, O, M, d),
           NEW row \in RowType, row.id \notin Ids(C),
           row.id \notin O => ~Told(M, d, Len(d), row.id)
    PROVE  InStep(Append(C, row), O, M, Append(d, Added(row)))
<1> DEFINE E == Append(C, row)
           m == Added(row)
           P == Pairs(C, O)
           Z == Members(C, O)
<1>1. m \in Messages /\ m.type = "added" /\ m.row = row
  BY AddedForm
<1>2. /\ Ids(E) = Ids(C) \cup {row.id}
      /\ Members(E, O) \subseteq Z \cup ({row.id} \ O)
      /\ \A p \in Pairs(E, O) : p \in P \/ (p[1] \in Z /\ p[2] = row.id /\ p = <<p[1], row.id>>)
      /\ Pairs(E, O) \subseteq Members(E, O) \X Members(E, O)
  BY GrownCache, PairsOfMembers
<1>3. \A id : Told(M, Append(d, m), Len(Append(d, m)), id)
                 <=> Told(M, d, Len(d), id) \/ Carries(m, id)
  BY <1>1, ToldAppends
<1>4. /\ \A id \in Ids(C) : Told(M, d, Len(d), id)
      /\ Orderly(P, Z, M, d)
      /\ \A z \in Z : z \in Ids(C)
  BY DEF InStep, Members
<1> HIDE DEF E, m, P, Z
<1>5. Orderly(Pairs(E, O), Members(E, O), M, d)
  <2>1. CASE row.id \in O
    <3>1. Members(E, O) \subseteq Z
      BY <1>2, <2>1
    <3>2. Pairs(E, O) \subseteq P
      <4>1. \A p \in Pairs(E, O) : p[2] \notin O
        BY <1>2 DEF Members
      <4> QED BY <1>2, <2>1, <4>1
    <3> QED BY <1>2, <1>4, <3>1, <3>2, FewerOrdered
  <2>2. CASE row.id \notin O
    <3> DEFINE Q == P \cup {<<x, row.id>> : x \in Z}
               Y == Z \cup {row.id}
    <3>1. Orderly(Q, Y, M, d)
      BY <1>4, <2>2, NewOrdered
    <3>2. Pairs(E, O) \subseteq Q /\ Members(E, O) \subseteq Y
      BY <1>2
    <3> HIDE DEF Q, Y
    <3> QED BY <1>2, <3>1, <3>2, FewerOrdered
  <2> QED BY <2>1, <2>2
<1>6. Fits(Pairs(E, O), Members(E, O), M, d, m)
  <2>1. row.id \in Members(E, O) => ~Told(M, d, Len(d), row.id)
    BY DEF Members
  <2>2. ASSUME NEW p \in Pairs(E, O), p[2] = row.id PROVE Told(M, d, Len(d), p[1])
    <3>1. p \notin P
      BY <1>4, <2>2 DEF Orderly, Streamed
    <3>2. p[1] \in Ids(C)
      BY <1>2, <1>4, <3>1
    <3> QED BY <1>4, <3>2
  <2> QED BY <1>1, <2>1, <2>2 DEF Fits
<1>7. Orderly(Pairs(E, O), Members(E, O), M, Append(d, m))
  BY <1>1, <1>5, <1>6, AppendOrders DEF Orderly
<1>8. ASSUME NEW id \in Ids(E) PROVE Told(M, Append(d, m), Len(Append(d, m)), id)
  <2>1. id \in Ids(C) \/ Carries(m, id)
    BY <1>1, <1>2 DEF Carries
  <2> QED BY <1>3, <1>4, <2>1
<1> QED BY <1>7, <1>8 DEF InStep, E, m

(* The cache forgets its oldest rows. *)
LEMMA TrimKeeps ==
    ASSUME NEW C \in Seq(RowType), NEW O, NEW M, NEW d, InStep(C, O, M, d),
           NEW n \in Nat \ {0}, n <= Len(C) + 1
    PROVE  InStep(SubSeq(C, n, Len(C)), O, M, d)
<1> DEFINE S == SubSeq(C, n, Len(C))
<1>1. /\ S \in Seq(RowType) /\ Len(C) \in Nat /\ Len(S) = Len(C) - n + 1
      /\ \A i \in 1..Len(S) : i + n - 1 \in 1..Len(C) /\ S[i] = C[i + n - 1]
  BY SubSeqProperties
<1> HIDE DEF S
<1>2. Ids(S) \subseteq Ids(C)
  <2>1. ASSUME NEW id \in Ids(S) PROVE id \in Ids(C)
    <3>1. PICK i \in 1..Len(S) : S[i].id = id
      BY <1>1, IdsOfRows
    <3> QED BY <1>1, <3>1, IdsOfRows
  <2> QED BY <2>1
<1>3. Members(S, O) \subseteq Members(C, O)
  BY <1>2 DEF Members
<1>4. ASSUME NEW p \in Pairs(S, O) PROVE p \in Pairs(C, O)
  <2>1. PICK i \in 1..Len(S), j \in 1..Len(S) : i < j /\ p = <<S[i].id, S[j].id>>
    BY DEF Pairs
  <2>2. i + n - 1 \in 1..Len(C) /\ j + n - 1 \in 1..Len(C) /\ i + n - 1 < j + n - 1
        /\ p = <<C[i + n - 1].id, C[j + n - 1].id>>
    BY <1>1, <2>1
  <2>3. p \in Members(C, O) \X Members(C, O)
    BY <1>3 DEF Pairs
  <2> QED BY <2>2, <2>3 DEF Pairs
<1>5. Orderly(Pairs(S, O), Members(S, O), M, d)
  BY <1>3, <1>4, PairsOfMembers, FewerOrdered DEF InStep
<1> QED BY <1>2, <1>5 DEF InStep, S

(* A signal changes nothing of this. *)
LEMMA SignalKeeps ==
    ASSUME NEW C, NEW O, NEW M, NEW d \in Seq(Messages), InStep(C, O, M, d),
           NEW name \in Signals
    PROVE  InStep(C, O, M, Append(d, Event(name)))
<1> DEFINE m == Event(name)
<1>1. m \in Messages /\ m.type # "added" /\ m.type # "history"
  BY SignalForms DEF Signals
<1> HIDE DEF m
<1>2. Fits(Pairs(C, O), Members(C, O), M, d, m)
  BY <1>1 DEF Fits
<1>3. Orderly(Pairs(C, O), Members(C, O), M, Append(d, m))
  BY <1>1, <1>2, AppendOrders DEF InStep, Orderly
<1>4. \A id : Told(M, d, Len(d), id) => Told(M, Append(d, m), Len(Append(d, m)), id)
  BY <1>1, ToldAppends
<1> QED BY <1>3, <1>4 DEF InStep, m

(* A snapshot of the cache brings the tab into step. *)
LEMMA SnapshotKeeps ==
    ASSUME NEW C \in Seq(RowType), Distinct(C), NEW O, NEW M, NEW d \in Seq(Messages),
           Streamed(Pairs(C, O), Members(C, O), M, d)
    PROVE  /\ [type |-> "history", rows |-> C] \in Messages
           /\ InStep(C, O, M, Append(d, [type |-> "history", rows |-> C]))
<1> DEFINE m == [type |-> "history", rows |-> C]
<1>1. m \in Messages
  BY DEF Messages
<1>2. m.type = "history" /\ m.rows = C
  OBVIOUS
<1> HIDE DEF m
<1>3. ASSUME NEW p \in Pairs(C, O) PROVE Ordered(C, p)
  <2>1. PICK i \in 1..Len(C), j \in 1..Len(C) : i < j /\ p = <<C[i].id, C[j].id>>
    BY DEF Pairs
  <2>2. p[1] = C[i].id /\ p[2] = C[j].id
    BY <2>1
  <2>3. \A a, b \in 1..Len(C) : C[a].id = p[1] /\ C[b].id = p[2] => a < b
    BY <2>1, <2>2 DEF Distinct
  <2>4. p[1] \in Ids(C)
    BY <2>2, RowIds
  <2> QED BY <2>3, <2>4 DEF Ordered
<1>4. Fits(Pairs(C, O), Members(C, O), M, d, m)
  BY <1>2, <1>3 DEF Fits, Members
<1>5. Orderly(Pairs(C, O), Members(C, O), M, Append(d, m))
  BY <1>1, <1>2, <1>4, AppendOrders
<1>6. \A id \in Ids(C) : Told(M, Append(d, m), Len(Append(d, m)), id)
  BY <1>1, <1>2, ToldAppends DEF Carries
<1> QED BY <1>1, <1>5, <1>6 DEF InStep, m

(* As long as nothing but errors is on its way, anything is. *)
LEMMA ErrorsStream ==
    ASSUME NEW C, NEW O, NEW M, NEW d, \A k \in 1..Len(d) : d[k].type = "error"
    PROVE  Streamed(Pairs(C, O), Members(C, O), M, d)
BY PairsOfMembers DEF Streamed, Comprehensive, Timely

(* The tab receives a message. *)
LEMMA HearKeeps ==
    ASSUME NEW C, NEW O, NEW M \in Seq(RowType), Distinct(M), NEW d \in Seq(Messages),
           d # <<>>, InStep(C, O, M, d)
    PROVE  InStep(C, O, Heard(M, Head(d)), Tail(d))
BY HearOrders, HearTells DEF InStep

(* The tab inserts a row of its own. *)
LEMMA InsertKeeps ==
    ASSUME NEW C, NEW O, NEW M \in Seq(RowType), NEW d \in Seq(Messages),
           InStep(C, O, M, d), NEW row \in RowType, row.id \notin Ids(C), row.id \notin Ids(M)
    PROVE  InStep(C, O \cup {row.id}, Append(M, row), d)
<1> DEFINE W == Append(M, row)
           P == Pairs(C, O)
           Z == Members(C, O)
<1>1. /\ W \in Seq(RowType) /\ Len(M) \in Nat /\ Len(W) = Len(M) + 1 /\ W[Len(M) + 1] = row
      /\ \A k \in 1..Len(M) : k \in 1..Len(W) /\ W[k] = M[k]
      /\ \A k \in 1..Len(W) : k \in 1..Len(M) \/ k = Len(M) + 1
  BY AppendShifts
<1> HIDE DEF W
<1>2. \A id : id \in Ids(W) <=> id \in Ids(M) \/ id = row.id
  <2>1. Len(M) + 1 \in 1..Len(W)
    BY <1>1
  <2> QED BY <1>1, <2>1, IdsOfRows
<1>3. \A id, n : Told(W, d, n, id) <=> Told(M, d, n, id) \/ id = row.id
  BY <1>2 DEF Told
<1>4. Orderly(P, Z, M, d) /\ P \subseteq Z \X Z /\ \A z \in Z : z # row.id
  BY PairsOfMembers DEF InStep, Members
<1>5. \A p \in P : p[1] \in Z /\ p[2] \in Z
  BY <1>4
<1>6. ASSUME NEW k \in 1..Len(d) PROVE Comprehensive(P, Z, W, d, k) /\ Timely(P, Z, W, d, k)
  <2> HIDE DEF P, Z
  <2>1. Comprehensive(P, Z, M, d, k) /\ Timely(P, Z, M, d, k)
    BY <1>4 DEF Orderly, Streamed
  <2>2. Comprehensive(P, Z, W, d, k)
    BY <1>3, <1>4, <2>1 DEF Comprehensive
  <2>3. Timely(P, Z, W, d, k)
    BY <1>3, <1>4, <2>1 DEF Timely
  <2> QED BY <2>2, <2>3
<1>7. ASSUME NEW p \in P, Ordered(M, p) PROVE Ordered(W, p)
  <2> HIDE DEF P, Z
  <2>1. p[1] # row.id /\ p[2] # row.id
    BY <1>4, <1>5
  <2>2. \A k \in 1..Len(W) : W[k].id # row.id => k \in 1..Len(M) /\ W[k] = M[k]
    BY <1>1
  <2> QED BY <1>2, <1>7, <2>1, <2>2 DEF Ordered
<1>8. Orderly(P, Z, W, d)
  <2> HIDE DEF P, Z
  <2> QED BY <1>4, <1>6, <1>7 DEF Orderly, Streamed
<1>9. /\ Members(C, O \cup {row.id}) \subseteq Z
      /\ Pairs(C, O \cup {row.id}) \subseteq P
      /\ Pairs(C, O \cup {row.id}) \subseteq Members(C, O \cup {row.id}) \X Members(C, O \cup {row.id})
  BY PairsOfMembers DEF Pairs, Members
<1>10. Orderly(Pairs(C, O \cup {row.id}), Members(C, O \cup {row.id}), W, d)
  <2> HIDE DEF P, Z
  <2> QED BY <1>8, <1>9, FewerOrdered
<1>11. \A id \in Ids(C) : Told(W, d, Len(d), id)
  BY <1>3 DEF InStep
<1> QED BY <1>10, <1>11 DEF InStep, W

-----------------------------------------------------------------------------
(* A tab, the cache and the rows that are awaited *)

(* The rows of the users that have not come to the server yet, by id: the cache does
   not have them.                                                                 *)
CacheOK(C, top, X) ==
    /\ C \in Seq(RowType) /\ Distinct(C)
    /\ top \in Nat
    /\ \A id \in Ids(C) : id <= top
    /\ \A x \in X : x \in Nat /\ x <= top /\ x \notin Ids(C)

(* A tab whose connection listens to the host s, when n is the host; M is what it
   shows, d is on its way, O are its own rows. Only a row of its own can be shown
   while it is awaited.                                                           *)
TabOK(C, top, X, n, s, M, d, O) ==
    /\ WellFormed(M, d, top)
    /\ s \in Nat \cup {-1} /\ s <= n
    /\ s <= 0 => \A k \in 1..Len(d) : d[k].type = "error"
    /\ s = n => InStep(C, O, M, d)
    /\ \A x \in X : x \notin O => ~Told(M, d, Len(d), x)

\* What a tab is sent if it listens to the host.
Forwarded(s, n, d, m) == IF s = n THEN Append(d, m) ELSE d

(* A higher number bounds as well. *)
LEMMA HigherTop ==
    ASSUME NEW M, NEW d, NEW top \in Nat, WellFormed(M, d, top), NEW more \in Nat, top <= more
    PROVE  WellFormed(M, d, more)
BY DEF WellFormed

(* What has been told of has a number. *)
LEMMA ToldIsNatural ==
    ASSUME NEW M, NEW d, NEW top, WellFormed(M, d, top), NEW id \in Nat,
           NEW n \in Nat, top < n, top \in Nat
    PROVE  ~Told(M, d, Len(d), n)
BY DEF WellFormed

(* The cache takes a row that is new, or awaited. *)
LEMMA CachePush ==
    ASSUME NEW C, NEW top, NEW X, CacheOK(C, top, X),
           NEW row \in RowType, row.id \in X \/ row.id > top,
           NEW more \in Nat, top <= more, row.id <= more
    PROVE  /\ row.id \notin Ids(C)
           /\ CacheOK(Append(C, row), more, X \ {row.id})
<1>1. /\ C \in Seq(RowType) /\ Distinct(C) /\ top \in Nat
      /\ \A id \in Ids(C) : id <= top
      /\ \A x \in X : x \in Nat /\ x <= top /\ x \notin Ids(C)
  BY DEF CacheOK
<1>2. row.id \in Nat
  BY DEF RowType
<1>3. row.id \notin Ids(C)
  BY <1>1, <1>2
<1>4. Append(C, row) \in Seq(RowType)
  BY <1>1
<1>5. Ids(Append(C, row)) = Ids(C) \cup {row.id}
  BY <1>1, <1>3, GrownCache
<1>6. Distinct(Append(C, row))
  <2>1. /\ Len(C) \in Nat /\ Append(C, row)[Len(C) + 1] = row
        /\ \A k \in 1..Len(C) : Append(C, row)[k] = C[k] /\ C[k].id \in Ids(C)
        /\ \A k \in 1..Len(Append(C, row)) : k \in 1..Len(C) \/ k = Len(C) + 1
    BY <1>1, AppendShifts, RowIds
  <2> QED BY <1>1, <1>3, <2>1 DEF Distinct
<1>7. \A id \in Ids(C) : id \in Nat
  BY <1>1, RowIds, IdsOfRows
<1>8. \A id \in Ids(Append(C, row)) : id <= more
  BY <1>1, <1>5, <1>7
<1>9. \A x \in X \ {row.id} : x \in Nat /\ x <= more /\ x \notin Ids(Append(C, row))
  BY <1>1, <1>5
<1> QED BY <1>3, <1>4, <1>6, <1>8, <1>9 DEF CacheOK

(* A tab when the cache takes that row. *)
LEMMA TabPush ==
    ASSUME NEW C, NEW top, NEW X, CacheOK(C, top, X),
           NEW n \in Nat \ {0}, NEW s, NEW M, NEW d, NEW O, TabOK(C, top, X, n, s, M, d, O),
           NEW row \in RowType, row.id \in X \/ row.id > top,
           NEW more \in Nat, top <= more, row.id <= more
    PROVE  TabOK(Append(C, row), more, X \ {row.id}, n, s, M,
                 Forwarded(s, n, d, Added(row)), O)
<1> DEFINE m == Added(row)
<1>1. m \in Messages /\ m.type = "added" /\ m.row = row /\ row.id \in Nat
  BY AddedForm DEF RowType
<1>2. C \in Seq(RowType) /\ row.id \notin Ids(C) /\ top \in Nat
  <2>1. row.id \notin Ids(C)
    BY CachePush
  <2> QED BY <2>1 DEF CacheOK
<1>3. WellFormed(M, d, top) /\ M \in Seq(RowType) /\ d \in Seq(Messages)
  BY DEF TabOK, WellFormed
<1>4. \A id : Told(M, Append(d, m), Len(Append(d, m)), id)
                 <=> Told(M, d, Len(d), id) \/ Carries(m, id)
  BY <1>1, <1>3, ToldAppends
<1>5. \A id : Carries(m, id) <=> id = row.id
  BY <1>1 DEF Carries
<1> HIDE DEF m
<1>6. CASE s = n
  <2>1. WellFormed(M, Append(d, m), more)
    <3>1. WellFormed(M, d, more)
      BY <1>2, <1>3, HigherTop
    <3> QED BY <1>1, <1>5, <3>1, AppendKeepsForm
  <2>2. row.id \notin O => ~Told(M, d, Len(d), row.id)
    BY <1>1, <1>2, <1>3 DEF TabOK, WellFormed
  <2>3. InStep(Append(C, row), O, M, Append(d, Added(row)))
    BY <1>2, <1>3, <1>6, <2>2, PushOne DEF TabOK
  <2>4. \A x \in X \ {row.id} : x \notin O => ~Told(M, Append(d, m), Len(Append(d, m)), x)
    BY <1>4, <1>5 DEF TabOK
  <2> QED BY <1>6, <2>1, <2>3, <2>4 DEF TabOK, Forwarded, m
<1>7. CASE s # n
  <2>1. WellFormed(M, d, more)
    BY <1>2, <1>3, HigherTop
  <2> QED BY <1>7, <2>1 DEF TabOK, Forwarded
<1> QED BY <1>6, <1>7

(* The cache forgets its oldest rows. *)
LEMMA Trim ==
    ASSUME NEW C, NEW top, NEW X, CacheOK(C, top, X), NEW k \in Nat \ {0}, k <= Len(C) + 1
    PROVE  /\ CacheOK(SubSeq(C, k, Len(C)), top, X)
           /\ \A n, s, M, d, O : TabOK(C, top, X, n, s, M, d, O) =>
                TabOK(SubSeq(C, k, Len(C)), top, X, n, s, M, d, O)
<1> DEFINE S == SubSeq(C, k, Len(C))
<1>1. C \in Seq(RowType) /\ Distinct(C)
  BY DEF CacheOK
<1>2. /\ S \in Seq(RowType) /\ Len(C) \in Nat /\ Len(S) = Len(C) - k + 1
      /\ \A i \in 1..Len(S) : i + k - 1 \in 1..Len(C) /\ S[i] = C[i + k - 1]
  BY <1>1, SubSeqProperties
<1> HIDE DEF S
<1>3. Ids(S) \subseteq Ids(C)
  <2>1. ASSUME NEW id \in Ids(S) PROVE id \in Ids(C)
    <3>1. PICK i \in 1..Len(S) : S[i].id = id
      BY <1>2, IdsOfRows
    <3> QED BY <1>1, <1>2, <3>1, RowIds
  <2> QED BY <2>1
<1>4. Distinct(S)
  <2>1. SUFFICES ASSUME NEW i \in 1..Len(S), NEW j \in 1..Len(S), S[i].id = S[j].id
                 PROVE  i = j
    BY DEF Distinct
  <2>2. PICK a \in 1..Len(C), b \in 1..Len(C) :
            S[i] = C[a] /\ S[j] = C[b] /\ a = i + k - 1 /\ b = j + k - 1
    BY <1>2
  <2>3. a = b
    BY <2>1, <2>2, <1>1 DEF Distinct
  <2>4. i \in Int /\ j \in Int
    OBVIOUS
  <2> QED BY <2>2, <2>3, <2>4
<1>5. CacheOK(S, top, X)
  BY <1>2, <1>3, <1>4 DEF CacheOK
<1>6. ASSUME NEW n, NEW s, NEW M, NEW d, NEW O, TabOK(C, top, X, n, s, M, d, O)
      PROVE  TabOK(S, top, X, n, s, M, d, O)
  <2>1. s = n => InStep(S, O, M, d)
    BY <1>1, <1>6, TrimKeeps DEF TabOK, S
  <2> QED BY <1>6, <2>1 DEF TabOK
<1> QED BY <1>5, <1>6 DEF S

(* A signal. *)
LEMMA TabSignal ==
    ASSUME NEW C, NEW top, NEW X, NEW n \in Nat \ {0}, NEW s, NEW M, NEW d, NEW O,
           TabOK(C, top, X, n, s, M, d, O), NEW name \in Signals, s > 0 \/ name = "error"
    PROVE  TabOK(C, top, X, n, s, M, Append(d, Event(name)), O)
<1> DEFINE m == Event(name)
<1>1. m \in Messages /\ m.type = name /\ m.type \notin {"added", "history"}
  BY SignalForms DEF Signals
<1>2. WellFormed(M, d, top) /\ d \in Seq(Messages) /\ Len(d) \in Nat
  BY DEF TabOK, WellFormed
<1>3. \A id : ~Carries(m, id)
  BY <1>1 DEF Carries
<1> HIDE DEF m
<1>4. WellFormed(M, Append(d, m), top)
  BY <1>1, <1>2, <1>3, AppendKeepsForm
<1>5. \A id : Told(M, Append(d, m), Len(Append(d, m)), id) <=> Told(M, d, Len(d), id)
  BY <1>1, <1>2, <1>3, ToldAppends
<1>6. s = n => InStep(C, O, M, Append(d, m))
  BY <1>2, SignalKeeps DEF TabOK, m
<1>7. s <= 0 => \A k \in 1..Len(Append(d, m)) : Append(d, m)[k].type = "error"
  <2>1. /\ Append(d, m)[Len(d) + 1] = m
        /\ \A k \in 1..Len(d) : Append(d, m)[k] = d[k]
        /\ \A k \in 1..Len(Append(d, m)) : k \in 1..Len(d) \/ k = Len(d) + 1
    BY <1>1, <1>2, AppendShifts
  <2>2. s <= 0 => m.type = "error"
    BY <1>1 DEF TabOK
  <2> QED BY <2>1, <2>2 DEF TabOK
<1> QED BY <1>4, <1>5, <1>6, <1>7 DEF TabOK, m

(* A snapshot, to a connection that listens to nothing yet, or again. *)
LEMMA TabSnapshot ==
    ASSUME NEW C, NEW top, NEW X, CacheOK(C, top, X),
           NEW n \in Nat \ {0}, NEW s, NEW M, NEW d, NEW O,
           TabOK(C, top, X, n, s, M, d, O), s # -1
    PROVE  TabOK(C, top, X, n, IF s = 0 THEN n ELSE s, M,
                 Append(d, [type |-> "history", rows |-> C]), O)
<1> DEFINE m == [type |-> "history", rows |-> C]
<1>1. C \in Seq(RowType) /\ Distinct(C) /\ top \in Nat
  BY DEF CacheOK
<1>2. m \in Messages /\ m.type = "history" /\ m.rows = C
  BY <1>1 DEF Messages
<1>3. WellFormed(M, d, top) /\ d \in Seq(Messages) /\ Len(d) \in Nat
  BY DEF TabOK, WellFormed
<1>4. \A id : Carries(m, id) <=> id \in Ids(C)
  BY <1>2 DEF Carries
<1> HIDE DEF m
<1>5. WellFormed(M, Append(d, m), top)
  <2>1. \A id \in Nat : Carries(m, id) => id <= top
    BY <1>4 DEF CacheOK
  <2> QED BY <1>2, <1>3, <2>1, AppendKeepsForm
<1>6. \A x \in X : x \notin O => ~Told(M, Append(d, m), Len(Append(d, m)), x)
  <2>1. \A id : Told(M, Append(d, m), Len(Append(d, m)), id)
                   <=> Told(M, d, Len(d), id) \/ Carries(m, id)
    BY <1>2, <1>3, ToldAppends
  <2>2. \A x \in X : ~Carries(m, x)
    BY <1>4 DEF CacheOK
  <2> QED BY <2>1, <2>2 DEF TabOK
<1>7. s = 0 \/ s = n => InStep(C, O, M, Append(d, m))
  <2>1. s = 0 \/ s = n => Streamed(Pairs(C, O), Members(C, O), M, d)
    <3>1. s = 0 => \A k \in 1..Len(d) : d[k].type = "error"
      BY DEF TabOK
    <3> QED BY <3>1, ErrorsStream DEF TabOK, InStep, Orderly
  <2> QED BY <1>1, <1>3, <2>1, SnapshotKeeps DEF m
<1>8. s \in Nat /\ s <= n /\ (s > 0 \/ s = 0)
  BY DEF TabOK
<1>9. CASE s = 0
  BY <1>5, <1>6, <1>7, <1>9 DEF TabOK, m
<1>10. CASE s > 0
  BY <1>5, <1>6, <1>7, <1>8, <1>10 DEF TabOK, m
<1> QED BY <1>8, <1>9, <1>10

(* A tab receives a message. *)
LEMMA TabHear ==
    ASSUME NEW C, NEW top, NEW X, NEW n \in Nat \ {0}, NEW s, NEW M, NEW d, NEW O,
           TabOK(C, top, X, n, s, M, d, O), d # <<>>
    PROVE  TabOK(C, top, X, n, s, Heard(M, Head(d)), Tail(d), O)
<1>1. WellFormed(M, d, top) /\ M \in Seq(RowType) /\ Distinct(M) /\ d \in Seq(Messages)
  BY DEF TabOK, WellFormed
<1>2. WellFormed(Heard(M, Head(d)), Tail(d), top)
  BY <1>1, HearKeepsForm
<1>3. s = n => InStep(C, O, Heard(M, Head(d)), Tail(d))
  BY <1>1, HearKeeps DEF TabOK
<1>4. \A id : Told(Heard(M, Head(d)), Tail(d), Len(Tail(d)), id) <=> Told(M, d, Len(d), id)
  BY <1>1, HearTells
<1>5. \A k \in 1..Len(Tail(d)) : k + 1 \in 1..Len(d) /\ Tail(d)[k] = d[k + 1]
  BY <1>1, TailShifts
<1> QED BY <1>2, <1>3, <1>4, <1>5 DEF TabOK

(* A number is given to a row that is awaited from now on. *)
LEMMA TabAwaits ==
    ASSUME NEW C, NEW top \in Nat, NEW X, NEW n \in Nat \ {0}, NEW s, NEW M, NEW d, NEW O,
           TabOK(C, top, X, n, s, M, d, O)
    PROVE  TabOK(C, top + 1, X \cup {top + 1}, n, s, M, d, O)
<1>1. WellFormed(M, d, top)
  BY DEF TabOK
<1>2. WellFormed(M, d, top + 1)
  BY <1>1, HigherTop
<1>3. ~Told(M, d, Len(d), top + 1)
  BY <1>1 DEF WellFormed
<1> QED BY <1>2, <1>3 DEF TabOK

(* The tab inserts it. *)
LEMMA TabInsert ==
    ASSUME NEW C, NEW top, NEW X, CacheOK(C, top, X),
           NEW n \in Nat \ {0}, NEW s, NEW M, NEW d, NEW O,
           TabOK(C, top, X, n, s, M, d, O), NEW by \in Authors
    PROVE  TabOK(C, top + 1, X \cup {top + 1}, n, s, Append(M, Row(top + 1, by)), d,
                 O \cup {top + 1})
<1> DEFINE row == Row(top + 1, by)
           W == Append(M, row)
           Q == O \cup {top + 1}
<1>1. C \in Seq(RowType) /\ top \in Nat /\ \A id \in Ids(C) : id <= top
  BY DEF CacheOK
<1>2. row \in RowType /\ row.id = top + 1
  BY <1>1 DEF Row, RowType
<1>3. WellFormed(M, d, top) /\ M \in Seq(RowType) /\ Distinct(M) /\ d \in Seq(Messages)
  BY DEF TabOK, WellFormed
<1>4. ~Told(M, d, Len(d), row.id) /\ row.id \notin Ids(C)
  BY <1>1, <1>2, <1>3 DEF WellFormed
<1>5. row.id \notin Ids(M)
  BY <1>4 DEF Told
<1>6. /\ W \in Seq(RowType) /\ Len(M) \in Nat /\ W[Len(M) + 1] = row
      /\ \A k \in 1..Len(M) : k \in 1..Len(W) /\ W[k] = M[k]
      /\ \A k \in 1..Len(W) : k \in 1..Len(M) \/ k = Len(M) + 1
      /\ Ids(W) = Ids(M) \cup {row.id}
  BY <1>2, <1>3, <1>5, AppendShifts, GrownCache
<1> HIDE DEF W, row
<1>7. \A id : Told(W, d, Len(d), id) <=> Told(M, d, Len(d), id) \/ id = row.id
  BY <1>6 DEF Told
<1>8. Distinct(W)
  <2>1. \A k \in 1..Len(M) : M[k].id \in Ids(M)
    BY <1>3, RowIds
  <2> QED BY <1>3, <1>5, <1>6, <2>1 DEF Distinct
<1>9. WellFormed(W, d, top + 1)
  BY <1>1, <1>2, <1>3, <1>6, <1>7, <1>8 DEF WellFormed
<1>10. s = n => InStep(C, Q, W, d)
  <2>1. Q = O \cup {row.id}
    BY <1>2
  <2> QED BY <1>1, <1>2, <1>3, <1>4, <1>5, <2>1, InsertKeeps DEF TabOK, W
<1>11. \A x \in X \cup {top + 1} : x \notin Q => ~Told(W, d, Len(d), x)
  BY <1>2, <1>7 DEF TabOK
<1> QED BY <1>9, <1>10, <1>11 DEF TabOK, W, row

(* The connection closes. *)
LEMMA TabDrops ==
    ASSUME NEW C, NEW top, NEW X, NEW n \in Nat \ {0}, NEW s, NEW M, NEW d, NEW O,
           TabOK(C, top, X, n, s, M, d, O)
    PROVE  TabOK(C, top, X, n, -1, M, <<>>, O)
<1>1. \A id : Told(M, <<>>, Len(<<>>), id) => Told(M, d, Len(d), id)
  BY DEF Told
<1>2. WellFormed(M, <<>>, top)
  <2>1. <<>> \in Seq(Messages)
    OBVIOUS
  <2> QED BY <1>1, <2>1 DEF TabOK, WellFormed
<1> QED BY <1>1, <1>2 DEF TabOK

(* The connection is made again. *)
LEMMA TabConnects ==
    ASSUME NEW C, NEW top, NEW X, NEW n \in Nat \ {0}, NEW M, NEW d, NEW O,
           TabOK(C, top, X, n, -1, M, d, O)
    PROVE  TabOK(C, top, X, n, 0, M, d, O)
BY DEF TabOK

(* Nobody listens to a new host. *)
LEMMA TabNewHost ==
    ASSUME NEW C, NEW top, NEW X, NEW n \in Nat \ {0}, NEW s, NEW M, NEW d, NEW O,
           TabOK(C, top, X, n, s, M, d, O)
    PROVE  TabOK(C, top, X, n + 1, s, M, d, O)
BY DEF TabOK

(* Fewer rows are awaited. *)
LEMMA FewerAwaited ==
    ASSUME NEW C, NEW top, NEW X, NEW Y, Y \subseteq X
    PROVE  /\ CacheOK(C, top, X) => CacheOK(C, top, Y)
           /\ \A n, s, M, d, O : TabOK(C, top, X, n, s, M, d, O) => TabOK(C, top, Y, n, s, M, d, O)
BY DEF TabOK, CacheOK

-----------------------------------------------------------------------------
(* Rows that are pushed and sent *)

(* Sequences of one or two, at the end of another. *)
LEMMA ConcatForms ==
    ASSUME NEW A, NEW d \in Seq(A), NEW e \in Seq(A)
    PROVE  /\ Len(e) = 1 => d \o e = Append(d, e[1])
           /\ Len(e) = 2 => d \o e = Append(Append(d, e[1]), e[2])
<1>1. /\ Len(d) \in Nat /\ Len(e) \in Nat
      /\ \A i \in 1..Len(e) : e[i] \in A
  BY ElementOfSeq, LenProperties
<1>2. /\ d \o e \in Seq(A) /\ Len(d \o e) = Len(d) + Len(e)
      /\ \A i \in 1..(Len(d) + Len(e)) : (d \o e)[i] = IF i <= Len(d) THEN d[i] ELSE e[i - Len(d)]
  BY ConcatProperties
<1> DEFINE h == d \o e
           f == Append(d, e[1])
           g == Append(f, e[2])
<1>3. Len(e) >= 1 => /\ f \in Seq(A) /\ Len(f) = Len(d) + 1 /\ f[Len(d) + 1] = e[1]
                     /\ \A i \in 1..Len(d) : f[i] = d[i]
  <2>1. Len(e) >= 1 => e[1] \in A
    BY <1>1
  <2> QED BY <2>1, AppendProperties
<1> HIDE DEF h, f
<1>4. CASE Len(e) = 1
  <2>1. ASSUME NEW i \in 1..Len(h) PROVE h[i] = f[i]
    <3>1. i \in 1..Len(d) \/ i = Len(d) + 1
      BY <1>1, <1>2, <1>4 DEF h
    <3> QED BY <1>1, <1>2, <1>3, <1>4, <3>1 DEF h
  <2>2. h \in Seq(A) /\ f \in Seq(A) /\ Len(h) = Len(f)
    BY <1>1, <1>2, <1>3, <1>4 DEF h
  <2>3. h = f
    BY <2>1, <2>2, SeqEqual
  <2> QED BY <1>4, <2>3 DEF h, f
<1>5. CASE Len(e) = 2
  <2>1. e[2] \in A /\ Len(e) >= 1
    BY <1>1, <1>5
  <2>2. /\ g \in Seq(A) /\ Len(g) = Len(f) + 1 /\ g[Len(f) + 1] = e[2]
        /\ \A i \in 1..Len(f) : g[i] = f[i]
    BY <1>3, <2>1, AppendProperties
  <2> HIDE DEF g
  <2>3. ASSUME NEW i \in 1..Len(h) PROVE h[i] = g[i]
    <3>1. i \in 1..Len(d) \/ i = Len(d) + 1 \/ i = Len(d) + 2
      BY <1>1, <1>2, <1>5 DEF h
    <3>2. CASE i \in 1..Len(d)
      BY <1>1, <1>2, <1>3, <1>5, <2>1, <2>2, <3>2 DEF h
    <3>3. CASE i = Len(d) + 1
      BY <1>1, <1>2, <1>3, <1>5, <2>1, <2>2, <3>3 DEF h
    <3>4. CASE i = Len(d) + 2
      BY <1>1, <1>2, <1>3, <1>5, <2>1, <2>2, <3>4 DEF h
    <3> QED BY <3>1, <3>2, <3>3, <3>4
  <2>4. h \in Seq(A) /\ g \in Seq(A) /\ Len(h) = Len(g)
    BY <1>1, <1>2, <1>3, <1>5, <2>1, <2>2 DEF h
  <2>5. h = g
    BY <2>3, <2>4, SeqEqual
  <2> QED BY <1>5, <2>5 DEF h, f, g
<1> QED BY <1>4, <1>5

\* What is sent for these rows.
Additions(rows) == [i \in 1..Len(rows) |-> Added(rows[i])]

(* One or two rows are new, but for the last, which may be awaited; then the numbers go
   up to more.                                                                     *)
Joins(rows, top, X, more) ==
    /\ rows \in Seq(RowType)
    /\ more \in Nat /\ top <= more
    /\ \/ /\ Len(rows) = 1
          /\ rows[1].id \in X \/ rows[1].id > top
          /\ rows[1].id <= more
       \/ /\ Len(rows) = 2
          /\ rows[1].id > top /\ rows[1].id <= more
          /\ rows[2].id \in X \/ rows[2].id > rows[1].id
          /\ rows[2].id <= more

\* A tab that listens to the host is sent these messages.
Delivered(s, n, d, messages) == IF s = n THEN d \o messages ELSE d

(* Each row is sent as a message of its own. *)
LEMMA AdditionsForm ==
    ASSUME NEW rows \in Seq(RowType)
    PROVE  /\ Additions(rows) \in Seq(Messages) /\ Len(Additions(rows)) = Len(rows)
           /\ \A i \in 1..Len(rows) : Additions(rows)[i] = Added(rows[i])
<1>1. \A i \in 1..Len(rows) : rows[i] \in RowType
  OBVIOUS
<1>2. \A i \in 1..Len(rows) : Added(rows[i]) \in Messages
  BY <1>1, AddedForm
<1> QED BY <1>2 DEF Additions

(* Rows are pushed, the oldest are forgotten, and the tabs that listen are sent them. *)
LEMMA RowsPushed ==
    ASSUME NEW C, NEW top, NEW X, CacheOK(C, top, X), NEW n \in Nat \ {0},
           NEW rows, NEW more, Joins(rows, top, X, more)
    PROVE  /\ CacheOK(C \o rows, more, X \ Ids(rows))
           /\ \A s, M, d, O : TabOK(C, top, X, n, s, M, d, O) =>
                TabOK(C \o rows, more, X \ Ids(rows), n, s, M,
                      Delivered(s, n, d, Additions(rows)), O)
<1>1. rows \in Seq(RowType) /\ more \in Nat /\ top <= more /\ C \in Seq(RowType) /\ top \in Nat
  BY DEF Joins, CacheOK
<1>2. \A s, M, d, O : TabOK(C, top, X, n, s, M, d, O) => d \in Seq(Messages)
  BY DEF TabOK, WellFormed
<1>3. CASE Len(rows) = 1
  <2>1. rows[1] \in RowType /\ (rows[1].id \in X \/ rows[1].id > top) /\ rows[1].id <= more
    <3>1. rows[1] \in RowType
      BY <1>1, <1>3, ElementOfSeq
    <3>2. Len(rows) # 2
      BY <1>3
    <3> QED BY <3>1, <3>2 DEF Joins
  <2>2. C \o rows = Append(C, rows[1]) /\ Ids(rows) = {rows[1].id}
    BY <1>1, <1>3, ConcatForms DEF Ids
  <2>3. \A d \in Seq(Messages) : d \o Additions(rows) = Append(d, Added(rows[1]))
    BY <1>1, <1>3, AdditionsForm, ConcatForms
  <2>4. CacheOK(Append(C, rows[1]), more, X \ {rows[1].id})
    BY <1>1, <2>1, CachePush
  <2>5. ASSUME NEW s, NEW M, NEW d, NEW O, TabOK(C, top, X, n, s, M, d, O)
        PROVE  TabOK(Append(C, rows[1]), more, X \ {rows[1].id}, n, s, M,
                     Forwarded(s, n, d, Added(rows[1])), O)
    BY <1>1, <2>1, <2>5, TabPush
  <2>6. ASSUME NEW s, NEW M, NEW d, NEW O, TabOK(C, top, X, n, s, M, d, O)
        PROVE  Forwarded(s, n, d, Added(rows[1])) = Delivered(s, n, d, Additions(rows))
    BY <1>2, <2>3, <2>6 DEF Forwarded, Delivered
  <2>7. X \ {rows[1].id} = X \ Ids(rows)
    BY <2>2
  <2>8. CacheOK(C \o rows, more, X \ Ids(rows))
    BY <2>2, <2>4, <2>7
  <2>9. ASSUME NEW s, NEW M, NEW d, NEW O, TabOK(C, top, X, n, s, M, d, O)
        PROVE  TabOK(C \o rows, more, X \ Ids(rows), n, s, M,
                     Delivered(s, n, d, Additions(rows)), O)
    <3>1. TabOK(Append(C, rows[1]), more, X \ {rows[1].id}, n, s, M,
                Forwarded(s, n, d, Added(rows[1])), O)
      BY <2>5, <2>9
    <3>2. Forwarded(s, n, d, Added(rows[1])) = Delivered(s, n, d, Additions(rows))
      BY <2>6, <2>9
    <3> QED BY <2>2, <2>7, <3>1, <3>2
  <2> QED BY <2>8, <2>9
<1>4. CASE Len(rows) = 2
  <2> DEFINE r == rows[1]
             q == rows[2]
             D == Append(C, r)
             Y == X \ {r.id}
  <2>1. /\ r \in RowType /\ q \in RowType /\ r.id \in Nat /\ q.id \in Nat
        /\ r.id > top /\ r.id <= more
        /\ q.id \in X \/ q.id > r.id
        /\ q.id <= more
    <3>1. r \in RowType /\ q \in RowType
      <4>1. 1 \in 1..Len(rows) /\ 2 \in 1..Len(rows)
        BY <1>4
      <4> QED BY <1>1, <4>1, ElementOfSeq
    <3>2. r.id \in Nat /\ q.id \in Nat
      BY <3>1 DEF RowType
    <3>3. Len(rows) # 1
      BY <1>4
    <3> QED BY <3>1, <3>2, <3>3 DEF Joins
  <2>2. C \o rows = Append(D, q) /\ Ids(rows) = {r.id, q.id}
    BY <1>1, <1>4, ConcatForms DEF Ids
  <2>3. \A d \in Seq(Messages) : d \o Additions(rows) = Append(Append(d, Added(r)), Added(q))
    BY <1>1, <1>4, AdditionsForm, ConcatForms
  <2> HIDE DEF r, q
  <2>4. CacheOK(D, r.id, Y)
    BY <1>1, <2>1, CachePush
  <2>5. q.id \in Y \/ q.id > r.id
    BY <1>1, <2>1 DEF CacheOK
  <2>6. \A s, M, d, O : TabOK(C, top, X, n, s, M, d, O) =>
            TabOK(D, r.id, Y, n, s, M, Forwarded(s, n, d, Added(r)), O)
    BY <1>1, <2>1, TabPush
  <2> HIDE DEF D, Y
  <2>7. CacheOK(Append(D, q), more, Y \ {q.id})
    BY <1>1, <2>1, <2>4, <2>5, CachePush
  <2>8. \A s, M, d, O : TabOK(D, r.id, Y, n, s, M, d, O) =>
            TabOK(Append(D, q), more, Y \ {q.id}, n, s, M, Forwarded(s, n, d, Added(q)), O)
    BY <1>1, <2>1, <2>4, <2>5, TabPush
  <2>9. Y \ {q.id} = X \ Ids(rows)
    BY <2>2 DEF Y
  <2>10. ASSUME NEW s, NEW M, NEW d, NEW O, TabOK(C, top, X, n, s, M, d, O)
         PROVE  TabOK(Append(D, q), more, Y \ {q.id}, n, s, M,
                      Delivered(s, n, d, Additions(rows)), O)
    <3>1. TabOK(Append(D, q), more, Y \ {q.id}, n, s, M,
                Forwarded(s, n, Forwarded(s, n, d, Added(r)), Added(q)), O)
      BY <2>6, <2>8, <2>10
    <3>2. Forwarded(s, n, Forwarded(s, n, d, Added(r)), Added(q))
            = Delivered(s, n, d, Additions(rows))
      BY <1>2, <2>3, <2>10 DEF Forwarded, Delivered
    <3> QED BY <3>1, <3>2
  <2>11. C \o rows = Append(D, q)
    BY <2>2 DEF D
  <2> HIDE DEF D, Y
  <2>12. CacheOK(C \o rows, more, X \ Ids(rows))
    BY <2>7, <2>9, <2>11
  <2>13. ASSUME NEW s, NEW M, NEW d, NEW O, TabOK(C, top, X, n, s, M, d, O)
         PROVE  TabOK(C \o rows, more, X \ Ids(rows), n, s, M,
                      Delivered(s, n, d, Additions(rows)), O)
    <3>1. TabOK(Append(D, q), more, Y \ {q.id}, n, s, M, Delivered(s, n, d, Additions(rows)), O)
      BY <2>10, <2>13
    <3> QED BY <2>9, <2>11, <3>1
  <2> QED BY <2>12, <2>13
<1> QED BY <1>3, <1>4 DEF Joins

-----------------------------------------------------------------------------
(* The state *)

TurnType  == [on : BOOLEAN, partial : BOOLEAN, tool : {"none", "running", "flushed"}]
HostType  == [n : Nat \ {0}, alive : BOOLEAN]
StoreType == [messages : Seq(RowType), draft : BOOLEAN, streaming : BOOLEAN, waiting : BOOLEAN]
Requests  == {[type |-> "switch"]} \cup [type : {"user", "steer"}, id : Nat]

Types ==
    /\ made \in Nat
    /\ turn \in TurnType
    /\ host \in HostType
    /\ subscribed \in [Tabs -> Nat \cup {-1}]
    /\ DOMAIN down = Tabs
    /\ up \in [Tabs -> {<<>>} \cup {<<m>> : m \in Requests}]
    /\ tab \in [Tabs -> StoreType]
    /\ own \in [Tabs -> SUBSET Nat]
    /\ witness \in SUBSET Tabs

\* A row of the user is on its way from the tab.
Awaits(c) == up[c] # <<>> /\ up[c][1].type # "switch"

Awaited == {up[c][1].id : c \in {e \in Tabs : Awaits(e)}}

AwaitedOnce ==
    \A c, e \in Tabs : Awaits(c) /\ Awaits(e) /\ up[c][1].id = up[e][1].id => c = e

\* What a tab that listens will show is the cache.
CoreInv ==
    /\ CacheOK(cache, made, Awaited)
    /\ \A c \in Tabs : TabOK(cache, made, Awaited, host.n, subscribed[c],
                             tab[c].messages, down[c], own[c])
    /\ AwaitedOnce
    /\ \A c \in Tabs : subscribed[c] = -1 => up[c] = <<>>

-----------------------------------------------------------------------------
(* A message at a tab *)

(* A message changes what is shown, and the flags by its kind. *)
LEMMA ShownForms ==
    ASSUME NEW t \in StoreType, Distinct(t.messages), NEW m \in Messages
    PROVE  /\ Shown(t, m) \in StoreType
           /\ Shown(t, m).messages = Heard(t.messages, m)
<1>1. t.messages \in Seq(RowType)
  BY DEF StoreType
<1>2. Heard(t.messages, m) \in Seq(RowType)
  BY <1>1, HeardShows
<1>3. CASE m.type = "added"
  <2>1. Heard(t.messages, m) = WithRow(t.messages, m.row) /\ Shown(t, m) = WithAdded(t, m.row)
    BY <1>3 DEF Heard, Shown
  <2>2. m.row \in RowType
    BY <1>3, MessageForms
  <2> HIDE DEF Shown
  <2> QED BY <1>2, <2>1, <2>2 DEF WithAdded, StoreType
<1>4. CASE m.type = "history"
  <2>1. Heard(t.messages, m) = Merged(t.messages, m.rows) /\ Shown(t, m) = WithHistory(t, m.rows)
    BY <1>4 DEF Heard, Shown
  <2> QED BY <1>2, <2>1 DEF WithHistory, StoreType, Fresh
<1>5. CASE m.type \in Signals
  <2>1. Heard(t.messages, m) = t.messages
    BY <1>5 DEF Heard, Signals
  <2> QED BY <1>1, <1>5, <2>1 DEF Shown, Signals, Ready, StoreType
<1> QED BY <1>3, <1>4, <1>5, MessageForms

(* The draft after a message. *)
LEMMA ShownDraft ==
    ASSUME NEW t \in StoreType, NEW m \in Messages
    PROVE  Shown(t, m).draft <=>
             \/ m.type \in {"chunk", "tool"}
             \/ t.draft /\ m.type # "end" /\ ~(m.type = "added" /\ m.row.by = "assistant")
<1>1. CASE m.type = "history"
  BY <1>1 DEF Shown, WithHistory, InProgress, StoreType, Fresh
<1>2. CASE m.type = "added"
  BY <1>2 DEF Shown, WithAdded, StoreType
<1>3. CASE m.type \in Signals
  BY <1>3 DEF Shown, Signals, Ready, StoreType
<1> QED BY <1>1, <1>2, <1>3, MessageForms

(* The stream after a message. *)
LEMMA ShownStreaming ==
    ASSUME NEW t \in StoreType, NEW m \in Messages
    PROVE  Shown(t, m).streaming <=> m.type \in {"chunk", "tool"} \/ (t.streaming /\ m.type # "ready")
<1>1. CASE m.type = "history"
  BY <1>1 DEF Shown, WithHistory, InProgress, StoreType, Fresh
<1>2. CASE m.type = "added"
  BY <1>2 DEF Shown, WithAdded, StoreType
<1>3. CASE m.type \in Signals
  BY <1>3 DEF Shown, Signals, Ready, StoreType
<1> QED BY <1>1, <1>2, <1>3, MessageForms

(* The wait after a message. *)
LEMMA ShownWaiting ==
    ASSUME NEW t \in StoreType, NEW m \in Messages
    PROVE  Shown(t, m).waiting =>
             /\ m.type \notin {"chunk", "tool", "ready", "error"}
             /\ t.waiting \/ (m.type = "added" /\ m.row.by = "user")
<1>1. CASE m.type = "history"
  BY <1>1 DEF Shown, WithHistory, InProgress, StoreType, Fresh
<1>2. CASE m.type = "added"
  BY <1>2 DEF Shown, WithAdded, StoreType
<1>3. CASE m.type \in Signals
  BY <1>3 DEF Shown, Signals, Ready, StoreType
<1> QED BY <1>1, <1>2, <1>3, MessageForms

-----------------------------------------------------------------------------
(* What the server pushes and sends *)

(* Sent, for one tab. *)
LEMMA SentToTab ==
    ASSUME NEW messages, NEW c \in Tabs
    PROVE  Sent(messages)[c] = Delivered(subscribed[c], host.n, down[c], messages)
BY DEF Sent, Delivered, Listening

(* A signal goes to all that listen. *)
LEMMA SignalSent ==
    ASSUME Types, CoreInv, NEW name \in Signals
    PROVE  \A c \in Tabs : TabOK(cache, made, Awaited, host.n, subscribed[c], tab[c].messages,
                                 Sent(<<Event(name)>>)[c], own[c])
<1>1. host.n \in Nat \ {0}
  BY DEF Types, HostType
<1>2. SUFFICES ASSUME NEW c \in Tabs
               PROVE  TabOK(cache, made, Awaited, host.n, subscribed[c], tab[c].messages,
                            Sent(<<Event(name)>>)[c], own[c])
  OBVIOUS
<1>3. TabOK(cache, made, Awaited, host.n, subscribed[c], tab[c].messages, down[c], own[c])
  BY DEF CoreInv
<1>4. CASE subscribed[c] = host.n
  <2>1. Sent(<<Event(name)>>)[c] = down[c] \o <<Event(name)>>
    BY <1>4, SentToTab DEF Delivered
  <2>2. down[c] \in Seq(Messages) /\ Event(name) \in Messages
    BY <1>3, SignalForms DEF TabOK, WellFormed
  <2>3. down[c] \o <<Event(name)>> = Append(down[c], Event(name))
    BY <2>2, AppendIsConcat
  <2>4. subscribed[c] > 0
    BY <1>1, <1>4
  <2> QED BY <1>1, <1>3, <2>1, <2>3, <2>4, TabSignal
<1>5. CASE subscribed[c] # host.n
  BY <1>3, <1>5, SentToTab DEF Delivered
<1> QED BY <1>4, <1>5

(* Rows are pushed and go to all that listen. *)
LEMMA RowsSent ==
    ASSUME Types, CoreInv, ChatAssumption, NEW rows, NEW more, Joins(rows, made, Awaited, more)
    PROVE  /\ CacheOK(Pushed(rows), more, Awaited \ Ids(rows))
           /\ \A c \in Tabs :
                TabOK(Pushed(rows), more, Awaited \ Ids(rows), host.n, subscribed[c],
                      tab[c].messages, Sent(Additions(rows))[c], own[c])
<1> DEFINE all == cache \o rows
           k == IF Len(all) > Keep THEN Len(all) - Keep + 1 ELSE 1
           X == Awaited \ Ids(rows)
<1>1. host.n \in Nat \ {0} /\ CacheOK(cache, made, Awaited)
  BY DEF Types, HostType, CoreInv
<1>2. /\ CacheOK(all, more, X)
      /\ \A c \in Tabs : TabOK(all, more, X, host.n, subscribed[c], tab[c].messages,
                               Delivered(subscribed[c], host.n, down[c], Additions(rows)), own[c])
  BY <1>1, RowsPushed DEF CoreInv
<1>3. all \in Seq(RowType) /\ Len(all) \in Nat
  <2>1. all \in Seq(RowType)
    BY <1>2 DEF CacheOK
  <2> QED BY <2>1
<1>4. Pushed(rows) = SubSeq(all, k, Len(all))
  BY DEF Pushed
<1> HIDE DEF all, X
<1>5. k \in Nat \ {0} /\ k <= Len(all) + 1
  BY <1>3 DEF ChatAssumption
<1> HIDE DEF k
<1>6. /\ CacheOK(SubSeq(all, k, Len(all)), more, X)
      /\ \A n, s, M, d, O : TabOK(all, more, X, n, s, M, d, O) =>
                TabOK(SubSeq(all, k, Len(all)), more, X, n, s, M, d, O)
  BY <1>2, <1>5, Trim
<1>7. ASSUME NEW c \in Tabs
      PROVE  TabOK(Pushed(rows), more, X, host.n, subscribed[c], tab[c].messages,
                   Sent(Additions(rows))[c], own[c])
  BY <1>2, <1>4, <1>6, SentToTab
<1> QED BY <1>4, <1>6, <1>7 DEF X

(* A row of the server is new. *)
LEMMA NewRows ==
    ASSUME Types, CoreInv, NEW rows \in Seq(RowType),
           \/ Len(rows) = 1 /\ rows[1].id = made + 1
           \/ Len(rows) = 2 /\ rows[1].id = made + 1 /\ rows[2].id = made + 2
    PROVE  /\ Joins(rows, made, Awaited, made + Len(rows))
           /\ Awaited \ Ids(rows) = Awaited
<1>1. made \in Nat /\ \A x \in Awaited : x \in Nat /\ x <= made
  BY DEF Types, CoreInv, CacheOK
<1>2. Joins(rows, made, Awaited, made + Len(rows))
  BY <1>1 DEF Joins
<1>3. \A id \in Ids(rows) : id > made
  <2>1. ASSUME NEW i \in 1..Len(rows) PROVE rows[i].id > made
    BY <1>1
  <2> QED BY <2>1 DEF Ids
<1>4. \A x \in Awaited : x \notin Ids(rows)
  BY <1>1, <1>3
<1> QED BY <1>2, <1>4

-----------------------------------------------------------------------------
(* The steps of the server *)

(* A step of the server changes none of the functions on tabs but the channels. *)
LEMMA TypesOnServer ==
    ASSUME Types, made' \in Nat, turn' \in TurnType, host' \in HostType,
           DOMAIN down' = Tabs, witness' \in SUBSET Tabs,
           UNCHANGED <<subscribed, up, tab, own>>
    PROVE  Types'
BY DEF Types

(* A signal is sent. *)
LEMMA SignalStep ==
    ASSUME Types, CoreInv, NEW name \in Signals, Emit(<<Event(name)>>),
           UNCHANGED <<made, cache, host, subscribed, up, tab, own>>
    PROVE  CoreInv' /\ DOMAIN down' = Tabs
<1>1. down' = Sent(<<Event(name)>>)
  BY DEF Emit
<1>2. \A c \in Tabs : TabOK(cache', made', Awaited, host'.n, subscribed'[c],
                            tab'[c].messages, down'[c], own'[c])
  BY <1>1, SignalSent
<1>3. Awaited' = Awaited /\ AwaitedOnce' /\ CacheOK(cache', made', Awaited)
      /\ \A c \in Tabs : subscribed'[c] = -1 => up'[c] = <<>>
  BY DEF CoreInv, Awaited, Awaits, AwaitedOnce
<1>4. CoreInv'
  BY <1>2, <1>3 DEF CoreInv
<1>5. DOMAIN down' = Tabs
  BY <1>1 DEF Sent
<1> QED BY <1>4, <1>5

(* A commit makes no row, or the one of the assistant. *)
LEMMA CommittedForm ==
    ASSUME Types
    PROVE  /\ Committed \in Seq(RowType) /\ Len(Committed) \in 0..1
           /\ Len(Committed) = 1 => Committed[1] = Row(made + 1, "assistant")
           /\ Committed = <<>> <=> Len(Committed) = 0
<1>1. Row(made + 1, "assistant") \in RowType
  BY DEF Types, Row, RowType, Authors
<1> QED BY <1>1 DEF Committed

(* New rows are pushed and sent. *)
LEMMA RowsStep ==
    ASSUME Types, CoreInv, ChatAssumption, NEW rows \in Seq(RowType),
           \/ Len(rows) = 1 /\ rows[1].id = made + 1
           \/ Len(rows) = 2 /\ rows[1].id = made + 1 /\ rows[2].id = made + 2,
           made' = made + Len(rows), cache' = Pushed(rows),
           UNCHANGED <<host, subscribed, up, tab, own>>,
           \/ Emit(Additions(rows))
           \/ Emit(Additions(rows) \o <<Event("end")>>)
    PROVE  CoreInv' /\ DOMAIN down' = Tabs
<1>1. /\ Joins(rows, made, Awaited, made + Len(rows))
      /\ Awaited \ Ids(rows) = Awaited
  BY NewRows
<1>2. /\ CacheOK(cache', made', Awaited)
      /\ \A c \in Tabs : TabOK(cache', made', Awaited, host.n, subscribed[c],
                               tab[c].messages, Sent(Additions(rows))[c], own[c])
  BY <1>1, RowsSent
<1>3. ASSUME NEW c \in Tabs
      PROVE  TabOK(cache', made', Awaited, host.n, subscribed[c], tab[c].messages, down'[c], own[c])
  <2>1. CASE Emit(Additions(rows))
    BY <1>2, <2>1 DEF Emit
  <2>2. CASE Emit(Additions(rows) \o <<Event("end")>>)
    <3> DEFINE a == Additions(rows)
               s == Sent(a)[c]
    <3>1. a \in Seq(Messages) /\ down[c] \in Seq(Messages) /\ Event("end") \in Messages
      BY AdditionsForm, SignalForms DEF CoreInv, TabOK, WellFormed, Signals
    <3>2. down'[c] = Delivered(subscribed[c], host.n, down[c], a \o <<Event("end")>>)
      BY <2>2, SentToTab DEF Emit
    <3>3. s = Delivered(subscribed[c], host.n, down[c], a)
      BY SentToTab
    <3>4. s \in Seq(Messages) /\ TabOK(cache', made', Awaited, host.n, subscribed[c], tab[c].messages, s, own[c])
      BY <1>2 DEF TabOK, WellFormed
    <3> HIDE DEF a, s
    <3>5. CASE subscribed[c] = host.n
      <4>1. down[c] \o (a \o <<Event("end")>>) = (down[c] \o a) \o <<Event("end")>>
        <5>1. <<Event("end")>> \in Seq(Messages)
          BY <3>1
        <5> DEFINE x == down[c]
                   z == <<Event("end")>>
        <5>2. x \in Seq(Messages) /\ z \in Seq(Messages)
          BY <3>1, <5>1
        <5> HIDE DEF x, z
        <5>3. (x \o a) \o z = x \o (a \o z)
          BY <3>1, <5>2, ConcatAssociative
        <5> QED BY <5>3 DEF x, z
      <4>2. down'[c] = s \o <<Event("end")>>
        BY <3>2, <3>3, <3>5, <4>1 DEF Delivered
      <4>3. down'[c] = Append(s, Event("end"))
        BY <3>1, <3>4, <4>2, AppendIsConcat
      <4>4. host.n \in Nat \ {0} /\ "end" \in Signals
        BY DEF Types, HostType, Signals
      <4> QED BY <3>4, <3>5, <4>3, <4>4, TabSignal
    <3>6. CASE subscribed[c] # host.n
      BY <3>2, <3>3, <3>4, <3>6 DEF Delivered
    <3> QED BY <3>5, <3>6
  <2> QED BY <2>1, <2>2
<1>4. Awaited' = Awaited /\ AwaitedOnce'
      /\ \A c \in Tabs : subscribed'[c] = -1 => up'[c] = <<>>
  BY DEF CoreInv, Awaited, Awaits, AwaitedOnce
<1>5. CoreInv'
  BY <1>2, <1>3, <1>4 DEF CoreInv
<1>6. DOMAIN down' = Tabs
  BY DEF Sent, Emit
<1> QED BY <1>5, <1>6

(* One row of the server. *)
LEMMA OneRow ==
    ASSUME Types, NEW by \in Authors
    PROVE  /\ <<Row(made + 1, by)>> \in Seq(RowType) /\ Len(<<Row(made + 1, by)>>) = 1
           /\ <<Row(made + 1, by)>>[1].id = made + 1
           /\ <<Added(Row(made + 1, by))>> = Additions(<<Row(made + 1, by)>>)
<1>1. Row(made + 1, by) \in RowType /\ Row(made + 1, by).id = made + 1
  BY DEF Types, Row, RowType
<1> QED BY <1>1 DEF Additions

(* tool_execution_end. *)
LEMMA ToolEndCore == ASSUME Types, CoreInv, ChatAssumption, ToolEnd PROVE Types' /\ CoreInv'
<1>1. turn' \in TurnType
  BY DEF ToolEnd, Types, TurnType
<1>2. CASE turn.tool = "running"
  <2>1. UNCHANGED <<made, cache, down, host, subscribed, up, tab, own, witness>>
    BY <1>2 DEF ToolEnd
  <2> QED BY <1>1, <2>1 DEF Types, CoreInv, Awaited, Awaits, AwaitedOnce
<1>3. CASE turn.tool # "running"
  <2> DEFINE rows == <<Row(made + 1, FollowUp)>>
  <2>1. FollowUp \in Authors
    BY DEF FollowUp, Authors
  <2>2. /\ rows \in Seq(RowType) /\ Len(rows) = 1 /\ rows[1].id = made + 1
        /\ <<Added(Row(made + 1, FollowUp))>> = Additions(rows)
    BY <2>1, OneRow
  <2>3. /\ made' = made + 1 /\ cache' = Pushed(rows)
        /\ Emit(<<Added(Row(made + 1, FollowUp))>>)
        /\ UNCHANGED <<host, subscribed, up, tab, own, witness>>
    BY <1>3 DEF ToolEnd
  <2> HIDE DEF rows
  <2>4. CoreInv' /\ DOMAIN down' = Tabs
    BY <2>2, <2>3, RowsStep
  <2>5. Types'
    BY <1>1, <2>3, <2>4, TypesOnServer DEF Types
  <2> QED BY <2>4, <2>5
<1> QED BY <1>2, <1>3

(* A row of the system. *)
LEMMA SystemRowCore == ASSUME Types, CoreInv, ChatAssumption, SystemRow PROVE Types' /\ CoreInv'
<1> DEFINE rows == <<Row(made + 1, "system")>>
<1>1. turn' \in TurnType
  BY DEF SystemRow, Types, TurnType
<1>2. "system" \in Authors
  BY DEF Authors
<1>3. /\ rows \in Seq(RowType) /\ Len(rows) = 1 /\ rows[1].id = made + 1
      /\ <<Added(Row(made + 1, "system"))>> = Additions(rows)
  BY <1>2, OneRow
<1>4. /\ made' = made + 1 /\ cache' = Pushed(rows)
      /\ Emit(<<Added(Row(made + 1, "system"))>>)
      /\ UNCHANGED <<host, subscribed, up, tab, own, witness>>
  BY DEF SystemRow
<1> HIDE DEF rows
<1>5. CoreInv' /\ DOMAIN down' = Tabs
  BY <1>3, <1>4, RowsStep
<1>6. Types'
  BY <1>1, <1>4, <1>5, TypesOnServer DEF Types
<1> QED BY <1>5, <1>6

(* message_end: the row of the assistant, the row of an error, or both. *)
LEMMA MessageEndCore ==
    ASSUME Types, CoreInv, ChatAssumption, NEW failed \in BOOLEAN, MessageEnd(failed)
    PROVE  Types' /\ CoreInv'
<1> DEFINE error == IF failed THEN <<Row(made + Len(Committed) + 1, "system")>> ELSE <<>>
           rows == Committed \o error
<1>1. turn' \in TurnType
  BY DEF MessageEnd, AfterCommit, Types, TurnType
<1>2. /\ rows # <<>>
      /\ made' = made + Len(rows) /\ cache' = Pushed(rows)
      /\ Emit([i \in 1..Len(rows) |-> Added(rows[i])] \o <<Event("end")>>)
      /\ UNCHANGED <<host, subscribed, up, tab, own, witness>>
  BY DEF MessageEnd
<1>3. /\ error \in Seq(RowType) /\ Len(error) \in 0..1
      /\ Len(error) = 1 => error[1].id = made + Len(Committed) + 1
  <2>1. Row(made + Len(Committed) + 1, "system") \in RowType
    BY CommittedForm DEF Types, Row, RowType, Authors
  <2> QED BY <2>1 DEF Row
<1> HIDE DEF error
<1>4. /\ rows \in Seq(RowType) /\ Len(rows) = Len(Committed) + Len(error)
      /\ \A i \in 1..(Len(Committed) + Len(error)) :
            rows[i] = IF i <= Len(Committed) THEN Committed[i] ELSE error[i - Len(Committed)]
  BY <1>3, CommittedForm, ConcatProperties
<1>5. Len(Committed) = 1 => Committed[1].id = made + 1
  BY CommittedForm DEF Row
<1>6. Len(rows) # 0
  BY <1>2, <1>4
<1> HIDE DEF rows
<1>7. \/ Len(rows) = 1 /\ rows[1].id = made + 1
      \/ Len(rows) = 2 /\ rows[1].id = made + 1 /\ rows[2].id = made + 2
  <2>1. Len(Committed) \in 0..1
    BY CommittedForm
  <2>2. made \in Nat
    BY DEF Types
  <2> QED BY <1>3, <1>4, <1>5, <1>6, <2>1, <2>2
<1>8. Emit(Additions(rows) \o <<Event("end")>>)
  BY <1>2 DEF Additions
<1>9. CoreInv' /\ DOMAIN down' = Tabs
  BY <1>2, <1>4, <1>7, <1>8, RowsStep
<1>10. Types'
  BY <1>1, <1>2, <1>4, <1>9, TypesOnServer DEF Types
<1> QED BY <1>9, <1>10

(* A message of a tab that is not one of Tabs. *)
LEMMA ServeElsewhereCore ==
    ASSUME Types, CoreInv, ChatAssumption, NEW steering \in BOOLEAN, ServeElsewhere(steering)
    PROVE  Types' /\ CoreInv'
<1> DEFINE first == Flushed(steering)
           mine == <<Row(made + Len(first) + 1, "user")>>
           rows == first \o mine
<1>1. turn' \in TurnType
  <2>1. turn \in TurnType /\ AfterCommit \in TurnType
    BY DEF AfterCommit, Types, TurnType
  <2>2. PICK accepted \in BOOLEAN :
          turn' = [(IF first = <<>> THEN turn ELSE AfterCommit) EXCEPT !.on = @ \/ accepted]
    BY DEF ServeElsewhere
  <2>3. \A t \in TurnType : [t EXCEPT !.on = @ \/ accepted] \in TurnType
    BY DEF TurnType
  <2> HIDE DEF first
  <2> QED BY <2>1, <2>2, <2>3
<1>2. /\ made' = made + Len(rows) /\ cache' = Pushed(rows)
      /\ Emit([i \in 1..Len(rows) |-> Added(rows[i])])
      /\ UNCHANGED <<host, subscribed, up, tab, own, witness>>
  BY DEF ServeElsewhere
<1>3. /\ first \in Seq(RowType) /\ Len(first) \in 0..1
      /\ Len(first) = 1 => first[1].id = made + 1
  BY CommittedForm DEF Flushed, Row
<1> HIDE DEF first
<1>4. /\ mine \in Seq(RowType) /\ Len(mine) = 1 /\ mine[1].id = made + Len(first) + 1
  <2>1. Row(made + Len(first) + 1, "user") \in RowType
    BY <1>3 DEF Types, Row, RowType, Authors
  <2> QED BY <2>1 DEF Row
<1> HIDE DEF mine
<1>5. /\ rows \in Seq(RowType) /\ Len(rows) = Len(first) + Len(mine)
      /\ \A i \in 1..(Len(first) + Len(mine)) :
            rows[i] = IF i <= Len(first) THEN first[i] ELSE mine[i - Len(first)]
  BY <1>3, <1>4, ConcatProperties
<1> HIDE DEF rows
<1>6. \/ Len(rows) = 1 /\ rows[1].id = made + 1
      \/ Len(rows) = 2 /\ rows[1].id = made + 1 /\ rows[2].id = made + 2
  <2>1. made \in Nat
    BY DEF Types
  <2> QED BY <1>3, <1>4, <1>5, <2>1
<1>7. Emit(Additions(rows))
  BY <1>2 DEF Additions
<1>8. CoreInv' /\ DOMAIN down' = Tabs
  BY <1>2, <1>5, <1>6, <1>7, RowsStep
<1>9. Types'
  BY <1>1, <1>2, <1>5, <1>8, TypesOnServer DEF Types
<1> QED BY <1>8, <1>9

-----------------------------------------------------------------------------
(* The steps of a connection *)

(* A request is taken from a channel. *)
LEMMA RequestTaken ==
    ASSUME Types, CoreInv, NEW c \in Tabs, up[c] # <<>>, up' = [up EXCEPT ![c] = Tail(@)]
    PROVE  /\ up' \in [Tabs -> {<<>>} \cup {<<m>> : m \in Requests}]
           /\ up'[c] = <<>> /\ \A e \in Tabs \ {c} : up'[e] = up[e]
           /\ Head(up[c]) = up[c][1] /\ up[c][1] \in Requests
           /\ subscribed[c] # -1
           /\ Awaited' \subseteq Awaited /\ AwaitedOnce'
           /\ \A x \in Awaited' : Awaits(c) => x # up[c][1].id
<1>1. PICK m \in Requests : up[c] = <<m>>
  BY DEF Types
<1>2. /\ Head(up[c]) = up[c][1] /\ up[c][1] = m /\ Tail(up[c]) = <<>>
  BY <1>1
<1>3. /\ up' \in [Tabs -> {<<>>} \cup {<<r>> : r \in Requests}]
      /\ up'[c] = <<>> /\ \A e \in Tabs \ {c} : up'[e] = up[e]
  BY <1>2 DEF Types
<1>4. \A e \in Tabs : Awaits(e)' => e # c /\ Awaits(e) /\ up'[e] = up[e]
  BY <1>3 DEF Awaits
<1>5. Awaited' \subseteq Awaited
  BY <1>4 DEF Awaited
<1>6. AwaitedOnce'
  BY <1>4 DEF AwaitedOnce, CoreInv
<1>7. ASSUME NEW x \in Awaited', Awaits(c) PROVE x # up[c][1].id
  <2>1. PICK e \in Tabs : Awaits(e)' /\ x = up'[e][1].id
    BY DEF Awaited
  <2> QED BY <1>4, <1>7, <2>1 DEF AwaitedOnce, CoreInv
<1>8. subscribed[c] # -1
  BY DEF CoreInv
<1> QED BY <1>1, <1>2, <1>3, <1>5, <1>6, <1>7, <1>8

(* What is left to show for a step that serves a request. *)
LEMMA ServedCore ==
    ASSUME Types, CoreInv, NEW c \in Tabs, up[c] # <<>>, up' = [up EXCEPT ![c] = Tail(@)],
           UNCHANGED <<host, tab, own, witness>>,
           made' \in Nat, turn' \in TurnType, DOMAIN down' = Tabs,
           subscribed' \in [Tabs -> Nat \cup {-1}],
           \A e \in Tabs : subscribed'[e] = -1 => subscribed[e] = -1,
           NEW X, Awaited' \subseteq X, CacheOK(cache', made', X),
           \A e \in Tabs : TabOK(cache', made', X, host.n, subscribed'[e], tab[e].messages,
                                 down'[e], own[e])
    PROVE  Types' /\ CoreInv'
<1>1. Types'
  BY RequestTaken DEF Types
<1>2. CacheOK(cache', made', Awaited')
  BY FewerAwaited
<1>3. \A e \in Tabs : TabOK(cache', made', Awaited', host'.n, subscribed'[e],
                            tab'[e].messages, down'[e], own'[e])
  BY FewerAwaited
<1>4. AwaitedOnce' /\ \A e \in Tabs : subscribed'[e] = -1 => up'[e] = <<>>
  BY RequestTaken DEF CoreInv
<1> QED BY <1>1, <1>2, <1>3, <1>4 DEF CoreInv

(* An error is returned. *)
LEMMA ErrorReturned ==
    ASSUME Types, CoreInv, NEW c \in Tabs, up[c] # <<>>, up' = [up EXCEPT ![c] = Tail(@)],
           Reply(c, <<Event("error")>>), UNCHANGED <<server, subscribed, tab, own, witness>>
    PROVE  Types' /\ CoreInv'
<1>1. /\ host.n \in Nat \ {0} /\ made \in Nat /\ turn \in TurnType /\ DOMAIN down = Tabs
      /\ subscribed \in [Tabs -> Nat \cup {-1}]
  BY DEF Types, HostType
<1>2. /\ made' = made /\ cache' = cache /\ turn' = turn /\ host' = host
      /\ subscribed' = subscribed
  BY DEF server
<1>3. CacheOK(cache, made, Awaited)
  BY DEF CoreInv
<1>4. ASSUME NEW e \in Tabs
      PROVE  TabOK(cache, made, Awaited, host.n, subscribed[e], tab[e].messages, down'[e], own[e])
  <2>1. TabOK(cache, made, Awaited, host.n, subscribed[e], tab[e].messages, down[e], own[e])
    BY DEF CoreInv
  <2>2. CASE e = c
    <3>1. down[c] \in Seq(Messages) /\ Event("error") \in Messages /\ "error" \in Signals
      BY <2>1, <2>2, SignalForms DEF TabOK, WellFormed, Signals
    <3>2. down'[c] = down[c] \o <<Event("error")>>
      BY <1>1 DEF Reply
    <3>3. down'[c] = Append(down[c], Event("error"))
      BY <3>1, <3>2, AppendIsConcat
    <3> QED BY <1>1, <2>1, <2>2, <3>1, <3>3, TabSignal
  <2>3. CASE e # c
    BY <2>1, <2>3 DEF Reply
  <2> QED BY <2>2, <2>3
<1>5. DOMAIN down' = Tabs
  BY <1>1 DEF Reply
<1>6. Awaited' \subseteq Awaited
  BY RequestTaken
<1> QED BY <1>1, <1>2, <1>3, <1>4, <1>5, <1>6, ServedCore

(* The snapshot and what may follow it. *)
LEMMA SwitchServed ==
    ASSUME Types, CoreInv, NEW c \in Tabs, up[c] # <<>>, up' = [up EXCEPT ![c] = Tail(@)],
           Alive, ServeSwitch(c), UNCHANGED <<tab, own, witness>>
    PROVE  Types' /\ CoreInv'
<1> DEFINE s == Subscription(c)
           M == tab[c].messages
           O == own[c]
           first == Append(down[c], Snapshot)
<1>1. /\ host.n \in Nat \ {0} /\ made \in Nat /\ turn \in TurnType /\ DOMAIN down = Tabs
      /\ subscribed \in [Tabs -> Nat \cup {-1}]
  BY DEF Types, HostType
<1>2. /\ made' = made /\ cache' = cache /\ turn' = turn /\ host' = host
      /\ subscribed' = [subscribed EXCEPT ![c] = s]
      /\ down' = [down EXCEPT ![c] = down[c] \o (<<Snapshot>> \o IF turn.on THEN <<>> ELSE <<Event("ready")>>)]
  BY DEF ServeSwitch, server, Reply
<1>3. CacheOK(cache, made, Awaited)
  BY DEF CoreInv
<1>4. TabOK(cache, made, Awaited, host.n, subscribed[c], M, down[c], O)
  BY DEF CoreInv
<1>5. subscribed[c] # -1 /\ s = (IF subscribed[c] = 0 THEN host.n ELSE subscribed[c])
  BY RequestTaken DEF Subscription
<1>6. TabOK(cache, made, Awaited, host.n, s, M, first, O)
  BY <1>1, <1>3, <1>4, <1>5, TabSnapshot DEF Snapshot
<1>7. /\ down[c] \in Seq(Messages) /\ Snapshot \in Messages /\ Event("ready") \in Messages
      /\ "ready" \in Signals /\ first \in Seq(Messages)
  <2>1. down[c] \in Seq(Messages) /\ first \in Seq(Messages)
    BY <1>4, <1>6 DEF TabOK, WellFormed
  <2>2. Snapshot \in Messages
    BY <1>3 DEF CacheOK, Messages, Snapshot
  <2> QED BY <2>1, <2>2, SignalForms DEF Signals
<1>8. s \in Nat \cup {-1} /\ s # -1 /\ s > 0
  BY <1>1, <1>5
<1> HIDE DEF s, M, O
<1>9. TabOK(cache, made, Awaited, host.n, s, M, down'[c], O)
  <2>1. CASE turn.on
    <3>1. down'[c] = down[c] \o <<Snapshot>>
      BY <1>1, <1>2, <2>1
    <3>2. down'[c] = first
      BY <1>7, <3>1, AppendIsConcat
    <3> QED BY <1>6, <3>2
  <2>2. CASE ~turn.on
    <3>1. down'[c] = down[c] \o <<Snapshot, Event("ready")>>
      BY <1>1, <1>2, <2>2
    <3>2. down'[c] = Append(first, Event("ready"))
      BY <1>7, <3>1, ConcatForms
    <3> QED BY <1>1, <1>6, <1>7, <1>8, <3>2, TabSignal
  <2> QED BY <2>1, <2>2
<1>10. \A e \in Tabs : TabOK(cache', made', Awaited, host.n, subscribed'[e], tab[e].messages,
                             down'[e], own[e])
  BY <1>1, <1>2, <1>9 DEF CoreInv, M, O
<1>11. DOMAIN down' = Tabs /\ subscribed' \in [Tabs -> Nat \cup {-1}]
  BY <1>1, <1>2, <1>8
<1>12. Awaited' \subseteq Awaited
  BY RequestTaken
<1> QED BY <1>1, <1>2, <1>3, <1>8, <1>10, <1>11, <1>12, ServedCore

(* The rows of a message, and its rejection. *)
LEMMA MessageServed ==
    ASSUME Types, CoreInv, ChatAssumption,
           NEW c \in Tabs, up[c] # <<>>, up' = [up EXCEPT ![c] = Tail(@)], Awaits(c),
           NEW accepted \in BOOLEAN, Alive, ServeMessage(c, up[c][1], accepted),
           UNCHANGED <<tab, own, witness>>
    PROVE  Types' /\ CoreInv'
<1> DEFINE message == up[c][1]
           first == Flushed(message.type = "steer")
           mine == <<Row(message.id, "user")>>
           rows == first \o mine
           more == made + Len(first)
           X == Awaited \ Ids(rows)
           added == [i \in 1..Len(rows) |-> Added(rows[i])]
           reply == IF accepted THEN <<>> ELSE <<Event("error")>>
<1>1. /\ host.n \in Nat \ {0} /\ made \in Nat /\ turn \in TurnType /\ DOMAIN down = Tabs
      /\ subscribed \in [Tabs -> Nat \cup {-1}]
  BY DEF Types, HostType
<1>2. /\ made' = more /\ cache' = Pushed(rows)
      /\ turn' = [(IF first = <<>> THEN turn ELSE AfterCommit) EXCEPT !.on = @ \/ accepted]
      /\ down' = [Sent(added) EXCEPT ![c] = Sent(added)[c] \o reply]
      /\ UNCHANGED <<host, subscribed>>
  BY DEF ServeMessage
<1>3. /\ message \in Requests /\ message.type # "switch" /\ message.id \in Nat
      /\ message.id \in Awaited /\ message.id <= made
  <2>1. message \in Requests /\ message.type # "switch" /\ message.id \in Awaited
    BY RequestTaken DEF Awaits, Awaited
  <2> QED BY <2>1 DEF CoreInv, CacheOK
<1> HIDE DEF message
<1>4. turn' \in TurnType
  <2>1. turn \in TurnType /\ AfterCommit \in TurnType
    BY DEF AfterCommit, Types, TurnType
  <2>2. \A t \in TurnType : [t EXCEPT !.on = @ \/ accepted] \in TurnType
    BY DEF TurnType
  <2> HIDE DEF first
  <2> QED BY <1>2, <2>1, <2>2
<1>5. /\ first \in Seq(RowType) /\ Len(first) \in 0..1
      /\ Len(first) = 1 => first[1].id = made + 1
  BY CommittedForm DEF Flushed, Row
<1> HIDE DEF first
<1>6. mine \in Seq(RowType) /\ Len(mine) = 1 /\ mine[1].id = message.id
  <2>1. Row(message.id, "user") \in RowType
    BY <1>3 DEF Row, RowType, Authors
  <2> QED BY <2>1 DEF Row
<1> HIDE DEF mine
<1>7. /\ rows \in Seq(RowType) /\ Len(rows) = Len(first) + Len(mine)
      /\ \A i \in 1..(Len(first) + Len(mine)) :
            rows[i] = IF i <= Len(first) THEN first[i] ELSE mine[i - Len(first)]
  BY <1>5, <1>6, ConcatProperties
<1> HIDE DEF rows
<1>8. \/ Len(rows) = 1 /\ rows[1].id = message.id
      \/ Len(rows) = 2 /\ rows[1].id = made + 1 /\ rows[2].id = message.id
  BY <1>1, <1>5, <1>6, <1>7
<1>9. /\ Joins(rows, made, Awaited, more) /\ more \in Nat
      /\ \A id \in Ids(rows) : id = message.id \/ id = made + 1
  <2>1. Len(rows) = Len(first) + 1 /\ Len(first) \in Nat
    BY <1>5, <1>6, <1>7
  <2>2. Joins(rows, made, Awaited, more) /\ more \in Nat
    BY <1>1, <1>3, <1>7, <1>8, <2>1 DEF Joins
  <2>3. ASSUME NEW i \in 1..Len(rows) PROVE rows[i].id = message.id \/ rows[i].id = made + 1
    BY <1>8
  <2> QED BY <2>2, <2>3 DEF Ids
<1>10. /\ CacheOK(cache', more, X)
       /\ \A e \in Tabs : TabOK(cache', more, X, host.n, subscribed[e],
                                tab[e].messages, Sent(added)[e], own[e])
  <2>1. added = Additions(rows)
    BY DEF Additions
  <2> HIDE DEF added, more
  <2> QED BY <1>2, <1>9, <2>1, RowsSent
<1>11. ASSUME NEW e \in Tabs
       PROVE  TabOK(cache', more, X, host.n, subscribed[e], tab[e].messages, down'[e], own[e])
  <2> DEFINE s == Sent(added)[e]
  <2>1. TabOK(cache', more, X, host.n, subscribed[e], tab[e].messages, s, own[e])
    BY <1>10
  <2>2. s \in Seq(Messages) /\ Event("error") \in Messages /\ "error" \in Signals
    BY <2>1, SignalForms DEF TabOK, WellFormed, Signals
  <2>3. DOMAIN Sent(added) = Tabs
    BY DEF Sent
  <2>4. CASE e = c /\ ~accepted
    <3>1. down'[e] = s \o <<Event("error")>>
      BY <1>2, <2>3, <2>4
    <3> HIDE DEF s
    <3>2. down'[e] = Append(s, Event("error"))
      BY <2>2, <3>1, AppendIsConcat
    <3> HIDE DEF X, more
    <3> QED BY <1>1, <2>1, <2>2, <3>2, TabSignal
  <2>5. CASE e = c /\ accepted
    <3>1. down'[e] = s \o <<>>
      BY <1>2, <2>3, <2>5
    <3> HIDE DEF s
    <3>2. down'[e] = s
      BY <2>2, <3>1, ConcatEmptySeq
    <3> QED BY <2>1, <3>2
  <2>6. CASE e # c
    BY <1>2, <2>1, <2>3, <2>6
  <2> QED BY <2>4, <2>5, <2>6
<1>12. Awaited' \subseteq X
  <2>1. ASSUME NEW x \in Awaited' PROVE x \in Awaited /\ x # message.id /\ x <= made /\ x \in Nat
    BY RequestTaken DEF CoreInv, CacheOK, message
  <2>2. \A x \in Awaited' : x # made + 1
    BY <1>1, <2>1
  <2> QED BY <1>9, <2>1, <2>2
<1>13. DOMAIN down' = Tabs
  BY <1>2 DEF Sent
<1>14. /\ made' = more /\ more \in Nat /\ subscribed' = subscribed /\ UNCHANGED <<host, tab, own, witness>>
  BY <1>2, <1>9
<1> HIDE DEF X, more
<1> QED BY <1>1, <1>4, <1>10, <1>11, <1>12, <1>13, <1>14, ServedCore

(* handleClientMessage. *)
LEMMA ServeCore ==
    ASSUME Types, CoreInv, ChatAssumption, NEW c \in Tabs, Serve(c)
    PROVE  Types' /\ CoreInv'
<1>1. /\ up[c] # <<>> /\ up' = [up EXCEPT ![c] = Tail(@)] /\ UNCHANGED <<tab, own, witness>>
      /\ Head(up[c]) = up[c][1]
  BY RequestTaken DEF Serve
<1>2. CASE up[c][1].type = "switch"
  <2>1. ServeSwitch(c)
    BY <1>1, <1>2 DEF Serve
  <2>2. CASE ~Alive
    BY <1>1, <2>1, <2>2, ErrorReturned DEF ServeSwitch
  <2> QED BY <1>1, <2>1, <2>2, SwitchServed
<1>3. CASE up[c][1].type # "switch"
  <2>1. PICK accepted \in BOOLEAN : ServeMessage(c, up[c][1], accepted)
    BY <1>1, <1>3 DEF Serve
  <2>2. CASE ~Alive
    BY <1>1, <2>1, <2>2, ErrorReturned DEF ServeMessage
  <2> QED BY <1>1, <1>3, <2>1, <2>2, MessageServed DEF Awaits
<1> QED BY <1>2, <1>3

-----------------------------------------------------------------------------
(* The steps of a tab *)

(* onmessage. *)
LEMMA ReceiveCore ==
    ASSUME Types, CoreInv, NEW c \in Tabs, Receive(c)
    PROVE  Types' /\ CoreInv'
<1> DEFINE m == Head(down[c])
<1>1. /\ down[c] # <<>> /\ down' = [down EXCEPT ![c] = Tail(down[c])]
      /\ tab' = [tab EXCEPT ![c] = Shown(tab[c], m)]
      /\ UNCHANGED <<server, subscribed, up, own, witness>>
  BY DEF Receive
<1>2. /\ host.n \in Nat \ {0} /\ DOMAIN down = Tabs /\ tab \in [Tabs -> StoreType]
  BY DEF Types, HostType
<1>3. TabOK(cache, made, Awaited, host.n, subscribed[c], tab[c].messages, down[c], own[c])
  BY DEF CoreInv
<1>4. down[c] \in Seq(Messages) /\ Distinct(tab[c].messages)
  BY <1>3 DEF TabOK, WellFormed
<1>5. m \in Messages
  BY <1>1, <1>4, TailShifts
<1>6. Shown(tab[c], m) \in StoreType /\ Shown(tab[c], m).messages = Heard(tab[c].messages, m)
  BY <1>2, <1>4, <1>5, ShownForms
<1> HIDE DEF m
<1>7. tab'[c].messages = Heard(tab[c].messages, m) /\ tab' \in [Tabs -> StoreType]
  BY <1>1, <1>2, <1>6
<1>8. TabOK(cache, made, Awaited, host.n, subscribed[c], tab'[c].messages, down'[c], own[c])
  BY <1>1, <1>2, <1>3, <1>7, TabHear DEF m
<1>9. Awaited' = Awaited /\ AwaitedOnce'
  BY <1>1 DEF Awaited, Awaits, AwaitedOnce, CoreInv
<1>10. \A e \in Tabs : TabOK(cache', made', Awaited', host'.n, subscribed'[e],
                             tab'[e].messages, down'[e], own'[e])
  BY <1>1, <1>2, <1>8, <1>9 DEF CoreInv, server
<1>11. CoreInv'
  BY <1>1, <1>9, <1>10 DEF CoreInv, server
<1>12. Types'
  BY <1>1, <1>7 DEF Types, server
<1> QED BY <1>11, <1>12

(* The user sends a message: its row is awaited, and may be shown at once. *)
LEMMA SubmitCore ==
    ASSUME Types, CoreInv, NEW c \in Tabs, Submit(c)
    PROVE  Types' /\ CoreInv'
<1> DEFINE x == made + 1
           kind == IF tab[c].streaming THEN "steer" ELSE "user"
<1>1. /\ Connected(c) /\ up[c] = <<>>
      /\ made' = x
      /\ up' = [up EXCEPT ![c] = <<[type |-> kind, id |-> x]>>]
      /\ tab' = [tab EXCEPT ![c] = WithOwn(tab[c], x)]
      /\ own' = [own EXCEPT ![c] = IF tab[c].streaming THEN own[c] ELSE own[c] \cup {x}]
      /\ UNCHANGED <<cache, turn, host, subscribed, down, witness>>
  BY DEF Submit
<1>2. /\ host.n \in Nat \ {0} /\ made \in Nat /\ tab \in [Tabs -> StoreType] /\ x \in Nat
      /\ own \in [Tabs -> SUBSET Nat]
      /\ up \in [Tabs -> {<<>>} \cup {<<m>> : m \in Requests}]
  BY DEF Types, HostType
<1>3. [type |-> kind, id |-> x] \in Requests
  BY <1>2 DEF Requests
<1>4. /\ up'[c] = <<[type |-> kind, id |-> x]>> /\ \A e \in Tabs \ {c} : up'[e] = up[e]
      /\ up' \in [Tabs -> {<<>>} \cup {<<m>> : m \in Requests}]
  BY <1>1, <1>2, <1>3
<1>5. up'[c][1].id = x
  BY <1>4
<1>6. \A e \in Tabs : Awaits(e)' => e = c \/ (Awaits(e) /\ up'[e] = up[e])
  BY <1>4 DEF Awaits
<1>7. Awaited' \subseteq Awaited \cup {x}
  BY <1>5, <1>6 DEF Awaited
<1>8. AwaitedOnce'
  <2>1. \A e \in Tabs : Awaits(e) => up[e][1].id \in Awaited
    BY DEF Awaited
  <2>2. \A id \in Awaited : id # x
    BY <1>2 DEF CoreInv, CacheOK
  <2> QED BY <1>5, <1>6, <2>1, <2>2 DEF AwaitedOnce, CoreInv
<1> HIDE DEF kind
<1>9. CacheOK(cache, x, Awaited \cup {x})
  <2>1. \A id \in Ids(cache) : id \in Nat
    BY RowIds, IdsOfRows DEF CoreInv, CacheOK
  <2> QED BY <1>2, <2>1 DEF CoreInv, CacheOK
<1>10. tab' \in [Tabs -> StoreType]
  <2>1. WithOwn(tab[c], x) \in StoreType
    <3>1. Row(x, "user") \in RowType
      BY <1>2 DEF Row, RowType, Authors
    <3>2. tab[c] \in StoreType /\ tab[c].messages \in Seq(RowType)
      BY <1>2 DEF StoreType
    <3>3. Append(tab[c].messages, Row(x, "user")) \in Seq(RowType)
      BY <3>1, <3>2, AppendProperties
    <3> QED BY <3>2, <3>3 DEF WithOwn, StoreType
  <2> QED BY <1>1, <1>2, <2>1
<1>11. ASSUME NEW e \in Tabs
       PROVE  TabOK(cache, x, Awaited \cup {x}, host.n, subscribed[e], tab'[e].messages, down[e], own'[e])
  <2>1. TabOK(cache, made, Awaited, host.n, subscribed[e], tab[e].messages, down[e], own[e])
    BY DEF CoreInv
  <2>2. CASE e = c /\ ~tab[c].streaming
    <3>1. tab'[e].messages = Append(tab[e].messages, Row(x, "user")) /\ own'[e] = own[e] \cup {x}
      BY <1>1, <1>2, <2>2 DEF WithOwn, StoreType
    <3>2. CacheOK(cache, made, Awaited) /\ "user" \in Authors
      BY DEF CoreInv, Authors
    <3>3. TabOK(cache, made + 1, Awaited \cup {made + 1}, host.n, subscribed[e],
                Append(tab[e].messages, Row(made + 1, "user")), down[e], own[e] \cup {made + 1})
      BY <1>2, <2>1, <3>2, TabInsert
    <3> QED BY <3>1, <3>3
  <2>3. CASE e # c \/ tab[c].streaming
    <3>1. tab'[e].messages = tab[e].messages /\ own'[e] = own[e]
      BY <1>1, <1>2, <2>3 DEF WithOwn
    <3> QED BY <1>2, <2>1, <3>1, TabAwaits
  <2> QED BY <2>2, <2>3
<1>12. CacheOK(cache', made', Awaited')
  BY <1>1, <1>7, <1>9, FewerAwaited
<1> HIDE DEF x
<1>13. \A e \in Tabs : TabOK(cache', made', Awaited', host'.n, subscribed'[e],
                             tab'[e].messages, down'[e], own'[e])
  BY <1>1, <1>7, <1>11, FewerAwaited
<1>14. \A e \in Tabs : subscribed'[e] = -1 => up'[e] = <<>>
  BY <1>1, <1>4 DEF CoreInv, Connected
<1>15. CoreInv'
  BY <1>8, <1>12, <1>13, <1>14 DEF CoreInv
<1>16. own' \in [Tabs -> SUBSET Nat]
  BY <1>1, <1>2
<1>17. Types'
  BY <1>1, <1>2, <1>4, <1>10, <1>16 DEF Types
<1> QED BY <1>15, <1>17

\* A connection opens, closes or asks again.
Reconnects(c) == Revisit(c) \/ Drop(c) \/ Connect(c)

(* A connection opens, closes or asks again. *)
LEMMA ReconnectCore ==
    ASSUME Types, CoreInv, NEW c \in Tabs, Reconnects(c)
    PROVE  Types' /\ CoreInv'
<1>1. /\ host.n \in Nat \ {0} /\ DOMAIN down = Tabs /\ tab \in [Tabs -> StoreType]
      /\ subscribed \in [Tabs -> Nat \cup {-1}]
      /\ up \in [Tabs -> {<<>>} \cup {<<m>> : m \in Requests}]
  BY DEF Types, HostType
<1>2. /\ \A e \in Tabs \ {c} : /\ up'[e] = up[e] /\ subscribed'[e] = subscribed[e]
                               /\ down'[e] = down[e] /\ tab'[e] = tab[e]
      /\ UNCHANGED <<server, own>>
      /\ tab'[c].messages = tab[c].messages /\ tab' \in [Tabs -> StoreType]
      /\ subscribed' \in [Tabs -> Nat \cup {-1}]
      /\ DOMAIN down' = Tabs
      /\ witness' \in SUBSET Tabs
  <2>1. witness \in SUBSET Tabs
    BY DEF Types
  <2>2. CASE Revisit(c)
    BY <1>1, <2>1, <2>2 DEF Revisit
  <2>3. CASE Drop(c)
    <3> DEFINE t == [Fresh EXCEPT !.messages = tab[c].messages]
    <3>1. t \in StoreType /\ t.messages = tab[c].messages
      BY <1>1 DEF Fresh, StoreType
    <3> HIDE DEF t
    <3>2. tab' = [tab EXCEPT ![c] = t]
      BY <2>3 DEF Drop, t
    <3>3. tab' \in [Tabs -> StoreType] /\ tab'[c] = t /\ \A e \in Tabs \ {c} : tab'[e] = tab[e]
      BY <1>1, <3>1, <3>2
    <3> QED BY <1>1, <2>1, <2>3, <3>1, <3>3 DEF Drop
  <2>4. CASE Connect(c)
    BY <1>1, <2>1, <2>4 DEF Connect
  <2> QED BY <2>2, <2>3, <2>4 DEF Reconnects
<1>3. up'[c] = <<>> \/ up'[c] = <<[type |-> "switch"]>>
  BY <1>1 DEF Reconnects, Revisit, Drop, Connect
<1>4. up' \in [Tabs -> {<<>>} \cup {<<m>> : m \in Requests}]
  BY <1>1 DEF Reconnects, Revisit, Drop, Connect, Requests
<1>5. \A e \in Tabs : Awaits(e)' => Awaits(e) /\ up'[e] = up[e]
  BY <1>2, <1>3 DEF Awaits
<1>6. Awaited' \subseteq Awaited /\ AwaitedOnce'
  BY <1>5 DEF Awaited, AwaitedOnce, CoreInv
<1>7. TabOK(cache, made, Awaited, host.n, subscribed'[c], tab[c].messages, down'[c], own[c])
  <2>1. TabOK(cache, made, Awaited, host.n, subscribed[c], tab[c].messages, down[c], own[c])
    BY DEF CoreInv
  <2>2. CASE Revisit(c)
    BY <2>1, <2>2 DEF Revisit
  <2>3. CASE Drop(c)
    <3>1. subscribed'[c] = -1 /\ down'[c] = <<>>
      BY <1>1, <2>3 DEF Drop
    <3> QED BY <1>1, <2>1, <3>1, TabDrops
  <2>4. CASE Connect(c)
    <3>1. subscribed[c] = -1 /\ subscribed'[c] = 0 /\ down'[c] = down[c]
      BY <1>1, <2>4 DEF Connect, Connected
    <3> QED BY <1>1, <2>1, <3>1, TabConnects
  <2> QED BY <2>2, <2>3, <2>4 DEF Reconnects
<1>8. \A e \in Tabs : TabOK(cache', made', Awaited, host'.n, subscribed'[e],
                            tab'[e].messages, down'[e], own'[e])
  BY <1>2, <1>7 DEF CoreInv, server
<1>9. CacheOK(cache', made', Awaited') /\ \A e \in Tabs : TabOK(cache', made', Awaited', host'.n,
            subscribed'[e], tab'[e].messages, down'[e], own'[e])
  <2>1. CacheOK(cache', made', Awaited)
    BY <1>2 DEF CoreInv, server
  <2> QED BY <1>6, <1>8, <2>1, FewerAwaited
<1>10. \A e \in Tabs : subscribed'[e] = -1 => up'[e] = <<>>
  <2>1. subscribed'[c] = -1 => up'[c] = <<>>
    BY <1>1 DEF Reconnects, Revisit, Drop, Connect, Connected
  <2> QED BY <1>2, <2>1 DEF CoreInv
<1>11. CoreInv'
  BY <1>6, <1>9, <1>10 DEF CoreInv
<1>12. Types'
  BY <1>2, <1>4 DEF Types, server
<1> QED BY <1>11, <1>12

-----------------------------------------------------------------------------
(* Every step *)

(* The turn streams, or ends. *)
LEMMA SignalsCore ==
    ASSUME Types, CoreInv, Stream \/ ToolStart \/ AgentEnd
    PROVE  Types' /\ CoreInv'
<1>1. /\ turn' \in TurnType /\ witness' \in SUBSET Tabs
      /\ UNCHANGED <<made, cache, host, subscribed, up, tab, own>>
  BY DEF Stream, ToolStart, AgentEnd, Types, TurnType, Listening
<1>2. PICK name \in Signals : Emit(<<Event(name)>>)
  BY DEF Stream, ToolStart, AgentEnd, Signals
<1>3. CoreInv' /\ DOMAIN down' = Tabs
  BY <1>1, <1>2, SignalStep
<1>4. Types'
  BY <1>1, <1>3, TypesOnServer DEF Types
<1> QED BY <1>3, <1>4

(* The agent is terminated or resurrected. *)
LEMMA HostCore ==
    ASSUME Types, CoreInv, Terminate \/ Resurrect
    PROVE  Types' /\ CoreInv'
<1>1. /\ UNCHANGED <<made, cache, subscribed, down, up, tab, own>>
      /\ turn' \in TurnType /\ witness' \in SUBSET Tabs
      /\ host' \in HostType /\ (host'.n = host.n \/ host'.n = host.n + 1)
  <2>1. turn \in TurnType /\ host \in HostType /\ witness \in SUBSET Tabs
    BY DEF Types
  <2>2. CASE Terminate
    BY <2>1, <2>2 DEF Terminate, HostType, TurnType, Idle
  <2>3. CASE Resurrect
    BY <2>1, <2>3 DEF Resurrect, HostType
  <2> QED BY <2>2, <2>3
<1>2. host.n \in Nat \ {0}
  BY DEF Types, HostType
<1>3. \A c \in Tabs : TabOK(cache, made, Awaited, host'.n, subscribed[c],
                            tab[c].messages, down[c], own[c])
  BY <1>1, <1>2, TabNewHost DEF CoreInv
<1>4. Awaited' = Awaited /\ AwaitedOnce'
  BY <1>1 DEF Awaited, Awaits, AwaitedOnce, CoreInv
<1>5. CoreInv'
  BY <1>1, <1>3, <1>4 DEF CoreInv
<1>6. Types'
  BY <1>1 DEF Types
<1> QED BY <1>5, <1>6

(* The initial states. *)
LEMMA InitCore == ASSUME Init PROVE Types /\ CoreInv
<1>1. Types
  BY DEF Init, Types, TurnType, HostType, StoreType, Requests, Fresh, Idle
<1>2. \A c \in Tabs : ~Awaits(c) /\ up[c] # <<>>
  BY DEF Init, Awaits
<1>3. Awaited = {} /\ AwaitedOnce
  BY <1>2 DEF Awaited, AwaitedOnce
<1>4. Ids(<<>>) = {} /\ Distinct(<<>>) /\ <<>> \in Seq(RowType) /\ <<>> \in Seq(Messages)
  BY DEF Ids, Distinct
<1>5. CacheOK(cache, made, Awaited)
  BY <1>3, <1>4 DEF Init, CacheOK
<1>6. ASSUME NEW c \in Tabs
      PROVE  TabOK(cache, made, Awaited, host.n, subscribed[c], tab[c].messages, down[c], own[c])
  <2>1. /\ subscribed[c] = 0 /\ tab[c].messages = <<>> /\ down[c] = <<>> /\ host.n = 1
        /\ subscribed[c] # -1
    BY DEF Init, Fresh
  <2>2. \A id : ~Told(<<>>, <<>>, Len(<<>>), id)
    BY <1>4 DEF Told
  <2> QED BY <1>3, <1>4, <2>1, <2>2 DEF TabOK, WellFormed
<1>7. \A c \in Tabs : subscribed[c] # -1
  BY DEF Init
<1> QED BY <1>1, <1>3, <1>5, <1>6, <1>7 DEF CoreInv

(* Every step keeps what a tab will show in step with the cache. *)
LEMMA NextCore ==
    ASSUME Types, CoreInv, ChatAssumption, [Next]_vars
    PROVE  Types' /\ CoreInv'
<1>1. CASE Stream \/ ToolStart \/ AgentEnd
  BY <1>1, SignalsCore
<1>2. CASE ToolEnd \/ SystemRow
  BY <1>2, ToolEndCore, SystemRowCore
<1>3. CASE \E failed \in BOOLEAN : MessageEnd(failed)
  BY <1>3, MessageEndCore
<1>4. CASE \E steering \in BOOLEAN : ServeElsewhere(steering)
  BY <1>4, ServeElsewhereCore
<1>5. CASE Terminate \/ Resurrect
  BY <1>5, HostCore
<1>6. ASSUME NEW c \in Tabs, Serve(c) PROVE Types' /\ CoreInv'
  BY <1>6, ServeCore
<1>7. ASSUME NEW c \in Tabs, Receive(c) PROVE Types' /\ CoreInv'
  BY <1>7, ReceiveCore
<1>8. ASSUME NEW c \in Tabs, Submit(c) PROVE Types' /\ CoreInv'
  BY <1>8, SubmitCore
<1>9. ASSUME NEW c \in Tabs, Revisit(c) \/ Drop(c) \/ Connect(c) PROVE Types' /\ CoreInv'
  BY <1>9, ReconnectCore DEF Reconnects
<1>10. CASE UNCHANGED vars
  <2>1. UNCHANGED <<made, cache, turn, host, subscribed, up, down, tab, own, witness>>
    BY <1>10 DEF vars, server
  <2>2. UNCHANGED <<Awaited, AwaitedOnce>>
    BY <2>1 DEF Awaited, Awaits, AwaitedOnce
  <2> QED BY <2>1, <2>2 DEF Types, CoreInv
<1> QED BY <1>1, <1>2, <1>3, <1>4, <1>5, <1>6, <1>7, <1>8, <1>9, <1>10 DEF Next

(* So it holds in every reachable state. *)
LEMMA Core == Spec => [](Types /\ CoreInv)
<1>1. Init => Types /\ CoreInv
  BY InitCore
<1>2. Types /\ CoreInv /\ [Next]_vars => Types' /\ CoreInv'
  BY NextCore, ChatAssumption
<1> QED BY <1>1, <1>2, PTL DEF Spec

(* A settled tab is in step with nothing on its way. *)
LEMMA SettledInStep ==
    ASSUME CoreInv, NEW c \in Tabs, Settled(c)
    PROVE  /\ tab[c].messages \in Seq(RowType) /\ Distinct(tab[c].messages)
           /\ cache \in Seq(RowType)
           /\ \A id \in Ids(cache) : id \in Ids(tab[c].messages)
           /\ \A p \in Pairs(cache, own[c]) : Ordered(tab[c].messages, p)
<1>1. subscribed[c] = host.n /\ down[c] = <<>>
  BY DEF Settled
<1>2. /\ WellFormed(tab[c].messages, down[c], made)
      /\ InStep(cache, own[c], tab[c].messages, down[c])
      /\ cache \in Seq(RowType)
  BY <1>1 DEF CoreInv, TabOK, CacheOK
<1>3. \A id : Told(tab[c].messages, <<>>, Len(<<>>), id) => id \in Ids(tab[c].messages)
  BY DEF Told
<1>4. NoSnapshot(<<>>)
  BY DEF NoSnapshot
<1> QED BY <1>1, <1>2, <1>3, <1>4 DEF WellFormed, InStep, Orderly

(* Hence every row of the cache is shown, and once. *)
LEMMA CoreShowsAll == CoreInv => NothingMissing
<1>1. SUFFICES ASSUME CoreInv, NEW c \in Tabs, Settled(c), NEW i \in 1..Len(cache)
               PROVE  Cardinality(Places(c, cache[i].id)) = 1
  BY DEF NothingMissing
<1> DEFINE M == tab[c].messages
<1>2. M \in Seq(RowType) /\ Distinct(M) /\ cache[i].id \in Ids(M)
  BY <1>1, SettledInStep, RowIds
<1>3. PICK k \in 1..Len(M) : M[k].id = cache[i].id
  BY <1>2, IdsOfRows
<1>4. Places(c, cache[i].id) = {k}
  BY <1>2, <1>3 DEF Places, Distinct
<1> QED BY <1>4, FS_Singleton

(* And in order. *)
LEMMA CoreOrders == CoreInv => OrderKept
<1>1. SUFFICES ASSUME CoreInv, NEW c \in Tabs, Settled(c),
                      NEW i \in 1..Len(cache), NEW j \in 1..Len(cache),
                      i < j, {cache[i].id, cache[j].id} \cap own[c] = {},
                      NEW m \in Places(c, cache[i].id), NEW n \in Places(c, cache[j].id)
               PROVE  m < n
  BY DEF OrderKept
<1> DEFINE p == <<cache[i].id, cache[j].id>>
<1>2. cache[i].id \in Ids(cache) /\ cache[j].id \in Ids(cache)
  BY <1>1, SettledInStep, RowIds
<1>3. p \in Pairs(cache, own[c])
  BY <1>1, <1>2 DEF Pairs, Members
<1>4. Ordered(tab[c].messages, p)
  BY <1>1, <1>3, SettledInStep
<1>5. /\ m \in 1..Len(tab[c].messages) /\ tab[c].messages[m].id = p[1]
      /\ n \in 1..Len(tab[c].messages) /\ tab[c].messages[n].id = p[2]
  BY DEF Places
<1> HIDE DEF p
<1> QED BY <1>4, <1>5 DEF Ordered

(* A settled tab shows every row of the cache, and shows it once. *)
THEOREM ShowsEveryRowOnce == Spec => []NothingMissing
BY Core, CoreShowsAll, PTL

(* But for the plain messages of the tab itself, its rows are in the order of the cache. *)
THEOREM ShowsRowsInOrder == Spec => []OrderKept
BY Core, CoreOrders, PTL

-----------------------------------------------------------------------------
(* A flag of a tab, and the messages on their way *)

\* What begins a draft and a stream, and what takes the draft away.
Begun     == {m \in Messages : m.type \in {"chunk", "tool"}}
Cleared   == {m \in Messages : m.type = "end" \/ (m.type = "added" /\ m.row.by = "assistant")}
Ended     == {m \in Messages : m.type = "ready"}
Requested == {m \in Messages : m.type = "added" /\ m.row.by = "user"}
Answered  == {m \in Messages : m.type \in {"ready", "error", "chunk", "tool"}}

Has(d, S) == \E k \in 1..Len(d) : d[k] \in S

\* A flag that is b now, that S sets and C clears, will be off after d.
EndsOff(b, d, S, C) ==
    /\ b => Has(d, C)
    /\ \A i \in 1..Len(d) : d[i] \in S => \E k \in 1..Len(d) : k > i /\ d[k] \in C

\* It will be on.
EndsOn(b, d, S, C) ==
    \/ b /\ ~Has(d, C)
    \/ \E i \in 1..Len(d) : d[i] \in S /\ \A k \in 1..Len(d) : k > i => d[k] \notin C

(* A message is received. *)
LEMMA OffHears ==
    ASSUME NEW d \in Seq(Messages), d # <<>>, NEW b, NEW S, NEW C, EndsOff(b, d, S, C),
           NEW a, Head(d) \in C => ~a, a => b \/ Head(d) \in S
    PROVE  EndsOff(a, Tail(d), S, C)
<1> DEFINE t == Tail(d)
<1>1. /\ Head(d) = d[1] /\ Len(d) \in Nat /\ Len(d) >= 1 /\ Len(t) = Len(d) - 1
      /\ \A k \in 1..Len(t) : k + 1 \in 1..Len(d) /\ t[k] = d[k + 1]
  BY TailShifts
<1>2. ASSUME NEW k \in 1..Len(d), k > 1 PROVE k - 1 \in 1..Len(t) /\ t[k - 1] = d[k]
  BY <1>1, <1>2
<1> HIDE DEF t
<1>3. ASSUME a PROVE Has(t, C)
  <2>1. PICK k \in 1..Len(d) : k > 1 /\ d[k] \in C
    <3>1. 1 \in 1..Len(d)
      BY <1>1
    <3>2. CASE b
      <4>1. PICK k \in 1..Len(d) : d[k] \in C
        BY <3>2 DEF EndsOff, Has
      <4>2. k # 1
        BY <1>1, <1>3, <4>1
      <4> QED BY <4>1, <4>2
    <3>3. CASE Head(d) \in S
      BY <1>1, <3>1, <3>3 DEF EndsOff
    <3> QED BY <1>3, <3>2, <3>3
  <2> QED BY <1>2, <2>1 DEF Has
<1>4. ASSUME NEW i \in 1..Len(t), t[i] \in S
      PROVE  \E k \in 1..Len(t) : k > i /\ t[k] \in C
  <2>1. i + 1 \in 1..Len(d) /\ d[i + 1] \in S
    BY <1>1, <1>4
  <2>2. PICK k \in 1..Len(d) : k > i + 1 /\ d[k] \in C
    BY <2>1 DEF EndsOff
  <2>3. k > 1 /\ k - 1 > i
    BY <2>2
  <2> QED BY <1>2, <2>2, <2>3
<1> QED BY <1>3, <1>4 DEF EndsOff, t

(* The same for a flag that will be on. *)
LEMMA OnHears ==
    ASSUME NEW d \in Seq(Messages), d # <<>>, NEW b, NEW S, NEW C, EndsOn(b, d, S, C),
           NEW a, Head(d) \in S => a, b /\ Head(d) \notin C => a
    PROVE  EndsOn(a, Tail(d), S, C)
<1> DEFINE t == Tail(d)
<1>1. /\ Head(d) = d[1] /\ Len(d) \in Nat /\ Len(d) >= 1 /\ Len(t) = Len(d) - 1
      /\ \A k \in 1..Len(t) : k + 1 \in 1..Len(d) /\ t[k] = d[k + 1]
  BY TailShifts
<1>2. ASSUME NEW k \in 1..Len(d), k > 1 PROVE k - 1 \in 1..Len(t) /\ t[k - 1] = d[k]
  BY <1>1, <1>2
<1> HIDE DEF t
<1>3. CASE b /\ ~Has(d, C)
  <2>1. \A k \in 1..Len(d) : d[k] \notin C
    BY <1>3 DEF Has
  <2>2. 1 \in 1..Len(d)
    BY <1>1
  <2>3. ~Has(t, C)
    BY <1>1, <2>1 DEF Has
  <2>4. a
    BY <1>1, <1>3, <2>1, <2>2
  <2> QED BY <2>3, <2>4 DEF EndsOn, t
<1>4. CASE \E i \in 1..Len(d) : d[i] \in S /\ \A k \in 1..Len(d) : k > i => d[k] \notin C
  <2>1. PICK i \in 1..Len(d) : d[i] \in S /\ \A k \in 1..Len(d) : k > i => d[k] \notin C
    BY <1>4
  <2>2. CASE i = 1
    <3>1. ~Has(t, C)
      <4>1. ASSUME NEW k \in 1..Len(t) PROVE t[k] \notin C
        BY <1>1, <2>1, <2>2
      <4> QED BY <4>1 DEF Has
    <3>2. a
      BY <1>1, <2>1, <2>2
    <3> QED BY <3>1, <3>2 DEF EndsOn, t
  <2>3. CASE i > 1
    <3>1. i - 1 \in 1..Len(t) /\ t[i - 1] \in S
      BY <1>2, <2>1, <2>3
    <3>2. ASSUME NEW k \in 1..Len(t), k > i - 1 PROVE t[k] \notin C
      <4>1. k + 1 \in 1..Len(d) /\ t[k] = d[k + 1] /\ k + 1 > i
        BY <1>1, <3>2
      <4> QED BY <2>1, <4>1
    <3> QED BY <3>1, <3>2 DEF EndsOn, t
  <2> QED BY <2>2, <2>3
<1> QED BY <1>3, <1>4 DEF EndsOn

(* Messages are sent. *)
LEMMA SentOnes ==
    ASSUME NEW d \in Seq(Messages), NEW ms \in Seq(Messages)
    PROVE  /\ d \o ms \in Seq(Messages) /\ Len(d) \in Nat /\ Len(ms) \in Nat
           /\ Len(d \o ms) = Len(d) + Len(ms)
           /\ \A k \in 1..Len(d) : k \in 1..Len(d \o ms) /\ (d \o ms)[k] = d[k]
           /\ \A k \in 1..Len(ms) : k + Len(d) \in 1..Len(d \o ms) /\ (d \o ms)[k + Len(d)] = ms[k]
           /\ \A k \in 1..Len(d \o ms) : k \in 1..Len(d) \/ (k > Len(d) /\ k - Len(d) \in 1..Len(ms))
<1>1. Len(d) \in Nat /\ Len(ms) \in Nat
  BY LenProperties
<1>2. /\ d \o ms \in Seq(Messages) /\ Len(d \o ms) = Len(d) + Len(ms)
      /\ \A i \in 1..(Len(d) + Len(ms)) : (d \o ms)[i] = IF i <= Len(d) THEN d[i] ELSE ms[i - Len(d)]
  BY ConcatProperties
<1> QED BY <1>1, <1>2

(* A flag that will be off stays so if nothing sets it, and is so once it is cleared. *)
LEMMA OffSends ==
    ASSUME NEW d \in Seq(Messages), NEW ms \in Seq(Messages), NEW b, NEW S, NEW C,
           ~Has(ms, S), EndsOff(b, d, S, C) \/ Has(ms, C)
    PROVE  EndsOff(b, d \o ms, S, C)
<1> DEFINE e == d \o ms
<1>1. /\ Len(d) \in Nat /\ Len(e) = Len(d) + Len(ms) /\ Len(ms) \in Nat
      /\ \A k \in 1..Len(d) : k \in 1..Len(e) /\ e[k] = d[k]
      /\ \A k \in 1..Len(ms) : k + Len(d) \in 1..Len(e) /\ e[k + Len(d)] = ms[k]
      /\ \A k \in 1..Len(e) : k \in 1..Len(d) \/ (k > Len(d) /\ k - Len(d) \in 1..Len(ms))
  BY SentOnes
<1> HIDE DEF e
<1>2. ASSUME NEW i \in 1..Len(e), e[i] \in S PROVE i \in 1..Len(d) /\ d[i] \in S
  <2>1. CASE i > Len(d) /\ i - Len(d) \in 1..Len(ms)
    <3>1. e[i] = ms[i - Len(d)]
      BY <1>1, <2>1
    <3> QED BY <1>2, <2>1, <3>1 DEF Has
  <2> QED BY <1>1, <1>2, <2>1
<1>3. CASE EndsOff(b, d, S, C)
  <2>1. b => Has(e, C)
    BY <1>1, <1>3 DEF EndsOff, Has
  <2>2. ASSUME NEW i \in 1..Len(e), e[i] \in S
        PROVE  \E k \in 1..Len(e) : k > i /\ e[k] \in C
    <3>1. i \in 1..Len(d) /\ d[i] \in S
      BY <1>2, <2>2
    <3>2. PICK k \in 1..Len(d) : k > i /\ d[k] \in C
      BY <1>3, <3>1 DEF EndsOff
    <3> QED BY <1>1, <3>2
  <2> QED BY <2>1, <2>2 DEF EndsOff, e
<1>4. CASE Has(ms, C)
  <2>1. PICK k \in 1..Len(ms) : ms[k] \in C
    BY <1>4 DEF Has
  <2>2. k + Len(d) \in 1..Len(e) /\ e[k + Len(d)] \in C /\ k + Len(d) > Len(d)
    BY <1>1, <2>1
  <2>3. ASSUME NEW i \in 1..Len(e), e[i] \in S
        PROVE  \E n \in 1..Len(e) : n > i /\ e[n] \in C
    <3>1. i \in 1..Len(d)
      BY <1>2, <2>3
    <3>2. k + Len(d) > i
      BY <1>1, <2>2, <3>1
    <3> QED BY <2>2, <3>2
  <2> QED BY <2>2, <2>3 DEF EndsOff, Has, e
<1> QED BY <1>3, <1>4

(* A flag that will be on stays so if nothing clears it, and is so once it is set. *)
LEMMA OnSends ==
    ASSUME NEW d \in Seq(Messages), NEW ms \in Seq(Messages), NEW b, NEW S, NEW C,
           \/ EndsOn(b, d, S, C) /\ ~Has(ms, C)
           \/ EndsOn(FALSE, ms, S, C)
    PROVE  EndsOn(b, d \o ms, S, C)
<1> DEFINE e == d \o ms
<1>1. /\ Len(d) \in Nat /\ Len(e) = Len(d) + Len(ms) /\ Len(ms) \in Nat
      /\ \A k \in 1..Len(d) : k \in 1..Len(e) /\ e[k] = d[k]
      /\ \A k \in 1..Len(ms) : k + Len(d) \in 1..Len(e) /\ e[k + Len(d)] = ms[k]
      /\ \A k \in 1..Len(e) : k \in 1..Len(d) \/ (k > Len(d) /\ k - Len(d) \in 1..Len(ms))
  BY SentOnes
<1> HIDE DEF e
<1>2. ASSUME NEW k \in 1..Len(e), k > Len(d) PROVE k - Len(d) \in 1..Len(ms) /\ e[k] = ms[k - Len(d)]
  BY <1>1, <1>2
<1>3. CASE EndsOn(FALSE, ms, S, C)
  <2>1. PICK i \in 1..Len(ms) : ms[i] \in S /\ \A k \in 1..Len(ms) : k > i => ms[k] \notin C
    BY <1>3 DEF EndsOn
  <2>2. i + Len(d) \in 1..Len(e) /\ e[i + Len(d)] \in S
    BY <1>1, <2>1
  <2>3. ASSUME NEW k \in 1..Len(e), k > i + Len(d) PROVE e[k] \notin C
    <3>1. k > Len(d) /\ k - Len(d) > i
      BY <1>1, <2>3
    <3> QED BY <1>2, <2>1, <3>1
  <2> QED BY <2>2, <2>3 DEF EndsOn, e
<1>4. CASE EndsOn(b, d, S, C) /\ ~Has(ms, C)
  <2>1. \A k \in 1..Len(e) : k > Len(d) => e[k] \notin C
    BY <1>2, <1>4 DEF Has
  <2>2. CASE b /\ ~Has(d, C)
    <3>1. ~Has(e, C)
      BY <1>1, <2>1, <2>2 DEF Has
    <3> QED BY <2>2, <3>1 DEF EndsOn, e
  <2>3. CASE \E i \in 1..Len(d) : d[i] \in S /\ \A k \in 1..Len(d) : k > i => d[k] \notin C
    <3>1. PICK i \in 1..Len(d) : d[i] \in S /\ \A k \in 1..Len(d) : k > i => d[k] \notin C
      BY <2>3
    <3>2. i \in 1..Len(e) /\ e[i] \in S /\ \A k \in 1..Len(e) : k > i => e[k] \notin C
      BY <1>1, <2>1, <3>1
    <3> QED BY <3>2 DEF EndsOn, e
  <2> QED BY <1>4, <2>2, <2>3 DEF EndsOn
<1> QED BY <1>3, <1>4

-----------------------------------------------------------------------------
(* The flags of a tab that listens *)

(* With a turn that is on and partial; the tab has seen the draft from its beginning, or
   awaits an answer.                                                              *)
Flags(on, partial, seen, awaits, t, d) ==
    /\ ~partial => EndsOff(t.draft, d, Begun, Cleared)
    /\ ~on => EndsOff(t.streaming, d, Begun, Ended)
    /\ "rejects" \notin Env /\ ~on /\ ~awaits => EndsOff(t.waiting, d, Requested, Answered)
    /\ partial /\ seen => EndsOn(t.draft, d, Begun, Cleared)

(* A message that is received leaves the flags as they will be. *)
LEMMA FlagsHear ==
    ASSUME NEW on, NEW partial, NEW seen, NEW awaits, NEW t \in StoreType,
           NEW d \in Seq(Messages), d # <<>>, Flags(on, partial, seen, awaits, t, d)
    PROVE  Flags(on, partial, seen, awaits, Shown(t, Head(d)), Tail(d))
<1> DEFINE m == Head(d)
           u == Shown(t, m)
<1>1. m \in Messages
  BY TailShifts
<1> HIDE DEF m
<1>2. /\ m \in Cleared => ~u.draft
      /\ u.draft => t.draft \/ m \in Begun
      /\ m \in Begun => u.draft
      /\ t.draft /\ m \notin Cleared => u.draft
  BY <1>1, ShownDraft DEF Cleared, Begun
<1>3. (m \in Ended => ~u.streaming) /\ (u.streaming => t.streaming \/ m \in Begun)
  BY <1>1, ShownStreaming DEF Ended, Begun
<1>4. (m \in Answered => ~u.waiting) /\ (u.waiting => t.waiting \/ m \in Requested)
  BY <1>1, ShownWaiting DEF Answered, Requested
<1> HIDE DEF u
<1>5. ~partial => EndsOff(u.draft, Tail(d), Begun, Cleared)
  BY <1>2, OffHears DEF Flags, m
<1>6. ~on => EndsOff(u.streaming, Tail(d), Begun, Ended)
  BY <1>3, OffHears DEF Flags, m
<1>7. "rejects" \notin Env /\ ~on /\ ~awaits => EndsOff(u.waiting, Tail(d), Requested, Answered)
  BY <1>4, OffHears DEF Flags, m
<1>8. partial /\ seen => EndsOn(u.draft, Tail(d), Begun, Cleared)
  BY <1>2, OnHears DEF Flags, m
<1> QED BY <1>5, <1>6, <1>7, <1>8 DEF Flags, u, m

(* What is sent when the turn goes from on and partial to onn and part, fits. *)
Suits(on, partial, seen, awaits, onn, part, saw, waits, ms) ==
    /\ ~part => ~Has(ms, Begun) /\ (~partial \/ Has(ms, Cleared))
    /\ ~onn => ~Has(ms, Begun) /\ (~on \/ Has(ms, Ended))
    /\ "rejects" \notin Env /\ ~onn /\ ~waits =>
         ~Has(ms, Requested) /\ ((~on /\ ~awaits) \/ Has(ms, Answered))
    /\ part /\ saw => \/ partial /\ seen /\ ~Has(ms, Cleared)
                      \/ EndsOn(FALSE, ms, Begun, Cleared)

(* So do messages that suit the turn. *)
LEMMA FlagsSent ==
    ASSUME NEW on, NEW partial, NEW seen, NEW awaits, NEW t,
           NEW d \in Seq(Messages), Flags(on, partial, seen, awaits, t, d),
           NEW ms \in Seq(Messages), NEW onn, NEW part, NEW saw, NEW waits,
           Suits(on, partial, seen, awaits, onn, part, saw, waits, ms)
    PROVE  Flags(onn, part, saw, waits, t, d \o ms)
<1>1. ~part => EndsOff(t.draft, d \o ms, Begun, Cleared)
  BY OffSends DEF Flags, Suits
<1>2. ~onn => EndsOff(t.streaming, d \o ms, Begun, Ended)
  BY OffSends DEF Flags, Suits
<1>3. "rejects" \notin Env /\ ~onn /\ ~waits => EndsOff(t.waiting, d \o ms, Requested, Answered)
  BY OffSends DEF Flags, Suits
<1>4. part /\ saw => EndsOn(t.draft, d \o ms, Begun, Cleared)
  BY OnSends DEF Flags, Suits
<1> QED BY <1>1, <1>2, <1>3, <1>4 DEF Flags

(* What signals, rows and several messages do to the flags. *)
LEMMA SignalHas ==
    ASSUME NEW name \in Signals
    PROVE  /\ <<Event(name)>> \in Seq(Messages)
           /\ Has(<<Event(name)>>, Begun) <=> name \in {"chunk", "tool"}
           /\ Has(<<Event(name)>>, Cleared) <=> name = "end"
           /\ Has(<<Event(name)>>, Ended) <=> name = "ready"
           /\ ~Has(<<Event(name)>>, Requested)
           /\ Has(<<Event(name)>>, Answered) <=> name \in {"ready", "error", "chunk", "tool"}
           /\ name \in {"chunk", "tool"} => EndsOn(FALSE, <<Event(name)>>, Begun, Cleared)
<1> DEFINE m == Event(name)
           ms == <<m>>
<1>1. m \in Messages /\ m.type = name /\ name # "added"
  BY SignalForms DEF Signals
<1> HIDE DEF m
<1>2. Len(ms) = 1 /\ ms[1] = m /\ ms \in Seq(Messages) /\ 1 \in 1..Len(ms) /\ \A k \in 1..Len(ms) : k = 1
  BY <1>1
<1> HIDE DEF ms
<1>3. \A S : Has(ms, S) <=> m \in S
  BY <1>2 DEF Has
<1>4. m \in Begun => EndsOn(FALSE, ms, Begun, Cleared)
  BY <1>2 DEF EndsOn
<1> QED BY <1>1, <1>2, <1>3, <1>4 DEF Begun, Cleared, Ended, Requested, Answered, m, ms

(* Rows begin and answer nothing; the assistant's clears the draft. *)
LEMMA AdditionsHas ==
    ASSUME NEW rows \in Seq(RowType)
    PROVE  /\ Additions(rows) \in Seq(Messages)
           /\ ~Has(Additions(rows), Begun) /\ ~Has(Additions(rows), Ended)
           /\ ~Has(Additions(rows), Answered)
           /\ Has(Additions(rows), Cleared) <=> \E i \in 1..Len(rows) : rows[i].by = "assistant"
           /\ Has(Additions(rows), Requested) <=> \E i \in 1..Len(rows) : rows[i].by = "user"
<1> DEFINE a == Additions(rows)
<1>1. a \in Seq(Messages) /\ Len(a) = Len(rows) /\ \A i \in 1..Len(rows) : a[i] = Added(rows[i])
  BY AdditionsForm
<1>2. \A i \in 1..Len(rows) : rows[i] \in RowType
  BY ElementOfSeq
<1> HIDE DEF a
<1>3. \A i \in 1..Len(rows) : a[i] \in Messages /\ a[i].type = "added" /\ a[i].row = rows[i]
  BY <1>1, <1>2, AddedForm
<1>4. \A i \in 1..Len(rows) : /\ a[i] \notin Begun /\ a[i] \notin Ended /\ a[i] \notin Answered
                              /\ a[i] \in Cleared <=> rows[i].by = "assistant"
                              /\ a[i] \in Requested <=> rows[i].by = "user"
  BY <1>3 DEF Begun, Ended, Answered, Cleared, Requested
<1> QED BY <1>1, <1>4 DEF Has, a

(* Several messages have what either of their parts has. *)
LEMMA HasConcat ==
    ASSUME NEW d \in Seq(Messages), NEW ms \in Seq(Messages), NEW S
    PROVE  /\ d \o ms \in Seq(Messages)
           /\ Has(d \o ms, S) <=> Has(d, S) \/ Has(ms, S)
<1> DEFINE e == d \o ms
<1>1. /\ e \in Seq(Messages) /\ Len(d) \in Nat
      /\ \A k \in 1..Len(d) : k \in 1..Len(e) /\ e[k] = d[k]
      /\ \A k \in 1..Len(ms) : k + Len(d) \in 1..Len(e) /\ e[k + Len(d)] = ms[k]
      /\ \A k \in 1..Len(e) : k \in 1..Len(d) \/ (k > Len(d) /\ k - Len(d) \in 1..Len(ms))
  BY SentOnes
<1> HIDE DEF e
<1>2. ASSUME NEW k \in 1..Len(e), k > Len(d), k - Len(d) \in 1..Len(ms) PROVE e[k] = ms[k - Len(d)]
  BY <1>1, <1>2
<1>3. Has(e, S) => Has(d, S) \/ Has(ms, S)
  BY <1>1, <1>2 DEF Has
<1>4. Has(d, S) \/ Has(ms, S) => Has(e, S)
  BY <1>1 DEF Has
<1> QED BY <1>1, <1>3, <1>4 DEF e

-----------------------------------------------------------------------------
(* The flags of all tabs *)

FlagInv ==
    /\ \A c \in Tabs : Alive /\ subscribed[c] = host.n =>
         Flags(turn.on, turn.partial, c \in witness, Awaits(c), tab[c], down[c])
    /\ \A c \in Tabs : subscribed[c] <= 0 => ~tab[c].draft
    /\ ~turn.on => ~turn.partial
    /\ witness \subseteq Listening
    /\ ~Alive => witness = {}

(* Messages go to all that listen. *)
LEMMA Broadcast ==
    ASSUME Types, CoreInv, FlagInv, Alive, NEW ms \in Seq(Messages), down' = Sent(ms),
           UNCHANGED <<host, subscribed, up, tab>>,
           \A c \in Tabs : Suits(turn.on, turn.partial, c \in witness, Awaits(c),
                                 turn'.on, turn'.partial, c \in witness', Awaits(c), ms),
           ~turn'.on => ~turn'.partial, witness' \subseteq Listening
    PROVE  FlagInv'
<1>1. ASSUME NEW c \in Tabs, subscribed[c] = host.n
      PROVE  Flags(turn'.on, turn'.partial, c \in witness', Awaits(c), tab[c], down'[c])
  <2>1. down[c] \in Seq(Messages)
    BY DEF CoreInv, TabOK, WellFormed
  <2>2. down'[c] = down[c] \o ms
    BY <1>1, SentToTab DEF Delivered
  <2>3. Flags(turn.on, turn.partial, c \in witness, Awaits(c), tab[c], down[c])
    BY <1>1 DEF FlagInv
  <2> QED BY <2>1, <2>2, <2>3, FlagsSent
<1>2. \A c \in Tabs : Awaits(c)' = Awaits(c)
  BY DEF Awaits
<1>3. Listening' = Listening /\ Alive' = Alive
  BY DEF Listening, Alive
<1> QED BY <1>1, <1>2, <1>3 DEF FlagInv

(* The turn streams: whoever is sent the beginning has seen the draft from there. *)
LEMMA StreamFlags ==
    ASSUME Types, CoreInv, FlagInv, Stream \/ ToolStart
    PROVE  FlagInv'
<1>1. /\ Alive /\ turn.on /\ turn'.on /\ turn'.partial
      /\ witness' = IF turn.partial THEN witness ELSE Listening
      /\ UNCHANGED <<host, subscribed, up, tab>>
  BY DEF Stream, ToolStart, Types, TurnType
<1>2. PICK name \in {"chunk", "tool"} : down' = Sent(<<Event(name)>>)
  BY DEF Stream, ToolStart, Emit
<1>3. name \in Signals
  BY <1>2 DEF Signals
<1>4. \A c \in Tabs : Suits(turn.on, turn.partial, c \in witness, Awaits(c),
                            turn'.on, turn'.partial, c \in witness', Awaits(c), <<Event(name)>>)
  BY <1>1, <1>3, SignalHas DEF Suits
<1>5. witness' \subseteq Listening
  BY <1>1 DEF FlagInv
<1> QED BY <1>1, <1>2, <1>3, <1>4, <1>5, SignalHas, Broadcast

(* agent_end answers all that wait. *)
LEMMA AgentEndFlags ==
    ASSUME Types, CoreInv, FlagInv, AgentEnd
    PROVE  FlagInv'
<1>1. /\ Alive /\ ~turn.partial /\ ~turn'.on /\ ~turn'.partial /\ witness' = witness
      /\ UNCHANGED <<host, subscribed, up, tab>>
      /\ down' = Sent(<<Event("ready")>>)
  BY DEF AgentEnd, Types, TurnType, Emit
<1>2. "ready" \in Signals
  BY DEF Signals
<1>3. \A c \in Tabs : Suits(turn.on, turn.partial, c \in witness, Awaits(c),
                            turn'.on, turn'.partial, c \in witness', Awaits(c), <<Event("ready")>>)
  BY <1>1, <1>2, SignalHas DEF Suits
<1>4. witness' \subseteq Listening
  BY <1>1 DEF FlagInv
<1> QED BY <1>1, <1>2, <1>3, <1>4, SignalHas, Broadcast

(* A row that neither the assistant nor a user made. *)
LEMMA OtherRowFlags ==
    ASSUME Types, CoreInv, FlagInv, Alive, NEW by \in {"followUp", "system"},
           Emit(<<Added(Row(made + 1, by))>>), UNCHANGED <<host, subscribed, up, tab, witness>>,
           turn'.on = turn.on \/ turn'.on, turn'.partial = turn.partial,
           turn.on => turn'.on
    PROVE  FlagInv'
<1> DEFINE rows == <<Row(made + 1, by)>>
<1>1. by \in Authors
  BY DEF Authors
<1>2. rows \in Seq(RowType) /\ Len(rows) = 1 /\ <<Added(Row(made + 1, by))>> = Additions(rows)
  BY <1>1, OneRow
<1>3. rows[1].by = by
  BY DEF Row
<1>4. down' = Sent(Additions(rows))
  BY <1>2 DEF Emit
<1> HIDE DEF rows
<1>5. /\ Additions(rows) \in Seq(Messages) /\ ~Has(Additions(rows), Begun)
      /\ ~Has(Additions(rows), Cleared) /\ ~Has(Additions(rows), Requested)
  <2>1. \A i \in 1..Len(rows) : rows[i].by # "assistant" /\ rows[i].by # "user"
    BY <1>2, <1>3
  <2> QED BY <1>2, <2>1, AdditionsHas
<1>6. \A c \in Tabs : Suits(turn.on, turn.partial, c \in witness, Awaits(c),
                            turn'.on, turn'.partial, c \in witness', Awaits(c), Additions(rows))
  BY <1>5 DEF Suits
<1>7. (~turn'.on => ~turn'.partial) /\ witness' \subseteq Listening
  BY DEF FlagInv
<1> QED BY <1>4, <1>5, <1>6, <1>7, Broadcast

(* The late row of a flushed tool takes no draft away. *)
LEMMA ToolEndFlags ==
    ASSUME Types, CoreInv, FlagInv, ToolEnd
    PROVE  FlagInv'
<1>1. /\ Alive /\ turn'.on = turn.on /\ turn'.partial = turn.partial
      /\ UNCHANGED <<host, subscribed, up, tab, witness>>
  BY DEF ToolEnd, Types, TurnType
<1>2. CASE turn.tool = "running"
  <2>1. down' = down
    BY <1>2 DEF ToolEnd
  <2> QED BY <1>1, <2>1 DEF FlagInv, Awaits, Listening, Alive
<1>3. CASE turn.tool # "running"
  <2>1. Emit(<<Added(Row(made + 1, "followUp"))>>)
    BY <1>3 DEF ToolEnd, FollowUp
  <2> QED BY <1>1, <2>1, OtherRowFlags
<1> QED BY <1>2, <1>3

(* Nor does a row of the system. *)
LEMMA SystemRowFlags ==
    ASSUME Types, CoreInv, FlagInv, SystemRow
    PROVE  FlagInv'
<1>1. /\ Alive /\ turn'.partial = turn.partial /\ (turn.on => turn'.on)
      /\ turn'.on = turn.on \/ turn'.on
      /\ Emit(<<Added(Row(made + 1, "system"))>>)
      /\ UNCHANGED <<host, subscribed, up, tab, witness>>
  BY DEF SystemRow, Types, TurnType
<1> QED BY <1>1, OtherRowFlags

(* message_end clears the draft. *)
LEMMA MessageEndFlags ==
    ASSUME Types, CoreInv, FlagInv, NEW failed \in BOOLEAN, MessageEnd(failed)
    PROVE  FlagInv'
<1> DEFINE error == IF failed THEN <<Row(made + Len(Committed) + 1, "system")>> ELSE <<>>
           rows == Committed \o error
           ms == Additions(rows) \o <<Event("end")>>
<1>1. /\ Alive /\ turn.on /\ turn'.on /\ ~turn'.partial /\ witness' = witness
      /\ UNCHANGED <<host, subscribed, up, tab>>
      /\ down' = Sent(ms)
  BY DEF MessageEnd, AfterCommit, Types, TurnType, Emit, Additions
<1>2. error \in Seq(RowType)
  <2>1. Row(made + Len(Committed) + 1, "system") \in RowType
    BY CommittedForm DEF Types, Row, RowType, Authors
  <2> QED BY <2>1
<1> HIDE DEF error
<1>3. rows \in Seq(RowType)
  BY <1>2, CommittedForm, ConcatProperties
<1> HIDE DEF rows
<1>4. /\ Additions(rows) \in Seq(Messages) /\ ~Has(Additions(rows), Begun) /\ "end" \in Signals
  BY <1>3, AdditionsHas DEF Signals
<1>5. ms \in Seq(Messages) /\ ~Has(ms, Begun) /\ Has(ms, Cleared)
  BY <1>4, SignalHas, HasConcat
<1> HIDE DEF ms
<1>6. \A c \in Tabs : Suits(turn.on, turn.partial, c \in witness, Awaits(c),
                            turn'.on, turn'.partial, c \in witness', Awaits(c), ms)
  BY <1>1, <1>5 DEF Suits
<1>7. witness' \subseteq Listening
  BY <1>1 DEF FlagInv
<1> QED BY <1>1, <1>5, <1>6, <1>7, Broadcast

(* Nobody listens to a host that is gone, or new. *)
LEMMA HostFlags ==
    ASSUME Types, CoreInv, FlagInv, Terminate \/ Resurrect
    PROVE  FlagInv'
<1>1. CASE Terminate
  <2>1. ~Alive' /\ witness' = {} /\ ~turn'.partial /\ UNCHANGED <<subscribed, tab>>
    BY <1>1 DEF Terminate, Types, HostType, Alive, Idle
  <2> QED BY <2>1 DEF FlagInv
<1>2. CASE Resurrect
  <2>1. /\ host'.n = host.n + 1 /\ host.n \in Nat \ {0}
        /\ UNCHANGED <<subscribed, tab, turn, witness>> /\ witness = {}
    BY <1>2 DEF Resurrect, Types, HostType, FlagInv
  <2>2. \A c \in Tabs : subscribed[c] # host.n + 1
    <3>1. \A c \in Tabs : subscribed[c] \in Nat \cup {-1} /\ subscribed[c] <= host.n
      BY DEF CoreInv, TabOK
    <3> QED BY <2>1, <3>1
  <2> QED BY <2>1, <2>2 DEF FlagInv
<1> QED BY <1>1, <1>2

(* The rows of a message that was served, with its rejection. *)
LEMMA MessageSuits ==
    ASSUME Types, NEW steering \in BOOLEAN, NEW id \in Nat,
           NEW accepted \in {TRUE, "rejects" \notin Env},
           NEW reply \in {<<>>, <<Event("error")>>},
           NEW after, after = [(IF Flushed(steering) = <<>> THEN turn ELSE AfterCommit)
                                   EXCEPT !.on = @ \/ accepted],
           NEW rows, rows = Flushed(steering) \o <<Row(id, "user")>>,
           NEW seen, NEW awaits, NEW waits
    PROVE  /\ rows \in Seq(RowType)
           /\ Additions(rows) \in Seq(Messages)
           /\ Additions(rows) \o reply \in Seq(Messages)
           /\ Suits(turn.on, turn.partial, seen, awaits, after.on, after.partial, seen, waits,
                    Additions(rows) \o reply)
           /\ (~turn.on => ~turn.partial) => (~after.on => ~after.partial)
<1> DEFINE first == Flushed(steering)
           mine == <<Row(id, "user")>>
<1>1. /\ after.on = (turn.on \/ accepted)
      /\ after.partial = (first = <<>> /\ turn.partial)
  <2>1. turn \in TurnType
    BY DEF Types
  <2> DEFINE committed == AfterCommit
  <2>2. committed \in TurnType /\ committed.on = turn.on /\ committed.partial = FALSE
    BY <2>1 DEF AfterCommit, TurnType
  <2> HIDE DEF first, committed
  <2>3. CASE first = <<>>
    <3>1. after = [turn EXCEPT !.on = turn.on \/ accepted]
      BY <2>3 DEF first
    <3> QED BY <2>1, <2>3, <3>1 DEF TurnType
  <2>4. CASE first # <<>>
    <3>1. after = [committed EXCEPT !.on = committed.on \/ accepted]
      BY <2>4 DEF first, committed
    <3> QED BY <2>2, <2>4, <3>1 DEF TurnType
  <2> QED BY <2>3, <2>4
<1>2. /\ first \in Seq(RowType) /\ Len(first) \in 0..1
      /\ first = <<>> <=> Len(first) = 0
      /\ Len(first) = 1 => first[1].by = "assistant"
  BY CommittedForm DEF Flushed, Row
<1>3. mine \in Seq(RowType) /\ Len(mine) = 1 /\ mine[1].by = "user"
  <2>1. Row(id, "user") \in RowType
    BY DEF Row, RowType, Authors
  <2> QED BY <2>1 DEF Row
<1>4. rows = first \o mine
  OBVIOUS
<1> HIDE DEF first, mine
<1>5. /\ rows \in Seq(RowType) /\ Len(rows) = Len(first) + Len(mine)
      /\ \A i \in 1..(Len(first) + Len(mine)) :
            rows[i] = IF i <= Len(first) THEN first[i] ELSE mine[i - Len(first)]
  <2>1. /\ first \o mine \in Seq(RowType) /\ Len(first \o mine) = Len(first) + Len(mine)
        /\ \A i \in 1..(Len(first) + Len(mine)) :
              (first \o mine)[i] = IF i <= Len(first) THEN first[i] ELSE mine[i - Len(first)]
    <3>1. first \in Seq(RowType) /\ mine \in Seq(RowType)
      BY <1>2, <1>3
    <3> QED BY <3>1, ConcatProperties
  <2> QED BY <1>4, <2>1
<1>6. /\ Additions(rows) \in Seq(Messages) /\ ~Has(Additions(rows), Begun)
      /\ Has(Additions(rows), Cleared) <=> first # <<>>
  <2>1. CASE Len(first) = 0
    <3>1. \A i \in 1..Len(rows) : rows[i].by = "user"
      BY <1>3, <1>5, <2>1
    <3> QED BY <1>2, <1>5, <2>1, <3>1, AdditionsHas
  <2>2. CASE Len(first) = 1
    <3>1. 1 \in 1..Len(rows) /\ rows[1].by = "assistant"
      BY <1>2, <1>3, <1>5, <2>2
    <3>2. first # <<>>
      BY <1>2, <2>2
    <3> QED BY <1>5, <3>1, <3>2, AdditionsHas
  <2> QED BY <1>2, <2>1, <2>2
<1>7. reply \in Seq(Messages) /\ ~Has(reply, Begun) /\ ~Has(reply, Cleared)
  <2>1. CASE reply = <<>>
    BY <2>1 DEF Has
  <2>2. CASE reply = <<Event("error")>>
    BY <2>2, SignalHas DEF Signals
  <2> QED BY <2>1, <2>2
<1> DEFINE ms == Additions(rows) \o reply
<1>8. ms \in Seq(Messages) /\ ~Has(ms, Begun) /\ (Has(ms, Cleared) <=> first # <<>>)
  BY <1>6, <1>7, HasConcat
<1> HIDE DEF ms
<1>9. Suits(turn.on, turn.partial, seen, awaits, after.on, after.partial, seen, waits, ms)
  BY <1>1, <1>8 DEF Suits
<1>10. (~turn.on => ~turn.partial) => (~after.on => ~after.partial)
  BY <1>1
<1> QED BY <1>5, <1>6, <1>8, <1>9, <1>10 DEF ms

(* A message of another tab: what it flushes clears the draft. *)
LEMMA ServeElsewhereFlags ==
    ASSUME Types, CoreInv, FlagInv, NEW steering \in BOOLEAN, ServeElsewhere(steering)
    PROVE  FlagInv'
<1> DEFINE id == made + Len(Flushed(steering)) + 1
           rows == Flushed(steering) \o <<Row(id, "user")>>
<1>1. /\ Alive /\ witness' = witness /\ UNCHANGED <<host, subscribed, up, tab>>
      /\ down' = Sent(Additions(rows))
  BY DEF ServeElsewhere, Emit, Additions
<1>2. PICK accepted \in {TRUE, "rejects" \notin Env} :
        turn' = [(IF Flushed(steering) = <<>> THEN turn ELSE AfterCommit) EXCEPT !.on = @ \/ accepted]
  BY DEF ServeElsewhere
<1>3. id \in Nat
  BY CommittedForm DEF Flushed, Types
<1> HIDE DEF id
<1>4. /\ Additions(rows) \in Seq(Messages)
      /\ \A c \in Tabs : Suits(turn.on, turn.partial, c \in witness, Awaits(c), turn'.on,
                               turn'.partial, c \in witness, Awaits(c), Additions(rows) \o <<>>)
      /\ (~turn.on => ~turn.partial) => (~turn'.on => ~turn'.partial)
  <2> DEFINE after == turn'
  <2>1. /\ after = [(IF Flushed(steering) = <<>> THEN turn ELSE AfterCommit) EXCEPT !.on = @ \/ accepted]
        /\ rows = Flushed(steering) \o <<Row(id, "user")>>
    BY <1>2
  <2>2. <<>> \in {<<>>, <<Event("error")>>}
    OBVIOUS
  <2> HIDE DEF after, rows
  <2>3. ASSUME NEW seen, NEW awaits, NEW waits
        PROVE  /\ Additions(rows) \in Seq(Messages)
               /\ Suits(turn.on, turn.partial, seen, awaits, after.on, after.partial, seen, waits,
                        Additions(rows) \o <<>>)
               /\ (~turn.on => ~turn.partial) => (~after.on => ~after.partial)
    BY <1>2, <1>3, <2>1, <2>2, MessageSuits
  <2> QED BY <2>3 DEF after
<1> HIDE DEF rows
<1>5. Additions(rows) \o <<>> = Additions(rows)
  BY <1>4, ConcatEmptySeq
<1>6. \A c \in Tabs : Suits(turn.on, turn.partial, c \in witness, Awaits(c), turn'.on,
                            turn'.partial, c \in witness', Awaits(c), Additions(rows))
  BY <1>1, <1>4, <1>5
<1>7. (~turn'.on => ~turn'.partial) /\ witness' \subseteq Listening
  BY <1>1, <1>4 DEF FlagInv
<1> QED BY <1>1, <1>4, <1>6, <1>7, Broadcast

(* A message of one of Tabs. *)
LEMMA MessageServedFlags ==
    ASSUME Types, CoreInv, FlagInv,
           NEW c \in Tabs, up[c] # <<>>, up' = [up EXCEPT ![c] = Tail(@)], Awaits(c),
           NEW accepted \in {TRUE, "rejects" \notin Env}, Alive,
           ServeMessage(c, up[c][1], accepted), UNCHANGED <<tab, own, witness>>
    PROVE  FlagInv'
<1> DEFINE message == up[c][1]
           steering == message.type = "steer"
           rows == Flushed(steering) \o <<Row(message.id, "user")>>
           a == Additions(rows)
           reply == IF accepted THEN <<>> ELSE <<Event("error")>>
<1>1. /\ turn' = [(IF Flushed(steering) = <<>> THEN turn ELSE AfterCommit) EXCEPT !.on = @ \/ accepted]
      /\ down' = [Sent(a) EXCEPT ![c] = Sent(a)[c] \o reply]
      /\ UNCHANGED <<host, subscribed>>
  BY DEF ServeMessage, Additions
<1>2. message.id \in Nat
  <2>1. message \in Requests /\ message.type # "switch"
    BY RequestTaken DEF Awaits
  <2> QED BY <2>1 DEF Requests
<1>3. steering \in BOOLEAN /\ reply \in {<<>>, <<Event("error")>>}
  OBVIOUS
<1> HIDE DEF steering, message
<1>4. \A r \in {<<>>, <<Event("error")>>} :
        /\ rows \in Seq(RowType)
        /\ a \in Seq(Messages) /\ a \o r \in Seq(Messages)
        /\ \A seen, awaits, waits :
             Suits(turn.on, turn.partial, seen, awaits, turn'.on, turn'.partial, seen, waits, a \o r)
        /\ (~turn.on => ~turn.partial) => (~turn'.on => ~turn'.partial)
  <2> DEFINE after == turn'
  <2>1. /\ after = [(IF Flushed(steering) = <<>> THEN turn ELSE AfterCommit) EXCEPT !.on = @ \/ accepted]
        /\ rows = Flushed(steering) \o <<Row(message.id, "user")>>
    BY <1>1
  <2> HIDE DEF after, rows
  <2>2. ASSUME NEW r \in {<<>>, <<Event("error")>>}, NEW seen, NEW awaits, NEW waits
        PROVE  /\ rows \in Seq(RowType)
               /\ Additions(rows) \in Seq(Messages)
               /\ Additions(rows) \o r \in Seq(Messages)
               /\ Suits(turn.on, turn.partial, seen, awaits, after.on, after.partial, seen, waits,
                        Additions(rows) \o r)
               /\ (~turn.on => ~turn.partial) => (~after.on => ~after.partial)
    BY <1>2, <1>3, <2>1, MessageSuits
  <2> QED BY <2>2 DEF after
<1> HIDE DEF rows, a, reply
<1>5. ASSUME NEW e \in Tabs, subscribed[e] = host.n
      PROVE  Flags(turn'.on, turn'.partial, e \in witness, Awaits(e)', tab[e], down'[e])
  <2>1. down[e] \in Seq(Messages) /\ a \in Seq(Messages)
    BY <1>4 DEF CoreInv, TabOK, WellFormed
  <2>2. Flags(turn.on, turn.partial, e \in witness, Awaits(e), tab[e], down[e])
    BY <1>5 DEF FlagInv
  <2>3. Sent(a)[e] = down[e] \o a /\ DOMAIN Sent(a) = Tabs
    BY <1>5, SentToTab DEF Delivered, Sent
  <2>4. \E r \in {<<>>, <<Event("error")>>} : down'[e] = down[e] \o (a \o r)
    <3>1. CASE e = c
      <4>1. reply \in Seq(Messages) /\ reply \in {<<>>, <<Event("error")>>}
        <5>1. <<>> \in Seq(Messages)
          OBVIOUS
        <5>2. "error" \in Signals
          BY DEF Signals
        <5>3. <<Event("error")>> \in Seq(Messages)
          BY <5>2, SignalHas
        <5> QED BY <1>3, <5>1, <5>3
      <4>2. (down[e] \o a) \o reply = down[e] \o (a \o reply)
        <5> DEFINE x == down[e]
        <5>1. x \in Seq(Messages)
          BY <2>1
        <5> HIDE DEF x
        <5>2. (x \o a) \o reply = x \o (a \o reply)
          <6>1. a \in Seq(Messages) /\ reply \in Seq(Messages)
            BY <2>1, <4>1
          <6> QED BY <5>1, <6>1, ConcatAssociative
        <5> QED BY <5>2 DEF x
      <4> QED BY <1>1, <2>3, <3>1, <4>1, <4>2
    <3>2. CASE e # c
      <4>1. a \o <<>> = a
        BY <2>1, ConcatEmptySeq
      <4> QED BY <1>1, <2>3, <3>2, <4>1
    <3> QED BY <3>1, <3>2
  <2>5. PICK r \in {<<>>, <<Event("error")>>} : down'[e] = down[e] \o (a \o r)
    BY <2>4
  <2>6. /\ a \o r \in Seq(Messages)
        /\ Suits(turn.on, turn.partial, e \in witness, Awaits(e), turn'.on, turn'.partial,
                 e \in witness, Awaits(e)', a \o r)
    BY <1>4
  <2> QED BY <2>1, <2>2, <2>5, <2>6, FlagsSent
<1>6. Alive' = Alive /\ Listening' = Listening /\ (~turn'.on => ~turn'.partial)
  BY <1>1, <1>4 DEF Alive, Listening, FlagInv
<1>7. \A e \in Tabs : Alive' /\ subscribed'[e] = host'.n =>
          Flags(turn'.on, turn'.partial, e \in witness', Awaits(e)', tab'[e], down'[e])
  BY <1>1, <1>5
<1>8. /\ \A e \in Tabs : subscribed'[e] <= 0 => ~tab'[e].draft
      /\ witness' \subseteq Listening'
      /\ ~Alive' => witness' = {}
  BY <1>1, <1>6 DEF FlagInv
<1> QED BY Zenon, <1>6, <1>7, <1>8 DEF FlagInv

(* A tab that shows no draft and to which only errors are on their way: nothing is due. *)
LEMMA QuietFlags ==
    ASSUME NEW t, ~t.draft, NEW d \in Seq(Messages), \A k \in 1..Len(d) : d[k].type = "error",
           NEW awaits
    PROVE  Flags(TRUE, FALSE, FALSE, awaits, t, d)
<1>1. \A k \in 1..Len(d) : d[k] \notin Begun
  BY DEF Begun
<1> QED BY <1>1 DEF Flags, EndsOff

(* A snapshot, with an answer if the agent is idle. *)
LEMMA SwitchServedFlags ==
    ASSUME Types, CoreInv, FlagInv,
           NEW c \in Tabs, up[c] # <<>>, up' = [up EXCEPT ![c] = Tail(@)], ~Awaits(c),
           Alive, ServeSwitch(c), UNCHANGED <<tab, own, witness>>
    PROVE  FlagInv'
<1> DEFINE s == Subscription(c)
           ms == <<Snapshot>> \o IF turn.on THEN <<>> ELSE <<Event("ready")>>
<1>1. /\ host.n \in Nat \ {0} /\ DOMAIN down = Tabs /\ subscribed \in [Tabs -> Nat \cup {-1}]
  BY DEF Types, HostType
<1>2. /\ turn' = turn /\ host' = host /\ witness' = witness /\ tab' = tab
      /\ subscribed' = [subscribed EXCEPT ![c] = s]
      /\ down' = [down EXCEPT ![c] = down[c] \o ms]
  BY DEF ServeSwitch, server, Reply
<1>3. /\ subscribed[c] # -1 /\ s = (IF subscribed[c] = 0 THEN host.n ELSE subscribed[c])
      /\ up'[c] = <<>> /\ \A e \in Tabs \ {c} : up'[e] = up[e]
  BY RequestTaken DEF Subscription
<1>4. ~Awaits(c)' /\ \A e \in Tabs \ {c} : Awaits(e)' = Awaits(e)
  BY <1>3 DEF Awaits
<1>5. /\ ms \in Seq(Messages) /\ ~Has(ms, Begun) /\ ~Has(ms, Cleared) /\ ~Has(ms, Requested)
      /\ ~turn.on => Has(ms, Ended) /\ Has(ms, Answered)
  <2>1. Snapshot \in Messages /\ Snapshot.type = "history"
    BY DEF CoreInv, CacheOK, Messages, Snapshot
  <2>2. Snapshot \notin Begun /\ Snapshot \notin Cleared /\ Snapshot \notin Requested
    BY <2>1 DEF Begun, Cleared, Requested
  <2> DEFINE p == Snapshot
             one == <<p>>
  <2> HIDE DEF p
  <2>3. one \in Seq(Messages) /\ Len(one) = 1 /\ one[1] = p
    BY <2>1 DEF p
  <2> HIDE DEF one
  <2>4. \A S : Has(one, S) <=> p \in S
    BY <2>3 DEF Has
  <2>5. CASE turn.on
    <3>1. ms = one \o <<>>
      BY <2>5 DEF one, p
    <3>2. ms = one
      BY <2>3, <3>1, ConcatEmptySeq
    <3> HIDE DEF ms
    <3> QED BY <2>2, <2>3, <2>4, <2>5, <3>2 DEF p
  <2>6. CASE ~turn.on
    <3>1. ms = one \o <<Event("ready")>>
      BY <2>6 DEF one, p
    <3>2. "ready" \in Signals
      BY DEF Signals
    <3> HIDE DEF ms
    <3>3. /\ <<Event("ready")>> \in Seq(Messages) /\ ~Has(<<Event("ready")>>, Begun)
          /\ ~Has(<<Event("ready")>>, Cleared) /\ Has(<<Event("ready")>>, Ended)
          /\ ~Has(<<Event("ready")>>, Requested) /\ Has(<<Event("ready")>>, Answered)
      BY <3>2, SignalHas
    <3>4. \A S : Has(ms, S) <=> Has(one, S) \/ Has(<<Event("ready")>>, S)
      BY <2>3, <3>1, <3>3, HasConcat
    <3>5. ms \in Seq(Messages)
      BY <2>3, <3>1, <3>3, HasConcat
    <3> QED BY <2>2, <2>4, <3>3, <3>4, <3>5 DEF p
  <2> QED BY <2>5, <2>6
<1>6. down[c] \in Seq(Messages) /\ (subscribed[c] <= 0 => \A k \in 1..Len(down[c]) : down[c][k].type = "error")
  BY DEF CoreInv, TabOK, WellFormed
<1> HIDE DEF ms, s
<1>7. ASSUME s = host.n
      PROVE  Flags(turn.on, turn.partial, c \in witness, FALSE, tab[c], down[c] \o ms)
  <2>1. CASE subscribed[c] = host.n
    <3>1. Flags(turn.on, turn.partial, c \in witness, Awaits(c), tab[c], down[c])
      BY <2>1 DEF FlagInv
    <3>2. Suits(turn.on, turn.partial, c \in witness, Awaits(c), turn.on, turn.partial,
                c \in witness, FALSE, ms)
      BY <1>5 DEF Suits
    <3> QED BY <1>5, <1>6, <3>1, <3>2, FlagsSent
  <2>2. CASE subscribed[c] = 0
    <3>1. Flags(TRUE, FALSE, FALSE, FALSE, tab[c], down[c])
      <4>1. ~tab[c].draft
        BY <2>2 DEF FlagInv
      <4>2. \A k \in 1..Len(down[c]) : down[c][k].type = "error"
        BY <1>6, <2>2
      <4> QED BY <1>6, <4>1, <4>2, QuietFlags
    <3>2. c \notin witness
      BY <1>1, <2>2 DEF FlagInv, Listening
    <3>3. Suits(TRUE, FALSE, FALSE, FALSE, turn.on, turn.partial, c \in witness, FALSE, ms)
      BY <1>5, <3>2 DEF Suits
    <3> QED BY <1>5, <1>6, <3>1, <3>3, FlagsSent
  <2> QED BY <1>3, <1>7, <2>1, <2>2
<1>8. ASSUME NEW e \in Tabs, Alive', subscribed'[e] = host'.n
      PROVE  Flags(turn'.on, turn'.partial, e \in witness', Awaits(e)', tab'[e], down'[e])
  <2>1. CASE e = c
    <3>1. down'[e] = down[c] \o ms /\ s = host.n
      BY <1>1, <1>2, <1>8, <2>1
    <3>2. Awaits(e)' = FALSE
      BY <1>4, <2>1
    <3> QED BY <1>2, <1>7, <2>1, <3>1, <3>2
  <2>2. CASE e # c
    <3>1. subscribed'[e] = subscribed[e] /\ down'[e] = down[e] /\ Awaits(e)' = Awaits(e)
      BY <1>1, <1>2, <1>4, <2>2
    <3> QED BY <1>2, <1>8, <3>1 DEF FlagInv, Alive
  <2> QED BY <2>1, <2>2
<1>9. ASSUME NEW e \in Tabs, subscribed'[e] <= 0 PROVE ~tab'[e].draft
  <2>1. subscribed[e] <= 0
    BY <1>1, <1>2, <1>3, <1>9
  <2> QED BY <1>2, <2>1 DEF FlagInv
<1>10. witness' \subseteq Listening'
  <2>1. \A e \in Tabs : subscribed[e] = host.n => subscribed'[e] = host.n
    BY <1>1, <1>2, <1>3
  <2> QED BY <1>2, <2>1 DEF FlagInv, Listening
<1> QED BY <1>2, <1>8, <1>9, <1>10 DEF FlagInv, Alive

(* handleClientMessage. *)
LEMMA ServeFlags ==
    ASSUME Types, CoreInv, FlagInv, NEW c \in Tabs, Serve(c)
    PROVE  FlagInv'
<1>1. /\ up[c] # <<>> /\ up' = [up EXCEPT ![c] = Tail(@)] /\ UNCHANGED <<tab, own, witness>>
      /\ Head(up[c]) = up[c][1]
  BY RequestTaken DEF Serve
<1>2. CASE ~Alive
  <2>1. UNCHANGED <<turn, host, subscribed>>
    BY <1>2 DEF Serve, ServeSwitch, ServeMessage, server
  <2>2. ~Alive' /\ witness' = {}
    BY <1>1, <1>2, <2>1 DEF Alive, FlagInv
  <2>3. /\ \A e \in Tabs : subscribed'[e] <= 0 => ~tab'[e].draft
        /\ ~turn'.on => ~turn'.partial
    BY <1>1, <2>1 DEF FlagInv
  <2>4. \A e \in Tabs : Alive' /\ subscribed'[e] = host'.n =>
            Flags(turn'.on, turn'.partial, e \in witness', Awaits(e)', tab'[e], down'[e])
    BY <2>2
  <2>5. witness' \subseteq Listening'
    BY <2>2
  <2> QED BY Zenon, <2>2, <2>3, <2>4, <2>5 DEF FlagInv
<1>3. CASE Alive /\ up[c][1].type = "switch"
  <2>1. ServeSwitch(c)
    BY <1>1, <1>3 DEF Serve
  <2> QED BY <1>1, <1>3, <2>1, SwitchServedFlags DEF Awaits
<1>4. CASE Alive /\ up[c][1].type # "switch"
  <2>1. PICK accepted \in {TRUE, "rejects" \notin Env} : ServeMessage(c, up[c][1], accepted)
    BY <1>1, <1>4 DEF Serve
  <2> QED BY <1>1, <1>4, <2>1, MessageServedFlags DEF Awaits
<1> QED BY <1>2, <1>3, <1>4

(* onmessage. *)
LEMMA ReceiveFlags ==
    ASSUME Types, CoreInv, FlagInv, NEW c \in Tabs, Receive(c)
    PROVE  FlagInv'
<1> DEFINE m == Head(down[c])
           u == Shown(tab[c], m)
<1>1. /\ down[c] # <<>> /\ down' = [down EXCEPT ![c] = Tail(down[c])]
      /\ tab' = [tab EXCEPT ![c] = u]
      /\ UNCHANGED <<turn, host, subscribed, up, witness>>
  BY DEF Receive, server
<1>2. DOMAIN down = Tabs /\ tab \in [Tabs -> StoreType]
  BY DEF Types
<1>3. down[c] \in Seq(Messages) /\ (subscribed[c] <= 0 => \A k \in 1..Len(down[c]) : down[c][k].type = "error")
  BY DEF CoreInv, TabOK, WellFormed
<1>4. tab'[c] = u /\ down'[c] = Tail(down[c])
  BY <1>1, <1>2
<1>5. \A e \in Tabs \ {c} : tab'[e] = tab[e] /\ down'[e] = down[e]
  BY <1>1, <1>2
<1>6. \A e \in Tabs : Awaits(e)' = Awaits(e)
  BY <1>1 DEF Awaits
<1>7. Alive /\ subscribed[c] = host.n =>
        Flags(turn.on, turn.partial, c \in witness, Awaits(c), u, Tail(down[c]))
  BY <1>1, <1>2, <1>3, FlagsHear DEF FlagInv
<1>8. subscribed[c] <= 0 => ~u.draft
  <2>1. m \in Messages /\ m = down[c][1] /\ 1 \in 1..Len(down[c])
    BY <1>1, <1>3, TailShifts
  <2>2. tab[c] \in StoreType
    BY <1>2
  <2> HIDE DEF m
  <2>3. subscribed[c] <= 0 => m.type = "error" /\ ~tab[c].draft
    BY <1>3, <2>1 DEF FlagInv
  <2> QED BY <2>1, <2>2, <2>3, ShownDraft
<1> HIDE DEF u, m
<1>9. \A e \in Tabs : Alive' /\ subscribed'[e] = host'.n =>
        Flags(turn'.on, turn'.partial, e \in witness', Awaits(e)', tab'[e], down'[e])
  BY <1>1, <1>4, <1>5, <1>6, <1>7 DEF FlagInv, Alive
<1>10. \A e \in Tabs : subscribed'[e] <= 0 => ~tab'[e].draft
  BY <1>1, <1>4, <1>5, <1>8 DEF FlagInv
<1> QED BY <1>1, <1>9, <1>10 DEF FlagInv, Alive, Listening

(* The user sends a message, and waits. *)
LEMMA SubmitFlags ==
    ASSUME Types, CoreInv, FlagInv, NEW c \in Tabs, Submit(c)
    PROVE  FlagInv'
<1> DEFINE u == WithOwn(tab[c], made + 1)
           kind == IF tab[c].streaming THEN "steer" ELSE "user"
<1>1. /\ up' = [up EXCEPT ![c] = <<[type |-> kind, id |-> made + 1]>>]
      /\ tab' = [tab EXCEPT ![c] = u]
      /\ UNCHANGED <<turn, host, subscribed, down, witness>>
  BY DEF Submit
<1>2. tab \in [Tabs -> StoreType] /\ DOMAIN up = Tabs
  BY DEF Types
<1>3. u.draft = tab[c].draft /\ u.streaming = tab[c].streaming
  <2>1. tab[c] \in StoreType
    BY <1>2
  <2> QED BY <2>1 DEF WithOwn, StoreType
<1>4. Awaits(c)' /\ \A e \in Tabs \ {c} : Awaits(e)' = Awaits(e) /\ tab'[e] = tab[e]
  BY <1>1, <1>2 DEF Awaits
<1>5. tab'[c] = u
  BY <1>1, <1>2
<1> HIDE DEF u
<1>6. Flags(turn.on, turn.partial, c \in witness, Awaits(c), tab[c], down[c]) =>
        Flags(turn.on, turn.partial, c \in witness, TRUE, u, down[c])
  BY <1>3 DEF Flags
<1>7. Awaits(c)' = TRUE
  BY <1>4 DEF Awaits
<1>8. ASSUME NEW e \in Tabs, Alive', subscribed'[e] = host'.n
      PROVE  Flags(turn'.on, turn'.partial, e \in witness', Awaits(e)', tab'[e], down'[e])
  <2>1. Flags(turn.on, turn.partial, e \in witness, Awaits(e), tab[e], down[e])
    BY <1>1, <1>8 DEF FlagInv, Alive
  <2>2. CASE e = c
    BY <1>1, <1>5, <1>6, <1>7, <2>1, <2>2
  <2>3. CASE e # c
    BY <1>1, <1>4, <2>1, <2>3
  <2> QED BY <2>2, <2>3
<1>9. \A e \in Tabs : subscribed'[e] <= 0 => ~tab'[e].draft
  BY <1>1, <1>3, <1>4, <1>5 DEF FlagInv
<1> QED BY <1>1, <1>8, <1>9 DEF FlagInv, Alive, Listening

(* A connection opens, closes or asks again. *)
LEMMA ReconnectFlags ==
    ASSUME Types, CoreInv, FlagInv, NEW c \in Tabs, Reconnects(c)
    PROVE  FlagInv'
<1>1. /\ host.n \in Nat \ {0} /\ DOMAIN down = Tabs /\ tab \in [Tabs -> StoreType]
      /\ subscribed \in [Tabs -> Nat \cup {-1}] /\ DOMAIN up = Tabs
  BY DEF Types, HostType
<1>2. CASE Revisit(c)
  <2>1. \A e \in Tabs : Awaits(e)' = Awaits(e)
    BY <1>1, <1>2 DEF Revisit, Awaits
  <2>2. UNCHANGED <<turn, host, subscribed, down, tab, witness>>
    BY <1>2 DEF Revisit, server
  <2> QED BY <2>1, <2>2 DEF FlagInv, Alive, Listening
<1>3. CASE Drop(c) \/ Connect(c)
  <2>1. /\ UNCHANGED <<turn, host>>
        /\ witness' \subseteq witness \ {c}
        /\ subscribed'[c] <= 0 /\ ~tab'[c].draft
        /\ \A e \in Tabs \ {c} : /\ up'[e] = up[e] /\ subscribed'[e] = subscribed[e]
                                 /\ down'[e] = down[e] /\ tab'[e] = tab[e]
                                 /\ e \in witness' <=> e \in witness
    <3>1. CASE Drop(c)
      BY <1>1, <3>1 DEF Drop, server, Fresh
    <3>2. CASE Connect(c)
      <4>1. subscribed[c] <= 0 /\ ~tab[c].draft /\ c \notin witness
        BY <1>1, <3>2 DEF Connect, Connected, FlagInv, Listening
      <4> QED BY <1>1, <3>2, <4>1 DEF Connect, server
    <3> QED BY <1>3, <3>1, <3>2
  <2>2. subscribed'[c] # host.n
    BY <1>1, <2>1
  <2>3. \A e \in Tabs \ {c} : Awaits(e)' = Awaits(e)
    BY <2>1 DEF Awaits
  <2>4. ASSUME NEW e \in Tabs, Alive', subscribed'[e] = host'.n
        PROVE  Flags(turn'.on, turn'.partial, e \in witness', Awaits(e)', tab'[e], down'[e])
    <3>1. e # c
      BY <2>1, <2>2, <2>4
    <3>2. Flags(turn.on, turn.partial, e \in witness, Awaits(e), tab[e], down[e])
      BY <2>1, <2>4, <3>1 DEF FlagInv, Alive
    <3>3. e \in witness' <=> e \in witness
      BY <2>1, <3>1
    <3>4. turn' = turn /\ tab'[e] = tab[e] /\ down'[e] = down[e] /\ Awaits(e)' = Awaits(e)
      BY <2>1, <2>3, <3>1
    <3> QED BY <3>2, <3>3, <3>4 DEF Flags
  <2>5. \A e \in Tabs : subscribed'[e] <= 0 => ~tab'[e].draft
    BY <2>1 DEF FlagInv
  <2>6. witness' \subseteq Listening'
    BY <2>1 DEF FlagInv, Listening
  <2> QED BY <2>1, <2>4, <2>5, <2>6 DEF FlagInv, Alive
<1> QED BY <1>2, <1>3 DEF Reconnects

(* The initial states. *)
LEMMA InitFlags == Init => FlagInv
<1>1. Init => \A c \in Tabs : subscribed[c] # host.n /\ ~tab[c].draft
  BY DEF Init, Fresh
<1> QED BY <1>1 DEF Init, Idle, Fresh, FlagInv, Alive, Listening

(* Every step keeps what the flags will be. *)
LEMMA NextFlags ==
    ASSUME Types, CoreInv, FlagInv, [Next]_vars
    PROVE  FlagInv'
<1>1. CASE Stream \/ ToolStart
  BY <1>1, StreamFlags
<1>2. CASE ToolEnd \/ SystemRow \/ AgentEnd
  BY <1>2, ToolEndFlags, SystemRowFlags, AgentEndFlags
<1>3. CASE \E failed \in BOOLEAN : MessageEnd(failed)
  BY <1>3, MessageEndFlags
<1>4. CASE \E steering \in BOOLEAN : ServeElsewhere(steering)
  BY <1>4, ServeElsewhereFlags
<1>5. CASE Terminate \/ Resurrect
  BY <1>5, HostFlags
<1>6. ASSUME NEW c \in Tabs, Serve(c) PROVE FlagInv'
  BY <1>6, ServeFlags
<1>7. ASSUME NEW c \in Tabs, Receive(c) PROVE FlagInv'
  BY <1>7, ReceiveFlags
<1>8. ASSUME NEW c \in Tabs, Submit(c) PROVE FlagInv'
  BY <1>8, SubmitFlags
<1>9. ASSUME NEW c \in Tabs, Revisit(c) \/ Drop(c) \/ Connect(c) PROVE FlagInv'
  BY <1>9, ReconnectFlags DEF Reconnects
<1>10. CASE UNCHANGED vars
  BY <1>10 DEF vars, server, FlagInv, Alive, Listening, Awaits
<1> QED BY <1>1, <1>2, <1>3, <1>4, <1>5, <1>6, <1>7, <1>8, <1>9, <1>10 DEF Next

(* So it holds in every reachable state. *)
LEMMA FlagsKept == Spec => [](CoreInv /\ FlagInv)
<1>1. Init => Types /\ CoreInv /\ FlagInv
  BY InitCore, InitFlags
<1>2. Types /\ CoreInv /\ FlagInv /\ [Next]_vars => Types' /\ CoreInv' /\ FlagInv'
  BY NextCore, NextFlags, ChatAssumption
<1> QED BY <1>1, <1>2, PTL DEF Spec

(* The flags of a settled tab. *)
LEMMA SettledFlags ==
    ASSUME CoreInv, FlagInv, NEW c \in Tabs, Settled(c)
    PROVE  /\ ~turn.partial => ~tab[c].draft
           /\ ~turn.on => ~tab[c].streaming /\ ~turn.partial
           /\ "rejects" \notin Env /\ ~turn.on => ~tab[c].waiting
           /\ turn.partial /\ c \in witness => tab[c].draft
<1>1. Alive /\ subscribed[c] = host.n /\ down[c] = <<>> /\ ~Awaits(c)
  BY DEF Settled, Awaits
<1>2. Flags(turn.on, turn.partial, c \in witness, FALSE, tab[c], <<>>) /\ (~turn.on => ~turn.partial)
  <2>1. Flags(turn.on, turn.partial, c \in witness, Awaits(c), tab[c], <<>>)
    BY <1>1 DEF FlagInv
  <2> QED BY <1>1, <2>1 DEF Flags, FlagInv
<1>3. /\ \A b, S, C : EndsOff(b, <<>>, S, C) => ~b
      /\ \A b, S, C : EndsOn(b, <<>>, S, C) => b
  BY DEF EndsOff, EndsOn, Has
<1> QED BY <1>2, <1>3 DEF Flags

(* When the agent is idle no settled tab shows a stream, a wait or a draft, if prompt()
   does not reject: after a rejection the host starts no turn that would end the wait of
   another tab.                                                                   *)
THEOREM IdleShowsNothing ==
    ASSUME "rejects" \notin Env
    PROVE  Spec => []IndicatorsIdle
<1>1. CoreInv /\ FlagInv => IndicatorsIdle
  BY SettledFlags DEF IndicatorsIdle, InProgress
<1> QED BY <1>1, FlagsKept, PTL

(* A tab that was sent a draft from its beginning shows it as long as the turn is in
   flight.                                                                        *)
THEOREM DraftStays == Spec => []DraftKept
<1>1. CoreInv /\ FlagInv => DraftKept
  <2>1. FlagInv => witness \subseteq Tabs
    BY DEF FlagInv, Listening
  <2> QED BY <2>1, SettledFlags DEF DraftKept
<1> QED BY <1>1, FlagsKept, PTL
=============================================================================
