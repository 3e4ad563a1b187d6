------------------------- MODULE ServicePartsProofs -------------------------
(***************************************************************************)
(* The services beside the rooms, for every size of their queues, rooms    *)
(* and reports: the counters of telemetry account for every loss, link     *)
(* rooms are under way only after an agreement and keep the order of their *)
(* packets, and the input delay covers what was measured and is lowered    *)
(* only on evidence.                                                       *)
(***************************************************************************)
EXTENDS Telemetry, LinkCable, InputDelay, TLAPS

(* Telemetry.                                                              *)

\* The records of kind k in s are in recording order; those of s come before those of t.
Rises(k, s) == \A i, j \in DOMAIN s : i < j /\ s[i].kind = k /\ s[j].kind = k => s[i].n < s[j].n
Leads(k, s, t) ==
  \A i \in DOMAIN s, j \in DOMAIN t : s[i].kind = k /\ t[j].kind = k => s[i].n < t[j].n
UpTo(s, m) == \A i \in DOMAIN s : s[i].n <= m

\* Rows a, records in hand h and channel q, one after the other, hold the records of a
\* kind in recording order.
Lined(k, a, h, q, m) ==
  /\ Rises(k, a) /\ Rises(k, h) /\ Rises(k, q)
  /\ Leads(k, a, h) /\ Leads(k, a, q) /\ Leads(k, h, q)
  /\ UpTo(a, m) /\ UpTo(h, m) /\ UpTo(q, m)

\* What the drain task has taken from the channel and not yet written.
Hand == IF drain = "write" THEN todo ELSE batch

Counted == recorded >= Rows + Waiting /\ dropped <= Missing /\ Missing <= dropped + failed

InLine == \A k \in RecordKinds : /\ \A i \in DOMAIN stored[k] : stored[k][i].kind = k
                                 /\ Lined(k, stored[k], Hand, queue, recorded)

\* LossesAreCounted is not inductive: that a table holds a record once depends on what may
\* still be written to it, and that a failing batch is counted on what is left of it.
TelInv ==
  /\ TelTypeOK
  /\ drain = "select" => Len(batch) < BatchSize
  /\ drain = "connect" => batch # << >>
  /\ drain = "write" => Len(todo) <= Len(batch)
  /\ Counted /\ InLine

OneLeads(k, x, t) == \A j \in DOMAIN t : x.kind = k /\ t[j].kind = k => x.n < t[j].n
LeadsOne(k, s, x) == \A i \in DOMAIN s : s[i].kind = k /\ x.kind = k => s[i].n < x.n

\* The fields of a record.
LEMMA RecordFields == ASSUME NEW r \in Records PROVE r.n \in Nat /\ r.kind \in RecordKinds
BY TelemetryAssumption DEF Records

\* A record more at the end of a sequence.
LEMMA RecordAdded ==
  ASSUME NEW k, NEW s \in Seq(Records), NEW x \in Records
  PROVE  /\ Rises(k, s) /\ LeadsOne(k, s, x) => Rises(k, Append(s, x))
         /\ \A t \in Seq(Records) : Leads(k, t, s) /\ LeadsOne(k, t, x) => Leads(k, t, Append(s, x))
         /\ \A t \in Seq(Records) : Leads(k, s, t) /\ OneLeads(k, x, t) => Leads(k, Append(s, x), t)
         /\ \A m \in Nat : UpTo(s, m) /\ x.n <= m => UpTo(Append(s, x), m)
<1>1. PICK u : u = Append(s, x)
  BY Zenon
<1>2. PICK l \in Nat : l = Len(s) /\ DOMAIN s = 1 .. l
  OBVIOUS
<1>3. DOMAIN u = 1 .. (l + 1) /\ (\A i \in 1 .. l : u[i] = s[i]) /\ u[l + 1] = x
  BY <1>1, <1>2
<1>4. \A i \in DOMAIN u : (i \in DOMAIN s /\ u[i] = s[i]) \/ (i = l + 1 /\ u[i] = x)
  BY <1>2, <1>3
<1>5. Rises(k, s) /\ LeadsOne(k, s, x) => Rises(k, u)
  <2> SUFFICES ASSUME Rises(k, s), LeadsOne(k, s, x), NEW i \in DOMAIN u, NEW j \in DOMAIN u,
                      i < j, u[i].kind = k, u[j].kind = k
               PROVE  u[i].n < u[j].n
    BY Zenon DEF Rises
  <2>1. i \in DOMAIN s /\ u[i] = s[i]
    BY <1>2, <1>3
  <2> QED
    BY <1>4, <2>1, Zenon DEF Rises, LeadsOne
<1>6. ASSUME NEW t \in Seq(Records), Leads(k, t, s), LeadsOne(k, t, x) PROVE Leads(k, t, u)
  BY <1>4, <1>6, Zenon DEF Leads, LeadsOne
<1>7. ASSUME NEW t \in Seq(Records), Leads(k, s, t), OneLeads(k, x, t) PROVE Leads(k, u, t)
  BY <1>4, <1>7, Zenon DEF Leads, OneLeads
<1>8. ASSUME NEW m \in Nat, UpTo(s, m), x.n <= m PROVE UpTo(u, m)
  BY <1>4, <1>8, Zenon DEF UpTo
<1> QED
  BY <1>1, <1>5, <1>6, <1>7, <1>8, Zenon

\* The first record of a sequence leads the others.
LEMMA RecordTaken ==
  ASSUME NEW k, NEW s \in Seq(Records), s # << >>
  PROVE  /\ Head(s) \in Records /\ Tail(s) \in Seq(Records)
         /\ Rises(k, s) => Rises(k, Tail(s)) /\ OneLeads(k, Head(s), Tail(s))
         /\ \A t \in Seq(Records) : Leads(k, t, s) => Leads(k, t, Tail(s)) /\ LeadsOne(k, t, Head(s))
         /\ \A t \in Seq(Records) : Leads(k, s, t) => Leads(k, Tail(s), t) /\ OneLeads(k, Head(s), t)
         /\ \A m \in Nat : UpTo(s, m) => UpTo(Tail(s), m) /\ Head(s).n <= m
<1>1. PICK u, x : u = Tail(s) /\ x = Head(s)
  BY Zenon
<1>2. PICK l \in Nat \ {0} : l = Len(s) /\ DOMAIN s = 1 .. l
  OBVIOUS
<1>3. /\ DOMAIN u = 1 .. (l - 1) /\ (\A i \in 1 .. (l - 1) : u[i] = s[i + 1]) /\ x = s[1]
      /\ u \in Seq(Records) /\ x \in Records
  BY <1>1, <1>2
<1>4. \A i \in DOMAIN u : i + 1 \in DOMAIN s /\ u[i] = s[i + 1] /\ 1 < i + 1
  BY <1>2, <1>3
<1>5. 1 \in DOMAIN s
  BY <1>2
<1>6. ASSUME Rises(k, s) PROVE Rises(k, u) /\ OneLeads(k, x, u)
  <2>1. OneLeads(k, x, u)
    BY <1>3, <1>4, <1>5, <1>6, Zenon DEF Rises, OneLeads
  <2>2. \A i, j \in DOMAIN u : i < j => i + 1 < j + 1
    BY <1>3
  <2>3. Rises(k, u)
    BY <1>4, <1>6, <2>2, Zenon DEF Rises
  <2> QED
    BY <2>1, <2>3
<1>7. ASSUME NEW t \in Seq(Records), Leads(k, t, s) PROVE Leads(k, t, u) /\ LeadsOne(k, t, x)
  BY <1>3, <1>4, <1>5, <1>7, Zenon DEF Leads, LeadsOne
<1>8. ASSUME NEW t \in Seq(Records), Leads(k, s, t) PROVE Leads(k, u, t) /\ OneLeads(k, x, t)
  BY <1>3, <1>4, <1>5, <1>8, Zenon DEF Leads, OneLeads
<1>9. ASSUME NEW m \in Nat, UpTo(s, m) PROVE UpTo(u, m) /\ x.n <= m
  BY <1>3, <1>4, <1>5, <1>9, Zenon DEF UpTo
<1> QED
  BY <1>1, <1>3, <1>6, <1>7, <1>8, <1>9, Zenon

\* The line moves: try_record appends to the channel, the drain task takes from it, puts
\* its batch in the order of the tables, and writes a row.
LEMMA LinedRecord ==
  ASSUME NEW k, NEW a \in Seq(Records), NEW h \in Seq(Records), NEW q \in Seq(Records),
         NEW m \in Nat, Lined(k, a, h, q, m)
  PROVE  /\ Lined(k, a, h, q, m + 1)
         /\ \A x \in Records : x.n = m + 1 => Lined(k, a, h, Append(q, x), m + 1)
<1>1. ASSUME NEW s \in Seq(Records), UpTo(s, m)
      PROVE  UpTo(s, m + 1) /\ \A x \in Records : x.n = m + 1 => LeadsOne(k, s, x)
  <2>1. \A i \in DOMAIN s : s[i].n \in Nat /\ s[i].n <= m
    BY <1>1, RecordFields DEF UpTo
  <2> QED
    BY <2>1 DEF UpTo, LeadsOne
<1>2. UpTo(a, m + 1) /\ UpTo(h, m + 1) /\ UpTo(q, m + 1)
  BY <1>1 DEF Lined
<1>3. ASSUME NEW x \in Records, x.n = m + 1 PROVE Lined(k, a, h, Append(q, x), m + 1)
  <2>1. LeadsOne(k, a, x) /\ LeadsOne(k, h, x) /\ LeadsOne(k, q, x)
    BY <1>1, <1>3, Zenon DEF Lined
  <2>2. m + 1 \in Nat /\ x.n <= m + 1
    BY <1>3
  <2>3. Rises(k, Append(q, x)) /\ Leads(k, a, Append(q, x)) /\ Leads(k, h, Append(q, x))
        /\ UpTo(Append(q, x), m + 1)
    BY <1>2, <2>1, <2>2, RecordAdded, Zenon DEF Lined
  <2> QED
    BY <1>2, <2>3, Zenon DEF Lined
<1> QED
  BY <1>2, <1>3, Zenon DEF Lined

\* The drain task takes the next record from the channel.
LEMMA LinedReceive ==
  ASSUME NEW k, NEW a \in Seq(Records), NEW h \in Seq(Records), NEW q \in Seq(Records),
         NEW m \in Nat, Lined(k, a, h, q, m), q # << >>
  PROVE  Lined(k, a, Append(h, Head(q)), Tail(q), m)
<1>1. PICK x, u : x = Head(q) /\ u = Tail(q)
  BY Zenon
<1>2. x \in Records /\ u \in Seq(Records)
  BY <1>1, RecordTaken, Zenon
<1>3. /\ Rises(k, u) /\ OneLeads(k, x, u) /\ UpTo(u, m) /\ x.n <= m
      /\ Leads(k, a, u) /\ LeadsOne(k, a, x) /\ Leads(k, h, u) /\ LeadsOne(k, h, x)
  BY <1>1, RecordTaken, Zenon DEF Lined
<1>4. /\ Rises(k, Append(h, x)) /\ Leads(k, a, Append(h, x)) /\ Leads(k, Append(h, x), u)
      /\ UpTo(Append(h, x), m)
  BY <1>2, <1>3, RecordAdded, Zenon DEF Lined
<1> QED
  BY <1>1, <1>3, <1>4, Zenon DEF Lined

\* The first record in hand becomes a row of its table, or none.
LEMMA LinedInsert ==
  ASSUME NEW k, NEW a \in Seq(Records), NEW h \in Seq(Records), NEW q \in Seq(Records),
         NEW m \in Nat, Lined(k, a, h, q, m), h # << >>
  PROVE  /\ Lined(k, a, Tail(h), q, m)
         /\ Lined(k, Append(a, Head(h)), Tail(h), q, m)
<1>1. PICK x, u : x = Head(h) /\ u = Tail(h)
  BY Zenon
<1>2. x \in Records /\ u \in Seq(Records)
  BY <1>1, RecordTaken, Zenon
<1>3. /\ Rises(k, u) /\ OneLeads(k, x, u) /\ UpTo(u, m) /\ x.n <= m
      /\ Leads(k, a, u) /\ LeadsOne(k, a, x) /\ Leads(k, u, q) /\ OneLeads(k, x, q)
  BY <1>1, RecordTaken, Zenon DEF Lined
<1>4. /\ Rises(k, Append(a, x)) /\ Leads(k, Append(a, x), u) /\ Leads(k, Append(a, x), q)
      /\ UpTo(Append(a, x), m)
  BY <1>2, <1>3, RecordAdded, Zenon DEF Lined
<1> QED
  BY <1>1, <1>3, <1>4, Zenon DEF Lined

\* A batch that is given up.
LEMMA LinedClear ==
  ASSUME NEW k, NEW a, NEW h, NEW q, NEW m, Lined(k, a, h, q, m)
  PROVE  Lined(k, a, << >>, q, m)
<1>1. DOMAIN << >> = {}
  OBVIOUS
<1>2. Rises(k, << >>) /\ Leads(k, a, << >>) /\ Leads(k, << >>, q) /\ UpTo(<< >>, m)
  BY <1>1, Zenon DEF Rises, Leads, UpTo
<1> QED
  BY <1>2, Zenon DEF Lined

\* split_batch rearranges the batch, and keeps the order within a table.
LEMMA SplitFacts ==
  ASSUME NEW s \in Seq(Records), NEW c \in SplitBatch(s)
  PROVE  /\ c \in Seq(Records) /\ Len(c) = Len(s)
         /\ \A i \in DOMAIN c : \E j \in DOMAIN s : c[i] = s[j]
         /\ \A k : Rises(k, s) => Rises(k, c)
<1>1. PICK f \in [DOMAIN s -> DOMAIN s] :
        /\ c = [i \in DOMAIN s |-> s[f[i]]]
        /\ \A i, j \in DOMAIN s : i < j => WrittenBefore(s, f[i], f[j])
  BY SMTT(30) DEF SplitBatch
<1>2. PICK l \in Nat : l = Len(s) /\ DOMAIN s = 1 .. l
  OBVIOUS
<1>3. /\ DOMAIN c = 1 .. l
      /\ \A i \in 1 .. l : c[i] = s[f[i]] /\ f[i] \in DOMAIN s /\ s[f[i]] \in Records
  BY <1>1, <1>2
<1>4. c \in Seq(Records) /\ Len(c) = l
  BY <1>1, <1>2, <1>3
<1>5. \A i \in DOMAIN s : TableOf(s[i]) \in 1 .. 3
  <2> SUFFICES ASSUME NEW r \in Records PROVE TableOf(r) \in 1 .. 3
    OBVIOUS
  <2>1. DOMAIN Tables = 1 .. 3
    BY DEF Tables
  <2>2. \E i \in DOMAIN Tables : Tables[i] = r.kind
    BY RecordFields DEF RecordKinds
  <2>3. TableOf(r) \in DOMAIN Tables
    BY <2>2, Zenon DEF TableOf
  <2> QED
    BY <2>1, <2>3
<1>6. ASSUME NEW k, Rises(k, s), NEW i \in DOMAIN c, NEW j \in DOMAIN c, i < j,
             c[i].kind = k, c[j].kind = k
      PROVE  c[i].n < c[j].n
  <2>1. c[i] = s[f[i]] /\ c[j] = s[f[j]] /\ f[i] \in DOMAIN s /\ f[j] \in DOMAIN s
        /\ WrittenBefore(s, f[i], f[j])
    BY <1>1, <1>2, <1>3, <1>6
  <2>2. TableOf(s[f[i]]) = TableOf(s[f[j]])
    BY <1>6, <2>1 DEF TableOf
  <2>3. f[i] < f[j]
    BY <1>5, <2>1, <2>2 DEF WrittenBefore
  <2> QED
    BY <1>6, <2>1, <2>3 DEF Rises
<1> QED
  BY <1>2, <1>3, <1>4, <1>6 DEF Rises

\* split_batch keeps the records of each table in order.
LEMMA LinedSplit ==
  ASSUME NEW k, NEW a, NEW h \in Seq(Records), NEW q, NEW m, Lined(k, a, h, q, m),
         NEW c \in SplitBatch(h)
  PROVE  Lined(k, a, c, q, m)
<1>1. Rises(k, c) /\ \A i \in DOMAIN c : \E j \in DOMAIN h : c[i] = h[j]
  BY SplitFacts, Zenon DEF Lined
<1>2. Leads(k, a, c) /\ Leads(k, c, q) /\ UpTo(c, m)
  BY <1>1, Zenon DEF Lined, Leads, UpTo
<1> QED
  BY <1>1, <1>2, Zenon DEF Lined

\* The three kinds of record.
LEMMA RecordKindsAre ==
  /\ "events" \in RecordKinds /\ "lobby_events" \in RecordKinds /\ "performance_samples" \in RecordKinds
  /\ \A k \in RecordKinds : k = "events" \/ k = "lobby_events" \/ k = "performance_samples"
<1>1. DOMAIN Tables = 1 .. 3 /\ Tables[1] = "events" /\ Tables[2] = "lobby_events"
      /\ Tables[3] = "performance_samples"
  BY DEF Tables
<1> QED
  BY <1>1 DEF RecordKinds

\* Counting.
LEMMA Counts ==
  ASSUME TelTypeOK
  PROVE  /\ Rows \in Nat /\ Waiting = Len(queue) + Len(Hand) /\ Hand \in Seq(Records)
         /\ Len(queue) \in Nat /\ Len(Hand) \in Nat /\ recorded \in Nat
<1>1. \A k \in RecordKinds : Len(stored[k]) \in Nat
  BY DEF TelTypeOK
<1>2. Rows \in Nat
  <2>1. PICK x \in Nat, y \in Nat, z \in Nat :
          /\ x = Len(stored["events"]) /\ y = Len(stored["lobby_events"])
          /\ z = Len(stored["performance_samples"])
    BY <1>1, RecordKindsAre, Zenon
  <2>2. Rows = x + y + z
    BY <2>1 DEF Rows
  <2> QED
    BY <2>2
<1>3. Hand \in Seq(Records) /\ Waiting = Len(queue) + Len(Hand)
  BY DEF Hand, Waiting, TelTypeOK
<1>4. Len(queue) \in Nat /\ recorded \in Nat
  BY TelemetryAssumption DEF TelTypeOK
<1> QED
  BY <1>2, <1>3, <1>4

\* A row more.
LEMMA RowInserted ==
  ASSUME TelTypeOK, NEW x \in Records, stored' = [stored EXCEPT ![x.kind] = Append(@, x)]
  PROVE  /\ stored' \in [RecordKinds -> Seq(Records)] /\ Rows' = Rows + 1
         /\ \A k \in RecordKinds : stored'[k] = IF k = x.kind THEN Append(stored[k], x) ELSE stored[k]
<1>1. stored \in [RecordKinds -> Seq(Records)] /\ x.kind \in RecordKinds
  BY RecordFields DEF TelTypeOK
<1>2. \A k \in RecordKinds : stored'[k] = IF k = x.kind THEN Append(stored[k], x) ELSE stored[k]
  BY <1>1
<1>3. stored' \in [RecordKinds -> Seq(Records)]
  BY <1>1
<1>4. \A k \in RecordKinds : /\ Len(stored[k]) \in Nat
                             /\ Len(stored'[k]) = Len(stored[k]) + (IF k = x.kind THEN 1 ELSE 0)
  BY <1>1, <1>2
<1>5. Rows' = Rows + 1
  <2> DEFINE more(k) == IF k = x.kind THEN 1 ELSE 0
  <2>1. PICK u \in Nat, v \in Nat, w \in Nat :
          /\ u = Len(stored["events"]) /\ v = Len(stored["lobby_events"])
          /\ w = Len(stored["performance_samples"])
    BY <1>4, RecordKindsAre, Zenon
  <2>2. /\ Len(stored'["events"]) = u + more("events")
        /\ Len(stored'["lobby_events"]) = v + more("lobby_events")
        /\ Len(stored'["performance_samples"]) = w + more("performance_samples")
    BY <1>4, <2>1, RecordKindsAre, Zenon
  <2>3. more("events") + more("lobby_events") + more("performance_samples") = 1
    BY <1>1, RecordKindsAre
  <2>4. Rows = u + v + w
    BY <2>1 DEF Rows
  <2>5. PICK r, s, t : /\ r = more("events") /\ s = more("lobby_events")
                       /\ t = more("performance_samples")
    BY Zenon
  <2>6. r \in Nat /\ s \in Nat /\ t \in Nat /\ r + s + t = 1
    BY <2>3, <2>5
  <2>7. Rows' = (u + r) + (v + s) + (w + t)
    BY <2>2, <2>5, Zenon DEF Rows
  <2> QED
    BY <2>4, <2>6, <2>7
<1> QED
  BY <1>2, <1>3, <1>5

\* What the drain task's place says about what it has in hand.
Place ==
  /\ drain \in {"select", "connect", "write"} /\ connection \in BOOLEAN
  /\ batch \in Seq(Records) /\ Len(batch) <= BatchSize /\ todo \in Seq(Records)
  /\ (drain = "write") = (todo # << >>)
  /\ drain = "write" => connection
  /\ drain = "select" => Len(batch) < BatchSize
  /\ drain = "connect" => batch # << >>
  /\ drain = "write" => Len(todo) <= Len(batch)

\* The drain task has the batch b in hand, as received or in the order of the tables.
Took(b) == Hand = b \/ Hand \in SplitBatch(b)

\* flush_batch up to its first await, or a batch that is not full yet.
LEMMA FlushPlace ==
  ASSUME TelInv, NEW b \in Seq(Records), b # << >>, Len(b) <= BatchSize, batch' = b,
         \/ /\ drain = "select" /\ connection' = connection
            /\ StartFlush(b) \/ (Len(b) < BatchSize /\ UNCHANGED <<drain, todo>>)
         \/ connection' = TRUE /\ drain' = "write" /\ todo' \in SplitBatch(b)
  PROVE  Place' /\ Took(b)' /\ Len(Hand') = Len(b)
<1>1. TelTypeOK
  BY DEF TelInv
<1>2. Len(b) \in Nat \ {0}
  OBVIOUS
<1>3. CASE drain' = "write" /\ connection' = TRUE /\ todo' \in SplitBatch(b)
  <2>1. todo' \in Seq(Records) /\ Len(todo') = Len(b)
    BY <1>3, SplitFacts
  <2>2. todo' # << >>
    BY <1>2, <2>1
  <2> QED
    BY <1>2, <1>3, <2>1, <2>2 DEF Place, Took, Hand
<1>4. CASE /\ drain' \in {"select", "connect"} /\ todo' = todo /\ drain = "select"
           /\ connection' = connection /\ (drain' = "select" => Len(b) < BatchSize)
  <2>1. todo = << >>
    BY <1>1, <1>4 DEF TelTypeOK
  <2>2. Hand' = b
    BY <1>4 DEF Hand
  <2>3. Place'
    BY <1>1, <1>4, <2>1 DEF Place, TelTypeOK
  <2> QED
    BY <2>2, <2>3 DEF Took
<1> QED
  BY <1>1, <1>3, <1>4, Zenon DEF StartFlush, TelTypeOK

\* A step of the drain task that ends with the batch b in hand and writes nothing.
LEMMA HandStep ==
  ASSUME TelInv, NEW b \in Seq(Records), b # << >>, Place', Took(b)', Len(Hand') = Len(b),
         queue' \in Seq(Records), Len(queue') <= QueueCap,
         Len(queue') + Len(b) = Len(queue) + Len(Hand),
         \A k \in RecordKinds : Lined(k, stored[k], b, queue', recorded),
         UNCHANGED <<recorded, stored, dropped, failed>>
  PROVE  TelInv'
<1>0. TelTypeOK
  BY DEF TelInv
<1>1. /\ recorded \in 0 .. MaxRecords /\ dropped \in Nat /\ failed \in Nat
      /\ stored \in [RecordKinds -> Seq(Records)] /\ Counted /\ InLine
  BY <1>0 DEF TelInv, TelTypeOK
<1>2. Rows' = Rows /\ Waiting' = Waiting
  <2>1. Waiting' = Len(queue') + Len(Hand')
    BY DEF Waiting, Hand
  <2>2. Rows' = Rows
    BY DEF Rows
  <2> QED
    BY <1>0, <2>1, <2>2, Counts
<1>3. Counted'
  BY <1>1, <1>2 DEF Counted, Missing
<1>4. InLine'
  <2> SUFFICES ASSUME NEW k \in RecordKinds PROVE Lined(k, stored[k], Hand', queue', recorded)
    BY <1>1 DEF InLine
  <2>1. Hand' = b \/ Hand' \in SplitBatch(b)
    BY DEF Took
  <2>2. CASE Hand' = b
    BY <2>2, Zenon
  <2>3. CASE Hand' \in SplitBatch(b)
    BY <2>3, LinedSplit, Zenon
  <2> QED
    BY <2>1, <2>2, <2>3
<1> QED
  BY <1>1, <1>3, <1>4 DEF TelInv, TelTypeOK, Place

\* Of n records that leave the memory, d become rows and the others are counted.
LEMMA Accounting ==
  ASSUME NEW e \in Nat, NEW r \in Nat, NEW q \in Nat, NEW h \in Nat, NEW g \in Nat, NEW n \in Nat,
         NEW d \in Nat, NEW l \in Nat, NEW f \in Nat, NEW f2 \in Nat, d <= n, g + n = h,
         f2 >= f + (n - d), e >= r + (q + h), l <= e - (r + (q + h)), e - (r + (q + h)) <= l + f
  PROVE  /\ e >= (r + d) + (q + g) /\ l <= e - ((r + d) + (q + g))
         /\ e - ((r + d) + (q + g)) <= l + f2
OBVIOUS

\* A step that ends with nothing in hand or with the rest of the batch: d of the n records
\* that leave the hand have become rows.
LEMMA WriteStep ==
  ASSUME TelInv, Place', NEW n \in Nat, NEW d \in Nat, d <= n,
         Hand' \in Seq(Records), Len(Hand') + n = Len(Hand), Rows' = Rows + d,
         stored' \in [RecordKinds -> Seq(Records)], InLine',
         failed' \in Nat, failed' >= failed + (n - d),
         UNCHANGED <<recorded, queue, dropped>>
  PROVE  TelInv'
<1>0. TelTypeOK
  BY DEF TelInv
<1>1. /\ recorded \in 0 .. MaxRecords /\ dropped \in Nat /\ failed \in Nat
      /\ queue \in Seq(Records) /\ Len(queue) <= QueueCap /\ Counted
  BY <1>0 DEF TelInv, TelTypeOK
<1>2. PICK r \in Nat, q \in Nat, h \in Nat, g \in Nat :
        Rows = r /\ Len(queue) = q /\ Len(Hand) = h /\ Len(Hand') = g
  <2>1. Rows \in Nat /\ Len(queue) \in Nat /\ Len(Hand) \in Nat
    BY <1>0, Counts
  <2>2. Len(Hand') \in Nat
    OBVIOUS
  <2> QED
    BY <2>1, <2>2, Zenon
<1>3. g + n = h /\ Rows' = r + d
  BY <1>2, Zenon
<1>4. Waiting = q + h /\ Waiting' = q + g
  <2>1. Waiting' = Len(queue) + Len(Hand')
    BY DEF Waiting, Hand
  <2> QED
    BY <1>0, <1>2, <2>1, Counts
<1>5. recorded \in Nat /\ failed' \in Nat /\ failed' >= failed + (n - d)
  BY <1>0, Counts
<1>6. /\ recorded >= r + (q + h) /\ dropped <= recorded - (r + (q + h))
      /\ recorded - (r + (q + h)) <= dropped + failed
  BY <1>1, <1>2, <1>4 DEF Counted, Missing
<1>7. /\ recorded >= (r + d) + (q + g) /\ dropped <= recorded - ((r + d) + (q + g))
      /\ recorded - ((r + d) + (q + g)) <= dropped + failed'
  BY <1>1, <1>3, <1>5, <1>6, Accounting, ZenonT(40)
<1>8. Counted'
  BY <1>3, <1>4, <1>7, Zenon DEF Counted, Missing
<1> QED
  BY <1>1, <1>8 DEF TelInv, TelTypeOK, Place

\* The first record in hand becomes a row or does not; the rest stays in hand or is given up.
LEMMA InsertLine ==
  ASSUME TelInv, drain = "write",
         \/ stored' = stored
         \/ stored' = [stored EXCEPT ![Head(todo).kind] = Append(@, Head(todo))],
         Hand' = << >> \/ Hand' = Tail(todo), UNCHANGED <<recorded, queue>>
  PROVE  InLine' /\ stored' \in [RecordKinds -> Seq(Records)]
         /\ \E d \in {0, 1} : Rows' = Rows + d
<1>0. TelTypeOK /\ InLine
  BY DEF TelInv
<1>1. todo # << >> /\ Hand = todo /\ todo \in Seq(Records) /\ queue \in Seq(Records)
      /\ recorded \in Nat /\ stored \in [RecordKinds -> Seq(Records)]
  BY <1>0, TelemetryAssumption DEF TelTypeOK, Hand
<1>2. PICK x : x = Head(todo) /\ x \in Records
  BY <1>1
<1>3. ASSUME NEW k \in RecordKinds PROVE Lined(k, stored[k], Hand', queue, recorded)
                                         /\ Lined(k, Append(stored[k], x), Hand', queue, recorded)
  <2>1. Lined(k, stored[k], todo, queue, recorded) /\ stored[k] \in Seq(Records)
    BY <1>0, <1>1 DEF InLine
  <2>2. Lined(k, stored[k], Tail(todo), queue, recorded)
        /\ Lined(k, Append(stored[k], x), Tail(todo), queue, recorded)
    BY <1>1, <1>2, <2>1, LinedInsert, Zenon
  <2>3. Lined(k, stored[k], << >>, queue, recorded)
    BY <2>2, LinedClear, Zenon
  <2>4. Lined(k, Append(stored[k], x), << >>, queue, recorded)
    BY <2>2, LinedClear, Zenon
  <2> QED
    BY <2>2, <2>3, <2>4, Zenon
<1>4. CASE stored' = stored
  <2>1. InLine'
    BY <1>0, <1>3, <1>4, Zenon DEF InLine
  <2>2. Rows' = Rows + 0
    BY <1>0, <1>4, Counts DEF Rows
  <2> QED
    BY <1>1, <1>4, <2>1, <2>2
<1>5. CASE stored' = [stored EXCEPT ![x.kind] = Append(@, x)]
  <2>1. /\ stored' \in [RecordKinds -> Seq(Records)] /\ Rows' = Rows + 1
        /\ \A k \in RecordKinds : stored'[k] = IF k = x.kind THEN Append(stored[k], x) ELSE stored[k]
    BY <1>0, <1>2, <1>5, RowInserted, Zenon
  <2>2. ASSUME NEW k \in RecordKinds PROVE \A i \in DOMAIN stored'[k] : stored'[k][i].kind = k
    <3>1. \A i \in DOMAIN stored[k] : stored[k][i].kind = k
      BY <1>0 DEF InLine
    <3>2. CASE k = x.kind
      <4>1. stored'[k] = Append(stored[k], x) /\ stored[k] \in Seq(Records)
        BY <1>1, <2>1, <3>2
      <4>2. PICK s, u : s = stored[k] /\ u = stored'[k]
        BY Zenon
      <4>3. \A i \in DOMAIN u : (i \in DOMAIN s /\ u[i] = s[i]) \/ u[i] = x
        BY <4>1, <4>2
      <4> QED
        BY <3>1, <3>2, <4>2, <4>3, Zenon
    <3>3. CASE k # x.kind
      BY <2>1, <3>1, <3>3, Zenon
    <3> QED
      BY <3>2, <3>3
  <2>3. InLine'
    <3> SUFFICES ASSUME NEW k \in RecordKinds PROVE Lined(k, stored'[k], Hand', queue, recorded)
      BY <2>2, Zenon DEF InLine
    <3>1. stored'[k] = Append(stored[k], x) \/ stored'[k] = stored[k]
      BY <2>1
    <3> QED
      BY <1>3, <3>1, Zenon
  <2> QED
    BY <2>1, <2>3
<1> QED
  BY <1>2, <1>4, <1>5, Zenon

\* The error path: what was left of the batch is counted as failed.
LEMMA FailStep ==
  ASSUME TelInv, drain \in {"connect", "write"}, FailBatch,
         \/ stored' = stored
         \/ drain = "write" /\ stored' = [stored EXCEPT ![Head(todo).kind] = Append(@, Head(todo))],
         UNCHANGED <<recorded, queue, dropped>>
  PROVE  TelInv'
<1>0. TelTypeOK /\ InLine
  BY DEF TelInv
<1>1. Place' /\ Hand' = << >>
  <2>1. connection' = FALSE /\ todo' = << >> /\ drain' = "select" /\ batch' = << >>
    BY DEF FailBatch
  <2>2. << >> \in Seq(Records) /\ Len(<< >>) = 0 /\ 0 < BatchSize /\ 0 <= BatchSize
    BY TelemetryAssumption
  <2> QED
    BY <2>1, <2>2, Zenon DEF Place, Hand
<1>2. PICK n \in Nat : n = Len(Hand) /\ n # 0 /\ n <= Len(batch) /\ Len(batch) \in Nat
  <2>1. Hand \in Seq(Records) /\ Hand # << >> /\ Len(Hand) <= Len(batch) /\ Len(batch) \in Nat
    BY <1>0 DEF TelInv, TelTypeOK, Hand
  <2> QED
    BY <2>1
<1>3. failed \in Nat /\ failed' = failed + Len(batch)
  BY <1>0 DEF TelTypeOK, FailBatch
<1>4. Hand' \in Seq(Records) /\ Len(Hand') + n = Len(Hand)
  BY <1>1, <1>2
<1>5. /\ InLine' /\ stored' \in [RecordKinds -> Seq(Records)]
      /\ \E d \in {0, 1} : Rows' = Rows + d
  <2>1. CASE drain = "write"
    BY <1>1, <2>1, InsertLine, Zenon
  <2>2. CASE stored' = stored
    <3>1. \A k \in RecordKinds : Lined(k, stored[k], << >>, queue, recorded)
      BY <1>0, LinedClear, Zenon DEF InLine
    <3>2. InLine'
      BY <1>0, <1>1, <2>2, <3>1, Zenon DEF InLine
    <3>3. Rows' = Rows + 0
      BY <1>0, <2>2, Counts DEF Rows
    <3> QED
      BY <1>0, <2>2, <3>2, <3>3 DEF TelTypeOK
  <2> QED
    BY <2>1, <2>2
<1>6. PICK d \in {0, 1} : Rows' = Rows + d
  BY <1>5
<1>7. d \in Nat /\ d <= n /\ failed' \in Nat /\ failed' >= failed + (n - d)
  BY <1>2, <1>3, <1>6
<1> QED
  BY <1>1, <1>4, <1>5, <1>6, <1>7, WriteStep, Zenon

\* Counted after a step, from the numbers it leaves.
LEMMA CountedNext ==
  ASSUME NEW e, NEW r, NEW w, NEW l, NEW f, recorded' = e, Rows' = r, Waiting' = w,
         dropped' = l, failed' = f, e >= r + w, l <= e - (r + w), e - (r + w) <= l + f
  PROVE  Counted'
BY DEF Counted, Missing

\* Every step keeps the invariant: recording, the channel, the writer and its failures.
LEMMA TelStep ==
  ASSUME TelInv, TelNext PROVE TelInv'
<1>0. TelTypeOK /\ InLine /\ Counted
  BY DEF TelInv
<1>1. /\ queue \in Seq(Records) /\ batch \in Seq(Records) /\ todo \in Seq(Records)
      /\ recorded \in 0 .. MaxRecords /\ recorded \in Nat /\ MaxRecords \in Nat
      /\ stored \in [RecordKinds -> Seq(Records)]
      /\ Len(queue) \in Nat /\ Len(batch) \in Nat /\ Len(queue) <= QueueCap
  BY <1>0, TelemetryAssumption DEF TelTypeOK
<1>2. ASSUME NEW kind \in RecordKinds, TryRecord(kind) PROVE TelInv'
  <2>1. PICK x : x = [n |-> recorded + 1, kind |-> kind]
    BY Zenon
  <2>2. /\ recorded' = recorded + 1 /\ recorded < MaxRecords /\ Hand' = Hand
        /\ UNCHANGED <<batch, todo, drain, connection, stored, failed>>
    BY <1>2 DEF TryRecord, Hand
  <2>3. x \in Records /\ x.n = recorded + 1
    BY <1>1, <2>1, <2>2 DEF Records
  <2>4. ASSUME NEW k \in RecordKinds
        PROVE  /\ \A i \in DOMAIN stored[k] : stored[k][i].kind = k
               /\ Lined(k, stored[k], Hand, queue, recorded + 1)
               /\ Lined(k, stored[k], Hand, Append(queue, x), recorded + 1)
    <3>1. /\ stored[k] \in Seq(Records) /\ Hand \in Seq(Records)
          /\ Lined(k, stored[k], Hand, queue, recorded)
      BY <1>0, <1>1, Counts DEF InLine
    <3> QED
      BY <1>0, <1>1, <2>3, <3>1, LinedRecord, Zenon DEF InLine
  <2>5. PICK r \in Nat, q \in Nat, h \in Nat : Rows = r /\ Len(queue) = q /\ Len(Hand) = h /\ Waiting = q + h
    BY <1>0, Counts
  <2>6. Rows' = r
    BY <2>2, <2>5, Zenon DEF Rows
  <2>7. Waiting' = Len(queue') + h
    BY <2>2, <2>5 DEF Waiting, Hand
  <2>8. dropped \in Nat /\ failed \in Nat
    BY <1>0 DEF TelTypeOK
  <2>9. /\ recorded >= r + (q + h) /\ dropped <= recorded - (r + (q + h))
        /\ recorded - (r + (q + h)) <= dropped + failed
    BY <1>0, <2>5 DEF Counted, Missing
  <2>10. Place'
    BY <2>2 DEF TelInv, TelTypeOK, Place
  <2>11. CASE queue' = Append(queue, x) /\ dropped' = dropped /\ Len(queue) < QueueCap
    <3>1. queue' \in Seq(Records) /\ Len(queue') = q + 1
      BY <1>1, <2>3, <2>5, <2>11
    <3>2. Len(queue') <= QueueCap
      BY <2>5, <2>11, <3>1, TelemetryAssumption
    <3>3. /\ recorded + 1 >= r + (q + 1 + h) /\ dropped <= (recorded + 1) - (r + (q + 1 + h))
          /\ (recorded + 1) - (r + (q + 1 + h)) <= dropped + failed
      BY <1>1, <2>8, <2>9
    <3>4. Counted'
      <4>1. Waiting' = q + 1 + h
        BY <2>7, <3>1, Zenon
      <4>2. recorded' = recorded + 1 /\ dropped' = dropped /\ failed' = failed
        BY <2>2, <2>11
      <4> QED
        BY <2>6, <3>3, <4>1, <4>2, CountedNext, Zenon
    <3>5. InLine'
      BY <2>2, <2>4, <2>11, Zenon DEF InLine
    <3> QED
      BY <1>1, <2>2, <2>8, <2>10, <2>11, <3>1, <3>2, <3>4, <3>5 DEF TelInv, TelTypeOK, Place
  <2>12. CASE queue' = queue /\ dropped' = dropped + 1
    <3>1. /\ recorded + 1 >= r + (q + h) /\ dropped + 1 <= (recorded + 1) - (r + (q + h))
          /\ (recorded + 1) - (r + (q + h)) <= dropped + 1 + failed
      BY <1>1, <2>8, <2>9
    <3>2. Counted'
      <4>1. Waiting' = q + h
        BY <2>5, <2>7, <2>12, Zenon
      <4>2. recorded' = recorded + 1 /\ dropped' = dropped + 1 /\ failed' = failed
        BY <2>2, <2>12
      <4> QED
        BY <2>6, <3>1, <4>1, <4>2, CountedNext, Zenon
    <3>3. InLine'
      BY <2>2, <2>4, <2>12, Zenon DEF InLine
    <3> QED
      BY <1>1, <2>2, <2>8, <2>10, <2>12, <3>2, <3>3 DEF TelInv, TelTypeOK, Place
  <2> QED
    BY <1>2, <2>1, <2>11, <2>12 DEF TryRecord
<1>3. CASE ReceiveRecord
  <2>1. /\ drain = "select" /\ queue # << >> /\ queue' = Tail(queue)
        /\ batch' = Append(batch, Head(queue))
        /\ StartFlush(batch') \/ (~ (Len(batch') >= BatchSize) /\ UNCHANGED <<drain, todo>>)
        /\ UNCHANGED <<recorded, connection, stored, dropped, failed>>
    BY <1>3 DEF ReceiveRecord
  <2>2. PICK b : b = Append(batch, Head(queue))
    BY Zenon
  <2>3. /\ b \in Seq(Records) /\ b # << >> /\ Len(b) = Len(batch) + 1
        /\ queue' \in Seq(Records) /\ Len(queue') = Len(queue) - 1
    BY <1>1, <2>1, <2>2, SMTT(30)
  <2>4. Len(batch) < BatchSize /\ Hand = batch
    BY <2>1 DEF TelInv, Hand
  <2>5. Len(b) <= BatchSize /\ Len(queue') <= QueueCap
    BY <1>1, <2>3, <2>4, TelemetryAssumption
  <2>6. StartFlush(b) \/ (Len(b) < BatchSize /\ UNCHANGED <<drain, todo>>)
    BY <1>1, <2>1, <2>2, <2>3, TelemetryAssumption
  <2>7. Place' /\ Took(b)' /\ Len(Hand') = Len(b)
    BY <2>1, <2>2, <2>3, <2>5, <2>6, FlushPlace, Zenon
  <2>8. Len(queue') + Len(b) = Len(queue) + Len(Hand)
    BY <1>1, <2>3, <2>4
  <2>9. \A k \in RecordKinds : Lined(k, stored[k], b, queue', recorded)
    <3> SUFFICES ASSUME NEW k \in RecordKinds PROVE Lined(k, stored[k], b, queue', recorded)
      OBVIOUS
    <3>1. Lined(k, stored[k], batch, queue, recorded) /\ stored[k] \in Seq(Records)
      BY <1>0, <1>1, <2>4, Zenon DEF InLine
    <3>2. Lined(k, stored[k], Append(batch, Head(queue)), Tail(queue), recorded)
      BY <1>1, <2>1, <3>1, LinedReceive, Zenon
    <3> QED
      BY <2>1, <2>2, <3>2, Zenon
  <2> QED
    BY <2>1, <2>3, <2>5, <2>7, <2>8, <2>9, HandStep, Zenon
<1>4. CASE FlushTick \/ (ConnectWriter /\ ~ FailBatch)
  <2>1. /\ batch # << >> /\ UNCHANGED <<recorded, queue, batch, stored, dropped, failed>> /\ Hand = batch
        /\ \/ drain = "select" /\ connection' = connection /\ StartFlush(batch)
           \/ connection' = TRUE /\ drain' = "write" /\ todo' \in SplitBatch(batch)
    BY <1>4, Zenon DEF FlushTick, ConnectWriter, TelInv, Hand
  <2>2. Len(batch) <= BatchSize
    BY <1>0 DEF TelTypeOK
  <2>3. Place' /\ Took(batch)' /\ Len(Hand') = Len(batch)
    BY <1>1, <2>1, <2>2, FlushPlace, Zenon
  <2>4. \A k \in RecordKinds : Lined(k, stored[k], batch, queue, recorded)
    BY <1>0, <2>1, Zenon DEF InLine
  <2>5. \A k \in RecordKinds : Lined(k, stored[k], batch, queue', recorded)
    BY <2>1, <2>4, Zenon
  <2>6. queue' \in Seq(Records) /\ Len(queue') <= QueueCap /\ Len(queue') + Len(batch) = Len(queue) + Len(Hand)
    BY <1>1, <2>1
  <2> QED
    BY <1>1, <2>1, <2>3, <2>5, <2>6, HandStep, Zenon
<1>5. CASE (ConnectWriter /\ FailBatch) \/ InsertFails
  BY <1>5, FailStep DEF ConnectWriter, InsertFails
<1>6. CASE InsertRow
  <2>1. /\ drain = "write" /\ todo' = Tail(todo)
        /\ stored' = [stored EXCEPT ![Head(todo).kind] = Append(@, Head(todo))]
        /\ \/ todo' = << >> /\ drain' = "select" /\ batch' = << >>
           \/ todo' # << >> /\ UNCHANGED <<drain, batch>>
        /\ UNCHANGED <<recorded, queue, connection, dropped, failed>>
    BY <1>6 DEF InsertRow
  <2>2. todo # << >> /\ Hand = todo /\ Len(todo) <= Len(batch) /\ connection \in BOOLEAN /\ connection
        /\ Len(batch) <= BatchSize
    BY <2>1 DEF TelInv, TelTypeOK, Hand
  <2>3. Tail(todo) \in Seq(Records) /\ Len(Tail(todo)) = Len(todo) - 1 /\ Len(todo) \in Nat
    BY <1>1, <2>2
  <2>4. Hand' = Tail(todo)
    BY <2>1 DEF Hand
  <2>5. Place'
    <3>1. CASE todo' = << >> /\ drain' = "select" /\ batch' = << >>
      <4>1. << >> \in Seq(Records) /\ Len(<< >>) = 0 /\ 0 < BatchSize /\ 0 <= BatchSize
        BY TelemetryAssumption
      <4> QED
        BY <2>1, <2>2, <3>1, <4>1, Zenon DEF Place
    <3>2. CASE todo' # << >> /\ UNCHANGED <<drain, batch>>
      <4>1. Len(Tail(todo)) <= Len(batch)
        BY <1>1, <2>2, <2>3
      <4> QED
        BY <1>1, <2>1, <2>2, <2>3, <3>2, <4>1 DEF Place
    <3> QED
      BY <2>1, <3>1, <3>2
  <2>6. /\ InLine' /\ stored' \in [RecordKinds -> Seq(Records)]
    BY <2>1, <2>4, InsertLine, Zenon
  <2>7. Head(todo) \in Records
    BY <1>1, <2>2
  <2>8. Rows' = Rows + 1
    BY <1>0, <2>1, <2>7, RowInserted, Zenon
  <2>9. Hand' \in Seq(Records) /\ Len(Hand') + 1 = Len(Hand)
    BY <2>2, <2>3, <2>4
  <2>10. failed' \in Nat /\ failed' >= failed + (1 - 1) /\ 1 <= 1 /\ 1 \in Nat
    BY <1>0, <2>1 DEF TelTypeOK
  <2> QED
    BY <2>1, <2>5, <2>6, <2>8, <2>9, <2>10, WriteStep, Zenon
<1> QED
  BY <1>2, <1>3, <1>4, <1>5, <1>6, Zenon DEF TelNext, Drain

\* Telemetry starts with nothing recorded and nothing lost.
LEMMA TelStart == TelInit => TelInv
<1> SUFFICES ASSUME TelInit PROVE TelInv
  OBVIOUS
<1>1. << >> \in Seq(Records) /\ Len(<< >>) = 0 /\ 0 < BatchSize /\ 0 <= BatchSize /\ 0 <= QueueCap
  BY TelemetryAssumption
<1>2. /\ recorded = 0 /\ queue = << >> /\ batch = << >> /\ todo = << >> /\ drain = "select"
      /\ connection = FALSE /\ dropped = 0 /\ failed = 0 /\ Hand = << >>
      /\ stored \in [RecordKinds -> Seq(Records)] /\ \A k \in RecordKinds : stored[k] = << >>
  BY <1>1 DEF TelInit, Hand
<1>3. TelTypeOK
  <2>1. recorded \in 0 .. MaxRecords /\ dropped \in Nat /\ failed \in Nat
    BY <1>2, TelemetryAssumption
  <2>2. /\ queue \in Seq(Records) /\ Len(queue) <= QueueCap /\ batch \in Seq(Records)
        /\ Len(batch) <= BatchSize /\ todo \in Seq(Records)
    BY <1>1, <1>2
  <2> QED
    BY <1>2, <2>1, <2>2, Zenon DEF TelTypeOK
<1>4. Rows = 0 /\ Waiting = 0
  <2>1. /\ Len(stored["events"]) = 0 /\ Len(stored["lobby_events"]) = 0
        /\ Len(stored["performance_samples"]) = 0
    BY <1>1, <1>2, RecordKindsAre, Zenon
  <2>2. Len(queue) = 0 /\ Len(batch) = 0
    BY <1>1, <1>2
  <2> QED
    BY <1>2, <2>1, <2>2 DEF Rows, Waiting
<1>5. Counted
  BY <1>2, <1>4 DEF Counted, Missing
<1>6. InLine
  <2>1. DOMAIN << >> = {}
    OBVIOUS
  <2>2. \A k : Lined(k, << >>, << >>, << >>, 0)
    BY <2>1, Zenon DEF Lined, Rises, Leads, UpTo
  <2> QED
    BY <1>2, <2>1, <2>2, Zenon DEF InLine
<1> QED
  BY <1>1, <1>2, <1>3, <1>5, <1>6 DEF TelInv

\* TelInv holds in every state.
LEMMA TelAlways == TelSpec => []TelInv
<1>1. TelInv /\ [TelNext]_telVars => TelInv'
  <2> SUFFICES ASSUME TelInv, [TelNext]_telVars PROVE TelInv'
    OBVIOUS
  <2>1. CASE UNCHANGED telVars
    <3>1. UNCHANGED <<recorded, queue, batch, todo, drain, connection, stored, dropped, failed>>
      BY <2>1 DEF telVars
    <3>2. Rows' = Rows /\ Waiting' = Waiting /\ Hand' = Hand
      BY <3>1 DEF Rows, Waiting, Hand
    <3>3. Counted' /\ InLine'
      BY <3>1, <3>2, Zenon DEF TelInv, Counted, Missing, InLine
    <3> QED
      BY <3>1, <3>3, Zenon DEF TelInv, TelTypeOK
  <2> QED
    BY <2>1, TelStep
<1> QED
  BY <1>1, TelStart, PTL DEF TelSpec

\* The counters of telemetry account for every loss, for every capacity of the channel and
\* every size of batches: a record that try_record took is waiting, a row, or counted as
\* dropped or failed, and a table holds a record once and in recording order, whatever
\* fails between split_batch and the last statement.
THEOREM TelemetryAccounts == TelSpec => []LossesAreCounted
<1>1. TelInv => LossesAreCounted
  <2> SUFFICES ASSUME TelInv PROVE LossesAreCounted
    OBVIOUS
  <2>1. ASSUME NEW k \in RecordKinds, NEW i \in DOMAIN stored[k], NEW j \in DOMAIN stored[k], i < j
        PROVE  stored[k][i].n < stored[k][j].n
    BY <2>1, Zenon DEF TelInv, InLine, Lined, Rises
  <2>2. Counted
    BY DEF TelInv
  <2> QED
    BY <2>1, <2>2 DEF LossesAreCounted, Counted
<1> QED
  BY <1>1, TelAlways, PTL

\* The channel and the batch stay within queue_capacity and batch_size.
LEMMA TelemetryBounded == TelSpec => []TelTypeOK
<1>1. TelInv => TelTypeOK
  BY DEF TelInv
<1> QED
  BY <1>1, TelAlways, PTL

-----------------------------------------------------------------------------
(* Link rooms.                                                             *)

Syncs == [asked : BOOLEAN, sampled : SUBSET Slots, steady : SUBSET Slots, start : BOOLEAN]
Holds == [set : BOOLEAN, holders : SUBSET Slots, acked : SUBSET Slots]

\* LinkAgreedFirst is not inductive: a clock sample starts a room of any status and
\* the end of a pause resumes one, so the request for samples and the pause have to
\* be known to come after the agreement as well.
AgreedInv ==
  /\ sync \in Syncs /\ hold \in Holds
  /\ linkStatus \in Underway => agreed \/ kept
  /\ sync.asked => agreed \/ kept
  /\ hold.set => agreed \/ kept

\* A reset leaves nothing that could start the room.
LEMMA ResetAgreed ==
  ASSUME ResetLink, linkStatus' \in Underway => kept' = TRUE
  PROVE  AgreedInv'
<1>1. sync' \in Syncs /\ sync'.asked = FALSE
  BY DEF ResetLink, NoSync, Syncs
<1>2. hold' \in Holds /\ hold'.set = FALSE
  BY DEF ResetLink, NoHold, Holds
<1> QED
  BY <1>1, <1>2 DEF AgreedInv

\* A step that keeps the start sync and the pause, and neither takes the agreement
\* back nor gets under way without one.
LEMMA QuietAgreed ==
  ASSUME AgreedInv, sync' = sync, hold' = hold,
         agreed \/ kept => agreed' \/ kept',
         linkStatus' \in Underway => linkStatus \in Underway \/ agreed'
  PROVE  AgreedInv'
BY DEF AgreedInv

\* TrySchedule starts the room only after samples were asked for.
LEMMA ScheduleAgreed ==
  ASSUME AgreedInv, NEW s \in Syncs, s.asked = sync.asked, sync.asked \/ linkStatus \in Underway,
         TrySchedule(s), UNCHANGED <<hold, agreed, kept>>
  PROVE  AgreedInv'
<1>1. agreed \/ kept
  BY DEF AgreedInv
<1>2. sync' \in Syncs
  BY Zenon DEF TrySchedule, Syncs
<1> QED
  BY <1>1, <1>2 DEF AgreedInv

LEMMA AgreedStep ==
  ASSUME AgreedInv, LinkStep PROVE AgreedInv'
<1> USE DEF linkState
<1>1. ASSUME NEW p \in Slots, NEW d \in Declarations, SetLinkCompatibility(p, d)
      PROVE  AgreedInv'
  <2>1. sync' = sync /\ hold' = hold /\ kept' = kept
    BY <1>1 DEF SetLinkCompatibility
  <2>2. agreed => agreed'
    BY <1>1, Zenon DEF SetLinkCompatibility
  <2>3. linkStatus' \in Underway => linkStatus \in Underway \/ agreed'
    BY <1>1, Zenon DEF SetLinkCompatibility, Underway
  <2> QED
    BY <2>1, <2>2, <2>3, QuietAgreed
<1>2. ASSUME NEW p \in Slots, NEW n, RelayLinkPacket(p, n)
      PROVE  AgreedInv'
  BY <1>2, QuietAgreed DEF RelayLinkPacket
<1>3. ASSUME NEW p \in Slots, LinkReady(p)
      PROVE  AgreedInv'
  <2>1. linkStatus \in Underway
    BY <1>3 DEF LinkReady, Startable, Underway
  <2>2. agreed \/ kept
    BY <2>1 DEF AgreedInv
  <2>3. hold' = hold /\ agreed' = agreed /\ kept' = kept
    BY <1>3 DEF LinkReady
  <2>4. PICK b \in BOOLEAN : sync' = [sync EXCEPT !.asked = b]
    BY <1>3, Zenon DEF LinkReady
  <2>5. sync' \in Syncs
    BY <2>4 DEF AgreedInv, Syncs
  <2> QED
    BY <2>2, <2>3, <2>5 DEF AgreedInv
<1>4. ASSUME NEW p \in Slots, ClockSampled(p)
      PROVE  AgreedInv'
  <2> DEFINE s == [sync EXCEPT !.sampled = @ \cup {p}]
  <2>1. s \in Syncs /\ s.asked = sync.asked
    BY DEF AgreedInv, Syncs
  <2>2. sync.asked /\ TrySchedule(s) /\ UNCHANGED <<hold, agreed, kept>>
    BY <1>4 DEF ClockSampled
  <2> QED
    BY <2>1, <2>2, ScheduleAgreed, Zenon
<1>5. ASSUME NEW p \in Slots, DeterministicReady(p)
      PROVE  AgreedInv'
  <2> DEFINE s == [sync EXCEPT !.steady = @ \cup {p}]
  <2>1. s \in Syncs /\ s.asked = sync.asked
    BY DEF AgreedInv, Syncs
  <2>2. linkStatus \in Underway /\ TrySchedule(s) /\ UNCHANGED <<hold, agreed, kept>>
    BY <1>5 DEF DeterministicReady, Underway
  <2> QED
    BY <2>1, <2>2, ScheduleAgreed, Zenon
<1>6. CASE ScheduledTimeComes
  BY <1>6, QuietAgreed DEF ScheduledTimeComes, Underway
<1>7. ASSUME NEW p \in Slots, HoldLink(p)
      PROVE  AgreedInv'
  <2>1. linkStatus \in Underway /\ linkStatus' = linkStatus
    BY <1>7 DEF HoldLink, Underway
  <2>2. sync' = sync /\ agreed' = agreed /\ kept' = kept
    BY <1>7 DEF HoldLink, HoldChanges
  <2>3. hold' \in Holds
    BY <1>7, Zenon DEF HoldLink, AgreedInv, Holds
  <2> QED
    BY <2>1, <2>2, <2>3 DEF AgreedInv
<1>8. ASSUME NEW p \in Slots, HoldReached(p) \/ ReleaseLink(p)
      PROVE  AgreedInv'
  <2>1. hold.set /\ sync' = sync /\ agreed' = agreed /\ kept' = kept
    BY <1>8 DEF HoldReached, ReleaseLink, HoldChanges
  <2>2. hold' \in Holds
    <3>1. hold \in Holds /\ NoHold \in Holds
      BY DEF AgreedInv, Holds, NoHold
    <3>2. CASE HoldReached(p)
      <4>1. \/ hold' = NoHold \/ hold' = [hold EXCEPT !.acked = hold.acked \cup {p}]
        BY <3>2 DEF HoldReached
      <4> QED
        BY <3>1, <4>1 DEF Holds
    <3>3. CASE ReleaseLink(p)
      <4>1. \/ hold' = NoHold \/ hold' = [hold EXCEPT !.holders = hold.holders \ {p}]
        BY <3>3 DEF ReleaseLink
      <4> QED
        BY <3>1, <4>1 DEF Holds
    <3> QED
      BY <1>8, <3>2, <3>3
  <2> QED
    BY <2>1, <2>2 DEF AgreedInv
<1>9. ASSUME NEW p \in Slots, LoseLinkPlayer(p)
      PROVE  AgreedInv'
  <2>1. CASE ResetLink /\ linkStatus' = linkStatus /\ kept' = (linkStatus \in Underway)
    BY <2>1, ResetAgreed, Zenon
  <2>2. CASE ResetLink /\ linkStatus' = "Recovering"
    BY <2>2, ResetAgreed DEF Underway
  <2>3. CASE /\ linkStatus' \in {"Recovering", "Closed", "WaitingForGuest"}
             /\ UNCHANGED <<kept, sync, hold, agreed>>
    BY <2>3, QuietAgreed DEF Underway
  <2> QED
    BY <1>9, <2>1, <2>2, <2>3 DEF LoseLinkPlayer
<1>10. ASSUME NEW p \in Slots, ReturnLinkPlayer(p) \/ LinkPlayerExits(p)
       PROVE  AgreedInv'
  BY <1>10, ResetAgreed, Zenon DEF ReturnLinkPlayer, LinkPlayerExits, Underway
<1>11. ASSUME NEW p \in Slots, TakeOverSlot(p) \/ ExpireLinkHandoff(p)
       PROVE  AgreedInv'
  BY <1>11, QuietAgreed DEF TakeOverSlot, ExpireLinkHandoff, Underway
<1> QED
  BY <1>1, <1>2, <1>3, <1>4, <1>5, <1>6, <1>7, <1>8, <1>9, <1>10, <1>11 DEF LinkStep

\* A link room is under way only after its players declared matching runtimes in this
\* round, or after a handoff cleared a round that was: mark_ready, late clock samples,
\* ends of pauses, reconnects and handoffs in any order.
THEOREM AgreedFirst == LinkSpec => []LinkAgreedFirst
<1>1. LinkInit => AgreedInv
  BY DEF LinkInit, AgreedInv, NoSync, NoHold, Syncs, Holds, Underway
<1>2. AgreedInv /\ [LinkNext]_linkVars => AgreedInv'
  <2> SUFFICES ASSUME AgreedInv, [LinkNext]_linkVars PROVE AgreedInv'
    OBVIOUS
  <2>1. CASE LinkNext
    BY <2>1, AgreedStep DEF LinkNext
  <2>2. CASE UNCHANGED linkVars
    BY <2>2 DEF linkVars, linkState, AgreedInv
  <2> QED
    BY <2>1, <2>2
<1>3. AgreedInv => LinkAgreedFirst
  BY DEF AgreedInv, LinkAgreedFirst
<1> QED
  BY <1>1, <1>2, <1>3, PTL DEF LinkSpec

-----------------------------------------------------------------------------
(* Order of the packets.                                                   *)

Packets == [player : Slots, seq : Nat]

\* What SequenceIsNew compares with bounds all that was relayed.
OrderInv ==
  /\ lastSeq \in [Slots -> Nat] /\ wire \in Seq(Packets)
  /\ \A i \in DOMAIN wire : wire[i].seq <= lastSeq[wire[i].player]
  /\ CableOrder

\* What a packet put on the wire leaves there.
LEMMA PutLast ==
  ASSUME NEW X, NEW s \in Seq(X), NEW x \in X
  PROVE  /\ Append(s, x) \in Seq(X) /\ Len(Append(s, x)) = Len(s) + 1
         /\ \A i \in 1 .. Len(s) : Append(s, x)[i] = s[i]
         /\ Append(s, x)[Len(s) + 1] = x
  OBVIOUS

LEMMA OrderStep ==
  ASSUME OrderInv, LinkStep PROVE OrderInv'
<1> USE DEF linkState
<1>1. CASE ResetLink
  BY <1>1 DEF ResetLink, OrderInv, CableOrder, Packets
<1>2. CASE UNCHANGED <<lastSeq, wire>>
  BY <1>2 DEF OrderInv, CableOrder
<1>3. ASSUME NEW p \in Slots, NEW n \in Nat, RelayLinkPacket(p, n)
      PROVE  OrderInv'
  <2> DEFINE packet == [player |-> p, seq |-> n]
  <2>1. /\ lastSeq' = [lastSeq EXCEPT ![p] = n] /\ n > lastSeq[p]
        /\ wire' = Append(wire, packet)
    BY <1>3 DEF RelayLinkPacket, SequenceIsNew
  <2>2. packet \in Packets /\ wire \in Seq(Packets) /\ lastSeq \in [Slots -> Nat]
    BY DEF OrderInv, Packets
  <2>3. /\ wire' \in Seq(Packets) /\ Len(wire') = Len(wire) + 1
        /\ \A i \in 1 .. Len(wire) : wire'[i] = wire[i]
        /\ wire'[Len(wire) + 1] = packet
    <3> HIDE DEF packet
    <3>1. PICK s \in Seq(Packets), x \in Packets : s = wire /\ x = packet
      BY <2>2, Zenon
    <3>2. /\ Append(s, x) \in Seq(Packets) /\ Len(Append(s, x)) = Len(s) + 1
          /\ \A i \in 1 .. Len(s) : Append(s, x)[i] = s[i]
          /\ Append(s, x)[Len(s) + 1] = x
      BY PutLast, Zenon
    <3>3. wire' = Append(s, x)
      BY <2>1, <3>1, Zenon
    <3> QED
      BY <3>1, <3>2, <3>3, Zenon
  <2>4. /\ lastSeq' \in [Slots -> Nat] /\ lastSeq'[p] = n
        /\ \A q \in Slots : lastSeq[q] <= lastSeq'[q]
    BY <2>1, <2>2
  <2>5. DOMAIN wire = 1 .. Len(wire) /\ DOMAIN wire' = 1 .. Len(wire) + 1 /\ Len(wire) \in Nat
    BY <2>2, <2>3
  <2>6. \A i \in DOMAIN wire : wire[i] \in Packets
    BY <2>2
  <2>7. \A i \in DOMAIN wire' : wire'[i].seq <= lastSeq'[wire'[i].player]
    <3> SUFFICES ASSUME NEW i \in DOMAIN wire' PROVE wire'[i].seq <= lastSeq'[wire'[i].player]
      OBVIOUS
    <3>1. CASE i = Len(wire) + 1
      BY <3>1, <2>3, <2>4
    <3>2. CASE i \in DOMAIN wire
      <4>1. wire'[i] = wire[i] /\ wire[i].player \in Slots /\ wire[i].seq \in Nat
        BY <3>2, <2>3, <2>5, <2>6 DEF Packets
      <4>2. wire[i].seq <= lastSeq[wire[i].player]
        BY <3>2 DEF OrderInv
      <4> QED
        BY <4>1, <4>2, <2>2, <2>4
    <3> QED
      BY <3>1, <3>2, <2>5
  <2>8. CableOrder'
    <3> SUFFICES ASSUME NEW i \in DOMAIN wire', NEW j \in DOMAIN wire',
                        i < j, wire'[i].player = wire'[j].player
                 PROVE  wire'[i].seq < wire'[j].seq
      BY DEF CableOrder
    <3>1. i \in DOMAIN wire /\ wire'[i] = wire[i] /\ wire[i].player \in Slots /\ wire[i].seq \in Nat
      BY <2>3, <2>5, <2>6 DEF Packets
    <3>2. CASE j = Len(wire) + 1
      <4>1. wire[i].player = p /\ wire[i].seq <= lastSeq[p]
        BY <3>1, <3>2, <2>3 DEF OrderInv
      <4> QED
        BY <3>1, <3>2, <4>1, <2>1, <2>2, <2>3
    <3>3. CASE j \in DOMAIN wire
      BY <3>1, <3>3, <2>3, <2>5 DEF OrderInv, CableOrder
    <3> QED
      BY <3>2, <3>3, <2>5
  <2> QED
    BY <2>3, <2>4, <2>7, <2>8 DEF OrderInv
<1>4. ASSUME NEW p \in Slots, LoseLinkPlayer(p) \/ ReturnLinkPlayer(p) \/ LinkPlayerExits(p)
      PROVE  ResetLink \/ UNCHANGED <<lastSeq, wire>>
  BY <1>4 DEF LoseLinkPlayer, ReturnLinkPlayer, LinkPlayerExits
<1>5. ASSUME NEW p \in Slots,
             \/ \E d \in Declarations : SetLinkCompatibility(p, d)
             \/ LinkReady(p) \/ ClockSampled(p) \/ DeterministicReady(p) \/ ScheduledTimeComes
             \/ HoldLink(p) \/ HoldReached(p) \/ ReleaseLink(p)
             \/ TakeOverSlot(p) \/ ExpireLinkHandoff(p)
      PROVE  UNCHANGED <<lastSeq, wire>>
  BY <1>5 DEF SetLinkCompatibility, LinkReady, ClockSampled, DeterministicReady, ScheduledTimeComes,
              HoldLink, HoldReached, ReleaseLink, HoldChanges, TakeOverSlot, ExpireLinkHandoff
<1> QED
  BY <1>1, <1>2, <1>3, <1>4, <1>5 DEF LinkStep

\* Per round and player, the sequence numbers of relayed packets strictly increase,
\* whoever holds the slot.
THEOREM PacketsInOrder == LinkSpec => []CableOrder
<1>1. LinkInit => OrderInv
  BY SMTT(30) DEF LinkInit, OrderInv, CableOrder, Packets
<1>2. OrderInv /\ [LinkNext]_linkVars => OrderInv'
  <2> SUFFICES ASSUME OrderInv, [LinkNext]_linkVars PROVE OrderInv'
    OBVIOUS
  <2>1. CASE LinkNext
    BY <2>1, OrderStep DEF LinkNext
  <2>2. CASE UNCHANGED linkVars
    BY <2>2 DEF linkVars, linkState, OrderInv, CableOrder
  <2> QED
    BY <2>1, <2>2
<1>3. OrderInv => CableOrder
  BY DEF OrderInv
<1> QED
  BY <1>1, <1>2, <1>3, PTL DEF LinkSpec

-----------------------------------------------------------------------------
(* Types and bounds.                                                       *)

Statuses == Underway \cup {"WaitingForGuest", "CheckingCompatibility", "Recovering", "Closed"}

\* The values of a room without samples and without a pause.
LEMMA NothingHeld == NoSync \in Syncs /\ NoHold \in Holds
BY DEF NoSync, NoHold, Syncs, Holds

\* A reset leaves the state of a new room.
LEMMA ResetTypes ==
  ASSUME LinkTypeOK, ResetLink, use' = use, linkStatus' \in Statuses, here' \subseteq Slots,
         handoff' \subseteq Slots, kept' \in BOOLEAN
  PROVE  LinkTypeOK'
<1>1. compat' \in [Slots -> Hashes \cup {NoDeclaration}] /\ lastSeq' \in [Slots -> Nat]
  BY DEF ResetLink, Undeclared
<1>2. rounds' \in 0 .. use.rounds
  <2>1. use.rounds \in Nat /\ rounds \in 0 .. use.rounds /\ rounds < use.rounds /\ rounds' = rounds + 1
    BY LinkAssumption DEF LinkTypeOK, ResetLink
  <2> QED
    BY <2>1
<1>3. /\ ready' = {} /\ sync' \in Syncs /\ hold' = NoHold /\ hold' \in Holds /\ agreed' = FALSE
      /\ wire' = << >>
  BY NothingHeld DEF ResetLink
<1>4. wire' \in Seq(Packets)
  BY <1>3
<1> QED
  BY <1>1, <1>2, <1>3, <1>4, Zenon DEF LinkTypeOK, Statuses, Syncs, Holds, Packets

\* A step that leaves the round alone, but for who is ready.
LEMMA QuietTypes ==
  ASSUME LinkTypeOK, UNCHANGED <<compat, lastSeq, sync, hold, agreed, wire, rounds, use>>,
         ready' \subseteq Slots, linkStatus' \in Statuses, here' \subseteq Slots,
         handoff' \subseteq Slots, kept' \in BOOLEAN
  PROVE  LinkTypeOK'
BY DEF LinkTypeOK, Statuses

\* Every operation of a link room keeps its types.
LEMMA LinkTypesStep ==
  ASSUME LinkTypeOK, LinkNext PROVE LinkTypeOK'
<1> USE DEF linkState
<1>0. /\ linkStatus \in Statuses /\ here \subseteq Slots /\ ready \subseteq Slots
      /\ handoff \subseteq Slots /\ kept \in BOOLEAN /\ sync \in Syncs /\ hold \in Holds
      /\ agreed \in BOOLEAN /\ use' = use
      /\ compat \in [Slots -> Hashes \cup {NoDeclaration}] /\ lastSeq \in [Slots -> Nat]
      /\ wire \in Seq(Packets)
  BY DEF LinkTypeOK, LinkNext, Statuses, Syncs, Holds, Packets
<1>1. ASSUME NEW p \in Slots, NEW d \in Declarations, SetLinkCompatibility(p, d) PROVE LinkTypeOK'
  <2>1. d.hash \in Hashes
    BY DEF Declarations
  <2>2. compat' \in [Slots -> Hashes \cup {NoDeclaration}]
    <3>1. \/ compat' = compat \/ compat' = [compat EXCEPT ![p] = d.hash]
          \/ compat' = [compat EXCEPT ![p] = NoDeclaration]
      BY <1>1, Zenon DEF SetLinkCompatibility
    <3> QED
      BY <1>0, <2>1, <3>1
  <2>3. linkStatus' \in Statuses
    <3>1. linkStatus' = linkStatus \/ linkStatus' = "SyncingState" \/ linkStatus' = "CheckingCompatibility"
      BY <1>1, Zenon DEF SetLinkCompatibility
    <3> QED
      BY <1>0, <3>1 DEF Statuses, Underway
  <2>4. agreed' \in BOOLEAN
    BY <1>1, Zenon DEF SetLinkCompatibility
  <2>5. ready' \subseteq Slots /\ UNCHANGED <<here, lastSeq, sync, hold, handoff, kept, wire, rounds>>
    BY <1>0, <1>1 DEF SetLinkCompatibility
  <2> QED
    BY <1>0, <2>2, <2>3, <2>4, <2>5 DEF LinkTypeOK, Statuses
<1>2. ASSUME NEW p \in Slots, NEW n \in Nat, RelayLinkPacket(p, n) PROVE LinkTypeOK'
  <2>1. /\ lastSeq' = [lastSeq EXCEPT ![p] = n] /\ wire' = Append(wire, [player |-> p, seq |-> n])
        /\ UNCHANGED <<linkStatus, here, compat, ready, sync, hold, handoff, agreed, kept, rounds>>
    BY <1>2 DEF RelayLinkPacket
  <2>2. [player |-> p, seq |-> n] \in Packets
    BY DEF Packets
  <2>3. lastSeq' \in [Slots -> Nat] /\ wire' \in Seq(Packets)
    BY <1>0, <2>1, <2>2
  <2> QED
    BY <1>0, <2>1, <2>3 DEF LinkTypeOK, Packets
<1>3. ASSUME sync' \in Syncs, linkStatus' \in Statuses, ready' \subseteq Slots,
             UNCHANGED <<here, compat, lastSeq, hold, handoff, agreed, kept, wire, rounds>>
      PROVE  LinkTypeOK'
  BY <1>0, <1>3 DEF LinkTypeOK, Statuses, Syncs
<1>4. ASSUME NEW p \in Slots, LinkReady(p) PROVE LinkTypeOK'
  <2>1. PICK b \in BOOLEAN : sync' = [sync EXCEPT !.asked = b]
    BY <1>4, Zenon DEF LinkReady
  <2>2. sync' \in Syncs
    BY <1>0, <2>1 DEF Syncs
  <2>3. linkStatus' \in Statuses /\ ready' \subseteq Slots
    BY <1>0, <1>4 DEF LinkReady, Statuses, Underway
  <2>4. UNCHANGED <<here, compat, lastSeq, hold, handoff, agreed, kept, wire, rounds>>
    BY <1>4 DEF LinkReady
  <2> QED
    BY <1>3, <2>2, <2>3, <2>4
<1>5. ASSUME NEW s \in Syncs, TrySchedule(s) PROVE sync' \in Syncs /\ linkStatus' \in Statuses
  <2>1. \/ sync' = [s EXCEPT !.start = TRUE] /\ linkStatus' = "StartScheduled"
        \/ sync' = s /\ linkStatus' = linkStatus
    BY <1>5 DEF TrySchedule
  <2>2. [s EXCEPT !.start = TRUE] \in Syncs
    BY Zenon DEF Syncs
  <2> QED
    BY <1>0, <2>1, <2>2, Zenon DEF Statuses, Underway
<1>6. ASSUME NEW p \in Slots, ClockSampled(p) \/ DeterministicReady(p) PROVE LinkTypeOK'
  <2>1. [sync EXCEPT !.sampled = @ \cup {p}] \in Syncs /\ [sync EXCEPT !.steady = @ \cup {p}] \in Syncs
    BY <1>0, SMTT(30) DEF Syncs
  <2>2. \/ TrySchedule([sync EXCEPT !.sampled = @ \cup {p}])
        \/ TrySchedule([sync EXCEPT !.steady = @ \cup {p}])
    BY <1>6, Zenon DEF ClockSampled, DeterministicReady
  <2>3. UNCHANGED <<here, compat, lastSeq, ready, hold, handoff, agreed, kept, wire, rounds>>
    BY <1>6 DEF ClockSampled, DeterministicReady
  <2>4. sync' \in Syncs /\ linkStatus' \in Statuses
    BY <1>5, <2>1, <2>2, Zenon
  <2> QED
    BY <1>0, <1>3, <2>3, <2>4
<1>7. CASE ScheduledTimeComes
  <2>1. linkStatus' \in Statuses
    BY <1>7 DEF ScheduledTimeComes, Statuses, Underway
  <2> QED
    BY <1>0, <1>3, <1>7, <2>1 DEF ScheduledTimeComes
<1>8. ASSUME hold' \in Holds, ~ hold'.set => hold' = NoHold, linkStatus' \in Statuses, HoldChanges
      PROVE  LinkTypeOK'
  BY <1>0, <1>8 DEF LinkTypeOK, Statuses, Holds, HoldChanges
<1>9. ASSUME NEW p \in Slots, HoldLink(p) PROVE LinkTypeOK'
  <2>1. /\ hold' = [hold EXCEPT !.set = TRUE, !.holders = @ \cup {p}]
        /\ linkStatus' = linkStatus /\ HoldChanges
    BY <1>9 DEF HoldLink
  <2>2. hold' \in Holds /\ hold'.set = TRUE
    BY <1>0, <2>1, Zenon DEF Holds
  <2> QED
    BY <1>0, <1>8, <2>1, <2>2
<1>10. ASSUME NEW p \in Slots, HoldReached(p) \/ ReleaseLink(p) PROVE LinkTypeOK'
  <2>1. hold.set /\ HoldChanges
    BY <1>10 DEF HoldReached, ReleaseLink
  <2>2. linkStatus' \in Statuses
    <3>1. linkStatus' = linkStatus \/ linkStatus' = "Playing" \/ linkStatus' = "Paused"
      BY <1>10, Zenon DEF HoldReached, ReleaseLink
    <3> QED
      BY <1>0, <3>1 DEF Statuses, Underway
  <2>3. \/ hold' = NoHold \/ hold' = [hold EXCEPT !.acked = hold.acked \cup {p}]
        \/ hold' = [hold EXCEPT !.holders = hold.holders \ {p}]
    BY <1>10 DEF HoldReached, ReleaseLink
  <2>4. hold' \in Holds /\ (hold' = NoHold \/ hold'.set = hold.set)
    <3>1. hold \in Holds /\ p \in Slots
      BY <1>0, <1>10, Zenon
    <3>2. [hold EXCEPT !.acked = hold.acked \cup {p}] \in Holds
          /\ [hold EXCEPT !.acked = hold.acked \cup {p}].set = hold.set
      BY <3>1 DEF Holds
    <3>3. [hold EXCEPT !.holders = hold.holders \ {p}] \in Holds
          /\ [hold EXCEPT !.holders = hold.holders \ {p}].set = hold.set
      BY <3>1 DEF Holds
    <3> QED
      BY <2>3, <3>2, <3>3, NothingHeld, Zenon
  <2> QED
    BY <1>8, <2>1, <2>2, <2>4, Zenon
<1>11. ASSUME NEW p \in Slots, LoseLinkPlayer(p) PROVE LinkTypeOK'
  <2>1. here' \subseteq Slots /\ handoff' \subseteq Slots
    BY <1>0, <1>11 DEF LoseLinkPlayer
  <2>2. CASE /\ ResetLink /\ linkStatus' \in {linkStatus, "Recovering"}
             /\ (kept' = (linkStatus \in Underway) \/ kept' = FALSE)
    <3>1. linkStatus' \in Statuses
      BY <1>0, <2>2 DEF Statuses
    <3>2. kept' \in BOOLEAN
      <4>1. CASE kept' = FALSE
        BY <4>1, Zenon
      <4>2. CASE kept' = (linkStatus \in Underway)
        <5>1. (linkStatus \in Underway) = TRUE \/ (linkStatus \in Underway) = FALSE
          OBVIOUS
        <5>2. kept' = TRUE \/ kept' = FALSE
          BY <4>2, <5>1, Zenon
        <5> QED
          BY <5>2, Zenon
      <4> QED
        BY <2>2, <4>1, <4>2, Zenon
    <3> QED
      BY <1>0, <2>1, <2>2, <3>1, <3>2, ResetTypes
  <2>3. CASE /\ linkStatus' \in {linkStatus, "Closed", "WaitingForGuest"} /\ ready' = ready \ {p}
             /\ UNCHANGED <<kept, compat, lastSeq, sync, hold, agreed, wire, rounds>>
    <3>1. linkStatus' \in Statuses /\ ready' \subseteq Slots /\ kept' \in BOOLEAN
      BY <1>0, <2>3 DEF Statuses
    <3> QED
      BY <1>0, <2>1, <2>3, <3>1, QuietTypes
  <2> QED
    BY <1>11, <2>2, <2>3, Zenon DEF LoseLinkPlayer
<1>12. ASSUME NEW p \in Slots, ReturnLinkPlayer(p) \/ LinkPlayerExits(p) PROVE LinkTypeOK'
  <2>1. /\ ResetLink /\ linkStatus' \in {"CheckingCompatibility", "Closed"} /\ kept' = FALSE
        /\ here' \subseteq Slots /\ handoff' \subseteq Slots
    BY <1>0, <1>12 DEF ReturnLinkPlayer, LinkPlayerExits
  <2>2. linkStatus' \in Statuses
    BY <2>1 DEF Statuses
  <2> QED
    BY <1>0, <2>1, <2>2, ResetTypes, Zenon
<1>13. ASSUME NEW p \in Slots, TakeOverSlot(p) \/ ExpireLinkHandoff(p) PROVE LinkTypeOK'
  <2>1. /\ linkStatus' \in {linkStatus, "Closed", "WaitingForGuest"}
        /\ here' \subseteq Slots /\ handoff' \subseteq Slots
        /\ UNCHANGED <<kept, compat, lastSeq, ready, sync, hold, agreed, wire, rounds>>
    BY <1>0, <1>13 DEF TakeOverSlot, ExpireLinkHandoff
  <2>2. linkStatus' \in Statuses
    BY <1>0, <2>1 DEF Statuses
  <2> QED
    BY <1>0, <2>1, <2>2, QuietTypes
<1> QED
  BY <1>1, <1>2, <1>4, <1>6, <1>7, <1>9, <1>10, <1>11, <1>12, <1>13 DEF LinkNext, LinkStep

\* A new link room is well typed.
LEMMA LinkTypesStart == LinkInit => LinkTypeOK
<1> SUFFICES ASSUME LinkInit PROVE LinkTypeOK
  OBVIOUS
<1>1. use \in Uses /\ use.rounds \in Nat /\ rounds = 0 /\ handoff \subseteq Slots
  BY LinkAssumption DEF LinkInit
<1>2. sync \in Syncs /\ hold \in Holds /\ hold = NoHold
  BY NothingHeld DEF LinkInit
<1>3. compat \in [Slots -> Hashes \cup {NoDeclaration}] /\ lastSeq \in [Slots -> Nat]
  BY DEF LinkInit, Undeclared
<1>4. wire \in Seq(Packets)
  BY DEF LinkInit
<1>5. rounds \in 0 .. use.rounds
  BY <1>1
<1>6. /\ linkStatus = "CheckingCompatibility" /\ here \subseteq Slots /\ ready \subseteq Slots
      /\ agreed \in BOOLEAN /\ kept \in BOOLEAN
  BY Zenon DEF LinkInit
<1> QED
  BY <1>1, <1>2, <1>3, <1>4, <1>5, <1>6 DEF LinkTypeOK, Syncs, Holds, Packets

\* The state of a link room keeps its type, and a pause leaves nothing behind.
LEMMA LinkBounded == LinkSpec => []LinkTypeOK
<1>1. LinkTypeOK /\ [LinkNext]_linkVars => LinkTypeOK'
  <2>1. ASSUME LinkTypeOK, UNCHANGED linkVars PROVE LinkTypeOK'
    BY <2>1 DEF LinkTypeOK, linkVars, linkState
  <2> QED
    BY <2>1, LinkTypesStep
<1> QED
  BY <1>1, LinkTypesStart, PTL DEF LinkSpec

-----------------------------------------------------------------------------
(* The input delay.                                                        *)

\* A strict room holds only reports of this round.  Without this a report that
\* outlived a reset could lower the delay.
DelayInv ==
  /\ DelayTypeOK
  /\ room.strict => \A p \in Pair : report[p] # Absent => p \in heard

Entry(e) == e = Absent \/ /\ e.value.rtt \in Nat \cup {Absent}
                          /\ e.value.jitter \in Nat \cup {Absent}
                          /\ e.value.pressure \in BOOLEAN

Entries(rs) == \A p \in Pair : Entry(rs[p])

LEMMA ClampRange == ASSUME NEW n \in Int PROVE Clamp(n) \in 2 .. 8
BY DEF Clamp, Most, Least, MinimumDelay, MaximumDelay

LEMMA FramesAreInt ==
  ASSUME NEW ms \in Nat, NEW a \in Nat, NEW b \in Nat
  PROVE  FramesForMs(ms, <<a, b>>) \in Int
<1> DEFINE divisor == Most(1000 * b, 1)
           budget == ms * a
<1>1. divisor \in Nat \ {0}
  BY DEF Most
<1>2. budget \in Int
  OBVIOUS
<1> HIDE DEF divisor, budget
<1>3. (budget + divisor - 1) \div divisor \in Int
  BY <1>1, <1>2
<1>4. FramesForMs(ms, <<a, b>>) = Least((budget + divisor - 1) \div divisor, MaximumDelay)
  BY DEF FramesForMs, divisor, budget
<1> QED
  BY <1>3, <1>4 DEF Least, MaximumDelay

LEMMA OneWayIsNat == ASSUME NEW n \in Nat PROVE OneWay(n) \in Nat
BY DEF OneWay

\* A largest element of a set of delays.
LEMMA LargestDelay ==
  ASSUME NEW S \in SUBSET (2 .. 8), S # {}
  PROVE  \E n \in S : \A k \in S : k <= n
<1>1. CASE 8 \in S
  BY <1>1
<1>2. CASE 8 \notin S /\ 7 \in S
  BY <1>2
<1>3. CASE 8 \notin S /\ 7 \notin S /\ 6 \in S
  BY <1>3
<1>4. CASE S \subseteq 2 .. 5 /\ 5 \in S
  BY <1>4
<1>5. CASE S \subseteq 2 .. 4 /\ 4 \in S
  BY <1>5
<1>6. CASE S \subseteq 2 .. 3 /\ 3 \in S
  BY <1>6
<1>10. CASE S \subseteq {2}
  <2>1. PICK n : n \in S
    OBVIOUS
  <2> QED
    BY <1>10, <2>1
<1>11. (S \subseteq 2 .. 3 /\ 3 \notin S) => S \subseteq {2}
  OBVIOUS
<1>7. (8 \notin S /\ 7 \notin S /\ 6 \notin S) => S \subseteq 2 .. 5
  OBVIOUS
<1>8. (S \subseteq 2 .. 5 /\ 5 \notin S) => S \subseteq 2 .. 4
  OBVIOUS
<1>9. (S \subseteq 2 .. 4 /\ 4 \notin S) => S \subseteq 2 .. 3
  OBVIOUS
<1> QED
  BY <1>1, <1>2, <1>3, <1>4, <1>5, <1>6, <1>7, <1>8, <1>9, <1>10, <1>11

\* Every decision is in the range of automatic delays, or leaves the delay alone; a
\* lower one comes from reports of both.
LEMMA V5Decision ==
  ASSUME DelayTypeOK, NEW rs, Entries(rs)
  PROVE  /\ InitialV5(rs) \in 1 .. 8
         /\ InitialV5(rs) < delay => Sampled(rs) = Pair
<1> USE InputDelayAssumption
<1>1. delay \in 1 .. 8
  BY DEF DelayTypeOK, MaximumDelay
<1>2. CASE \A p \in Pair : Complete(rs[p])
  <2>1. \A p \in Pair : rs[p].value.rtt \in Nat /\ rs[p].value.jitter \in Nat
    BY <1>2 DEF Entries, Entry, Complete, IsFresh
  <2>2. PathBudget(rs) \in Nat
    <3>1. \A p \in Pair : OneWay(rs[p].value.rtt) + rs[p].value.jitter \in Nat
      BY <2>1, OneWayIsNat
    <3> QED
      BY <3>1, SMTT(30) DEF PathBudget, Pair
  <2>3. PICK a \in Nat, b \in Nat : Rate = <<a, b>>
    <3>1. room.rate \in Nat \X Nat
      BY DEF DelayTypeOK
    <3> QED
      BY <3>1 DEF Rate
  <2>4. FramesForMs(PathBudget(rs), Rate) + SafetyFrames \in Int
    BY <2>2, <2>3, FramesAreInt DEF SafetyFrames
  <2>5. Sampled(rs) = Pair
    BY <1>2 DEF Complete, Sampled
  <2> QED
    <3>1. InitialV5(rs) \in 2 .. 8
      BY <1>2, <2>4, ClampRange, Zenon DEF InitialV5
    <3>2. \A x \in 2 .. 8 : x \in 1 .. 8 /\ x \in Nat
      OBVIOUS
    <3> QED
      BY <1>2, <2>5, <3>1, <3>2, Zenon
<1>3. CASE ~ \A p \in Pair : Complete(rs[p])
  <2>1. InitialV5(rs) = delay
    BY <1>3 DEF InitialV5
  <2> QED
    BY <1>1, <2>1
<1> QED
  BY <1>2, <1>3

LEMMA V4Decision ==
  ASSUME DelayTypeOK, NEW rs, Entries(rs)
  PROVE  /\ InitialDecision(rs) \in 1 .. 8
         /\ InitialDecision(rs) < delay => Sampled(rs) = Pair
<1>1. delay \in 1 .. 8
  BY DEF DelayTypeOK, MaximumDelay
<1> DEFINE wanted == {DelayForReport(rs[p].value) : p \in Sampled(rs)}
                       \cup {DefaultDelay + 1 : p \in Pressed} \cup {MinimumDelay}
<1>2. ASSUME NEW p \in Sampled(rs) PROVE DelayForReport(rs[p].value) \in 2 .. 8
  <2> DEFINE r == rs[p].value
  <2>1. r.rtt \in Nat /\ OrZero(r.jitter) \in Nat /\ r.pressure \in BOOLEAN
    BY <1>2 DEF Sampled, IsFresh, Entries, Entry, OrZero
  <2>2. OneWay(r.rtt) + OrZero(r.jitter) \in Nat
    BY <2>1, OneWayIsNat
  <2>3. FramesForMs(OneWay(r.rtt) + OrZero(r.jitter), <<60, 1>>) \in Int
    BY <2>2, FramesAreInt
  <2>4. FramesForMs(OneWay(r.rtt) + OrZero(r.jitter), <<60, 1>>)
          + SafetyFrames + (IF r.pressure THEN 1 ELSE 0) \in Int
    BY <2>3 DEF SafetyFrames
  <2> QED
    BY <2>4, ClampRange DEF DelayForReport
<1>3. wanted \in SUBSET (2 .. 8) /\ wanted # {}
  BY <1>2 DEF DefaultDelay, MinimumDelay
<1>4. TargetDelay(rs) \in wanted
  <2>1. TargetDelay(rs) = CHOOSE n \in wanted : \A k \in wanted : k <= n
    BY DEF TargetDelay
  <2> HIDE DEF wanted
  <2> QED
    BY <1>3, <2>1, LargestDelay, Zenon
<1> HIDE DEF wanted
<1>5. TargetDelay(rs) \in 2 .. 8
  BY <1>3, <1>4, Zenon
<1> QED
  BY <1>1, <1>5 DEF InitialDecision

-----------------------------------------------------------------------------

\* What a message leaves behind: reports with their types, in a strict room only
\* of clients that were heard.
LEMMA NotedReport ==
  ASSUME DelayInv, NEW p \in Pair, NEW r \in room.reports \cup {Absent}, Hear(p, r),
         UNCHANGED <<tick, room>>
  PROVE  /\ report' = Noted(p, r) /\ Entries(Noted(p, r))
         /\ report' \in [Pair -> {Absent} \cup [value : room.reports, at : 0 .. tick]]
         /\ heard' \subseteq Pair
         /\ room.strict => \A q \in Pair : report'[q] # Absent => q \in heard'
<1> USE InputDelayAssumption
<1>1. /\ report \in [Pair -> {Absent} \cup [value : room.reports, at : 0 .. tick]]
      /\ tick \in Nat /\ heard \subseteq Pair /\ room \in Rooms
  BY SMTT(30) DEF DelayInv, DelayTypeOK
<1>2. report' \in [Pair -> {Absent} \cup [value : room.reports, at : 0 .. tick]]
  BY <1>1, SMTT(30) DEF Hear, Noted
<1>3. room.reports \subseteq [rtt : Nat \cup {Absent}, jitter : Nat \cup {Absent}, pressure : BOOLEAN]
  BY <1>1
<1>4. Entries(report')
  <2> SUFFICES ASSUME NEW q \in Pair, report'[q] # Absent PROVE Entry(report'[q])
    BY DEF Entries, Entry
  <2>1. report'[q].value \in room.reports
    BY <1>2
  <2> QED
    BY <1>3, <2>1 DEF Entry
<1>5. room.strict => \A q \in Pair : report'[q] # Absent => q \in heard'
  BY <1>1 DEF DelayInv, Hear, Noted
<1>6. heard' \subseteq Pair
  BY <1>1 DEF Hear
<1> QED
  BY <1>2, <1>4, <1>5, <1>6 DEF Hear

\* Both clients' reports count as heard in a strict room.
LEMMA SampledHeard ==
  ASSUME NEW rs, NEW h \in SUBSET Pair, Sampled(rs) = Pair,
         \A q \in Pair : rs[q] # Absent => q \in h
  PROVE  h = Pair
BY DEF Sampled, IsFresh

Lowered == delay' < delay => Sampled(report') = Pair /\ (room.strict => heard' = Pair)
Fixed == delay' # delay => Decides

\* A step that leaves the delay alone.
LEMMA SameDelay == ASSUME DelayTypeOK, delay' = delay PROVE Lowered /\ Fixed
<1>1. delay \in Nat
  BY DEF DelayTypeOK, MaximumDelay
<1>2. ~(delay' < delay)
  BY <1>1
<1> QED
  BY <1>2, Zenon DEF Lowered, Fixed

\* A report of a slot is stored with the time it comes at.
LEMMA StampedReport ==
  ASSUME NEW S, NEW t \in Nat, NEW g \in [Pair -> {Absent} \cup [value : S, at : 0 .. t]],
         NEW p \in Pair, NEW f \in S
  PROVE  [g EXCEPT ![p] = [value |-> f, at |-> t]] \in [Pair -> {Absent} \cup [value : S, at : 0 .. t]]
<1>1. t \in 0 .. t
  OBVIOUS
<1>2. [value |-> f, at |-> t] \in [value : S, at : 0 .. t]
  BY <1>1
<1> QED
  BY <1>2, Zenon

\* The stored reports are reports of the room.
LEMMA StoredEntries == ASSUME DelayTypeOK PROVE Entries(report)
<1>1. room \in Rooms /\ report \in [Pair -> {Absent} \cup [value : room.reports, at : 0 .. tick]]
  BY Zenon DEF DelayTypeOK
<1>2. room.reports \subseteq [rtt : Nat \cup {Absent}, jitter : Nat \cup {Absent}, pressure : BOOLEAN]
  BY <1>1, InputDelayAssumption, Zenon
<1> SUFFICES ASSUME NEW p \in Pair PROVE Entry(report[p])
  BY Zenon DEF Entries
<1>3. report[p] = Absent \/ report[p] \in [value : room.reports, at : 0 .. tick]
  BY <1>1
<1>4. ASSUME report[p] \in [value : room.reports, at : 0 .. tick] PROVE Entry(report[p])
  <2>1. report[p].value \in room.reports
    BY <1>4
  <2>2. PICK v : v = report[p].value
    OBVIOUS
  <2>3. v \in [rtt : Nat \cup {Absent}, jitter : Nat \cup {Absent}, pressure : BOOLEAN]
    BY <1>2, <2>1, <2>2, Zenon
  <2>4. v.rtt \in Nat \cup {Absent} /\ v.jitter \in Nat \cup {Absent} /\ v.pressure \in BOOLEAN
    BY <2>3
  <2> QED
    BY <2>2, <2>4, Zenon DEF Entry
<1> QED
  BY <1>3, <1>4, Zenon DEF Entry

LEMMA DelayStep ==
  ASSUME DelayInv, DelayNext PROVE DelayInv' /\ Lowered /\ Fixed
<1> USE InputDelayAssumption
<1>0. DelayTypeOK
  BY DEF DelayInv
<1>1. ASSUME NEW p \in Pair, NEW r \in room.reports \cup {Absent},
             NEW f \in room.frames \cup {Absent}, HeartbeatReport(p, r, f)
      PROVE  DelayInv' /\ Lowered /\ Fixed
  <2>1. Hear(p, r) /\ UNCHANGED <<stage, delay, done, tick, resets, room>>
    BY <1>1, Zenon DEF HeartbeatReport
  <2>2. local' \in [Pair -> {Absent} \cup [value : room.frames, at : 0 .. tick]]
    <3>1. tick \in Nat /\ local \in [Pair -> {Absent} \cup [value : room.frames, at : 0 .. tick]]
      BY <1>0 DEF DelayTypeOK
    <3>2. CASE f = Absent
      BY <1>1, <3>1, <3>2, Zenon DEF HeartbeatReport
    <3>3. CASE f # Absent
      <4>1. f \in room.frames
        BY <1>1, <3>3
      <4>2. local' = [local EXCEPT ![p] = [value |-> f, at |-> tick]]
        BY <1>1, <3>3, Zenon DEF HeartbeatReport
      <4> QED
        BY <3>1, <4>1, <4>2, StampedReport, Zenon
    <3> QED
      BY <3>2, <3>3
  <2> QED
    BY <1>0, <2>1, <2>2, NotedReport, SameDelay, Zenon DEF DelayInv, DelayTypeOK
<1>2. ASSUME NEW p \in Pair, NEW r \in room.reports \cup {Absent}, ReadyReport(p, r)
      PROVE  DelayInv' /\ Lowered /\ Fixed
  <2>1. Hear(p, r) /\ UNCHANGED <<local, tick, resets, room>> /\ stage = "Ready"
    BY <1>2 DEF ReadyReport
  <2>2. done' \in [ready : SUBSET Pair, steady : SUBSET Pair, set : BOOLEAN]
    BY <1>0, <1>2 DEF ReadyReport, DelayTypeOK
  <2>3. \/ delay' = InitialDecision(report') /\ stage' = "Playing"
        \/ UNCHANGED <<delay, stage>>
    BY <1>2, <2>1, NotedReport DEF ReadyReport
  <2>4. Entries(report')
    BY <2>1, NotedReport
  <2>5. delay' \in 1 .. 8 /\ stage' \in {"Ready", "StartScheduled", "Playing"}
    BY <1>0, <2>3, <2>4, V4Decision DEF DelayTypeOK, MaximumDelay
  <2>6. DelayInv'
    BY <1>0, <2>1, <2>2, <2>5, NotedReport, Zenon DEF DelayInv, DelayTypeOK, MaximumDelay
  <2>7. CASE UNCHANGED <<delay, stage>>
    BY <1>0, <2>6, <2>7, SameDelay
  <2>8. CASE delay' = InitialDecision(report') /\ stage' = "Playing"
    <3>1. Fixed
      BY <2>1, <2>8 DEF Fixed, Decides
    <3>2. InitialDecision(report') < delay => Sampled(report') = Pair
      BY <1>0, <2>4, V4Decision
    <3>3. Lowered
      <4>1. room.strict => \A q \in Pair : report'[q] # Absent => q \in heard'
        BY <2>1, NotedReport
      <4>2. heard' \in SUBSET Pair
        BY <2>1, NotedReport
      <4>3. ASSUME room.strict, Sampled(report') = Pair PROVE heard' = Pair
        <5>1. \A q \in Pair : report'[q] # Absent => q \in heard'
          BY <4>1, <4>3, Zenon
        <5>2. PICK rs, h : rs = report' /\ h = heard'
          BY Zenon
        <5>3. Sampled(rs) = Pair /\ h \in SUBSET Pair /\ \A q \in Pair : rs[q] # Absent => q \in h
          BY <4>2, <4>3, <5>1, <5>2, Zenon
        <5>4. h = Pair
          BY <5>3, SampledHeard, Zenon
        <5> QED
          BY <5>2, <5>4, Zenon
      <4> QED
        BY <2>8, <3>2, <4>3 DEF Lowered
    <3> QED
      BY <2>6, <3>1, <3>3
  <2> QED
    BY <2>3, <2>7, <2>8
<1>3. ASSUME Schedule(report'), Entries(report'),
             report' \in [Pair -> {Absent} \cup [value : room.reports, at : 0 .. tick]],
             done' \in [ready : SUBSET Pair, steady : SUBSET Pair, set : BOOLEAN], heard' \subseteq Pair,
             room.strict => \A q \in Pair : report'[q] # Absent => q \in heard',
             UNCHANGED <<local, tick, resets, room>>
      PROVE  DelayInv' /\ Lowered /\ Fixed
  <2>1. delay' \in 1 .. 8 /\ stage' = "StartScheduled"
    BY <1>0, <1>3, V5Decision DEF Schedule, DelayTypeOK, MaximumDelay
  <2>2. DelayInv'
    BY <1>0, <1>3, <2>1 DEF DelayInv, DelayTypeOK, MaximumDelay
  <2>3. CASE room.strict
    <3>1. Lowered
      <4>1. delay' = InitialV5(report')
        BY <1>3, <2>3, Zenon DEF Schedule
      <4>2. delay' < delay => Sampled(report') = Pair
        BY <1>0, <1>3, <4>1, V5Decision, Zenon
      <4>3. Sampled(report') = Pair => heard' = Pair
        <5>1. heard' \in SUBSET Pair
          BY <1>3, Zenon
        <5>2. \A q \in Pair : report'[q] # Absent => q \in heard'
          BY <1>3, <2>3
        <5> QED
          BY <5>1, <5>2, SampledHeard, Zenon
      <4> QED
        BY <4>2, <4>3, Zenon DEF Lowered
    <3> QED
      BY <1>3, <2>1, <2>2, <3>1, Zenon DEF Fixed, Decides, Schedule
  <2>4. CASE ~ room.strict
    BY <1>0, <1>3, <2>2, <2>4, SameDelay DEF Schedule
  <2> QED
    BY <2>3, <2>4
<1>4. ASSUME NEW p \in Pair, NEW r \in room.reports \cup {Absent}, SteadyReport(p, r)
      PROVE  DelayInv' /\ Lowered /\ Fixed
  <2>1. Hear(p, r) /\ UNCHANGED <<local, tick, resets, room>>
    BY <1>4 DEF SteadyReport
  <2>2. done' \in [ready : SUBSET Pair, steady : SUBSET Pair, set : BOOLEAN]
    <3>1. \/ done' = [done EXCEPT !.steady = Pair, !.set = TRUE]
          \/ done' = [done EXCEPT !.steady = @ \cup {p}]
      BY <1>4 DEF SteadyReport
    <3>2. done \in [ready : SUBSET Pair, steady : SUBSET Pair, set : BOOLEAN]
      BY <1>0 DEF DelayTypeOK
    <3>3. ASSUME NEW s \in SUBSET Pair
          PROVE  /\ [done EXCEPT !.steady = s] \in [ready : SUBSET Pair, steady : SUBSET Pair, set : BOOLEAN]
                 /\ [done EXCEPT !.steady = s, !.set = TRUE]
                      \in [ready : SUBSET Pair, steady : SUBSET Pair, set : BOOLEAN]
      BY <3>2, Zenon
    <3>4. done.steady \cup {p} \in SUBSET Pair
      BY <3>2
    <3> QED
      BY <3>1, <3>3, <3>4, Zenon
  <2>3. Schedule(report') \/ UNCHANGED <<delay, stage>>
    BY <1>4, <2>1, NotedReport DEF SteadyReport
  <2>4. CASE UNCHANGED <<delay, stage>>
    BY <1>0, <2>1, <2>2, <2>4, NotedReport, SameDelay, Zenon DEF DelayInv, DelayTypeOK
  <2> QED
    BY <1>3, <2>1, <2>2, <2>3, <2>4, NotedReport
<1>5. CASE LastClockSample
  <2>1. Entries(report')
    <3>1. report' = report
      BY <1>5 DEF LastClockSample
    <3> QED
      BY <1>0, <3>1, StoredEntries, Zenon
  <2>2. done' \in [ready : SUBSET Pair, steady : SUBSET Pair, set : BOOLEAN]
    BY <1>0, <1>5, Zenon DEF LastClockSample, DelayTypeOK
  <2> QED
    BY <1>0, <1>3, <1>5, <2>1, <2>2 DEF LastClockSample, DelayInv, DelayTypeOK
<1>6. CASE StartPlaying
  BY <1>0, <1>6, SameDelay, Zenon DEF StartPlaying, DelayInv, DelayTypeOK
<1>7. ASSUME NEW gone \in SUBSET Pair, NewRound(gone)
      PROVE  DelayInv' /\ Lowered /\ Fixed
  <2>1. DelayTypeOK'
    <3>1. resets' \in 0 .. NewRounds /\ stage' = "Ready" /\ heard' = {}
      <4>1. resets \in 0 .. NewRounds /\ NewRounds \in Nat
        BY <1>0, Zenon DEF DelayTypeOK
      <4>2. resets < NewRounds /\ resets' = resets + 1 /\ stage' = "Ready" /\ heard' = {}
        BY <1>7, Zenon DEF NewRound
      <4>3. resets' \in 0 .. NewRounds
        BY <4>1, <4>2
      <4> QED
        BY <4>2, <4>3, Zenon
    <3>2. done' \in [ready : SUBSET Pair, steady : SUBSET Pair, set : BOOLEAN]
      BY <1>7 DEF NewRound, NoneDone
    <3>3. report' \in [Pair -> {Absent} \cup [value : room.reports, at : 0 .. tick]]
      BY <1>0, <1>7, Zenon DEF NewRound, DelayTypeOK
    <3>4. local' \in [Pair -> {Absent} \cup [value : room.frames, at : 0 .. tick]]
      BY <1>0, <1>7, Zenon DEF NewRound, DelayTypeOK
    <3>5. UNCHANGED <<delay, tick, room>>
      BY <1>7 DEF NewRound
    <3> QED
      BY <1>0, <3>1, <3>2, <3>3, <3>4, <3>5 DEF DelayTypeOK
  <2>2. room.strict => \A p \in Pair : report'[p] = Absent
    BY <1>7 DEF NewRound, Cleared
  <2> QED
    BY <1>0, <1>7, <2>1, <2>2, SameDelay DEF NewRound, DelayInv
<1>8. CASE DelayTick
  <2>1. tick' \in 0 .. LastTick /\ 0 .. tick \subseteq 0 .. tick'
    BY <1>0, <1>8, SMTT(30) DEF DelayTick, DelayTypeOK
  <2> QED
    BY <1>0, <1>8, <2>1, SameDelay, Zenon DEF DelayTick, DelayInv, DelayTypeOK
<1>9. ASSUME NEW p \in Pair, CompatibilityAgain(p)
      PROVE  DelayInv' /\ Lowered /\ Fixed
  BY <1>0, <1>9, SameDelay DEF CompatibilityAgain, DelayInv, DelayTypeOK
<1> QED
  BY <1>1, <1>2, <1>4, <1>5, <1>6, <1>7, <1>8, <1>9 DEF DelayNext

LEMMA DelayAlways == DelaySpec => []DelayInv
<1>1. DelayInit => DelayInv
  <2> SUFFICES ASSUME DelayInit PROVE DelayInv
    OBVIOUS
  <2>1. room \in Rooms /\ delay \in 1 .. MaximumDelay
    BY InputDelayAssumption, Zenon DEF DelayInit
  <2>2. tick \in 0 .. LastTick /\ resets \in 0 .. NewRounds
    BY InputDelayAssumption DEF DelayInit
  <2>3. /\ report \in [Pair -> {Absent} \cup [value : room.reports, at : 0 .. tick]]
        /\ local \in [Pair -> {Absent} \cup [value : room.frames, at : 0 .. tick]]
    BY DEF DelayInit, Nothing
  <2>4. done \in [ready : SUBSET Pair, steady : SUBSET Pair, set : BOOLEAN]
    BY DEF DelayInit, NoneDone
  <2>5. \A q \in Pair : report[q] = Absent
    BY DEF DelayInit, Nothing
  <2> QED
    BY <2>1, <2>2, <2>3, <2>4, <2>5, Zenon DEF DelayInit, DelayInv, DelayTypeOK
<1>2. DelayInv /\ [DelayNext]_delayVars => DelayInv'
  <2>1. ASSUME DelayInv, UNCHANGED delayVars PROVE DelayInv'
    BY <2>1 DEF DelayInv, DelayTypeOK, delayVars
  <2> QED
    BY <2>1, DelayStep
<1> QED
  BY <1>1, <1>2, PTL DEF DelaySpec

\* The delay that clients are told never leaves the range of session descriptors,
\* whatever initial_decision and initial_v5_decision compute from the reports.
THEOREM DelayInRange == DelaySpec => []DelayTypeOK
<1>1. DelayInv => DelayTypeOK
  BY DEF DelayInv
<1> QED
  BY <1>1, DelayAlways, PTL

\* A lower delay rests on fresh reports of both clients, in a strict room of this
\* round.
THEOREM EvidenceLowers == DelaySpec => LoweredOnEvidence
<1>1. DelayInv /\ [DelayNext]_delayVars => [Lowered]_delayVars
  BY DelayStep
<1> QED
  BY <1>1, DelayAlways, PTL DEF DelaySpec, LoweredOnEvidence, Lowered

\* The delay changes only in the step that leaves Ready.
THEOREM FixedOnceScheduled == DelaySpec => DelayFixed
<1>1. DelayInv /\ [DelayNext]_delayVars => [Fixed]_delayVars
  BY DelayStep
<1> QED
  BY <1>1, DelayAlways, PTL DEF DelaySpec, DelayFixed, Fixed


\* Division rounded up: the least number of units of d that cover b.
LEMMA RoundedUp ==
  ASSUME NEW b \in Nat, NEW d \in Nat \ {0}, NEW q, q = (b + (d - 1)) \div d
  PROVE  q \in Nat /\ (\A m \in Nat : m >= q => m * d >= b) /\ (\A m \in Nat : m < q => ~ (m * d >= b))
<1>1. PICK a \in Nat : a = b + (d - 1)
  OBVIOUS
<1>2. q \in Nat /\ d * q <= a /\ a < d * q + d
  BY <1>1
<1>3. q * d >= b
  BY <1>1, <1>2
<1>4. ASSUME NEW m \in Nat, m >= q PROVE m * d >= b
  <2>1. q * d <= m * d
    BY <1>2, <1>4
  <2>2. q * d \in Int /\ m * d \in Int
    BY <1>2
  <2> QED
    BY <1>3, <2>1, <2>2
<1>5. ASSUME NEW m \in Nat, m < q PROVE ~ (m * d >= b)
  <2>1. (m + 1) * d <= q * d
    BY <1>2, <1>5
  <2>2. (m + 1) * d = m * d + d /\ m * d \in Int /\ q * d \in Int /\ q * d = d * q
    BY <1>2
  <2> QED
    BY <1>1, <1>2, <2>1, <2>2
<1> QED
  BY <1>2, <1>4, <1>5

\* The decision for a budget of b units of d to the frame.
LEMMA DecisionCovers ==
  ASSUME NEW b \in Nat, NEW d \in Nat \ {0}, NEW n,
         n = Clamp(Least((b + (d - 1)) \div d, MaximumDelay) + SafetyFrames)
  PROVE  /\ n \in 2 .. 8
         /\ (n - SafetyFrames) * d >= b \/ n = MaximumDelay
         /\ \A k \in MinimumDelay .. n - 1 : ~ ((k - SafetyFrames) * d >= b)
<1>1. PICK q : q = (b + (d - 1)) \div d
  BY Zenon
<1>2. q \in Nat /\ (\A m \in Nat : m >= q => m * d >= b) /\ (\A m \in Nat : m < q => ~ (m * d >= b))
  BY <1>1, RoundedUp, Zenon
<1>3. n = Clamp(Least(q, 8) + 1)
  BY <1>1, Zenon DEF MaximumDelay, SafetyFrames
<1>4. n \in 2 .. 8 /\ (n = 8 \/ n - 1 >= q) /\ (n > 2 => n - 1 <= q)
  BY <1>2, <1>3, SMTT(30) DEF Clamp, Least, Most, MinimumDelay, MaximumDelay
<1>5. n - 1 \in Nat
  BY <1>4
<1>6. (n - 1) * d >= b \/ n = 8
  BY <1>2, <1>4, <1>5, Zenon
<1>7. ASSUME NEW k \in 2 .. n - 1 PROVE ~ ((k - 1) * d >= b)
  <2>1. k - 1 \in Nat /\ k - 1 < q
    BY <1>2, <1>4, <1>7
  <2> QED
    BY <1>2, <2>1, Zenon
<1> QED
  BY <1>4, <1>6, <1>7 DEF MaximumDelay, SafetyFrames, MinimumDelay

Covered ==
  Decides /\ room.strict /\ room.scheduled /\ (\A p \in Pair : Complete(report'[p])) =>
     LET covers(n) == (n - SafetyFrames) * 1000 * Rate[2] >= PathBudget(report') * Rate[1]
     IN  /\ covers(delay') \/ delay' = MaximumDelay
         /\ \A n \in MinimumDelay .. delay' - 1 : ~covers(n)

\* The measured path of complete reports is a number.
LEMMA CompletePath ==
  ASSUME NEW rs, Entries(rs), \A p \in Pair : Complete(rs[p]) PROVE PathBudget(rs) \in Nat
<1>1. \A p \in Pair : rs[p].value.rtt \in Nat /\ rs[p].value.jitter \in Nat
  BY DEF Entries, Entry, Complete, IsFresh
<1>2. \A p \in Pair : OneWay(rs[p].value.rtt) + rs[p].value.jitter \in Nat
  BY <1>1, OneWayIsNat, SMTT(30)
<1> QED
  BY <1>2, SMTT(30) DEF PathBudget, Pair

\* initial_v5_decision with complete reports.
LEMMA V5Covers ==
  ASSUME DelayTypeOK, Entries(report'), delay' = InitialV5(report') PROVE Covered
<1> SUFFICES ASSUME \A p \in Pair : Complete(report'[p])
             PROVE  /\ \/ (delay' - SafetyFrames) * 1000 * Rate[2] >= PathBudget(report') * Rate[1]
                       \/ delay' = MaximumDelay
                    /\ \A n \in MinimumDelay .. delay' - 1 :
                         ~ ((n - SafetyFrames) * 1000 * Rate[2] >= PathBudget(report') * Rate[1])
  BY DEF Covered
<1>1. PICK x \in Nat, y \in Nat \ {0} : Rate = <<x, y>>
  <2>1. room.rate \in Nat \X Nat
    BY InputDelayAssumption DEF DelayTypeOK
  <2> QED
    BY <2>1 DEF Rate
<1>2. PICK w \in Nat : w = PathBudget(report')
  BY CompletePath
<1> DEFINE b == PathBudget(report') * Rate[1]
           d == Most(1000 * Rate[2], 1)
<1>3. b \in Nat /\ d = 1000 * y /\ d \in Nat \ {0}
  <2>1. b = w * x /\ d = 1000 * y
    BY <1>1, <1>2 DEF Most
  <2> QED
    BY <2>1
<1>4. FramesForMs(PathBudget(report'), Rate) = Least((b + (d - 1)) \div d, MaximumDelay)
  BY Zenon DEF FramesForMs
<1>5. b = PathBudget(report') * Rate[1]
  OBVIOUS
<1> HIDE DEF b, d
<1>6. delay' = Clamp(Least((b + (d - 1)) \div d, MaximumDelay) + SafetyFrames)
  BY <1>4 DEF InitialV5
<1>7. /\ delay' \in 2 .. 8
      /\ (delay' - SafetyFrames) * d >= b \/ delay' = MaximumDelay
      /\ \A k \in MinimumDelay .. delay' - 1 : ~ ((k - SafetyFrames) * d >= b)
  <2>1. b \in Nat /\ d \in Nat \ {0}
    BY <1>3
  <2> QED
    BY <1>6, <2>1, DecisionCovers
<1>8. \A k \in Int : (k - SafetyFrames) * 1000 * Rate[2] = (k - SafetyFrames) * d
  <2> SUFFICES ASSUME NEW k \in Int PROVE (k - 1) * 1000 * y = (k - 1) * d
    BY <1>1 DEF SafetyFrames
  <2> QED
    BY <1>3
<1> QED
  BY <1>5, <1>7, <1>8 DEF MinimumDelay

\* A room that starts strictly with complete reports gets the least delay that covers both
\* paths and the safety frame, for every frame rate and all reports: the integer division of
\* frames_for_ms_at_rate never leaves it short, nor a frame too long.
THEOREM DelayIsEnough == DelaySpec => DelayCoversPaths
<1>1. ASSUME DelayInv, DelayNext PROVE Covered
  <2>0. DelayTypeOK
    BY <1>1 DEF DelayInv
  <2>1. ASSUME NEW p \in Pair, NEW r \in room.reports \cup {Absent},
               NEW f \in room.frames \cup {Absent}, HeartbeatReport(p, r, f)
        PROVE  Covered
    BY <2>1 DEF HeartbeatReport, Covered, Decides
  <2>2. ASSUME NEW p \in Pair, NEW r \in room.reports \cup {Absent}, ReadyReport(p, r)
        PROVE  Covered
    BY <2>2 DEF ReadyReport, Covered, Decides
  <2>3. ASSUME NEW p \in Pair, NEW r \in room.reports \cup {Absent}, SteadyReport(p, r)
        PROVE  Covered
    <3>1. Hear(p, r) /\ UNCHANGED <<tick, room>>
      BY <2>3 DEF SteadyReport
    <3>2. report' = Noted(p, r) /\ Entries(report')
      BY <1>1, <3>1, NotedReport
    <3>3. stage' = stage \/ Schedule(report')
      BY <2>3, <3>2, Zenon DEF SteadyReport
    <3>4. CASE stage' = stage
      BY <3>4 DEF Covered, Decides
    <3>5. CASE Schedule(report') /\ room.strict
      BY <2>0, <3>2, <3>5, V5Covers DEF Schedule
    <3>6. CASE ~ room.strict
      BY <3>6 DEF Covered
    <3> QED
      BY <3>3, <3>4, <3>5, <3>6
  <2>4. CASE LastClockSample
    <3>1. Entries(report') /\ Schedule(report')
      <4>1. Entries(report)
        BY <1>1, StoredEntries, Zenon DEF DelayInv
      <4>2. report' = report /\ Schedule(report)
        BY <2>4 DEF LastClockSample
      <4> QED
        BY <4>1, <4>2, Zenon
    <3>2. CASE room.strict
      BY <2>0, <3>1, <3>2, V5Covers DEF Schedule
    <3>3. CASE ~ room.strict
      BY <3>3 DEF Covered
    <3> QED
      BY <3>2, <3>3
  <2>5. CASE StartPlaying \/ DelayTick \/ (\E p \in Pair : CompatibilityAgain(p))
               \/ (\E gone \in SUBSET Pair : NewRound(gone))
    BY <2>5 DEF StartPlaying, DelayTick, CompatibilityAgain, NewRound, Covered, Decides
  <2> QED
    BY <1>1, <2>1, <2>2, <2>3, <2>4, <2>5 DEF DelayNext
<1>2. DelayInv /\ [DelayNext]_delayVars => [Covered]_delayVars
  BY <1>1
<1> QED
  BY <1>2, DelayAlways, PTL DEF DelaySpec, DelayCoversPaths, Covered
==============================================================================
