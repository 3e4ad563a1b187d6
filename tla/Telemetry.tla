------------------------------ MODULE Telemetry ------------------------------
(***************************************************************************)
(* The durable telemetry of the relay: registry operations, which hold the *)
(* registry lock, push records into a bounded channel without waiting; one *)
(* background task collects them into batches and writes the batches to    *)
(* Postgres.  A record is its number in recording order and its kind; what *)
(* it says is abstracted.  The database is external: it may refuse a       *)
(* connection, and a statement may fail at any record.                     *)
(***************************************************************************)
EXTENDS Naturals, Sequences

CONSTANTS QueueCap,    \* config.queue_capacity
          BatchSize,   \* config.batch_size
          MaxRecords   \* bound: records of a behaviour

ASSUME TelemetryAssumption == /\ QueueCap \in Nat \ {0}
                              /\ BatchSize \in Nat \ {0}
                              /\ MaxRecords \in Nat

VARIABLES recorded,    \* number of records handed to the sink
          queue,       \* the mpsc channel between sink and drain task
          batch,       \* the drain task's Vec
          todo,        \* what write_connected has still to insert
          drain,       \* where the drain task waits
          connection,  \* PostgresTelemetryWriter.connection.is_some()
          stored,      \* rows of each table, in insertion order
          dropped,     \* metrics: telemetry_dropped
          failed       \* metrics: telemetry_write_failed

telVars == <<recorded, queue, batch, todo, drain, connection, stored, dropped, failed>>

\* The three tables, in the order in which write_connected fills them.
Tables == <<"events", "lobby_events", "performance_samples">>
RecordKinds == {Tables[i] : i \in DOMAIN Tables}
Records == [n : 1 .. MaxRecords, kind : RecordKinds]

TableOf(r) == CHOOSE i \in DOMAIN Tables : Tables[i] = r.kind

\* Which of two records of a batch is written first: that of the earlier table, of one
\* table the one received first.
WrittenBefore(s, i, j) == \/ TableOf(s[i]) < TableOf(s[j])
                          \/ s[i].kind = s[j].kind /\ i < j

\* split_batch groups a batch by table and keeps the order within a table: the one
\* arrangement of the batch in that order.
SplitBatch(s) ==
  LET orders == {q \in [DOMAIN s -> DOMAIN s] :
                   \A i, j \in DOMAIN s : i < j => WrittenBefore(s, q[i], q[j])}
  IN  {[i \in DOMAIN s |-> s[q[i]]] : q \in orders}

\* spawn_telemetry_sink with the Postgres sink: the channel and the writer
\* start empty, the writer without a connection.
TelInit == /\ recorded = 0 /\ queue = <<>> /\ batch = <<>> /\ todo = <<>>
           /\ drain = "select" /\ connection = FALSE
           /\ stored = [k \in RecordKinds |-> <<>>]
           /\ dropped = 0 /\ failed = 0

-----------------------------------------------------------------------------
(* The sink, called by the registries.                                     *)

\* Mutant of TryRecord: a full channel loses the record without counting it.
TryRecordSilently(k) ==
  /\ recorded < MaxRecords
  /\ recorded' = recorded + 1
  /\ queue' = IF Len(queue) < QueueCap
              THEN Append(queue, [n |-> recorded + 1, kind |-> k]) ELSE queue
  /\ UNCHANGED <<batch, todo, drain, connection, stored, dropped, failed>>

\* BoundedTelemetrySink::try_record
TryRecord(k) ==
  /\ recorded < MaxRecords
  /\ recorded' = recorded + 1
  /\ IF Len(queue) < QueueCap
     THEN /\ queue' = Append(queue, [n |-> recorded + 1, kind |-> k])
          /\ UNCHANGED dropped
     ELSE /\ dropped' = dropped + 1
          /\ UNCHANGED queue
  /\ UNCHANGED <<batch, todo, drain, connection, stored, failed>>

-----------------------------------------------------------------------------
(* The drain task.  While it waits for the database it does not read the   *)
(* channel.                                                                *)

\* flush_batch and write_batch up to their first await, for the batch b.
StartFlush(b) ==
  IF b = <<>> THEN drain' = "select" /\ UNCHANGED todo
  ELSE IF connection THEN drain' = "write" /\ todo' \in SplitBatch(b)
  ELSE drain' = "connect" /\ UNCHANGED todo

\* The receive branch of the drain loop: flushes a full batch.
ReceiveRecord ==
  /\ drain = "select" /\ queue # <<>>
  /\ batch' = Append(batch, Head(queue))
  /\ queue' = Tail(queue)
  /\ IF Len(batch') >= BatchSize THEN StartFlush(batch')
     ELSE UNCHANGED <<drain, todo>>
  /\ UNCHANGED <<recorded, connection, stored, dropped, failed>>

\* Mutant of FlushTick: the ticker branch leaves a partial batch alone.
FlushTickFull ==
  /\ drain = "select" /\ Len(batch) >= BatchSize
  /\ StartFlush(batch)
  /\ UNCHANGED <<recorded, queue, batch, connection, stored, dropped, failed>>

\* The ticker branch of the drain loop: flushes a partial batch.
FlushTick ==
  /\ drain = "select" /\ batch # <<>>
  /\ StartFlush(batch)
  /\ UNCHANGED <<recorded, queue, batch, connection, stored, dropped, failed>>

\* Mutant of FailBatch: the failed batch is kept and written again.
FailBatchKept ==
  /\ failed' = failed + Len(batch)
  /\ connection' = FALSE /\ todo' = <<>> /\ drain' = "select"
  /\ UNCHANGED batch

\* The error path of write_batch and flush_batch: the connection is dropped, the
\* whole batch is counted as failed and cleared.
FailBatch ==
  /\ failed' = failed + Len(batch)
  /\ connection' = FALSE /\ todo' = <<>> /\ drain' = "select"
  /\ batch' = <<>>

\* PostgresTelemetryWriter::connect, called by write_batch when it has no
\* connection.
ConnectWriter ==
  /\ drain = "connect"
  /\ \/ /\ connection' = TRUE /\ drain' = "write" /\ todo' \in SplitBatch(batch)
        /\ UNCHANGED <<batch, failed>>
     \/ FailBatch
  /\ UNCHANGED <<recorded, queue, stored, dropped>>

\* One statement of write_events, write_lobby_events or
\* write_performance_samples; each row is its own transaction.
InsertRow ==
  /\ drain = "write"
  /\ stored' = [stored EXCEPT ![Head(todo).kind] = Append(@, Head(todo))]
  /\ todo' = Tail(todo)
  /\ IF todo' = <<>> THEN drain' = "select" /\ batch' = <<>>
     ELSE UNCHANGED <<drain, batch>>
  /\ UNCHANGED <<recorded, queue, connection, dropped, failed>>

\* A statement or a conversion fails: the client is dead, or a value does not
\* fit its column.  The row of a statement whose answer is lost may be there.
InsertFails ==
  /\ drain = "write"
  /\ \/ UNCHANGED stored
     \/ stored' = [stored EXCEPT ![Head(todo).kind] = Append(@, Head(todo))]
  /\ FailBatch
  /\ UNCHANGED <<recorded, queue, dropped>>

Drain == ReceiveRecord \/ FlushTick \/ ConnectWriter \/ InsertRow \/ InsertFails

TelNext == (\E k \in RecordKinds : TryRecord(k)) \/ Drain

TelSpec == TelInit /\ [][TelNext]_telVars

-----------------------------------------------------------------------------
(* Properties.                                                             *)

\* The records held in memory that are not yet rows of a table.
Waiting == Len(queue) + (IF drain = "write" THEN Len(todo) ELSE Len(batch))
Rows == Len(stored["events"]) + Len(stored["lobby_events"])
          + Len(stored["performance_samples"])
Missing == recorded - (Rows + Waiting)

\* The counters account for every loss.  A record that is neither waiting nor a
\* row was dropped by try_record or was in a batch that flush_batch counted as
\* failed; the failure counter may count more (the rows a failing batch had
\* already inserted), never less.  Each table holds a record at most once and in
\* recording order, whatever fails in between: flush_batch never writes a batch again.
LossesAreCounted ==
  /\ recorded >= Rows + Waiting
  /\ dropped <= Missing
  /\ Missing <= dropped + failed
  /\ \A k \in RecordKinds : \A i, j \in DOMAIN stored[k] :
        i < j => stored[k][i].n < stored[k][j].n

\* The bounds that protect the registries: the channel and the batch never grow
\* past queue_capacity and batch_size, also while the database is slow.
TelTypeOK ==
  /\ recorded \in 0 .. MaxRecords /\ dropped \in Nat /\ failed \in Nat
  /\ queue \in Seq(Records) /\ Len(queue) <= QueueCap
  /\ batch \in Seq(Records) /\ Len(batch) <= BatchSize
  /\ todo \in Seq(Records)
  /\ drain \in {"select", "connect", "write"} /\ connection \in BOOLEAN
  /\ stored \in [RecordKinds -> Seq(Records)]
  /\ (drain = "write") = (todo # <<>>)
  /\ drain = "write" => connection

\* Under a fair drain task every record leaves the memory of the relay: a
\* batch that never fills is flushed by the ticker, a failing one is given up.
EventuallyFlushed ==
  \A n \in 1 .. MaxRecords :
     (recorded >= n) ~> ~ \E s \in {queue, batch} : \E i \in DOMAIN s : s[i].n = n
==============================================================================
