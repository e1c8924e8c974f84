---------------------------- MODULE AuditWriter ----------------------------
(***************************************************************************)
(* internal/audit's Writer: request handlers call Log, which puts the      *)
(* entry in a bounded channel; one goroutine collects entries from the     *)
(* channel and inserts them in batches; Stop makes it drain the channel,   *)
(* flush and end.                                                          *)
(*                                                                         *)
(* An entry is the number of the Log call that made it.                    *)
(***************************************************************************)
EXTENDS Naturals, Sequences, FiniteSets

CONSTANTS
    Handler,       \* request goroutines
    QueueSize,     \* capacity of the channel
    BatchSize,     \* entries that make the loop flush
    MaxRows,       \* rows one INSERT can carry: the driver's limit on
                   \* parameters, by the 11 columns of a row
    MaxEntries,    \* bound on the number of Log calls
    DbMayFail,     \* can an INSERT fail for no fault of its rows
    BadEntries,    \* can an entry have an actor_id the column refuses
    LateHandlers   \* can handlers outlive ShutdownWithTimeout

ASSUME WriterAssumption ==
    /\ QueueSize \in Nat \ {0} /\ BatchSize \in Nat \ {0}
    /\ MaxRows \in Nat \ {0} /\ MaxEntries \in Nat
    /\ DbMayFail \in BOOLEAN /\ BadEntries \in BOOLEAN /\ LateHandlers \in BOOLEAN

Entry == 1..MaxEntries

VARIABLES
    calls,       \* Log calls so far
    bad,         \* entries the table would refuse
    logging,     \* the entry each handler is logging, between the onLog
                 \* callback and the send
    queue,       \* the channel
    batch,       \* the loop's batch
    pc,          \* the loop: "select", "flush", "drain", "last flush", "done"
    stop,        \* stop is closed
    table,       \* audit_logs, in order of insertion
    \* History, read by the properties only:
    accepted,    \* entries the channel took, in order
    promised,    \* how many it had taken when stop was closed
    handed       \* entries passed to insertBatch, in order

loop == <<batch, pc, table, handed>>
vars == <<calls, bad, logging, queue, stop, accepted, promised, loop>>

-----------------------------------------------------------------------------
\* Log, up to and including the onLog callback.
Announce(h) ==
    /\ logging[h] = {}
    /\ calls < MaxEntries
    /\ ~stop \/ LateHandlers
    /\ calls' = calls + 1
    /\ bad' \in IF BadEntries THEN {bad, bad \cup {calls + 1}} ELSE {bad}
    /\ logging' = [logging EXCEPT ![h] = {calls + 1}]
    /\ UNCHANGED <<queue, stop, accepted, promised, loop>>

\* Seeded fault: a full channel makes room by discarding its oldest entry.
DropOldest(h) ==
    /\ \E e \in logging[h] :
          IF Len(queue) < QueueSize
          THEN /\ queue' = Append(queue, e)
               /\ accepted' = Append(accepted, e)
          ELSE /\ queue' = Append(Tail(queue), e)
               /\ accepted' = Append(accepted, e)
    /\ logging' = [logging EXCEPT ![h] = {}]
    /\ UNCHANGED <<calls, bad, stop, promised, loop>>

\* Seeded fault: a send that always succeeds.
UnboundedSend(h) ==
    /\ \E e \in logging[h] :
          /\ queue' = Append(queue, e)
          /\ accepted' = Append(accepted, e)
    /\ logging' = [logging EXCEPT ![h] = {}]
    /\ UNCHANGED <<calls, bad, stop, promised, loop>>

\* The non-blocking send; a full channel drops the entry (and logs an error).
Send(h) ==
    /\ \E e \in logging[h] :
          IF Len(queue) < QueueSize
          THEN /\ queue' = Append(queue, e)
               /\ accepted' = Append(accepted, e)
          ELSE UNCHANGED <<queue, accepted>>
    /\ logging' = [logging EXCEPT ![h] = {}]
    /\ UNCHANGED <<calls, bad, stop, promised, loop>>

\* case e := <-w.queue
Receive ==
    /\ pc = "select" /\ queue # <<>>
    /\ batch' = Append(batch, Head(queue))
    /\ queue' = Tail(queue)
    /\ pc' = IF Len(batch') >= BatchSize THEN "flush" ELSE "select"
    /\ UNCHANGED <<calls, bad, logging, stop, accepted, promised, table, handed>>

\* Seeded fault: the ticker is forgotten, only a full batch is flushed.
DeafTimer ==
    /\ pc = "select" /\ batch # <<>>
    /\ Len(batch) >= BatchSize
    /\ pc' = "flush"
    /\ UNCHANGED <<calls, bad, logging, queue, stop, accepted, promised, batch,
                   table, handed>>

\* case <-ticker.C; with an empty batch flush does nothing.
Timer ==
    /\ pc = "select" /\ batch # <<>>
    /\ pc' = "flush"
    /\ UNCHANGED <<calls, bad, logging, queue, stop, accepted, promised, batch,
                   table, handed>>

\* case <-w.stop, or <-ctx.Done(): main cancels the context after Stop, so the
\* two say the same.
StopSeen ==
    /\ pc = "select" /\ stop
    /\ pc' = "drain"
    /\ UNCHANGED <<calls, bad, logging, queue, stop, accepted, promised, batch,
                   table, handed>>

DrainOne ==
    /\ pc = "drain" /\ queue # <<>>
    /\ batch' = Append(batch, Head(queue))
    /\ queue' = Tail(queue)
    /\ UNCHANGED <<calls, bad, logging, stop, accepted, promised, pc, table, handed>>

\* Seeded fault: the loop ends without looking at the channel again.
NoDrain ==
    /\ pc = "drain"
    /\ pc' = IF batch = <<>> THEN "done" ELSE "last flush"
    /\ UNCHANGED <<calls, bad, logging, queue, stop, accepted, promised, batch,
                   table, handed>>

DrainEnd ==
    /\ pc = "drain" /\ queue = <<>>
    /\ pc' = IF batch = <<>> THEN "done" ELSE "last flush"
    /\ UNCHANGED <<calls, bad, logging, queue, stop, accepted, promised, batch,
                   table, handed>>

InFlush == pc \in {"flush", "last flush"}
FlushEnds == pc' = IF pc = "flush" THEN "select" ELSE "done"

BatchSet == {batch[n] : n \in DOMAIN batch}

Insertable == BatchSet \cap bad = {} /\ Len(batch) <= MaxRows

\* Seeded fault: rows are inserted last first.
ReversedInsert ==
    /\ InFlush /\ Insertable
    /\ table' = table \o [n \in DOMAIN batch |-> batch[Len(batch) + 1 - n]]
    /\ handed' = handed \o batch
    /\ batch' = <<>>
    /\ FlushEnds
    /\ UNCHANGED <<calls, bad, logging, queue, stop, accepted, promised>>

\* insertBatch succeeds: one statement, all rows or none.
FlushStores ==
    /\ InFlush /\ Insertable
    /\ table' = table \o batch
    /\ handed' = handed \o batch
    /\ batch' = <<>>
    /\ FlushEnds
    /\ UNCHANGED <<calls, bad, logging, queue, stop, accepted, promised>>

\* It fails: the error is logged and the batch is gone all the same.
FlushFails ==
    /\ InFlush /\ (DbMayFail \/ ~Insertable)
    /\ handed' = handed \o batch
    /\ batch' = <<>>
    /\ FlushEnds
    /\ UNCHANGED <<calls, bad, logging, queue, stop, accepted, promised, table>>

\* main's shutdown: ShutdownWithTimeout has waited for the handlers, or given up
\* on them; then Stop.
Stop ==
    /\ ~stop
    /\ LateHandlers \/ \A h \in Handler : logging[h] = {}
    /\ stop' = TRUE
    /\ promised' = Len(accepted)
    /\ UNCHANGED <<calls, bad, logging, queue, accepted, loop>>

-----------------------------------------------------------------------------
Init ==
    /\ calls = 0 /\ bad = {}
    /\ logging = [h \in Handler |-> {}]
    /\ queue = <<>> /\ batch = <<>>
    /\ pc = "select" /\ stop = FALSE
    /\ table = <<>> /\ accepted = <<>> /\ promised = 0 /\ handed = <<>>

Log(h) == Announce(h) \/ Send(h)

Flush == FlushStores \/ FlushFails
Drain == DrainOne \/ DrainEnd

Next ==
    \/ \E h \in Handler : Log(h)
    \/ Receive \/ Timer \/ StopSeen \/ Drain \/ Flush
    \/ Stop

Spec == Init /\ [][Next]_vars

\* A handler finishes its call.  select picks among the ready cases at random,
\* so none that is ready again and again is passed over for ever.
Fairness ==
    /\ \A h \in Handler : WF_vars(Send(h))
    /\ SF_vars(Receive) /\ SF_vars(Timer) /\ SF_vars(StopSeen)
    /\ WF_vars(Drain) /\ WF_vars(Flush)

FairSpec == Spec /\ Fairness

-----------------------------------------------------------------------------
\* Every variable holds entries, the channel is within its capacity, and the
\* loop never collects more than a batch before it flushes.
TypeOK ==
    /\ calls \in 0..MaxEntries /\ bad \subseteq Entry
    /\ logging \in [Handler -> SUBSET Entry]
    /\ queue \in Seq(Entry) /\ batch \in Seq(Entry) /\ table \in Seq(Entry)
    /\ accepted \in Seq(Entry) /\ handed \in Seq(Entry)
    /\ pc \in {"select", "flush", "drain", "last flush", "done"}
    /\ stop \in BOOLEAN
    /\ promised \in 0..Len(accepted)
    /\ Len(queue) <= QueueSize
    /\ pc \in {"select", "flush"} => Len(batch) <= BatchSize

\* Every accepted entry is in exactly one place, and none overtakes another: the
\* entries handed to the database, the batch and the channel, in this order, are
\* the entries the channel took, in the order in which it took them.
NothingAstray == accepted = handed \o batch \o queue

Log2 == INSTANCE LossyLog WITH waiting <- batch \o queue, stored <- table

\* Handlers, channel and loop together are a lossy log.
ImplementsLossyLog == Log2!Spec

\* "Stop signals Run to flush and exit, and blocks until it has" (writer.go):
\* when it returns, what the channel took before Stop has been handed to the
\* database, whatever the loop was doing at that moment and whatever handlers
\* that outlive the shutdown still send.
StopDrains == pc = "done" => promised <= Len(handed)

\* An entry the channel took before Stop does not wait for ever, whether the
\* loop is busy, idle or told to stop right after.
EventuallyHanded ==
    \A n \in Entry : (n <= Len(accepted) /\ ~stop) ~> n <= Len(handed)
=============================================================================
