------------------------- MODULE AuditWriterProofs -------------------------
(***************************************************************************)
(* The safety properties of the audit writer, for every number of handlers *)
(* and every size of channel, batch and INSERT, with any failures.         *)
(***************************************************************************)
EXTENDS AuditWriter, SequenceTheorems, TLAPS

-----------------------------------------------------------------------------
(* Sequences. *)

\* Moving the first entry of one sequence to the end of the one before it
\* leaves their concatenation as it is.
LEMMA MoveOne ==
    ASSUME NEW S, NEW s \in Seq(S), NEW t \in Seq(S), t # <<>>
    PROVE  /\ Append(s, Head(t)) \in Seq(S) /\ Tail(t) \in Seq(S)
           /\ Append(s, Head(t)) \o Tail(t) = s \o t
  <1>1. Head(t) \in S /\ Tail(t) \in Seq(S) /\ <<Head(t)>> \in Seq(S)
    BY HeadTailProperties
  <1>2. <<Head(t)>> \o Tail(t) = t
    <2>1. Len(<<Head(t)>> \o Tail(t)) = Len(t) /\ Len(t) \in Nat \ {0}
      BY <1>1, ConcatProperties, HeadTailProperties, EmptySeq
    <2>2. \A n \in 1..Len(t) : (<<Head(t)>> \o Tail(t))[n] = t[n]
      BY <1>1, <2>1, ConcatProperties, HeadTailProperties
    <2> QED BY <1>1, <2>1, <2>2, SeqEqual, ConcatProperties
  <1>3. Append(s, Head(t)) = s \o <<Head(t)>> /\ Append(s, Head(t)) \in Seq(S)
    BY <1>1, AppendIsConcat, AppendProperties
  <1> QED BY <1>1, <1>2, <1>3, ConcatAssociative

\* An entry added to the last of two sequences is added to both together.
LEMMA AddToLast ==
    ASSUME NEW S, NEW s \in Seq(S), NEW t \in Seq(S), NEW e \in S
    PROVE  s \o Append(t, e) = Append(s \o t, e)
  <1>1. s \o t \in Seq(S) /\ <<e>> \in Seq(S)
    BY ConcatProperties
  <1>2. Append(t, e) = t \o <<e>> /\ Append(s \o t, e) = (s \o t) \o <<e>>
    BY <1>1, AppendIsConcat
  <1> QED BY <1>1, <1>2, ConcatAssociative

\* A concatenation is cut where its second part begins.
LEMMA CutConcat ==
    ASSUME NEW S, NEW s \in Seq(S), NEW t \in Seq(S)
    PROVE  /\ SubSeq(s \o t, 1, Len(s)) = s
           /\ SubSeq(s \o t, Len(s) + 1, Len(s \o t)) = t
  <1>1. /\ Len(s) \in Nat /\ Len(t) \in Nat /\ s \o t \in Seq(S)
        /\ Len(s \o t) = Len(s) + Len(t)
    BY ConcatProperties, LenProperties
  <1>2. SubSeq(s \o t, 1, Len(s)) = s
    <2>1. CASE Len(s) = 0
      BY <2>1, SubSeqEmpty, EmptySeq
    <2>2. CASE Len(s) # 0
      BY <1>1, <2>2, SubSeqOfConcat1, SubSeqFull
    <2> QED BY <2>1, <2>2
  <1>3. SubSeq(s \o t, Len(s) + 1, Len(s \o t)) = t
    <2>1. CASE Len(t) = 0
      BY <1>1, <2>1, SubSeqEmpty, EmptySeq
    <2>2. CASE Len(t) # 0
      BY <1>1, <2>2, SubSeqOfConcat2, SubSeqFull
    <2> QED BY <2>1, <2>2
  <1> QED BY <1>2, <1>3

-----------------------------------------------------------------------------
(* The inductive invariant. *)

\* The loop that waits at its select has room in the batch.
SelectHasRoom == pc = "select" => Len(batch) < BatchSize

\* The loop drains only after stop.
DrainsAfterStop == pc \in {"drain", "last flush", "done"} => stop

\* What the drain has left to hand over is in the last batch.
KeepsPromise ==
    /\ pc = "last flush" => promised <= Len(handed) + Len(batch)
    /\ pc = "done" => promised <= Len(handed)

\* What every step preserves.
IInv == TypeOK /\ SelectHasRoom /\ NothingAstray /\ DrainsAfterStop /\ KeepsPromise

LEMMA InitInv == Init => IInv
  <1> SUFFICES ASSUME Init PROVE IInv
    OBVIOUS
  <1>1. <<>> \in Seq(Entry) /\ Len(<<>>) = 0
    BY EmptySeq
  <1>2. NothingAstray
    BY <1>1, ConcatEmptySeq DEF Init, NothingAstray
  <1>3. TypeOK /\ SelectHasRoom
    <2>1. /\ calls \in 0..MaxEntries /\ promised \in 0..Len(accepted)
          /\ Len(queue) <= QueueSize /\ Len(batch) < BatchSize /\ Len(batch) <= BatchSize
      BY <1>1, WriterAssumption DEF Init
    <2> QED BY <1>1, <2>1 DEF Init, TypeOK, SelectHasRoom
  <1>4. DrainsAfterStop /\ KeepsPromise
    BY DEF Init, DrainsAfterStop, KeepsPromise
  <1> QED BY <1>2, <1>3, <1>4 DEF IInv

\* The entries a handler is logging are entries, and so is its next one.
LEMMA AnnounceInv == ASSUME IInv, NEW h \in Handler, Announce(h) PROVE IInv'
  <1>1. calls + 1 \in Entry /\ calls' \in 0..MaxEntries
    <2>1. calls \in 0..MaxEntries /\ calls < MaxEntries /\ calls' = calls + 1
      BY DEF IInv, TypeOK, Announce
    <2> QED BY <2>1, WriterAssumption DEF Entry
  <1>2. bad' \subseteq Entry /\ logging' \in [Handler -> SUBSET Entry]
    BY <1>1 DEF IInv, TypeOK, Announce
  <1> QED
    BY <1>1, <1>2
    DEF IInv, TypeOK, Announce, loop, SelectHasRoom, NothingAstray, DrainsAfterStop, KeepsPromise

\* A send adds the entry at both ends of the equation, or at neither.
LEMMA SendInv == ASSUME IInv, NEW h \in Handler, Send(h) PROVE IInv'
  <1>1. PICK e \in logging[h] :
          IF Len(queue) < QueueSize
          THEN queue' = Append(queue, e) /\ accepted' = Append(accepted, e)
          ELSE UNCHANGED <<queue, accepted>>
    BY DEF Send
  <1>2. e \in Entry /\ logging' \in [Handler -> SUBSET Entry]
    BY DEF IInv, TypeOK, Send
  <1>3. UNCHANGED <<calls, bad, stop, promised, batch, pc, table, handed>>
    BY DEF Send, loop
  <1>4. CASE Len(queue) < QueueSize
    <2>1. queue' = Append(queue, e) /\ accepted' = Append(accepted, e)
      BY <1>1, <1>4
    <2>2. /\ queue' \in Seq(Entry) /\ Len(queue') = Len(queue) + 1
          /\ accepted' \in Seq(Entry) /\ Len(accepted') = Len(accepted) + 1
      BY <1>2, <2>1, AppendProperties DEF IInv, TypeOK
    <2>3. Len(queue) \in Nat /\ Len(accepted) \in Nat
      BY LenProperties DEF IInv, TypeOK
    <2>4. TypeOK'
      <3>1. Len(queue') <= QueueSize /\ promised' \in 0..Len(accepted')
        <4>1. promised \in 0..Len(accepted)
          BY DEF IInv, TypeOK
        <4> QED BY <1>3, <1>4, <2>2, <2>3, <4>1, WriterAssumption
      <3> QED BY <1>2, <1>3, <2>2, <3>1 DEF IInv, TypeOK
    <2>5. NothingAstray'
      <3>1. handed \o batch \in Seq(Entry) /\ queue \in Seq(Entry)
        BY ConcatProperties DEF IInv, TypeOK
      <3>2. (handed \o batch) \o Append(queue, e) = Append((handed \o batch) \o queue, e)
        BY <1>2, <3>1, AddToLast
      <3> QED BY <1>3, <2>1, <3>2 DEF IInv, NothingAstray
    <2> QED BY <1>3, <2>4, <2>5 DEF IInv, SelectHasRoom, DrainsAfterStop, KeepsPromise
  <1>5. CASE ~(Len(queue) < QueueSize)
    BY <1>1, <1>2, <1>3, <1>5
    DEF IInv, TypeOK, SelectHasRoom, NothingAstray, DrainsAfterStop, KeepsPromise
  <1> QED BY <1>4, <1>5

\* The first entry of the channel goes to the batch.
Take == batch' = Append(batch, Head(queue)) /\ queue' = Tail(queue)

\* What receiving an entry, by the select or by the drain, leaves true.
LEMMA TakeOne ==
    ASSUME IInv, queue # <<>>, Take
    PROVE  /\ queue' \in Seq(Entry) /\ Len(queue') <= QueueSize
           /\ batch' \in Seq(Entry) /\ Len(batch') = Len(batch) + 1 /\ Len(batch) \in Nat
           /\ batch' \o queue' = batch \o queue
           /\ handed \o batch' \o queue' = handed \o batch \o queue
  <1>1. queue \in Seq(Entry) /\ batch \in Seq(Entry) /\ handed \in Seq(Entry)
    BY DEF IInv, TypeOK
  <1>2. /\ queue' \in Seq(Entry) /\ batch' \in Seq(Entry)
        /\ batch' \o queue' = batch \o queue
    BY <1>1, MoveOne DEF Take
  <1>3. Len(queue') = Len(queue) - 1 /\ Len(queue) \in Nat /\ Len(queue) <= QueueSize
    BY <1>1, HeadTailProperties, LenProperties DEF IInv, TypeOK, Take
  <1>4. Len(batch') = Len(batch) + 1 /\ Len(batch) \in Nat
    BY <1>1, HeadTailProperties, AppendProperties, LenProperties DEF Take
  <1>5. handed \o batch' \o queue' = handed \o batch \o queue
    <2>1. batch' \in Seq(Entry) /\ queue' \in Seq(Entry)
            => (handed \o batch') \o queue' = handed \o (batch' \o queue')
      BY <1>1, ConcatAssociative
    <2>2. (handed \o batch) \o queue = handed \o (batch \o queue)
      BY <1>1, ConcatAssociative
    <2> QED BY <1>2, <2>1, <2>2
  <1>6. Len(queue') <= QueueSize
    BY <1>3, WriterAssumption
  <1> QED BY <1>2, <1>4, <1>5, <1>6

LEMMA ReceiveInv == ASSUME IInv, Receive PROVE IInv'
  <1>1. /\ queue' \in Seq(Entry) /\ Len(queue') <= QueueSize
        /\ batch' \in Seq(Entry) /\ Len(batch') = Len(batch) + 1 /\ Len(batch) \in Nat
        /\ handed \o batch' \o queue' = handed \o batch \o queue
    BY TakeOne DEF Receive, Take
  <1>2. /\ pc = "select" /\ pc' = IF Len(batch') >= BatchSize THEN "flush" ELSE "select"
        /\ UNCHANGED <<calls, bad, logging, stop, accepted, promised, table, handed>>
    BY DEF Receive
  <1>3. Len(batch) < BatchSize
    BY <1>2 DEF IInv, SelectHasRoom
  <1>4. TypeOK' /\ SelectHasRoom'
    BY <1>1, <1>2, <1>3, WriterAssumption DEF IInv, TypeOK, SelectHasRoom
  <1>5. NothingAstray'
    BY <1>1, <1>2 DEF IInv, NothingAstray
  <1>6. DrainsAfterStop' /\ KeepsPromise'
    BY <1>2 DEF DrainsAfterStop, KeepsPromise
  <1> QED BY <1>4, <1>5, <1>6 DEF IInv

LEMMA DrainInv == ASSUME IInv, Drain PROVE IInv'
  <1>1. CASE DrainOne
    <2>1. /\ queue' \in Seq(Entry) /\ Len(queue') <= QueueSize
          /\ batch' \in Seq(Entry)
          /\ handed \o batch' \o queue' = handed \o batch \o queue
      BY <1>1, TakeOne DEF DrainOne, Take
    <2>2. /\ pc = "drain"
          /\ UNCHANGED <<calls, bad, logging, stop, accepted, promised, pc, table, handed>>
      BY <1>1 DEF DrainOne
    <2> QED
      BY <2>1, <2>2 DEF IInv, TypeOK, SelectHasRoom, NothingAstray, DrainsAfterStop, KeepsPromise
  <1>2. CASE DrainEnd
    <2>1. /\ pc = "drain" /\ queue = <<>>
          /\ pc' = IF batch = <<>> THEN "done" ELSE "last flush"
          /\ UNCHANGED <<calls, bad, logging, queue, stop, accepted, promised, batch,
                         table, handed>>
      BY <1>2 DEF DrainEnd
    <2>2. accepted = handed \o batch
      <3>1. handed \o batch \in Seq(Entry)
        BY ConcatProperties DEF IInv, TypeOK
      <3>2. (handed \o batch) \o <<>> = handed \o batch
        BY <3>1, ConcatEmptySeq
      <3> QED BY <2>1, <3>2 DEF IInv, NothingAstray
    <2>3. /\ Len(accepted) = Len(handed) + Len(batch)
          /\ Len(handed) \in Nat /\ Len(batch) \in Nat
      BY <2>2, ConcatProperties, LenProperties DEF IInv, TypeOK
    <2>4. batch = <<>> => Len(batch) = 0
      BY EmptySeq
    <2>5. promised \in 0..Len(accepted)
      BY DEF IInv, TypeOK
    <2>6. TypeOK' /\ SelectHasRoom' /\ NothingAstray'
      BY <2>1 DEF IInv, TypeOK, SelectHasRoom, NothingAstray
    <2>7. DrainsAfterStop'
      BY <2>1 DEF IInv, DrainsAfterStop
    <2>8. KeepsPromise'
      <3>1. promised <= Len(handed) + Len(batch)
        BY <2>3, <2>5
      <3>2. batch = <<>> => promised <= Len(handed)
        BY <2>3, <2>4, <3>1, <2>5
      <3> QED BY <2>1, <3>1, <3>2 DEF KeepsPromise
    <2> QED BY <2>6, <2>7, <2>8 DEF IInv
  <1> QED BY <1>1, <1>2 DEF Drain

\* A flush moves the batch among the handed entries, whatever becomes of it.
LEMMA FlushInv == ASSUME IInv, Flush PROVE IInv'
  <1>1. /\ InFlush /\ FlushEnds
        /\ handed' = handed \o batch /\ batch' = <<>>
        /\ table' \in {table, table \o batch}
        /\ UNCHANGED <<calls, bad, logging, queue, stop, accepted, promised>>
    BY DEF Flush, FlushStores, FlushFails
  <1>2. /\ handed' \in Seq(Entry) /\ Len(handed') = Len(handed) + Len(batch)
        /\ batch' \in Seq(Entry) /\ Len(batch') = 0
        /\ table' \in Seq(Entry)
    <2>1. handed \in Seq(Entry) /\ batch \in Seq(Entry) /\ table \in Seq(Entry)
      BY DEF IInv, TypeOK
    <2>2. /\ handed \o batch \in Seq(Entry)
          /\ Len(handed \o batch) = Len(handed) + Len(batch)
          /\ table \o batch \in Seq(Entry)
      BY <2>1, ConcatProperties
    <2>3. <<>> \in Seq(Entry) /\ Len(<<>>) = 0
      BY EmptySeq
    <2> QED BY <1>1, <2>1, <2>2, <2>3
  <1>3. handed' \o batch' \o queue' = handed \o batch \o queue
    BY <1>1, <1>2, ConcatEmptySeq DEF IInv, TypeOK
  <1>4. /\ pc = "flush" => pc' = "select"
        /\ pc # "flush" => pc = "last flush" /\ pc' = "done"
    BY <1>1 DEF InFlush, FlushEnds
  <1>5. Len(batch') < BatchSize /\ Len(batch') <= BatchSize
    BY <1>2, WriterAssumption
  <1>6. TypeOK' /\ SelectHasRoom'
    BY <1>1, <1>2, <1>4, <1>5 DEF IInv, TypeOK, SelectHasRoom
  <1>7. NothingAstray'
    BY <1>1, <1>3 DEF IInv, NothingAstray
  <1>8. DrainsAfterStop'
    BY <1>1, <1>4 DEF IInv, DrainsAfterStop
  <1>9. KeepsPromise'
    BY <1>1, <1>2, <1>4 DEF IInv, KeepsPromise
  <1> QED BY <1>6, <1>7, <1>8, <1>9 DEF IInv

\* Stop promises no more than there is, before the loop has seen it.
LEMMA StopInv == ASSUME IInv, Stop PROVE IInv'
  <1>1. Len(accepted) \in 0..Len(accepted)
    <2>1. accepted \in Seq(Entry)
      BY DEF IInv, TypeOK
    <2>2. Len(accepted) \in Nat
      BY <2>1, LenProperties
    <2> QED BY <2>2
  <1>2. pc \in {"select", "flush"}
    BY DEF IInv, TypeOK, DrainsAfterStop, Stop
  <1>3. TypeOK' /\ SelectHasRoom' /\ NothingAstray'
    BY <1>1 DEF IInv, TypeOK, SelectHasRoom, NothingAstray, Stop, loop
  <1>4. DrainsAfterStop' /\ KeepsPromise'
    BY <1>2 DEF DrainsAfterStop, KeepsPromise, Stop, loop
  <1> QED BY <1>3, <1>4 DEF IInv

LEMMA NextInv == IInv /\ [Next]_vars => IInv'
  <1> SUFFICES ASSUME IInv, [Next]_vars PROVE IInv'
    OBVIOUS
  <1>1. CASE \E h \in Handler : Log(h)
    BY <1>1, AnnounceInv, SendInv DEF Log
  <1>2. CASE Receive
    BY <1>2, ReceiveInv
  <1>3. CASE Timer
    BY <1>3 DEF Timer, IInv, TypeOK, SelectHasRoom, NothingAstray, DrainsAfterStop, KeepsPromise
  <1>4. CASE StopSeen
    BY <1>4 DEF StopSeen, IInv, TypeOK, SelectHasRoom, NothingAstray, DrainsAfterStop, KeepsPromise
  <1>5. CASE Drain
    BY <1>5, DrainInv
  <1>6. CASE Flush
    BY <1>6, FlushInv
  <1>7. CASE Stop
    BY <1>7, StopInv
  <1>8. CASE UNCHANGED vars
    BY <1>8 DEF vars, loop, IInv, TypeOK, SelectHasRoom, NothingAstray, DrainsAfterStop, KeepsPromise
  <1> QED BY <1>1, <1>2, <1>3, <1>4, <1>5, <1>6, <1>7, <1>8 DEF Next

LEMMA Invariance == Spec => []IInv
  <1> QED BY InitInv, NextInv, PTL DEF Spec

-----------------------------------------------------------------------------
\* The variables have their types: the channel never exceeds its capacity, and
\* the loop never a batch while it has not been told to stop (writer.go:39-51,
\* 119-123).
THEOREM TypeCorrect == Spec => []TypeOK
  <1>1. IInv => TypeOK
    BY DEF IInv
  <1> QED BY <1>1, Invariance, PTL

\* No accepted entry is lost between channel, batch and INSERT, doubled or
\* overtaken, whatever fails and whenever Stop comes (Writer.Log, Writer.run).
THEOREM NothingGoesAstray == Spec => []NothingAstray
  <1>1. IInv => NothingAstray
    BY DEF IInv
  <1> QED BY <1>1, Invariance, PTL

\* When the loop has ended, everything the channel took before Stop has been
\* handed to the database, also if handlers outlive the shutdown
\* (writer.go:94-107).
THEOREM StopHasDrained == Spec => []StopDrains
  <1>1. IInv => StopDrains
    BY DEF IInv, KeepsPromise, StopDrains
  <1> QED BY <1>1, Invariance, PTL

-----------------------------------------------------------------------------
(* Handlers, channel and loop implement the lossy log. *)

\* Taking an entry from the channel changes nothing the log can see.
LEMMA TakeIsInvisible ==
    ASSUME IInv, Receive \/ DrainOne
    PROVE  UNCHANGED <<batch \o queue, table>>
  <1>1. queue # <<>> /\ Take /\ table' = table
    BY DEF Receive, DrainOne, Take
  <1>2. batch' \o queue' = batch \o queue
    BY <1>1, TakeOne
  <1> QED BY <1>1, <1>2

\* A send is an acceptance, or dropped before it is one.
LEMMA SendAccepts ==
    ASSUME IInv, NEW h \in Handler, Send(h)
    PROVE  Log2!Next \/ UNCHANGED <<batch \o queue, table>>
  <1>1. PICK e \in logging[h] :
          IF Len(queue) < QueueSize
          THEN queue' = Append(queue, e) /\ accepted' = Append(accepted, e)
          ELSE UNCHANGED <<queue, accepted>>
    BY DEF Send
  <1>2. e \in Entry
    BY DEF IInv, TypeOK
  <1>3. UNCHANGED <<batch, table>>
    BY DEF Send, loop
  <1>4. CASE Len(queue) < QueueSize
    <2>1. batch \o Append(queue, e) = Append(batch \o queue, e)
      <3>1. batch \in Seq(Entry) /\ queue \in Seq(Entry)
        BY DEF IInv, TypeOK
      <3> QED BY <1>2, <3>1, AddToLast
    <2>2. Log2!Accept(e)
      BY <1>1, <1>3, <1>4, <2>1 DEF Log2!Accept
    <2> QED BY <1>2, <2>2 DEF Log2!Next
  <1>5. CASE ~(Len(queue) < QueueSize)
    BY <1>1, <1>3, <1>5
  <1> QED BY <1>4, <1>5

\* A flush writes or loses the prefix that is the batch.
LEMMA FlushIsPrefix ==
    ASSUME IInv, Flush
    PROVE  Log2!Next \/ UNCHANGED <<batch \o queue, table>>
  <1>1. queue \in Seq(Entry) /\ batch \in Seq(Entry) /\ table \in Seq(Entry)
    BY DEF IInv, TypeOK
  <1>2. queue' = queue /\ batch' = <<>> /\ table' \in {table, table \o batch}
    BY DEF Flush, FlushStores, FlushFails
  <1>3. batch' \o queue' = queue
    BY <1>1, <1>2, ConcatEmptySeq
  <1>4. CASE batch = <<>>
    <2>1. batch \o queue = queue /\ table \o batch = table
      BY <1>1, <1>4, ConcatEmptySeq
    <2> QED BY <1>2, <1>3, <2>1
  <1>5. CASE batch # <<>>
    <2> DEFINE n == Len(batch)
    <2>1. n \in Nat \ {0} /\ Len(queue) \in Nat /\ Len(batch \o queue) = n + Len(queue)
      BY <1>1, <1>5, EmptySeq, LenProperties, ConcatProperties
    <2>2. n \in 1..Len(batch \o queue)
      BY <2>1
    <2>3. Log2!First(n) = batch /\ Log2!Rest(n) = queue
      BY <1>1, CutConcat DEF Log2!First, Log2!Rest
    <2> HIDE DEF n
    <2>4. Log2!Write(n) \/ Log2!Lose(n)
      BY <1>2, <1>3, <2>3 DEF Log2!Write, Log2!Lose
    <2> QED BY <2>2, <2>4 DEF Log2!Next
  <1> QED BY <1>4, <1>5

\* The table is what a lossy log makes of it: accepted entries reach it in order,
\* in whole batches and at most once, or are lost in whole batches; an entry
\* that was not accepted never shows up (Writer.run, Writer.insertBatch).
THEOREM Implementation == Spec => ImplementsLossyLog
  <1>1. Init => Log2!Init
    <2> SUFFICES ASSUME Init PROVE Log2!Init
      OBVIOUS
    <2>1. <<>> \in Seq(Entry)
      BY EmptySeq
    <2>2. <<>> \o <<>> = <<>>
      BY <2>1, ConcatEmptySeq
    <2> QED BY <2>2 DEF Init, Log2!Init
  <1>2. IInv /\ [Next]_vars => [Log2!Next]_<<batch \o queue, table>>
    <2> SUFFICES ASSUME IInv, [Next]_vars
                 PROVE  Log2!Next \/ UNCHANGED <<batch \o queue, table>>
      OBVIOUS
    <2>1. CASE \E h \in Handler : Announce(h)
      BY <2>1 DEF Announce, loop
    <2>2. CASE \E h \in Handler : Send(h)
      BY <2>2, SendAccepts
    <2>3. CASE Receive \/ DrainOne
      BY <2>3, TakeIsInvisible
    <2>4. CASE Timer \/ StopSeen \/ DrainEnd
      BY <2>4 DEF Timer, StopSeen, DrainEnd
    <2>5. CASE Flush
      BY <2>5, FlushIsPrefix
    <2>6. CASE Stop \/ UNCHANGED vars
      BY <2>6 DEF Stop, vars, loop
    <2> QED BY <2>1, <2>2, <2>3, <2>4, <2>5, <2>6 DEF Next, Log, Drain
  <1> QED BY <1>1, <1>2, Invariance, PTL DEF Spec, ImplementsLossyLog, Log2!Spec
=============================================================================
