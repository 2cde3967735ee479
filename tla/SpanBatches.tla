---------------------------- MODULE SpanBatches ----------------------------
(***************************************************************************)
(* BatchSpanProcessor (src/src/observability/processor.rs): producers that *)
(* put spans on a bounded channel, the worker that exports them in batches *)
(* at each tick, force_flush, shutdown, and the drop of the last handle.   *)
(* A step ends at an await or between two atomics.  A received span and    *)
(* the decrement of queue_size are one step: a reader between the two      *)
(* would see a larger queue and look again.                                *)
(***************************************************************************)
EXTENDS Integers, Sequences, FiniteSets

CONSTANTS
  Producers,      \* tasks that end spans, one after another
  SpansOf,        \* the spans each of them ends, in order
  Capacities,     \* the values of max_queue_size
  MaxBatch,       \* max_export_batch_size
  Forcers,        \* calls of force_flush
  Nobody

VARIABLES
  capacity,       \* max_queue_size of the processor, or 0 before it is built
  channel,        \* the spans in the mpsc channel
  queueSize,      \* queue_size; below zero stands for its wrap-around, which is no zero either
  dropped,        \* spans_dropped
  ended,          \* of each producer: how many spans it has handled, and whether it is between try_send and fetch_add
  receiver,       \* who holds the lock of rx
  flush,          \* [at, batch, sees] of the worker, shutdown and each force_flush
  signal,         \* shutdown_tx: "held", "sent" or "taken" by a worker; "gone" without a receiver
  signalled,      \* shutdown_signalled
  exported,       \* the spans given to the exporter
  lost,           \* those a timeout dropped with the flush that held them
  unhandled,      \* every handle is dropped
  promised        \* the spans accepted before shutdown() or force_flush was called

vars == <<capacity, channel, queueSize, dropped, ended, receiver, flush, signal, signalled, exported,
          lost, unhandled, promised>>

Drainers == {"worker", "shutdown"} \cup Forcers
ItemsOf(s) == {s[i] : i \in DOMAIN s}

Init ==
  /\ capacity = 0 /\ channel = <<>> /\ queueSize = 0 /\ dropped = {}
  /\ ended = [p \in Producers |-> [next |-> 1, sending |-> FALSE]]
  /\ receiver = Nobody
  /\ flush = [f \in Drainers |-> [at |-> "idle", batch |-> <<>>, sees |-> FALSE]]
  /\ signal = "held" /\ signalled = FALSE
  /\ exported = {} /\ lost = {} /\ unhandled = FALSE
  /\ promised = [f \in Drainers |-> {}]

Unsent == {p \in Producers : ended[p].sending}
Goto(f, place) == flush' = [flush EXCEPT ![f].at = place]

(* new(): outside a runtime there is no worker, and no receiver of the     *)
(* signal.                                                                 *)
Build(size, withWorker) ==
  /\ capacity = 0 /\ capacity' = size
  /\ Goto("worker", IF withWorker THEN "waiting" ELSE "exited")
  /\ signal' = IF withWorker THEN "held" ELSE "gone"
  /\ UNCHANGED <<channel, queueSize, dropped, ended, receiver, signalled, exported, lost, unhandled, promised>>

-----------------------------------------------------------------------------
(* on_span_end: try_send, and only then the count.                         *)
OnSpanEnd(p) ==
  LET i == ended[p].next IN
  /\ capacity > 0 /\ ~unhandled /\ i <= Len(SpansOf[p]) /\ ~ended[p].sending
  /\ IF Len(channel) < capacity
     THEN /\ channel' = Append(channel, SpansOf[p][i])
          /\ ended' = [ended EXCEPT ![p].sending = TRUE] /\ UNCHANGED dropped
     ELSE /\ dropped' = dropped \cup {SpansOf[p][i]}
          /\ ended' = [ended EXCEPT ![p].next = i + 1] /\ UNCHANGED channel
  /\ UNCHANGED <<capacity, queueSize, receiver, flush, signal, signalled, exported, lost, unhandled, promised>>

Count(p) ==
  /\ ended[p].sending /\ ended' = [ended EXCEPT ![p] = [next |-> @.next + 1, sending |-> FALSE]]
  /\ queueSize' = queueSize + 1
  /\ UNCHANGED <<capacity, channel, dropped, receiver, flush, signal, signalled, exported, lost, unhandled, promised>>

-----------------------------------------------------------------------------
(* flush_batch, for whoever calls it.                                      *)
LockReceiver(f) ==
  /\ flush[f].at = "lock" /\ receiver = Nobody /\ receiver' = f /\ Goto(f, "receive")
  /\ UNCHANGED <<capacity, channel, queueSize, dropped, ended, signal, signalled, exported, lost, unhandled, promised>>

Receive(f) ==
  /\ flush[f].at = "receive" /\ Len(flush[f].batch) < MaxBatch /\ channel # <<>>
  /\ channel' = Tail(channel) /\ queueSize' = queueSize - 1
  /\ flush' = [flush EXCEPT ![f].batch = Append(@, Head(channel))]
  /\ UNCHANGED <<capacity, dropped, ended, receiver, signal, signalled, exported, lost, unhandled, promised>>

(* try_recv says Disconnected only if the batch had room.                  *)
StopReceiving(f) ==
  LET full == Len(flush[f].batch) = MaxBatch IN
  /\ flush[f].at = "receive" /\ (full \/ channel = <<>>) /\ receiver' = Nobody
  /\ flush' = [flush EXCEPT ![f].at = "export", ![f].sees = ~full /\ unhandled]
  /\ UNCHANGED <<capacity, channel, queueSize, dropped, ended, signal, signalled, exported, lost, unhandled, promised>>

ExportSpan(f) ==
  /\ flush[f].at = "export" /\ flush[f].batch # <<>>
  /\ exported' = exported \cup {Head(flush[f].batch)}
  /\ flush' = [flush EXCEPT ![f].batch = Tail(@)]
  /\ UNCHANGED <<capacity, channel, queueSize, dropped, ended, receiver, signal, signalled, lost, unhandled, promised>>

Flushed(f) == flush[f].at = "export" /\ flush[f].batch = <<>>

-----------------------------------------------------------------------------
(* The worker: a flush at each tick until the channel is closed and empty, *)
(* one flush when shutdown is signalled, or the sender of the signal gone. *)
Tick ==
  /\ capacity > 0 /\ flush["worker"].at = "waiting" /\ Goto("worker", "lock")
  /\ UNCHANGED <<capacity, channel, queueSize, dropped, ended, receiver, signal, signalled, exported, lost, unhandled, promised>>

ShutdownSignal ==
  /\ flush["worker"].at = "waiting" /\ signal = "sent" /\ signal' = "gone" /\ Goto("worker", "lock")
  /\ UNCHANGED <<capacity, channel, queueSize, dropped, ended, receiver, signalled, exported, lost, unhandled, promised>>

WorkerNext ==
  /\ Flushed("worker")
  /\ IF signal = "gone" \/ (flush["worker"].sees /\ queueSize = 0)
     THEN Goto("worker", "exited") /\ signal' = "gone"
     ELSE Goto("worker", "waiting") /\ UNCHANGED signal
  /\ UNCHANGED <<capacity, channel, queueSize, dropped, ended, receiver, signalled, exported, lost, unhandled, promised>>

-----------------------------------------------------------------------------
(* The spans whose on_span_end has returned and that wait to be received.  *)
Accepted == {s \in ItemsOf(channel) : \A p \in Producers : ended[p].sending => s # SpansOf[p][ended[p].next]}

Shutdown ==
  /\ capacity > 0 /\ ~unhandled /\ flush["shutdown"].at = "idle" /\ signalled' = TRUE /\ Goto("shutdown", "signal")
  /\ promised' = [promised EXCEPT !["shutdown"] = Accepted]
  /\ UNCHANGED <<capacity, channel, queueSize, dropped, ended, receiver, signal, exported, lost, unhandled>>

SendSignal ==
  /\ flush["shutdown"].at = "signal" /\ Goto("shutdown", "lock")
  /\ signal' = IF signal = "held" THEN "sent" ELSE signal
  /\ UNCHANGED <<capacity, channel, queueSize, dropped, ended, receiver, signalled, exported, lost, unhandled, promised>>

(* One flush, then the exporter's shutdown; the worker is not awaited.     *)
ShutdownExporter ==
  /\ Flushed("shutdown") /\ Goto("shutdown", "returned")
  /\ UNCHANGED <<capacity, channel, queueSize, dropped, ended, receiver, signal, signalled, exported, lost, unhandled, promised>>

ForceFlush(f) ==
  /\ capacity > 0 /\ ~unhandled /\ flush[f].at = "idle" /\ Goto(f, "lock")
  /\ promised' = [promised EXCEPT ![f] = Accepted]
  /\ UNCHANGED <<capacity, channel, queueSize, dropped, ended, receiver, signal, signalled, exported, lost, unhandled>>

(* queue_size read after each flush.                                       *)
FlushAgain(f) ==
  /\ Flushed(f) /\ Goto(f, IF queueSize = 0 THEN "empty" ELSE "lock")
  /\ UNCHANGED <<capacity, channel, queueSize, dropped, ended, receiver, signal, signalled, exported, lost, unhandled, promised>>

(* The value returned is another read; `sees` tells the property below     *)
(* whether every producer had counted its span by then.                    *)
ReturnFlush(f) ==
  /\ flush[f].at = "empty"
  /\ flush' = [flush EXCEPT ![f].at = IF queueSize = 0 THEN "true" ELSE "false", ![f].sees = Unsent = {}]
  /\ UNCHANGED <<capacity, channel, queueSize, dropped, ended, receiver, signal, signalled, exported, lost, unhandled, promised>>

(* The timeout drops the flush where it awaits: the lock, or an export     *)
(* under way, with the rest of its batch.                                  *)
TimeOut(f) ==
  /\ f # "worker" /\ \/ flush[f].at = "lock"
                     \/ flush[f].at = "export" /\ flush[f].batch # <<>>
  /\ lost' = lost \cup ItemsOf(flush[f].batch)
  /\ flush' = [flush EXCEPT ![f].at = IF f = "shutdown" THEN "export" ELSE "empty", ![f].batch = <<>>]
  /\ UNCHANGED <<capacity, channel, queueSize, dropped, ended, receiver, signal, signalled, exported, unhandled, promised>>

(* LastHandle::drop: no producer and no caller is left.                    *)
DropLastHandle ==
  /\ capacity > 0 /\ ~unhandled /\ unhandled' = TRUE /\ signalled' = TRUE
  /\ \A p \in Producers : ~ended[p].sending
  /\ \A f \in Drainers \ {"worker"} : flush[f].at \in {"idle", "returned", "true", "false"}
  /\ signal' = IF ~signalled /\ signal = "held" THEN "sent" ELSE signal
  /\ UNCHANGED <<capacity, channel, queueSize, dropped, ended, receiver, flush, exported, lost, promised>>

Next ==
  \/ \E size \in Capacities, withWorker \in BOOLEAN : Build(size, withWorker)
  \/ \E p \in Producers : OnSpanEnd(p) \/ Count(p)
  \/ \E f \in Drainers : LockReceiver(f) \/ Receive(f) \/ StopReceiving(f) \/ ExportSpan(f) \/ TimeOut(f)
  \/ Tick \/ ShutdownSignal \/ WorkerNext
  \/ Shutdown \/ SendSignal \/ ShutdownExporter
  \/ \E f \in Forcers : ForceFlush(f) \/ FlushAgain(f) \/ ReturnFlush(f)
  \/ DropLastHandle

Spec == Init /\ [][Next]_vars

-----------------------------------------------------------------------------
Held == UNION {ItemsOf(flush[f].batch) : f \in Drainers}

(* Every span a producer ended is in exactly one place: dropped because    *)
(* the channel was full, in the channel, in one flush's batch, exported,   *)
(* or lost to a timeout; and queue_size tells the length of the channel,   *)
(* less the producers that have yet to count theirs.                       *)
SpansAccounted ==
  /\ \A p \in Producers : \A i \in DOMAIN SpansOf[p] :
       LET s == SpansOf[p][i] IN
       Cardinality({place \in {dropped, ItemsOf(channel), exported, lost} : s \in place})
         + Cardinality({f \in Drainers : s \in ItemsOf(flush[f].batch)})
         = IF i < ended[p].next \/ (i = ended[p].next /\ ended[p].sending) THEN 1 ELSE 0
  /\ queueSize = Len(channel) - Cardinality(Unsent)

(* When force_flush says true and no producer was about to count its span, *)
(* what was accepted before the call is out of the channel.                *)
FlushIsTrue == \A f \in Forcers :
  flush[f].at = "true" /\ flush[f].sees => promised[f] \cap ItemsOf(channel) = {}

(* "Returns `true` once the queue is empty".                               *)
TrueMeansFlushed == \A f \in Forcers :
  flush[f].at = "true" => promised[f] \cap ItemsOf(channel) = {}

(* "Drain any remaining spans the worker hasn't consumed": when shutdown   *)
(* has returned and no timeout struck, what was accepted before it is out  *)
(* of the channel.                                                         *)
ShutdownDrains ==
  flush["shutdown"].at = "returned" /\ flush["worker"].at = "exited" /\ lost = {} =>
    promised["shutdown"] \cap ItemsOf(channel) = {}
=============================================================================
