------------------------- MODULE DocumentProducer -------------------------
(***************************************************************************)
(* cli/ingest.py: DocumentProducer.ingest_document, which cuts a document  *)
(* into chunks and sends them to the topic.                                *)
(*                                                                         *)
(* produce() only puts a chunk into the buffer of the client library; it   *)
(* is delivered later, to a partition of the library's choice, in any      *)
(* order.  An attempt whose answer is lost is repeated, so that a chunk    *)
(* may be in the topic twice.  Errors are logged, and nothing else.        *)
(***************************************************************************)
EXTENDS Integers, Sequences, Functions

CONSTANTS
    Contents,      \* the contents of chunks, each with a hash of its own
    Document,      \* the chunks of the document
    Poison,        \* a message that is not a JSON object
    Partitions,    \* the partitions of document_chunks
    EarlierLogs,   \* what others may have sent there before
    MaxFaults      \* bound on the faults that fairness must not depend on

ASSUME ProducerAssumption ==
    /\ Document \in Seq(Contents)
    /\ Poison \notin Contents
    /\ EarlierLogs \subseteq [Partitions -> Seq(Contents \cup {Poison})]
    /\ MaxFaults \in Nat

VARIABLES
    log,        \* partition -> its messages
    next,       \* the chunk that comes next, two more than the last when
                \* ingest_document has returned, 0 when its process has died
    buffer,     \* the chunks that wait to be delivered
    reported,   \* the chunks an error was logged for
    faults      \* how many of the bounded faults have happened

producerVars == <<log, next, buffer, reported>>

Chunks == 1..Len(Document)

---------------------------------------------------------------------------
ProducerInit ==
    /\ log \in EarlierLogs
    /\ next = 1
    /\ buffer = {}
    /\ reported = {}
    /\ faults = 0

Fault == faults < MaxFaults /\ faults' = faults + 1

\* produce() takes the next chunk.
Produce ==
    /\ next \in Chunks
    /\ buffer' = buffer \cup {next}
    /\ next' = next + 1
    /\ UNCHANGED <<log, reported, faults>>

\* It raises: the queue of the library is full, or the client is broken.
ProduceFails ==
    /\ next \in Chunks
    /\ Fault
    /\ reported' = reported \cup {next}
    /\ next' = next + 1
    /\ UNCHANGED <<log, buffer>>

Appended(i, p) == log' = [log EXCEPT ![p] = Append(@, Document[i])]

\* Chunk i is in the topic, and delivery_report learns of it.
Deliver(i, p) ==
    /\ i \in buffer
    /\ Appended(i, p)
    /\ buffer' = buffer \ {i}
    /\ UNCHANGED <<next, reported, faults>>

\* It is in the topic, but the library repeats the attempt.
DeliverAgain(i, p) ==
    /\ i \in buffer
    /\ Fault
    /\ Appended(i, p)
    /\ UNCHANGED <<next, buffer, reported>>

\* The library gives up: delivery_report logs the error.
DeliveryFails(i) ==
    /\ i \in buffer
    /\ Fault
    /\ buffer' = buffer \ {i}
    /\ reported' = reported \cup {i}
    /\ UNCHANGED <<log, next>>

\* Mutant of Flush: ingest_document returns without flush().
ReturnUnflushed ==
    /\ next = Len(Document) + 1
    /\ next' = next + 1
    /\ buffer' = {}
    /\ UNCHANGED <<log, reported, faults>>

\* flush() waits for the buffer to be empty.
Flush ==
    /\ next = Len(Document) + 1
    /\ buffer = {}
    /\ next' = next + 1
    /\ UNCHANGED <<log, buffer, reported, faults>>

\* The process dies, and its buffer with it.
ProducerDies ==
    /\ next \in 1..(Len(Document) + 1)
    /\ Fault
    /\ next' = 0
    /\ buffer' = {}
    /\ UNCHANGED <<log, reported>>

Returned == next = Len(Document) + 2

---------------------------------------------------------------------------
ProducerNext ==
    \/ Produce \/ ProduceFails
    \/ \E i \in Chunks, p \in Partitions : Deliver(i, p) \/ DeliverAgain(i, p)
    \/ \E i \in Chunks : DeliveryFails(i)
    \/ Flush
    \/ ProducerDies

\* What happens without a fault
ProducerSteps ==
    \/ Produce
    \/ \E i \in Chunks, p \in Partitions : Deliver(i, p)
    \/ Flush

---------------------------------------------------------------------------
\* When ingest_document has returned, every chunk is in the topic or was
\* reported, although its delivery goes on behind the loop's back and its
\* errors come through a callback (ingest.py:17-22, 37-46).
SentOrReported ==
    Returned =>
       \A i \in Chunks :
          \/ i \in reported
          \/ \E p \in Partitions : Document[i] \in Range(log[p])
===========================================================================
