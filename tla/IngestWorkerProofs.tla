------------------------ MODULE IngestWorkerProofs ------------------------
(***************************************************************************)
(* The safety properties of the producer and of the workers, for any       *)
(* document, any earlier contents of the topic, any number of workers and  *)
(* partitions, and any number of faults.                                   *)
(***************************************************************************)
EXTENDS IngestWorker, TLAPS

---------------------------------------------------------------------------
(* The producer.                                                           *)

ProducerTypeOK ==
    /\ log \in [Partitions -> Seq(Contents \cup {Poison})]
    /\ next \in 0..(Len(Document) + 2)
    /\ buffer \subseteq Chunks
    /\ reported \subseteq Chunks
    /\ faults \in 0..MaxFaults

InTopic(x) == \E p \in Partitions : x \in Range(log[p])

\* As long as the producer lives, each chunk it is past waits in the buffer,
\* is in the topic, or was reported; when it has returned, none waits.
ChunksAccounted ==
    /\ next # 0 => \A i \in Chunks : i < next =>
          i \in buffer \/ i \in reported \/ InTopic(Document[i])
    /\ Returned => buffer = {}

\* The inductive invariant of the producer.
ProducerInv == ProducerTypeOK /\ ChunksAccounted

\* The topic is append-only.
LogsGrow ==
    \A p \in Partitions :
        /\ Len(log[p]) <= Len(log'[p])
        /\ \A i \in 1..Len(log[p]) : log'[p][i] = log[p][i]

LEMMA DocumentFacts ==
    /\ Len(Document) \in Nat
    /\ \A i \in Chunks : Document[i] \in Contents
  BY ProducerAssumption DEF Chunks

\* An appended chunk is in the topic, and what was there stays.
LEMMA AppendedChunk ==
    ASSUME log \in [Partitions -> Seq(Contents \cup {Poison})],
           NEW i \in Chunks, NEW p \in Partitions, Appended(i, p)
    PROVE  /\ log' \in [Partitions -> Seq(Contents \cup {Poison})]
           /\ LogsGrow
           /\ InTopic(Document[i])'
           /\ \A x : InTopic(x) => InTopic(x)'
<1>1. Document[i] \in Contents \cup {Poison}
  BY DocumentFacts
<1>2. log[p] \in Seq(Contents \cup {Poison})
  OBVIOUS
<1> DEFINE longer == Append(log[p], Document[i])
<1>3. /\ longer \in Seq(Contents \cup {Poison})
      /\ Len(longer) = Len(log[p]) + 1
      /\ \A k \in 1..Len(log[p]) : longer[k] = log[p][k]
      /\ longer[Len(log[p]) + 1] = Document[i]
  BY <1>1, <1>2
<1>4. log' = [log EXCEPT ![p] = longer]
  BY DEF Appended
<1> HIDE DEF longer
<1>5. log' \in [Partitions -> Seq(Contents \cup {Poison})]
  BY <1>3, <1>4
<1>6. LogsGrow
  <2> SUFFICES ASSUME NEW q \in Partitions
               PROVE  /\ Len(log[q]) <= Len(log'[q])
                      /\ \A k \in 1..Len(log[q]) : log'[q][k] = log[q][k]
    BY DEF LogsGrow
  <2>1. Len(log[q]) \in Nat
    OBVIOUS
  <2> QED
    BY <1>3, <1>4, <2>1
<1>7. ASSUME NEW q \in Partitions, NEW k \in 1..Len(log'[q])
      PROVE  log'[q][k] \in Range(log'[q])
  BY <1>5, <1>7 DEF Range
<1>8. InTopic(Document[i])'
  <2>1. /\ log'[p] = longer /\ Len(log[p]) + 1 \in 1..Len(longer)
    BY <1>2, <1>3, <1>4
  <2> QED
    BY <1>3, <1>7, <2>1 DEF InTopic
<1>9. ASSUME NEW x, InTopic(x)
      PROVE  InTopic(x)'
  <2>1. PICK q \in Partitions : x \in Range(log[q])
    BY <1>9 DEF InTopic
  <2>2. PICK k \in 1..Len(log[q]) : x = log[q][k]
    BY <2>1 DEF Range
  <2>3. k \in 1..Len(log'[q]) /\ log'[q][k] = x
    BY <1>5, <1>6, <2>2 DEF LogsGrow
  <2> QED
    BY <1>7, <2>3 DEF InTopic
<1> QED
  BY <1>5, <1>6, <1>8, <1>9

\* A step of the producer preserves its invariant and only appends.
LEMMA ProducerStep ==
    ASSUME ProducerInv, ProducerNext
    PROVE  ProducerInv' /\ LogsGrow
<1> USE DocumentFacts, ProducerAssumption DEF ProducerInv
<1>0. /\ log \in [Partitions -> Seq(Contents \cup {Poison})]
      /\ next \in 0..(Len(Document) + 2)
      /\ buffer \subseteq Chunks /\ reported \subseteq Chunks
      /\ faults \in 0..MaxFaults
      /\ Chunks = 1..Len(Document)
  BY DEF ProducerTypeOK, Chunks
<1>1. ASSUME log' = log
      PROVE  LogsGrow /\ \A x : InTopic(x)' = InTopic(x)
  BY <1>0, <1>1 DEF LogsGrow, InTopic
<1>2. CASE Produce
  <2>1. ProducerTypeOK'
    BY <1>0, <1>2 DEF Produce, ProducerTypeOK
  <2>2. ChunksAccounted'
    BY <1>0, <1>1, <1>2 DEF Produce, ChunksAccounted, Returned
  <2> QED
    BY <1>1, <1>2, <2>1, <2>2 DEF Produce
<1>3. CASE ProduceFails
  <2>1. ProducerTypeOK'
    BY <1>0, <1>3 DEF ProduceFails, Fault, ProducerTypeOK
  <2>2. ChunksAccounted'
    BY <1>0, <1>1, <1>3 DEF ProduceFails, ChunksAccounted, Returned
  <2> QED
    BY <1>1, <1>3, <2>1, <2>2 DEF ProduceFails
<1>4. ASSUME NEW i \in Chunks, NEW p \in Partitions, Deliver(i, p)
      PROVE  ProducerInv' /\ LogsGrow
  <2>1. /\ LogsGrow /\ InTopic(Document[i])'
        /\ log' \in [Partitions -> Seq(Contents \cup {Poison})]
        /\ \A x : InTopic(x) => InTopic(x)'
    BY <1>0, <1>4, AppendedChunk DEF Deliver
  <2>2. ProducerTypeOK'
    BY <1>0, <1>4, <2>1 DEF Deliver, ProducerTypeOK
  <2>3. ChunksAccounted'
    BY <1>0, <1>4, <2>1 DEF Deliver, ChunksAccounted, Returned
  <2> QED
    BY <2>1, <2>2, <2>3
<1>5. ASSUME NEW i \in Chunks, NEW p \in Partitions, DeliverAgain(i, p)
      PROVE  ProducerInv' /\ LogsGrow
  <2>1. /\ LogsGrow
        /\ log' \in [Partitions -> Seq(Contents \cup {Poison})]
        /\ \A x : InTopic(x) => InTopic(x)'
    BY <1>0, <1>5, AppendedChunk DEF DeliverAgain
  <2>2. ProducerTypeOK'
    BY <1>0, <1>5, <2>1 DEF DeliverAgain, Fault, ProducerTypeOK
  <2>3. ChunksAccounted'
    BY <1>0, <1>5, <2>1 DEF DeliverAgain, ChunksAccounted, Returned
  <2> QED
    BY <2>1, <2>2, <2>3
<1>6. ASSUME NEW i \in Chunks, DeliveryFails(i)
      PROVE  ProducerInv' /\ LogsGrow
  <2>1. ProducerTypeOK'
    BY <1>0, <1>6 DEF DeliveryFails, Fault, ProducerTypeOK
  <2>2. ChunksAccounted'
    BY <1>0, <1>1, <1>6 DEF DeliveryFails, ChunksAccounted, Returned
  <2> QED
    BY <1>1, <1>6, <2>1, <2>2 DEF DeliveryFails
<1>7. CASE Flush
  <2>1. ProducerTypeOK'
    BY <1>0, <1>7 DEF Flush, ProducerTypeOK
  <2>2. ChunksAccounted'
    BY <1>0, <1>1, <1>7 DEF Flush, ChunksAccounted, Returned
  <2> QED
    BY <1>1, <1>7, <2>1, <2>2 DEF Flush
<1>8. CASE ProducerDies
  <2>1. ProducerTypeOK'
    BY <1>0, <1>8 DEF ProducerDies, Fault, ProducerTypeOK
  <2>2. ChunksAccounted'
    BY <1>0, <1>8 DEF ProducerDies, ChunksAccounted, Returned
  <2> QED
    BY <1>1, <1>8, <2>1, <2>2 DEF ProducerDies
<1> QED
  BY <1>2, <1>3, <1>4, <1>5, <1>6, <1>7, <1>8 DEF ProducerNext

---------------------------------------------------------------------------
(* The workers.                                                            *)

\* WorkerTypeOK leaves the shape of three functions implicit.
WorkerShape ==
    /\ committed \in [Partitions -> Nat]
    /\ position \in [Partitions -> Nat]
    /\ current \in [Workers -> Messages \cup {NoMessage}]

\* A message that was given up, or whose content is in the graph.
Done(p, i) ==
    \/ <<p, i>> \in failed
    \/ log[p][i] # Poison /\ log[p][i] \in persisted

\* The message a worker works on could be decoded, and it is in the graph by
\* the time the worker marks it or commits; so are the failed ones decoded.
MessagesDecoded ==
    /\ \A w \in Workers :
          /\ phase[w] \notin {"poll", "down"} => ContentOf(current[w]) # Poison
          /\ phase[w] \in {"mark", "commit"} => ContentOf(current[w]) \in persisted
    /\ \A m \in failed : ContentOf(m) # Poison

\* Of what the member of a partition has polled there, only the message it
\* works on is not done.
PolledAreDone ==
    \A p \in Partitions : \A i \in 1..position[p] :
        assigned[p] \in Workers => Done(p, i) \/ current[assigned[p]] = <<p, i>>

CommittedAreDone ==
    \A p \in Partitions : \A i \in 1..committed[p] : Done(p, i)

\* The inductive invariant.  A commit covers what its member has polled, so
\* OnlyFailuresAreSkipped needs PolledAreDone, which needs that the message of
\* a worker about to commit is in the graph, hence MarkedIsPersisted for the
\* duplicates.
WorkerInv ==
    /\ ProducerInv
    /\ WorkerTypeOK
    /\ WorkerShape
    /\ MessagesDecoded
    /\ MarkedIsPersisted
    /\ PolledAreDone
    /\ CommittedAreDone

LEMMA MessageShape ==
    /\ \A m \in Messages : m[1] \in Partitions /\ m[2] \in Offsets(m[1])
                           /\ m = <<m[1], m[2]>>
    /\ \A p \in Partitions : \A i \in Offsets(p) : <<p, i>> \in Messages
    /\ NoMessage \notin Messages
  BY DEF Messages, NoMessage

\* The contents of messages are contents of chunks, or poison.
LEMMA MessageContent ==
    ASSUME ProducerTypeOK, NEW m \in Messages
    PROVE  ContentOf(m) \in Contents \cup {Poison}
<1>1. m[1] \in Partitions /\ m[2] \in 1..Len(log[m[1]])
  BY MessageShape DEF Offsets
<1>2. log[m[1]] \in Seq(Contents \cup {Poison})
  BY <1>1 DEF ProducerTypeOK
<1> QED
  BY <1>1, <1>2 DEF ContentOf

\* While the topic grows, messages stay what they are.
LEMMA MessagesStay ==
    ASSUME ProducerTypeOK, ProducerTypeOK', LogsGrow
    PROVE  /\ Messages \subseteq Messages'
           /\ \A m \in Messages : ContentOf(m)' = ContentOf(m)
<1>1. ASSUME NEW m \in Messages
      PROVE  /\ m \in Messages' /\ ContentOf(m)' = ContentOf(m)
  <2>1. m[1] \in Partitions /\ m[2] \in 1..Len(log[m[1]]) /\ m = <<m[1], m[2]>>
    BY MessageShape DEF Offsets
  <2>2. Len(log[m[1]]) \in Nat /\ Len(log'[m[1]]) \in Nat
    BY <2>1 DEF ProducerTypeOK
  <2>3. m[2] \in 1..Len(log'[m[1]]) /\ log'[m[1]][m[2]] = log[m[1]][m[2]]
    BY <2>1, <2>2 DEF LogsGrow
  <2>4. m \in Messages'
    BY <2>1, <2>3 DEF Messages, Offsets
  <2> QED
    BY <2>3, <2>4 DEF ContentOf
<1> QED
  BY <1>1

\* The producer's steps do not disturb the workers.
LEMMA ProducerKeepsWork ==
    ASSUME WorkerInv, ProducerNext, UNCHANGED workerVars
    PROVE  WorkerInv'
<1> USE DEF WorkerInv
<1>1. ProducerInv' /\ LogsGrow
  BY ProducerStep
<1>2. /\ Messages \subseteq Messages'
      /\ \A m \in Messages : ContentOf(m)' = ContentOf(m)
  BY <1>1, MessagesStay DEF ProducerInv
<1>3. \A p \in Partitions : /\ Len(log[p]) \in Nat /\ Len(log'[p]) \in Nat
                            /\ Len(log[p]) <= Len(log'[p])
                            /\ \A i \in 1..Len(log[p]) : log'[p][i] = log[p][i]
  BY <1>1 DEF LogsGrow, ProducerInv, ProducerTypeOK
<1>4. WorkerTypeOK'
  BY <1>1, <1>2, <1>3 DEF WorkerTypeOK, workerVars, ProducerInv, ProducerTypeOK
<1>5. WorkerShape'
  BY <1>2 DEF WorkerShape, workerVars
<1>6. MessagesDecoded'
  BY <1>2 DEF MessagesDecoded, workerVars, WorkerTypeOK
<1>7. MarkedIsPersisted'
  BY DEF MarkedIsPersisted, workerVars
<1>8. PolledAreDone' /\ CommittedAreDone'
  <2>1. \A p \in Partitions : \A i \in 1..Len(log[p]) : Done(p, i)' = Done(p, i)
    BY <1>3 DEF Done, workerVars
  <2>2. \A p \in Partitions : /\ position[p] \in 0..Len(log[p])
                              /\ committed[p] \in 0..Len(log[p])
    BY DEF WorkerTypeOK
  <2>3. /\ \A p \in Partitions : \A i \in 1..position[p] : Done(p, i)' = Done(p, i)
        /\ \A p \in Partitions : \A i \in 1..committed[p] : Done(p, i)' = Done(p, i)
    BY <1>3, <2>1, <2>2
  <2>4. UNCHANGED <<position, committed, assigned, current>>
    BY DEF workerVars
  <2>5. PolledAreDone'
    BY <2>3, <2>4 DEF PolledAreDone
  <2>6. CommittedAreDone'
    BY <2>3, <2>4 DEF CommittedAreDone
  <2> QED
    BY <2>5, <2>6
<1> QED
  BY <1>1, <1>4, <1>5, <1>6, <1>7, <1>8

LEMMA SameTopic ==
    ASSUME log' = log
    PROVE  Messages' = Messages /\ \A m : ContentOf(m)' = ContentOf(m)
  BY DEF Messages, Offsets, ContentOf

\* What a step of the workers does to the graph and the failures only adds to
\* what is done.
Progress ==
    /\ UNCHANGED producerVars
    /\ faults' \in 0..MaxFaults
    /\ persisted \subseteq persisted' /\ persisted' \subseteq Contents
    /\ failed \subseteq failed'

LEMMA ProgressKeeps ==
    ASSUME WorkerInv, Progress
    PROVE  /\ ProducerInv'
           /\ Messages' = Messages
           /\ \A m : ContentOf(m)' = ContentOf(m)
           /\ \A p, i : Done(p, i) => Done(p, i)'
<1> USE DEF WorkerInv, Progress, producerVars
<1>1. ProducerInv'
  BY DEF ProducerInv, ProducerTypeOK, ChunksAccounted, Returned, InTopic
<1>2. \A p, i : Done(p, i) => Done(p, i)'
  BY DEF Done
<1> QED
  BY <1>1, <1>2, SameTopic

\* What is known of the message a worker has.
LEMMA CurrentMessage ==
    ASSUME WorkerInv, NEW w \in Workers, phase[w] \notin {"poll", "down"}
    PROVE  /\ current[w] \in Messages
           /\ ContentOf(current[w]) \in Contents
           /\ ContentOf(current[w]) # Poison
  BY MessageContent
  DEF WorkerInv, WorkerTypeOK, MessagesDecoded, ProducerInv

\* A worker goes from one stage of a message to another.
LEMMA WithinMessage ==
    ASSUME WorkerInv, Progress, NEW w \in Workers,
           NEW ph \in Phases \ {"poll", "down"},
           phase[w] \notin {"poll", "down"}, Goto(w, ph),
           UNCHANGED <<assigned, committed, position, current, failed>>,
           tries' \in [Workers -> 0..(MaxRetries - 1)],
           processed' \subseteq persisted',
           ph \in {"mark", "commit"} => ContentOf(current[w]) \in persisted'
    PROVE  WorkerInv'
<1> USE DEF WorkerInv
<1>1. /\ ProducerInv' /\ Messages' = Messages
      /\ \A m : ContentOf(m)' = ContentOf(m)
      /\ \A p, i : Done(p, i) => Done(p, i)'
  BY ProgressKeeps
<1>2. /\ phase \in [Workers -> Phases] /\ phase'[w] = ph
      /\ \A u \in Workers : u # w => phase'[u] = phase[u]
      /\ phase' \in [Workers -> Phases]
  BY DEF WorkerTypeOK, Goto
<1>3. current[w] \in Messages
  BY CurrentMessage
<1>4. WorkerTypeOK'
  <2>1. \A p \in Partitions :
           committed'[p] \in 0..Len(log'[p]) /\ position'[p] \in 0..Len(log'[p])
    BY DEF WorkerTypeOK, Progress, producerVars
  <2>2. \A u \in Workers :
           IF phase'[u] \in {"poll", "down"} THEN current'[u] = NoMessage
                                             ELSE current'[u] \in Messages
    BY <1>2, <1>3 DEF WorkerTypeOK
  <2> QED
    BY <1>1, <1>2, <2>1, <2>2 DEF WorkerTypeOK, Progress
<1>5. WorkerShape'
  BY <1>1 DEF WorkerShape
<1>6. MessagesDecoded'
  <2>1. ContentOf(current[w]) # Poison
    BY CurrentMessage
  <2> QED
    BY <1>1, <1>2, <2>1 DEF MessagesDecoded, Progress
<1>7. MarkedIsPersisted'
  BY DEF MarkedIsPersisted
<1>8. PolledAreDone' /\ CommittedAreDone'
  BY <1>1 DEF PolledAreDone, CommittedAreDone
<1> QED
  BY <1>1, <1>4, <1>5, <1>6, <1>7, <1>8

\* A worker has done with its message: it persisted it, or gave it up.  Then
\* all it has polled is done, and it may commit or not.
LEMMA MessageEnds ==
    ASSUME WorkerInv, Progress, NEW w \in Workers,
           phase[w] \notin {"poll", "down"}, NextMessage(w),
           UNCHANGED <<assigned, position, processed>>,
           committed' \in {committed, CommittedBy(w)},
           failed' \in {failed, failed \cup {current[w]}},
           current[w] \in failed' \/ ContentOf(current[w]) \in persisted'
    PROVE  WorkerInv'
<1> USE DEF WorkerInv
<1>1. /\ ProducerInv' /\ Messages' = Messages /\ log' = log
      /\ \A m : ContentOf(m)' = ContentOf(m)
      /\ \A p, i : Done(p, i) => Done(p, i)'
  BY ProgressKeeps DEF Progress, producerVars
<1>2. /\ phase'[w] = "poll" /\ current'[w] = NoMessage
      /\ \A u \in Workers : u # w =>
            phase'[u] = phase[u] /\ current'[u] = current[u]
      /\ phase' \in [Workers -> Phases]
      /\ current' \in [Workers -> Messages \cup {NoMessage}]
      /\ tries' \in [Workers -> 0..(MaxRetries - 1)]
  BY WorkerAssumption
  DEF WorkerTypeOK, WorkerShape, NextMessage, Goto, Phases
<1>3. current[w] \in Messages /\ ContentOf(current[w]) # Poison
  BY CurrentMessage
<1>4. /\ committed' \in [Partitions -> Nat]
      /\ \A p \in Partitions :
            /\ committed'[p] \in 0..Len(log[p])
            /\ \/ committed'[p] = committed[p]
               \/ assigned[p] = w /\ committed'[p] = position[p]
  BY DEF WorkerTypeOK, WorkerShape, CommittedBy
<1>5. WorkerTypeOK'
  <2>1. \A u \in Workers :
           IF phase'[u] \in {"poll", "down"} THEN current'[u] = NoMessage
                                             ELSE current'[u] \in Messages
    BY <1>2 DEF WorkerTypeOK
  <2> QED
    BY <1>1, <1>2, <1>3, <1>4, <2>1 DEF WorkerTypeOK, Progress
<1>6. WorkerShape'
  BY <1>1, <1>2, <1>4 DEF WorkerShape
<1>7. MessagesDecoded'
  BY <1>1, <1>2, <1>3 DEF MessagesDecoded, Progress
<1>8. MarkedIsPersisted'
  BY DEF MarkedIsPersisted, Progress
<1>9. \A p \in Partitions : \A i : current[w] = <<p, i>> => Done(p, i)'
  BY <1>1, <1>3 DEF Done, ContentOf
<1>10. PolledAreDone'
  <2> SUFFICES ASSUME NEW p \in Partitions, NEW i \in 1..position[p],
                      assigned[p] \in Workers
               PROVE  Done(p, i)' \/ current'[assigned[p]] = <<p, i>>
    BY DEF PolledAreDone
  <2>1. Done(p, i) \/ current[assigned[p]] = <<p, i>>
    BY DEF PolledAreDone
  <2> QED
    BY <1>1, <1>2, <1>9, <2>1
<1>11. CommittedAreDone'
  <2> SUFFICES ASSUME NEW p \in Partitions, NEW i \in 1..committed'[p]
               PROVE  Done(p, i)'
    BY DEF CommittedAreDone
  <2>1. CASE committed'[p] = committed[p]
    BY <1>1, <2>1 DEF CommittedAreDone
  <2>2. CASE assigned[p] = w /\ committed'[p] = position[p]
    BY <1>1, <1>9, <2>2 DEF PolledAreDone
  <2> QED
    BY <1>4, <2>1, <2>2
<1> QED
  BY <1>1, <1>5, <1>6, <1>7, <1>8, <1>10, <1>11

\* A member leaves the group, by an error or because its process died.
LEMMA MemberLeaves ==
    ASSUME WorkerInv, Progress, NEW w \in Workers, Leave(w),
           UNCHANGED <<committed, processed, failed>>,
           position' \in [Partitions -> Nat],
           \A p \in Partitions :
              /\ position'[p] \in 0..Len(log[p])
              /\ assigned[p] # w => position'[p] = position[p]
    PROVE  WorkerInv'
<1> USE DEF WorkerInv
<1>1. /\ ProducerInv' /\ Messages' = Messages /\ log' = log
      /\ \A m : ContentOf(m)' = ContentOf(m)
      /\ \A p, i : Done(p, i) => Done(p, i)'
  BY ProgressKeeps DEF Progress, producerVars
<1>2. /\ phase'[w] = "down" /\ current'[w] = NoMessage
      /\ \A u \in Workers : u # w =>
            phase'[u] = phase[u] /\ current'[u] = current[u]
      /\ phase' \in [Workers -> Phases]
      /\ current' \in [Workers -> Messages \cup {NoMessage}]
      /\ tries' \in [Workers -> 0..(MaxRetries - 1)]
      /\ assigned' \in [Partitions -> Workers \cup {NoWorker}]
      /\ \A p \in Partitions : assigned'[p] \in Workers =>
            assigned'[p] = assigned[p] /\ assigned[p] # w
  BY WorkerAssumption
  DEF WorkerTypeOK, WorkerShape, Leave, Goto, Phases
<1>3. WorkerTypeOK'
  <2>1. \A u \in Workers :
           IF phase'[u] \in {"poll", "down"} THEN current'[u] = NoMessage
                                             ELSE current'[u] \in Messages
    BY <1>2 DEF WorkerTypeOK
  <2> QED
    BY <1>1, <1>2, <2>1 DEF WorkerTypeOK, Progress
<1>4. WorkerShape'
  BY <1>1, <1>2 DEF WorkerShape
<1>5. MessagesDecoded'
  BY <1>1, <1>2 DEF MessagesDecoded, Progress
<1>6. MarkedIsPersisted'
  BY DEF MarkedIsPersisted, Progress
<1>7. PolledAreDone'
  <2> SUFFICES ASSUME NEW p \in Partitions, NEW i \in 1..position'[p],
                      assigned'[p] \in Workers
               PROVE  Done(p, i)' \/ current'[assigned'[p]] = <<p, i>>
    BY DEF PolledAreDone
  <2>1. /\ assigned'[p] = assigned[p] /\ assigned[p] # w
        /\ position'[p] = position[p]
    BY <1>2
  <2>2. Done(p, i) \/ current[assigned[p]] = <<p, i>>
    BY <2>1 DEF PolledAreDone
  <2> QED
    BY <1>1, <1>2, <2>1, <2>2
<1>8. CommittedAreDone'
  BY <1>1 DEF CommittedAreDone
<1> QED
  BY <1>1, <1>3, <1>4, <1>5, <1>6, <1>7, <1>8

LEMMA WorkerInitInv == Init => WorkerInv
<1> SUFFICES ASSUME Init
             PROVE  WorkerInv
  OBVIOUS
<1> USE ProducerAssumption, WorkerAssumption DEF Init, ProducerInit
<1>1. log \in [Partitions -> Seq(Contents \cup {Poison})]
  OBVIOUS
<1>2. ProducerInv
  BY <1>1, DocumentFacts
  DEF ProducerInv, ProducerTypeOK, ChunksAccounted, Chunks, Returned
<1>3. \A p \in Partitions : Len(log[p]) \in Nat
  BY <1>1
<1>4. WorkerTypeOK
  BY <1>3 DEF WorkerTypeOK, Phases
<1>5. WorkerShape /\ MessagesDecoded /\ MarkedIsPersisted
  BY DEF WorkerShape, MessagesDecoded, MarkedIsPersisted
<1>6. PolledAreDone /\ CommittedAreDone
  BY DEF PolledAreDone, CommittedAreDone
<1> QED
  BY <1>2, <1>4, <1>5, <1>6 DEF WorkerInv

LEMMA WorkerStepInv == WorkerInv /\ [Next]_vars => WorkerInv'
<1> SUFFICES ASSUME WorkerInv, [Next]_vars
             PROVE  WorkerInv'
  OBVIOUS
<1> USE ProducerAssumption, WorkerAssumption
<1>0. /\ faults \in 0..MaxFaults
      /\ Fault => faults' \in 0..MaxFaults
      /\ processed \subseteq persisted /\ persisted \subseteq Contents
      /\ tries \in [Workers -> 0..(MaxRetries - 1)]
      /\ phase \in [Workers -> Phases]
      /\ assigned \in [Partitions -> Workers \cup {NoWorker}]
      /\ committed \in [Partitions -> Nat]
      /\ position \in [Partitions -> Nat]
      /\ current \in [Workers -> Messages \cup {NoMessage}]
      /\ log \in [Partitions -> Seq(Contents \cup {Poison})]
      /\ \A p \in Partitions :
            /\ Len(log[p]) \in Nat
            /\ committed[p] \in 0..Len(log[p])
            /\ position[p] \in 0..Len(log[p])
  <2>1. Fault => faults' \in 0..MaxFaults
    BY DEF WorkerInv, WorkerTypeOK, Fault
  <2>2. log \in [Partitions -> Seq(Contents \cup {Poison})]
    BY DEF WorkerInv, ProducerInv, ProducerTypeOK
  <2>3. \A p \in Partitions :
            /\ Len(log[p]) \in Nat
            /\ committed[p] \in 0..Len(log[p])
            /\ position[p] \in 0..Len(log[p])
    BY <2>2 DEF WorkerInv, WorkerTypeOK
  <2>4. committed \in [Partitions -> Nat] /\ position \in [Partitions -> Nat]
    BY DEF WorkerInv, WorkerShape
  <2> QED
    BY <2>1, <2>2, <2>3, <2>4
    DEF WorkerInv, WorkerTypeOK, WorkerShape, MarkedIsPersisted
<1>1. CASE UNCHANGED vars
  <2>1. Progress
    BY <1>0, <1>1 DEF Progress, vars, workerVars
  <2>2. /\ ProducerInv' /\ Messages' = Messages
        /\ \A m : ContentOf(m)' = ContentOf(m)
    BY <2>1, ProgressKeeps
  <2> QED
    BY <1>1, <2>2
    DEF vars, workerVars, producerVars, WorkerInv, WorkerTypeOK, WorkerShape,
        MessagesDecoded, MarkedIsPersisted, PolledAreDone, CommittedAreDone,
        Done
<1>2. CASE ProducerNext /\ UNCHANGED workerVars
  BY <1>2, ProducerKeepsWork
<1>3. ASSUME NEW w \in Workers,
             \/ Duplicate(w) \/ New(w) \/ CheckFails(w) \/ Extract(w)
             \/ ExtractAgain(w) \/ Insert(w) \/ Mark(w) \/ MarkFails(w)
      PROVE  WorkerInv'
  <2>1. /\ phase[w] \in Phases \ {"poll", "down"}
        /\ UNCHANGED <<assigned, committed, position, current, failed>>
    BY <1>3 DEF Duplicate, New, CheckFails, Extract, ExtractAgain, Insert,
       Mark, MarkFails, Phases
  <2>2. ContentOf(current[w]) \in Contents
    BY <2>1, CurrentMessage
  <2>3. phase[w] = "mark" => ContentOf(current[w]) \in persisted
    BY DEF WorkerInv, MessagesDecoded
  <2>4. Progress
    <3>1. CASE Insert(w)
      BY <1>0, <2>2, <3>1 DEF Insert, Progress
    <3>2. CASE ~Insert(w)
      BY <1>0, <1>3, <3>2 DEF Duplicate, New, CheckFails, Extract,
         ExtractAgain, Mark, MarkFails, Progress
    <3> QED
      BY <3>1, <3>2
  <2>5. tries' \in [Workers -> 0..(MaxRetries - 1)]
    <3>1. CASE ExtractAgain(w)
      <4>1. tries[w] + 1 \in 0..(MaxRetries - 1)
        BY <1>0, <3>1 DEF ExtractAgain
      <4> QED
        BY <1>0, <3>1, <4>1 DEF ExtractAgain
    <3>2. CASE ~ExtractAgain(w)
      BY <1>0, <1>3, <3>2 DEF Duplicate, New, CheckFails, Extract, Insert,
         Mark, MarkFails
    <3> QED
      BY <3>1, <3>2
  <2>6. processed' \subseteq persisted'
    BY <1>0, <1>3, <2>3 DEF Duplicate, New, CheckFails, Extract,
       ExtractAgain, Insert, Mark, MarkFails
  <2>7. PICK ph \in Phases \ {"poll", "down"} :
           /\ Goto(w, ph)
           /\ ph \in {"mark", "commit"} => ContentOf(current[w]) \in persisted'
    <3>1. CASE Duplicate(w)
      BY <1>0, <3>1 DEF Duplicate, Phases
    <3>2. CASE New(w) \/ CheckFails(w)
      BY <3>2 DEF New, CheckFails, Phases
    <3>3. CASE Extract(w)
      BY <3>3 DEF Extract, Phases
    <3>4. CASE ExtractAgain(w)
      BY <1>0, <3>4 DEF ExtractAgain, Goto, Phases
    <3>5. CASE Insert(w)
      BY <3>5 DEF Insert, Phases
    <3>6. CASE Mark(w) \/ MarkFails(w)
      BY <2>3, <3>6 DEF Mark, MarkFails, Phases
    <3> QED
      BY <1>3, <3>1, <3>2, <3>3, <3>4, <3>5, <3>6
  <2> QED
    BY <2>1, <2>4, <2>5, <2>6, <2>7, WithinMessage
<1>4. ASSUME NEW w \in Workers,
             \/ ExtractFails(w) \/ InsertFails(w) \/ Commit(w)
             \/ CommitRefused(w) \/ CommitFails(w)
      PROVE  WorkerInv'
  <2>1. phase[w] \in Phases \ {"poll", "down"}
    BY <1>4 DEF ExtractFails, InsertFails, Commit, CommitRefused, CommitFails,
       Phases
  <2>2. ContentOf(current[w]) \in Contents
    BY <2>1, CurrentMessage
  <2>3. Progress
    BY <1>0, <1>4, <2>2
    DEF ExtractFails, InsertFails, Commit, CommitRefused, CommitFails, GiveUp,
        Progress
  <2>4. /\ NextMessage(w)
        /\ UNCHANGED <<assigned, position, processed>>
        /\ committed' \in {committed, CommittedBy(w)}
        /\ failed' \in {failed, failed \cup {current[w]}}
    BY <1>4
    DEF ExtractFails, InsertFails, Commit, CommitRefused, CommitFails, GiveUp
  <2>5. current[w] \in failed' \/ ContentOf(current[w]) \in persisted'
    BY <1>4
    DEF ExtractFails, InsertFails, Commit, CommitRefused, CommitFails, GiveUp,
        WorkerInv, MessagesDecoded
  <2> QED
    BY <2>1, <2>3, <2>4, <2>5, MessageEnds
<1>5. ASSUME NEW w \in Workers, NEW p \in Partitions, PollPoison(w, p)
      PROVE  WorkerInv'
  <2>1. Progress
    BY <1>0, <1>5 DEF PollPoison, Progress
  <2>2. /\ position' \in [Partitions -> Nat]
        /\ \A q \in Partitions :
              /\ position'[q] \in 0..Len(log[q])
              /\ assigned[q] # w => position'[q] = position[q]
    BY <1>0, <1>5 DEF PollPoison
  <2> QED
    BY <1>5, <2>1, <2>2, MemberLeaves DEF PollPoison
<1>6. ASSUME NEW w \in Workers, PollError(w) \/ Crash(w)
      PROVE  WorkerInv'
  <2>1. phase[w] = "insert" => ContentOf(current[w]) \in Contents
    BY CurrentMessage
  <2>2. Progress
    BY <1>0, <1>6, <2>1 DEF PollError, Crash, Progress
  <2> QED
    BY <1>0, <1>6, <2>2, MemberLeaves DEF PollError, Crash
<1>7. ASSUME NEW w \in Workers, NEW p \in Partitions, Poll(w, p)
      PROVE  WorkerInv'
  <2> DEFINE m == <<p, position[p] + 1>>
  <2>1. Progress /\ UNCHANGED <<assigned, committed, tries, processed, persisted, failed>>
    BY <1>0, <1>7 DEF Poll, Progress
  <2>2. /\ ProducerInv' /\ Messages' = Messages /\ log' = log
        /\ \A x : ContentOf(x)' = ContentOf(x)
        /\ \A q, i : Done(q, i) => Done(q, i)'
    BY <2>1, ProgressKeeps DEF Progress, producerVars
  <2>3. m \in Messages /\ ContentOf(m) # Poison
    <3>1. position[p] + 1 \in 1..Len(log[p])
      BY <1>0, <1>7 DEF Poll
    <3>2. log[p][position[p] + 1] # Poison
      BY <1>7 DEF Poll
    <3> QED
      BY <3>1, <3>2, MessageShape DEF Offsets, ContentOf
  <2>4. /\ phase'[w] = "check" /\ current'[w] = m /\ assigned[p] = w
        /\ position'[p] = position[p] + 1
        /\ phase[w] = "poll"
        /\ \A u \in Workers : u # w =>
              phase'[u] = phase[u] /\ current'[u] = current[u]
        /\ \A q \in Partitions : q # p => position'[q] = position[q]
        /\ phase' \in [Workers -> Phases]
        /\ position' \in [Partitions -> Nat]
        /\ position[p] < Len(log[p])
    BY <1>0, <1>7 DEF Poll, Goto, Phases
  <2>5. current' = [current EXCEPT ![w] = m]
    BY <1>7 DEF Poll
  <2> HIDE DEF m
  <2>6. WorkerTypeOK'
    <3>1. \A q \in Partitions : /\ committed'[q] \in 0..Len(log'[q])
                                /\ position'[q] \in 0..Len(log'[q])
      <4> TAKE q \in Partitions
      <4>1. /\ committed'[q] = committed[q] /\ log'[q] = log[q]
            /\ committed[q] \in 0..Len(log[q])
            /\ position[q] \in 0..Len(log[q])
        BY <1>0, <2>1, <2>2
      <4>2. position[p] + 1 \in 0..Len(log[p])
        BY <1>0, <2>4
      <4>3. position'[q] \in 0..Len(log[q])
        BY <2>4, <4>1, <4>2
      <4> QED
        BY <4>1, <4>3
    <3>2. \A u \in Workers :
             IF phase'[u] \in {"poll", "down"} THEN current'[u] = NoMessage
                                               ELSE current'[u] \in Messages
      BY <2>3, <2>4 DEF WorkerInv, WorkerTypeOK
    <3> QED
      BY <2>1, <2>2, <2>4, <3>1, <3>2 DEF WorkerInv, WorkerTypeOK, Progress
  <2>7. WorkerShape'
    BY <1>0, <2>1, <2>2, <2>3, <2>4, <2>5 DEF WorkerShape
  <2>8. MessagesDecoded' /\ MarkedIsPersisted'
    BY <2>1, <2>2, <2>3, <2>4
    DEF WorkerInv, MessagesDecoded, MarkedIsPersisted
  <2>9. PolledAreDone'
    <3> SUFFICES ASSUME NEW q \in Partitions, NEW i \in 1..position'[q],
                        assigned[q] \in Workers
                 PROVE  Done(q, i)' \/ current'[assigned[q]] = <<q, i>>
      BY <2>1 DEF PolledAreDone
    <3>1. CASE q = p /\ i = position[p] + 1
      BY <2>4, <3>1 DEF m
    <3>2. CASE ~(q = p /\ i = position[p] + 1)
      <4>1. i \in 1..position[q]
        <5>1. position[q] \in Nat
          BY <1>0
        <5>2. CASE q # p
          BY <2>4, <5>2
        <5>3. CASE q = p
          BY <2>4, <3>2, <5>1, <5>3
        <5> QED
          BY <5>2, <5>3
      <4>2. Done(q, i) \/ current[assigned[q]] = <<q, i>>
        BY <4>1 DEF WorkerInv, PolledAreDone
      <4>3. current[w] = NoMessage
        BY <2>4 DEF WorkerInv, WorkerTypeOK
      <4>4. NoMessage # <<q, i>>
        BY DEF NoMessage
      <4> QED
        BY <2>2, <2>4, <4>2, <4>3, <4>4
    <3> QED
      BY <3>1, <3>2
  <2>10. CommittedAreDone'
    BY <2>1, <2>2 DEF WorkerInv, CommittedAreDone
  <2> QED
    BY <2>2, <2>6, <2>7, <2>8, <2>9, <2>10 DEF WorkerInv
<1>8. ASSUME NEW w \in Workers,
             Restart(w) \/ Revoke(w)
      PROVE  WorkerInv'
  <2>1. /\ Progress
        /\ UNCHANGED <<committed, position, current, tries, processed, persisted,
                       failed>>
    BY <1>0, <1>8 DEF Restart, Revoke, Progress
  <2>2. /\ ProducerInv' /\ Messages' = Messages /\ log' = log
        /\ \A x : ContentOf(x)' = ContentOf(x)
        /\ \A q, i : Done(q, i) => Done(q, i)'
    BY <2>1, ProgressKeeps DEF Progress, producerVars
  <2>3. /\ assigned' \in [Partitions -> Workers \cup {NoWorker}]
        /\ \A q \in Partitions :
              assigned'[q] \in Workers => assigned'[q] = assigned[q]
    BY <1>0, <1>8 DEF Restart, Revoke
  <2>4. /\ phase' \in [Workers -> Phases]
        /\ \A u \in Workers : \/ phase'[u] = phase[u]
                              \/ phase[u] = "down" /\ phase'[u] = "poll"
    BY <1>0, <1>8 DEF Restart, Revoke, Goto, Phases
  <2>5. WorkerTypeOK' /\ WorkerShape'
    BY <2>1, <2>2, <2>3, <2>4 DEF WorkerInv, WorkerTypeOK, WorkerShape, Progress
  <2>6. MessagesDecoded' /\ MarkedIsPersisted'
    BY <2>1, <2>2, <2>4 DEF WorkerInv, MessagesDecoded, MarkedIsPersisted
  <2>7. PolledAreDone' /\ CommittedAreDone'
    BY <2>1, <2>2, <2>3 DEF WorkerInv, PolledAreDone, CommittedAreDone
  <2> QED
    BY <2>2, <2>5, <2>6, <2>7 DEF WorkerInv
<1>9. ASSUME NEW p \in Partitions, NEW w \in Workers, Assign(p, w)
      PROVE  WorkerInv'
  <2>1. /\ Progress
        /\ UNCHANGED <<committed, phase, current, tries, processed, persisted,
                       failed>>
    BY <1>0, <1>9 DEF Assign, Progress
  <2>2. /\ ProducerInv' /\ Messages' = Messages /\ log' = log
        /\ \A x : ContentOf(x)' = ContentOf(x)
        /\ \A q, i : Done(q, i) => Done(q, i)'
    BY <2>1, ProgressKeeps DEF Progress, producerVars
  <2>3. /\ assigned' \in [Partitions -> Workers \cup {NoWorker}]
        /\ position' \in [Partitions -> Nat]
        /\ position'[p] = committed[p]
        /\ \A q \in Partitions : q # p =>
              assigned'[q] = assigned[q] /\ position'[q] = position[q]
    BY <1>0, <1>9 DEF Assign
  <2>4. WorkerTypeOK' /\ WorkerShape'
    <3>1. \A q \in Partitions : /\ committed'[q] \in 0..Len(log'[q])
                                /\ position'[q] \in 0..Len(log'[q])
      BY <1>0, <2>1, <2>2, <2>3
    <3> QED
      BY <2>1, <2>2, <2>3, <3>1
      DEF WorkerInv, WorkerTypeOK, WorkerShape, Progress
  <2>5. MessagesDecoded' /\ MarkedIsPersisted'
    BY <2>1, <2>2 DEF WorkerInv, MessagesDecoded, MarkedIsPersisted
  <2>6. CommittedAreDone'
    BY <2>1, <2>2 DEF WorkerInv, CommittedAreDone
  <2>7. PolledAreDone'
    <3> SUFFICES ASSUME NEW q \in Partitions, NEW i \in 1..position'[q],
                        assigned'[q] \in Workers
                 PROVE  Done(q, i)' \/ current'[assigned'[q]] = <<q, i>>
      BY DEF PolledAreDone
    <3>1. CASE q = p
      BY <2>2, <2>3, <3>1 DEF WorkerInv, CommittedAreDone
    <3>2. CASE q # p
      <4>1. Done(q, i) \/ current[assigned[q]] = <<q, i>>
        BY <2>3, <3>2 DEF WorkerInv, PolledAreDone
      <4> QED
        BY <2>1, <2>2, <2>3, <3>2, <4>1
    <3> QED
      BY <3>1, <3>2
  <2> QED
    BY <2>2, <2>4, <2>5, <2>6, <2>7 DEF WorkerInv
<1>10. ASSUME NEW x \in Contents, ExpireMark(x)
       PROVE  WorkerInv'
  <2>1. /\ Progress
        /\ UNCHANGED <<assigned, committed, position, phase, current, tries,
                       persisted, failed>>
        /\ processed' \subseteq processed
    BY <1>0, <1>10 DEF ExpireMark, Progress
  <2>2. /\ ProducerInv' /\ Messages' = Messages /\ log' = log
        /\ \A m : ContentOf(m)' = ContentOf(m)
        /\ \A q, i : Done(q, i) => Done(q, i)'
    BY <2>1, ProgressKeeps DEF Progress, producerVars
  <2> QED
    BY <2>1, <2>2
    DEF WorkerInv, WorkerTypeOK, WorkerShape, MessagesDecoded,
        MarkedIsPersisted, PolledAreDone, CommittedAreDone, Progress
<1> QED
  BY <1>1, <1>2, <1>3, <1>4, <1>5, <1>6, <1>7, <1>8, <1>9, <1>10
  DEF Next, Step, Faults, PollNothing

LEMMA WorkerInvariance == Spec => []WorkerInv
<1>1. WorkerInv /\ [Next]_vars => WorkerInv'
  BY WorkerStepInv
<1> QED
  BY <1>1, WorkerInitInv, PTL DEF Spec

\* Offsets stay within the topic, and a worker has a message exactly while it
\* works on one (worker.py:164-204).
THEOREM WorkerTypeCorrect == Spec => []WorkerTypeOK
<1>1. WorkerInv => WorkerTypeOK
  BY DEF WorkerInv
<1> QED
  BY <1>1, WorkerInvariance, PTL

\* When ingest_document returns, each chunk is in the topic or an error was
\* reported for it (ingest.py:31-46).
THEOREM ReturnedIsSent == Spec => []SentOrReported
<1>1. WorkerInv => SentOrReported
  <2> SUFFICES ASSUME WorkerInv, Returned, NEW i \in Chunks, i \notin reported
               PROVE  InTopic(Document[i])
    BY DEF SentOrReported, InTopic
  <2>1. next # 0 /\ i < next /\ buffer = {}
    BY DocumentFacts
    DEF WorkerInv, ProducerInv, ChunksAccounted, Returned, Chunks
  <2> QED
    BY <2>1 DEF WorkerInv, ProducerInv, ChunksAccounted
<1> QED
  BY <1>1, WorkerInvariance, PTL

\* No commit, crash or rebalance makes the group pass a message that nobody
\* tried, or whose processing did not raise (worker.py:189-204).
THEOREM SkippedHaveFailed == Spec => []OnlyFailuresAreSkipped
<1>1. WorkerInv => OnlyFailuresAreSkipped
  <2> SUFFICES ASSUME WorkerInv, NEW m \in Messages, m[2] <= committed[m[1]]
               PROVE  \/ m \in failed
                      \/ ContentOf(m) # Poison /\ ContentOf(m) \in persisted
    BY DEF OnlyFailuresAreSkipped
  <2>1. /\ m[1] \in Partitions /\ m[2] \in 1..Len(log[m[1]])
        /\ m = <<m[1], m[2]>>
    BY MessageShape DEF Offsets
  <2>2. m[2] \in 1..committed[m[1]]
    BY <2>1 DEF WorkerInv, WorkerShape
  <2>3. Done(m[1], m[2])
    BY <2>1, <2>2 DEF WorkerInv, CommittedAreDone
  <2> QED
    BY <2>1, <2>3 DEF Done, ContentOf
<1> QED
  BY <1>1, WorkerInvariance, PTL

\* Skipping a duplicate loses nothing: what is marked in Redis is in the graph,
\* whichever worker persisted it and whatever has crashed (worker.py:183-198).
THEOREM MarksAreTrue == Spec => []MarkedIsPersisted
<1>1. WorkerInv => MarkedIsPersisted
  BY DEF WorkerInv
<1> QED
  BY <1>1, WorkerInvariance, PTL

\* What cannot be decoded is neither persisted nor given up, and so is never
\* committed (worker.py:176).
THEOREM PoisonIsNotPassed == Spec => []PoisonBlocks
<1>1. WorkerInv => PoisonBlocks
  <2> SUFFICES ASSUME WorkerInv, NEW m \in Messages, ContentOf(m) = Poison,
                      ~(committed[m[1]] < m[2])
               PROVE  FALSE
    BY DEF PoisonBlocks
  <2>1. /\ m[1] \in Partitions /\ m[2] \in 1..Len(log[m[1]])
        /\ m = <<m[1], m[2]>>
    BY MessageShape DEF Offsets
  <2>2. m[2] \in 1..committed[m[1]]
    BY <2>1 DEF WorkerInv, WorkerShape
  <2>3. Done(m[1], m[2])
    BY <2>1, <2>2 DEF WorkerInv, CommittedAreDone
  <2>4. m \in failed
    BY <2>1, <2>3 DEF Done, ContentOf
  <2> QED
    BY <2>4 DEF WorkerInv, MessagesDecoded
<1> QED
  BY <1>1, WorkerInvariance, PTL
---------------------------------------------------------------------------
\* The steps that a worker has left with its message, at most.
MessageRank(w) ==
    CASE phase[w] = "check"   -> MaxRetries + 4
      [] phase[w] = "extract" -> MaxRetries + 3 - tries[w]
      [] phase[w] = "insert"  -> 3
      [] phase[w] = "mark"    -> 2
      [] phase[w] = "commit"  -> 1
      [] OTHER                -> 0

\* A worker is done with a message within MaxRetries + 4 steps, given up or
\* committed, although Redis or Kafka may fail in any of them: no rebalance,
\* expired mark or other worker takes it back to an earlier step of the loop
\* (worker.py:176-204).
MessagesShrink ==
    [][\A w \in Workers : MessageRank(w) > 0 =>
          /\ MessageRank(w)' <= MessageRank(w)
          /\ Step(w) \/ CheckFails(w) \/ MarkFails(w) \/ CommitFails(w) \/ Crash(w)
               => MessageRank(w)' < MessageRank(w)]_vars

\* Every step of a worker brings it nearer to its next poll: a part of the
\* safety half of EveryChunkTried, for any number of workers, partitions and
\* attempts.
THEOREM MessagesAreBounded == Spec => MessagesShrink
<1> DEFINE Down(w) == Step(w) \/ CheckFails(w) \/ MarkFails(w) \/ CommitFails(w)
                      \/ Crash(w)
           Shrinks(w) ==
             MessageRank(w) > 0 =>
               /\ MessageRank(w)' <= MessageRank(w)
               /\ Down(w) => MessageRank(w)' < MessageRank(w)
<1>1. ASSUME WorkerTypeOK, WorkerTypeOK', Next, NEW w \in Workers, MessageRank(w) > 0
      PROVE  Shrinks(w)
  <2> USE WorkerAssumption
  <2>1. /\ phase \in [Workers -> Phases] /\ phase' \in [Workers -> Phases]
        /\ tries \in [Workers -> 0..(MaxRetries - 1)]
        /\ tries' \in [Workers -> 0..(MaxRetries - 1)]
    BY <1>1 DEF WorkerTypeOK
  <2>2. /\ phase[w] \in {"check", "extract", "insert", "mark", "commit"}
        /\ MessageRank(w) \in Nat /\ MessageRank(w)' \in Nat
    BY <1>1, <2>1 DEF MessageRank, Phases
  <2> DEFINE Less == MessageRank(w)' < MessageRank(w)
             Same == phase'[w] = phase[w] /\ tries'[w] = tries[w]
  <2>3. ASSUME NEW v \in Workers, NEW p \in Partitions,
               Poll(v, p) \/ PollPoison(v, p)
        PROVE  v # w /\ Same
    BY <2>1, <2>2, <2>3 DEF Poll, PollPoison, Leave, Goto
  <2>4. ASSUME NEW v \in Workers,
               GiveUp(v) \/ NextMessage(v) \/ Leave(v)
        PROVE  IF v = w THEN Less ELSE Same
    <3>1. CASE v = w
      <4>1. phase'[w] \in {"poll", "down"}
        BY <2>1, <2>4, <3>1 DEF GiveUp, NextMessage, Leave, Goto
      <4>2. MessageRank(w)' = 0
        BY <4>1 DEF MessageRank
      <4> QED
        BY <1>1, <3>1, <4>2
    <3>2. CASE v # w
      BY <2>1, <2>4, <3>2 DEF GiveUp, NextMessage, Leave, Goto
    <3> QED
      BY <3>1, <3>2
  <2>5. ASSUME NEW v \in Workers,
               \/ Duplicate(v) \/ New(v) \/ CheckFails(v) \/ Extract(v)
               \/ Insert(v) \/ Mark(v) \/ MarkFails(v)
        PROVE  IF v = w THEN Less ELSE Same
    <3>1. CASE v = w
      <4>1. CASE Duplicate(w) \/ New(w) \/ CheckFails(w)
        BY <2>1, <3>1, <4>1 DEF Duplicate, New, CheckFails, Goto, MessageRank
      <4>2. CASE Extract(w)
        BY <2>1, <3>1, <4>2 DEF Extract, Goto, MessageRank
      <4>3. CASE Insert(w) \/ Mark(w) \/ MarkFails(w)
        BY <2>1, <3>1, <4>3 DEF Insert, Mark, MarkFails, Goto, MessageRank
      <4> QED
        BY <2>5, <3>1, <4>1, <4>2, <4>3
    <3>2. CASE v # w
      BY <2>1, <2>5, <3>2
      DEF Duplicate, New, CheckFails, Extract, Insert, Mark, MarkFails, Goto
    <3> QED
      BY <3>1, <3>2
  <2>6. ASSUME NEW v \in Workers, ExtractAgain(v)
        PROVE  IF v = w THEN Less ELSE Same
    <3>1. CASE v = w
      BY <2>1, <2>6, <3>1 DEF ExtractAgain, MessageRank
    <3>2. CASE v # w
      BY <2>1, <2>6, <3>2 DEF ExtractAgain
    <3> QED
      BY <3>1, <3>2
  <2>7. ASSUME NEW v \in Workers,
               \/ ExtractFails(v) \/ InsertFails(v) \/ Commit(v)
               \/ CommitRefused(v) \/ CommitFails(v) \/ PollError(v) \/ Crash(v)
        PROVE  IF v = w THEN Less ELSE Same
    <3>1. GiveUp(v) \/ NextMessage(v) \/ Leave(v)
      BY <2>7 DEF ExtractFails, InsertFails, Commit, CommitRefused,
         CommitFails, PollError, Crash
    <3> QED
      BY <2>4, <3>1
  <2>8. ASSUME NEW v \in Workers, PollNothing(v) PROVE v # w /\ Same
    BY <2>2, <2>8 DEF PollNothing, vars, workerVars
  <2>9. ASSUME NEW v \in Workers, Restart(v) \/ Revoke(v) PROVE Same
    BY <2>1, <2>2, <2>9 DEF Restart, Revoke, Goto
  <2>10. ASSUME \/ \E p \in Partitions, v \in Workers : Assign(p, v)
                \/ \E x \in Contents : ExpireMark(x)
                \/ UNCHANGED workerVars
         PROVE  Same
    BY <2>10 DEF Assign, ExpireMark, workerVars
  <2>11. ASSUME NEW v \in Workers, Down(v)
         PROVE  IF v = w THEN Less ELSE Same
    BY <2>3, <2>5, <2>6, <2>7, <2>8, <2>11 DEF Step
  <2> HIDE DEF Down
  <2>12. Less \/ Same
    <3>1. ASSUME NEW v \in Workers, Step(v) \/ Faults(v) \/ Restart(v)
          PROVE  Less \/ Same
      <4>1. Down(v) \/ PollError(v) \/ Revoke(v) \/ Restart(v)
        BY <3>1 DEF Faults, Down
      <4> QED
        BY <2>7, <2>9, <2>11, <4>1
    <3> QED
      BY <1>1, <2>10, <3>1 DEF Next
  <2>13. Same => MessageRank(w)' = MessageRank(w)
    BY DEF MessageRank
  <2>14. Down(w) => Less
    BY <2>11
  <2> HIDE DEF Same
  <2> QED
    BY <2>2, <2>12, <2>13, <2>14
<1>2. WorkerTypeOK /\ WorkerTypeOK' /\ [Next]_vars
        => [\A w \in Workers : Shrinks(w)]_vars
  BY <1>1
<1> QED
  BY <1>2, WorkerTypeCorrect, PTL DEF Spec, MessagesShrink
===========================================================================
