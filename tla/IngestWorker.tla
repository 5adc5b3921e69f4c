--------------------------- MODULE IngestWorker ---------------------------
(***************************************************************************)
(* core/worker.py: consume_document_chunks, the loop that takes document   *)
(* chunks from the topic, extracts a graph from each, persists it, marks   *)
(* its content as processed and commits the consumer's offsets.            *)
(*                                                                         *)
(* The messages come from DocumentProducer, or from others.                *)
(*                                                                         *)
(* The consumer group, the topic and Redis are external.  A partition      *)
(* belongs to one member of the group at a time and may move to another at *)
(* any moment, which then reads on from the committed offset.  A commit    *)
(* covers the positions of all partitions the member has, whatever message *)
(* it is made for, and is refused for a partition it no longer has.  What  *)
(* insert_to_neo4j does inside is FencedGraph; here it persists a content  *)
(* or raises.                                                              *)
(***************************************************************************)
EXTENDS DocumentProducer

CONSTANTS
    Workers,      \* the consumer processes of graph_extraction_group
    NoWorker,     \* nobody has the partition
    MaxRetries    \* max_retries=3 of process_message_with_recovery

ASSUME WorkerAssumption ==
    /\ NoWorker \notin Workers
    /\ MaxRetries \in Nat \ {0}

VARIABLES
    assigned,    \* partition -> the member that has it
    committed,   \* partition -> how many of its messages are committed
    position,    \* partition -> how many its present member has polled
    phase,       \* worker -> where it stands in the loop
    current,     \* worker -> the message it works on: partition and offset
    tries,       \* worker -> extraction attempts for that message
    processed,   \* the contents with a processed: key in Redis
    persisted,   \* the contents that are in the graph
    failed       \* history: the messages given up by `except Exception`

workerVars == <<assigned, committed, position, phase, current, tries,
                processed, persisted, failed>>
vars == <<producerVars, faults, workerVars>>

Phases == {"poll", "check", "extract", "insert", "mark", "commit", "down"}

Offsets(p) == 1..Len(log[p])
Messages == UNION {{p} \X Offsets(p) : p \in Partitions}
NoMessage == <<>>

\* The content of a message stands for its hash, too: hashes do not collide.
ContentOf(m) == log[m[1]][m[2]]

---------------------------------------------------------------------------
Init ==
    /\ ProducerInit
    /\ assigned = [p \in Partitions |-> NoWorker]
    /\ committed = [p \in Partitions |-> 0]
    /\ position = [p \in Partitions |-> 0]
    /\ phase = [w \in Workers |-> "poll"]
    /\ current = [w \in Workers |-> NoMessage]
    /\ tries = [w \in Workers |-> 0]
    /\ processed = {}
    /\ persisted = {}
    /\ failed = {}

Goto(w, ph) == phase' = [phase EXCEPT ![w] = ph]

\* Back to the top of the loop, with the message done or given up.
NextMessage(w) ==
    /\ Goto(w, "poll")
    /\ current' = [current EXCEPT ![w] = NoMessage]
    /\ tries' = [tries EXCEPT ![w] = 0]

\* `except Exception`: the error is logged, the offset is left as polled.
GiveUp(w) ==
    /\ NextMessage(w)
    /\ failed' = failed \cup {current[w]}

\* The consumer leaves the group, by close() or because its process died.
Leave(w) ==
    /\ Goto(w, "down")
    /\ current' = [current EXCEPT ![w] = NoMessage]
    /\ tries' = [tries EXCEPT ![w] = 0]
    /\ assigned' = [p \in Partitions |->
                      IF assigned[p] = w THEN NoWorker ELSE assigned[p]]

\* Mutant of Poll: enable.auto.commit commits what is polled.
PollCommits(w, p) ==
    /\ phase[w] = "poll"
    /\ assigned[p] = w
    /\ position[p] < Len(log[p])
    /\ log[p][position[p] + 1] # Poison
    /\ position' = [position EXCEPT ![p] = @ + 1]
    /\ committed' = [committed EXCEPT ![p] = position[p] + 1]
    /\ current' = [current EXCEPT ![w] = <<p, position[p] + 1>>]
    /\ Goto(w, "check")
    /\ UNCHANGED <<producerVars, assigned, tries, processed, persisted,
                   failed, faults>>

\* consumer.poll() returns a chunk.
Poll(w, p) ==
    /\ phase[w] = "poll"
    /\ assigned[p] = w
    /\ position[p] < Len(log[p])
    /\ log[p][position[p] + 1] # Poison
    /\ position' = [position EXCEPT ![p] = @ + 1]
    /\ current' = [current EXCEPT ![w] = <<p, position[p] + 1>>]
    /\ Goto(w, "check")
    /\ UNCHANGED <<producerVars, assigned, committed, tries, processed,
                   persisted, failed, faults>>

\* poll() returns None or the end of a partition: `continue`.
PollNothing(w) ==
    /\ phase[w] = "poll"
    /\ \A p \in Partitions : assigned[p] = w => position[p] = Len(log[p])
    /\ UNCHANGED vars

\* Mutant of PollPoison: json.loads moves inside the inner try.
PoisonLogged(w, p) ==
    /\ phase[w] = "poll"
    /\ assigned[p] = w
    /\ position[p] < Len(log[p])
    /\ log[p][position[p] + 1] = Poison
    /\ position' = [position EXCEPT ![p] = @ + 1]
    /\ failed' = failed \cup {<<p, position[p] + 1>>}
    /\ UNCHANGED <<producerVars, assigned, committed, phase, current, tries,
                   processed, persisted, faults>>

\* poll() returns a value that json.loads or .get refuses: this is outside
\* the inner try, so the loop ends and the consumer is closed.
PollPoison(w, p) ==
    /\ phase[w] = "poll"
    /\ assigned[p] = w
    /\ position[p] < Len(log[p])
    /\ log[p][position[p] + 1] = Poison
    /\ position' = [position EXCEPT ![p] = @ + 1]
    /\ Leave(w)
    /\ UNCHANGED <<producerVars, committed, processed, persisted, failed,
                   faults>>

\* is_content_processed finds the key of the content's hash.
Duplicate(w) ==
    /\ phase[w] = "check"
    /\ ContentOf(current[w]) \in processed
    /\ Goto(w, "commit")
    /\ UNCHANGED <<producerVars, assigned, committed, position, current,
                   tries, processed, persisted, failed, faults>>

\* It finds none.
New(w) ==
    /\ phase[w] = "check"
    /\ ContentOf(current[w]) \notin processed
    /\ Goto(w, "extract")
    /\ UNCHANGED <<producerVars, assigned, committed, position, current,
                   tries, processed, persisted, failed, faults>>

\* It cannot reach Redis: the content counts as not processed.
CheckFails(w) ==
    /\ phase[w] = "check"
    /\ Fault
    /\ Goto(w, "extract")
    /\ UNCHANGED <<producerVars, assigned, committed, position, current,
                   tries, processed, persisted, failed>>

\* Mutant of Extract: the content is marked before it is persisted.
ExtractMarks(w) ==
    /\ phase[w] = "extract"
    /\ processed' = processed \cup {ContentOf(current[w])}
    /\ Goto(w, "insert")
    /\ UNCHANGED <<producerVars, assigned, committed, position, current,
                   tries, persisted, failed, faults>>

\* process_message_with_recovery returns an extraction.
Extract(w) ==
    /\ phase[w] = "extract"
    /\ Goto(w, "insert")
    /\ UNCHANGED <<producerVars, assigned, committed, position, current,
                   tries, processed, persisted, failed, faults>>

\* Mutant of ExtractAgain: one attempt too many.
ExtractOnceMore(w) ==
    /\ phase[w] = "extract"
    /\ tries[w] < MaxRetries
    /\ tries' = [tries EXCEPT ![w] = @ + 1]
    /\ UNCHANGED <<producerVars, assigned, committed, position, phase,
                   current, processed, persisted, failed, faults>>

\* The answer fails the schema: ask again, with the errors in the prompt.
ExtractAgain(w) ==
    /\ phase[w] = "extract"
    /\ tries[w] + 1 < MaxRetries
    /\ tries' = [tries EXCEPT ![w] = @ + 1]
    /\ UNCHANGED <<producerVars, assigned, committed, position, phase,
                   current, processed, persisted, failed, faults>>

\* The last attempt fails the schema, any attempt fails otherwise, or the
\* content is no text and its hash cannot be taken: nothing has changed yet.
ExtractFails(w) ==
    /\ phase[w] = "extract"
    /\ GiveUp(w)
    /\ UNCHANGED <<producerVars, assigned, committed, position, processed,
                   persisted, faults>>

\* insert_to_neo4j returns.
Insert(w) ==
    /\ phase[w] = "insert"
    /\ persisted' = persisted \cup {ContentOf(current[w])}
    /\ Goto(w, "mark")
    /\ UNCHANGED <<producerVars, assigned, committed, position, current,
                   tries, processed, failed, faults>>

\* insert_to_neo4j raises; the transaction may have been applied.
InsertFails(w) ==
    /\ phase[w] = "insert"
    /\ persisted' \in {persisted, persisted \cup {ContentOf(current[w])}}
    /\ GiveUp(w)
    /\ UNCHANGED <<producerVars, assigned, committed, position, processed,
                   faults>>

\* mark_content_processed: SETEX with a day to live.
Mark(w) ==
    /\ phase[w] = "mark"
    /\ processed' = processed \cup {ContentOf(current[w])}
    /\ Goto(w, "commit")
    /\ UNCHANGED <<producerVars, assigned, committed, position, current,
                   tries, persisted, failed, faults>>

\* Its error is logged and dropped.
MarkFails(w) ==
    /\ phase[w] = "mark"
    /\ Fault
    /\ Goto(w, "commit")
    /\ UNCHANGED <<producerVars, assigned, committed, position, current,
                   tries, processed, persisted, failed>>

IsMember(w) == \E p \in Partitions : assigned[p] = w

\* The offsets after a commit of w: everything it has polled.
CommittedBy(w) ==
    [p \in Partitions |->
        IF assigned[p] = w THEN position[p] ELSE committed[p]]

\* consumer.commit(asynchronous=False)
Commit(w) ==
    /\ phase[w] = "commit"
    /\ IsMember(w)
    /\ committed' = CommittedBy(w)
    /\ NextMessage(w)
    /\ UNCHANGED <<producerVars, assigned, position, processed, persisted,
                   failed, faults>>

\* The group has gone on without w: commit() raises.
CommitRefused(w) ==
    /\ phase[w] = "commit"
    /\ ~IsMember(w)
    /\ GiveUp(w)
    /\ UNCHANGED <<producerVars, assigned, committed, position, processed,
                   persisted, faults>>

\* commit() raises although w is a member; it may have been applied.
CommitFails(w) ==
    /\ phase[w] = "commit"
    /\ IsMember(w)
    /\ Fault
    /\ committed' \in {committed, CommittedBy(w)}
    /\ GiveUp(w)
    /\ UNCHANGED <<producerVars, assigned, position, processed, persisted>>

\* poll() returns an error other than the end of a partition: the loop ends.
PollError(w) ==
    /\ phase[w] = "poll"
    /\ Fault
    /\ Leave(w)
    /\ UNCHANGED <<producerVars, committed, position, processed, persisted,
                   failed>>

---------------------------------------------------------------------------
\* The environment.

\* The process of w dies; a transaction it has sent may be applied.
Crash(w) ==
    /\ phase[w] # "down"
    /\ Fault
    /\ Leave(w)
    /\ IF phase[w] = "insert"
         THEN persisted' \in {persisted, persisted \cup {ContentOf(current[w])}}
         ELSE UNCHANGED persisted
    /\ UNCHANGED <<producerVars, committed, position, processed, failed>>

Restart(w) ==
    /\ phase[w] = "down"
    /\ Goto(w, "poll")
    /\ UNCHANGED <<producerVars, assigned, committed, position, current,
                   tries, processed, persisted, failed, faults>>

\* The group takes w's partitions: a rebalance, or w took too long to poll.
Revoke(w) ==
    /\ IsMember(w)
    /\ Fault
    /\ assigned' = [p \in Partitions |->
                      IF assigned[p] = w THEN NoWorker ELSE assigned[p]]
    /\ UNCHANGED <<producerVars, committed, position, phase, current, tries,
                   processed, persisted, failed>>

\* Mutant of Assign: auto.offset.reset=latest.
AssignLatest(p, w) ==
    /\ assigned[p] = NoWorker
    /\ phase[w] = "poll"
    /\ assigned' = [assigned EXCEPT ![p] = w]
    /\ position' = [position EXCEPT
                      ![p] = IF committed[p] = 0 THEN Len(log[p]) ELSE committed[p]]
    /\ UNCHANGED <<producerVars, committed, phase, current, tries, processed,
                   persisted, failed, faults>>

\* A member receives a partition, inside poll(), and reads on from the
\* committed offset, or from the start if there is none
\* (auto.offset.reset=earliest).
Assign(p, w) ==
    /\ assigned[p] = NoWorker
    /\ phase[w] = "poll"
    /\ assigned' = [assigned EXCEPT ![p] = w]
    /\ position' = [position EXCEPT ![p] = committed[p]]
    /\ UNCHANGED <<producerVars, committed, phase, current, tries, processed,
                   persisted, failed, faults>>

\* A mark's day is over.
ExpireMark(x) ==
    /\ x \in processed
    /\ Fault
    /\ processed' = processed \ {x}
    /\ UNCHANGED <<producerVars, assigned, committed, position, phase,
                   current, tries, persisted, failed>>

---------------------------------------------------------------------------
Step(w) ==
    \/ \E p \in Partitions : Poll(w, p) \/ PollPoison(w, p)
    \/ PollNothing(w)
    \/ Duplicate(w) \/ New(w)
    \/ Extract(w) \/ ExtractAgain(w) \/ ExtractFails(w)
    \/ Insert(w) \/ InsertFails(w)
    \/ Mark(w)
    \/ Commit(w) \/ CommitRefused(w)

Faults(w) ==
    \/ CheckFails(w) \/ MarkFails(w) \/ CommitFails(w) \/ PollError(w)
    \/ Crash(w) \/ Revoke(w)

Next ==
    \/ \E w \in Workers : Step(w) \/ Faults(w) \/ Restart(w)
    \/ \E p \in Partitions, w \in Workers : Assign(p, w)
    \/ \E x \in Contents : ExpireMark(x)
    \/ ProducerNext /\ UNCHANGED workerVars

Spec == Init /\ [][Next]_vars

\* The producer goes on and its library delivers, each worker goes on with its
\* loop, dead ones are restarted and the group hands out every partition.
Fairness ==
    /\ WF_vars(ProducerSteps /\ UNCHANGED workerVars)
    /\ \A w \in Workers : WF_vars(Step(w)) /\ WF_vars(Restart(w))
    /\ \A p \in Partitions : WF_vars(\E w \in Workers : Assign(p, w))

FairSpec == Spec /\ Fairness

---------------------------------------------------------------------------
\* Types; a worker has a message exactly while it works on one.
WorkerTypeOK ==
    /\ assigned \in [Partitions -> Workers \cup {NoWorker}]
    /\ \A p \in Partitions :
          committed[p] \in 0..Len(log[p]) /\ position[p] \in 0..Len(log[p])
    /\ phase \in [Workers -> Phases]
    /\ \A w \in Workers :
          IF phase[w] \in {"poll", "down"} THEN current[w] = NoMessage
                                         ELSE current[w] \in Messages
    /\ tries \in [Workers -> 0..(MaxRetries - 1)]
    /\ processed \subseteq Contents
    /\ persisted \subseteq Contents
    /\ failed \subseteq Messages
    /\ faults \in 0..MaxFaults

\* A committed message was persisted, unless an attempt to process it had
\* raised: neither a crash nor a rebalance nor the commit of another message
\* makes the group pass a message that nobody tried (worker.py:192-204).
OnlyFailuresAreSkipped ==
    \A m \in Messages :
        m[2] <= committed[m[1]] =>
           m \in failed \/ (ContentOf(m) # Poison /\ ContentOf(m) \in persisted)

\* A content marked as processed is in the graph, so that skipping its
\* duplicates loses nothing (worker.py:184-198).
MarkedIsPersisted == \A x \in processed : x \in persisted

\* No commit passes a message that cannot be decoded: every worker that
\* polls it ends there, and the chunks behind it wait (worker.py:176).
PoisonBlocks ==
    \A m \in Messages : ContentOf(m) = Poison => committed[m[1]] < m[2]

\* From the document to the graph: once ingest_document has returned, every
\* chunk of it is persisted, or an error was logged for it by the producer or
\* by a worker, whatever crashes and rebalances come in between, unless a
\* partition holds a message that cannot be decoded.
EveryChunkTried ==
    \A i \in Chunks :
        Returned /\ (\A p \in Partitions : Poison \notin Range(log[p])) ~>
           \/ Document[i] \in persisted
           \/ i \in reported
           \/ \E m \in failed : ContentOf(m) = Document[i]

\* A committed chunk is in the graph (worker.py:150, 157).
CommittedIsPersisted ==
    \A m \in Messages :
        m[2] <= committed[m[1]] => ContentOf(m) \in persisted
===========================================================================
