----------------------------- MODULE AlarmIngest -----------------------------
(***************************************************************************)
(* The alarm stream: one partition of the Kafka topic, the event-gateway   *)
(* that drains it and the rca-agent it posts every alarm to.               *)
(*                                                                         *)
(* Two loops of the gateway share a bounded queue.  _SyncAdapter._poll_loop *)
(* fetches records on a thread of its own and buffers them; the loop of    *)
(* the application polls the queue, posts what it got record by record     *)
(* and commits.  The commit names no offset, so the broker is told the     *)
(* position of the fetching loop and not what was posted.  Fetching,       *)
(* committing and buffering all run on one event loop: no commit falls     *)
(* between the fetch of a record and its way into the queue.               *)
(*                                                                         *)
(* The consumer is built without enable_auto_commit, whose default makes   *)
(* the client library commit by itself from time to time and when it is    *)
(* stopped.  The group is taken to have committed before.                  *)
(***************************************************************************)
EXTENDS Sequences, Integers

CONSTANTS MaxRecords,    \* bound: records produced
          BatchMax,      \* records poll returns and drain_batch handles at most
          MaxRestarts,   \* bound: restarts of the gateway
          Streams        \* the ways the stream may be set up and go, see below

(* queue is _BATCH_QUEUE_MAX, autoCommits the library's default for        *)
(* enable_auto_commit, restarts whether the gateway and the rca-agent may  *)
(* go down.                                                                *)
ASSUME StreamBounds ==
    MaxRecords \in Nat /\ MaxRestarts \in Nat /\ BatchMax \in Nat \ {0}
ASSUME StreamsAssumption ==
    Streams \subseteq [queue : Nat \ {0}, autoCommits : BOOLEAN, restarts : BOOLEAN]

(* Bytes that are no UTF-8 never enter the queue; a text that is no alarm  *)
(* is found out when it is parsed.                                         *)
Kind == {"alarm", "unparsable", "undecodable"}

VARIABLES stream,     \* the deployment this is
          topic,      \* what was produced: the kind of each record
          position,   \* records fetched by this life of the consumer's loop
          committed,  \* the group's offset at the broker
          buffer,     \* the queue between the loops: offsets
          batch,      \* what drain_batch has polled and not looked at
          phase,      \* is a drain_batch in progress?
          forwarded,  \* has this batch had an answer?
          received,   \* posts the rca-agent took: <<[offset, life], ...>>
          up,         \* is the rca-agent up?
          generation  \* restarts of the gateway so far

gateway == <<stream, position, buffer, batch, phase, forwarded, generation>>
streamVars == <<gateway, topic, committed, received, up>>

Offset == 1 .. MaxRecords

StreamInit ==
    /\ stream \in Streams
    /\ topic = << >> /\ position = 0 /\ committed = 0
    /\ buffer = << >> /\ batch = << >> /\ phase = "idle" /\ forwarded = FALSE
    /\ received = << >> /\ up = TRUE /\ generation = 0

-----------------------------------------------------------------------------
Produce(kind) ==
    /\ Len(topic) < MaxRecords
    /\ topic' = Append(topic, kind)
    /\ UNCHANGED <<gateway, committed, received, up>>

(* getmany and put_nowait, one record at a time: a batch of the library is *)
(* several of these.  A full queue raises and the record is passed over.   *)
FetchStopping ==   \* mutant: a record that cannot be decoded ends the loop of fetches
    /\ position < Len(topic) /\ topic[position + 1] # "undecodable"
    /\ position' = position + 1
    /\ buffer' = IF Len(buffer) = stream.queue THEN buffer ELSE Append(buffer, position')
    /\ UNCHANGED <<stream, batch, phase, forwarded, generation, topic, committed, received, up>>

Fetch ==
    /\ position < Len(topic)
    /\ position' = position + 1
    /\ buffer' = IF topic[position'] = "undecodable" \/ Len(buffer) = stream.queue
                 THEN buffer ELSE Append(buffer, position')
    /\ UNCHANGED <<stream, batch, phase, forwarded, generation, topic, committed, received, up>>

(* poll takes what is there and what arrives meanwhile, up to a batch.     *)
BatchSize == IF Len(buffer) < BatchMax THEN Len(buffer) ELSE BatchMax

Poll ==
    /\ phase = "idle" /\ buffer # << >>
    /\ batch' = SubSeq(buffer, 1, BatchSize)
    /\ buffer' = SubSeq(buffer, BatchSize + 1, Len(buffer))
    /\ phase' = "draining" /\ forwarded' = FALSE
    /\ UNCHANGED <<stream, position, generation, topic, committed, received, up>>

-----------------------------------------------------------------------------
(* drain_batch, a record at a time; any exception drops the record at hand *)
(* and goes on with the next.                                              *)
Take == /\ phase = "draining" /\ batch # << >>
        /\ batch' = Tail(batch)
        /\ UNCHANGED <<stream, position, buffer, phase, generation, topic, committed, up>>

Receive == received' = Append(received, [offset |-> Head(batch), life |-> generation])

Skip == /\ Take /\ topic[Head(batch)] = "unparsable"
        /\ UNCHANGED <<forwarded, received>>

Post == /\ Take /\ topic[Head(batch)] = "alarm" /\ up
        /\ Receive /\ forwarded' = TRUE

(* The alarm was stored but the answer took longer than the timeout.       *)
PostAgain ==   \* mutant: a post without an answer is repeated
    /\ phase = "draining" /\ batch # << >> /\ topic[Head(batch)] = "alarm" /\ up
    /\ Receive
    /\ UNCHANGED <<gateway, topic, committed, up>>
PostUnanswered == /\ Take /\ topic[Head(batch)] = "alarm" /\ up
                  /\ Receive /\ UNCHANGED forwarded

PostFails == /\ Take /\ topic[Head(batch)] = "alarm" /\ ~up
             /\ UNCHANGED <<forwarded, received>>

(* The commit after a batch with at least one answer; best effort.         *)
FinishBatch ==
    /\ phase = "draining" /\ batch = << >>
    /\ phase' = "idle"
    /\ committed' \in IF forwarded THEN {position, committed} ELSE {committed}
    /\ UNCHANGED <<stream, position, buffer, batch, forwarded, generation, topic, received, up>>

-----------------------------------------------------------------------------
(* The library's own commits, periodic and when the consumer is stopped.   *)
AutoCommit ==
    /\ stream.autoCommits
    /\ committed' = position
    /\ UNCHANGED <<gateway, topic, received, up>>

RestartGateway ==
    /\ stream.restarts /\ generation < MaxRestarts
    /\ generation' = generation + 1
    /\ position' = committed'
    /\ buffer' = << >> /\ batch' = << >> /\ phase' = "idle" /\ forwarded' = FALSE
    /\ UNCHANGED <<stream, topic, received, up>>

Crash == UNCHANGED committed /\ RestartGateway

(* The lifespan ends: the task is cancelled at its only await, between two *)
(* batches, and close() stops the consumer, which commits.                 *)
Shutdown == /\ phase = "idle" /\ stream.autoCommits
            /\ committed' = position
            /\ RestartGateway

RcaDown == /\ stream.restarts /\ up
           /\ up' = FALSE
           /\ UNCHANGED <<gateway, topic, committed, received>>
RcaUp == /\ ~up
         /\ up' = TRUE
         /\ UNCHANGED <<gateway, topic, committed, received>>

Forward == Skip \/ Post \/ PostUnanswered \/ PostFails

StreamNext == \/ \E kind \in Kind : Produce(kind)
              \/ Fetch \/ Poll \/ Forward \/ FinishBatch
              \/ AutoCommit \/ Crash \/ Shutdown \/ RcaDown \/ RcaUp

StreamSpec == StreamInit /\ [][StreamNext]_streamVars

(* Both loops run until the process ends: "while not stop", "while True".  *)
FairStreamSpec == /\ StreamSpec
                  /\ WF_streamVars(Fetch) /\ WF_streamVars(Poll)
                  /\ WF_streamVars(Forward) /\ WF_streamVars(FinishBatch)

-----------------------------------------------------------------------------
Alarms == {o \in 1 .. Len(topic) : topic[o] = "alarm"}
Received(o) == \E i \in 1 .. Len(received) : received[i].offset = o

(* Nobody goes down and the queue has room for everything.                 *)
Calm == ~stream.restarts /\ stream.queue >= MaxRecords

(* The rca-agent is posted an alarm once per life of the gateway, timeouts *)
(* and failures never repeat one, and between restarts alarms arrive in    *)
(* the order of the topic, whatever was dropped in between and wherever the*)
(* two loops are.                                                          *)
OncePerLifeInOrder ==
    \A i, j \in 1 .. Len(received) :
        i < j /\ received[i].life = received[j].life => received[i].offset < received[j].offset

(* No record stalls the partition (drain_batch's docstring): behind any    *)
(* number of malformed ones an alarm arrives, and none is lost on its way  *)
(* from the topic to the rca-agent ("forwards each alarm", README.md).     *)
AlarmsArrive == \A o \in Offset : Calm /\ o \in Alarms ~> Received(o)
=============================================================================
