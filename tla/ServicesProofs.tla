---------------------------- MODULE ServicesProofs ----------------------------
(***************************************************************************)
(* Proofs about four services around the platform, which share nothing:    *)
(* the alarm stream (AlarmIngest), the invocation of tools                 *)
(* (ToolInvocation), the answers of the knowledge base (KnowledgeAnswers)  *)
(* and the way from incidents to knowledge (IncidentPipeline).             *)
(***************************************************************************)
EXTENDS AlarmIngest, ToolInvocation, KnowledgeAnswers, IncidentPipeline, FiniteSetTheorems,
        SequenceTheorems, WellFoundedInduction, TLAPS

-----------------------------------------------------------------------------
(* THE ALARM STREAM, for a topic, a queue and batches of any length, any   *)
(* number of restarts of the gateway, and every interleaving of its two    *)
(* loops with the library's own commits.                                   *)
PostRecord == [offset : Nat, life : Nat]

DataOK == /\ stream \in Streams
          /\ topic \in Seq(Kind)
          /\ position \in Nat /\ committed \in Nat /\ generation \in Nat
          /\ buffer \in Seq(Nat) /\ batch \in Seq(Nat)
          /\ received \in Seq(PostRecord)
FlagsOK == phase \in {"idle", "draining"} /\ forwarded \in BOOLEAN /\ up \in BOOLEAN
StreamTypeOK == DataOK /\ FlagsOK

Ascending(s) == \A i, j \in 1 .. Len(s) : i < j => s[i] < s[j]
Within(s, n) == \A i \in 1 .. Len(s) : s[i] \in 1 .. n
(* Every element of s comes before every element of t.                     *)
Before(s, t) == \A i \in 1 .. Len(s), j \in 1 .. Len(t) : s[i] < t[j]
(* What this life has posted comes before every element of s ...           *)
PostedBefore(posts, l, s) ==
    \A i \in 1 .. Len(posts), j \in 1 .. Len(s) : posts[i].life = l => posts[i].offset < s[j]
(* ... and was fetched by it; no post is of a life to come.                *)
PostedBy(posts, l, n) ==
    \A i \in 1 .. Len(posts) : posts[i].life <= l /\ (posts[i].life = l => posts[i].offset <= n)
InOrder(posts) ==
    \A i, j \in 1 .. Len(posts) :
        i < j /\ posts[i].life = posts[j].life => posts[i].offset < posts[j].offset

(* What is on its way is in the order of the log: first what this life has *)
(* posted, then the batch, then the queue, then what is not fetched.       *)
Pipeline == /\ committed <= position /\ position <= Len(topic)
            /\ Ascending(buffer) /\ Within(buffer, position)
            /\ Ascending(batch) /\ Within(batch, position)
            /\ Before(batch, buffer)
            /\ PostedBefore(received, generation, batch)
            /\ PostedBefore(received, generation, buffer)
            /\ PostedBy(received, generation, position)
            /\ InOrder(received)

IngestInv == DataOK /\ Pipeline

-----------------------------------------------------------------------------
(* How the order survives what the loops do to the queue and the batch.    *)
LEMMA NatSeq ==
    ASSUME NEW s \in Seq(Nat)
    PROVE  Len(s) \in Nat /\ \A i \in 1 .. Len(s) : s[i] \in Nat
  OBVIOUS

LEMMA PostSeq ==
    ASSUME NEW posts \in Seq(PostRecord)
    PROVE  /\ Len(posts) \in Nat
           /\ \A i \in 1 .. Len(posts) : posts[i].offset \in Nat /\ posts[i].life \in Nat
  <1>1. Len(posts) \in Nat /\ \A i \in 1 .. Len(posts) : posts[i] \in PostRecord
    OBVIOUS
  <1> QED BY <1>1 DEF PostRecord

LEMMA NothingIsInOrder ==
    ASSUME NEW posts, NEW l, NEW n, NEW s
    PROVE  /\ << >> \in Seq(Nat) /\ Ascending(<< >>) /\ Within(<< >>, n)
           /\ Before(<< >>, s) /\ Before(s, << >>)
           /\ PostedBefore(posts, l, << >>)
  BY DEF Ascending, Within, Before, PostedBefore

LEMMA AppendInOrder ==
    ASSUME NEW s \in Seq(Nat), NEW n \in Nat, Ascending(s), Within(s, n)
    PROVE  /\ Append(s, n + 1) \in Seq(Nat)
           /\ Ascending(Append(s, n + 1)) /\ Within(Append(s, n + 1), n + 1)
  BY SMTT(30) DEF Ascending, Within

LEMMA BehindAppended ==
    ASSUME NEW s \in Seq(Nat), NEW t \in Seq(Nat), NEW n \in Nat, Within(s, n), Before(s, t)
    PROVE  Before(s, Append(t, n + 1))
  <1>1. \A i \in 1 .. Len(s) : s[i] \in 1 .. n
    BY DEF Within
  <1>2. ASSUME NEW i \in 1 .. Len(s), NEW j \in 1 .. Len(Append(t, n + 1))
        PROVE  s[i] < Append(t, n + 1)[j]
    <2>1. CASE j \in 1 .. Len(t)
      BY SMTT(30), <1>1, <2>1 DEF Before
    <2>2. CASE j \notin 1 .. Len(t)
      <3>1. /\ Len(t) \in Nat
            /\ Len(Append(t, n + 1)) = Len(t) + 1
            /\ Append(t, n + 1)[Len(t) + 1] = n + 1
        OBVIOUS
      <3>2. j = Len(t) + 1
        BY SMTT(30), <2>2, <3>1
      <3>3. s[i] \in 1 .. n
        BY <1>1
      <3> QED BY <3>1, <3>2, <3>3
    <2> QED BY <2>1, <2>2
  <1> QED BY <1>2 DEF Before

LEMMA PostedBehindAppended ==
    ASSUME NEW posts \in Seq(PostRecord), NEW l \in Nat, NEW n \in Nat, NEW s \in Seq(Nat),
           PostedBefore(posts, l, s), PostedBy(posts, l, n)
    PROVE  PostedBefore(posts, l, Append(s, n + 1))
  BY SMTT(30), PostSeq DEF PostedBefore, PostedBy

LEMMA WithinGrows ==
    ASSUME NEW s \in Seq(Nat), NEW n \in Nat, Within(s, n)
    PROVE  Within(s, n + 1)
  BY NatSeq DEF Within

LEMMA PostedByGrows ==
    ASSUME NEW posts \in Seq(PostRecord), NEW l \in Nat, NEW n \in Nat, PostedBy(posts, l, n)
    PROVE  PostedBy(posts, l, n + 1)
  BY PostSeq DEF PostedBy

LEMMA TailInOrder ==
    ASSUME NEW s \in Seq(Nat), s # << >>, NEW t \in Seq(Nat), NEW n \in Nat,
           NEW posts \in Seq(PostRecord), NEW l \in Nat,
           Ascending(s), Within(s, n), Before(s, t), PostedBefore(posts, l, s)
    PROVE  /\ Tail(s) \in Seq(Nat) /\ Ascending(Tail(s)) /\ Within(Tail(s), n)
           /\ Before(Tail(s), t) /\ PostedBefore(posts, l, Tail(s))
           /\ Head(s) \in 1 .. n
           /\ \A i \in 1 .. Len(Tail(s)) : Head(s) < Tail(s)[i]
           /\ \A i \in 1 .. Len(t) : Head(s) < t[i]
           /\ \A i \in 1 .. Len(posts) : posts[i].life = l => posts[i].offset < Head(s)
  <1>1. /\ Tail(s) \in Seq(Nat) /\ Len(s) \in Nat \ {0} /\ Len(Tail(s)) = Len(s) - 1
        /\ \A i \in 1 .. Len(Tail(s)) : Tail(s)[i] = s[i + 1]
        /\ Head(s) = s[1]
    OBVIOUS
  <1> HIDE DEF PostRecord
  <1>2. Ascending(Tail(s)) /\ \A i \in 1 .. Len(Tail(s)) : Head(s) < Tail(s)[i]
    BY <1>1 DEF Ascending
  <1>3. Within(Tail(s), n) /\ Head(s) \in 1 .. n
    BY <1>1 DEF Within
  <1>4. Before(Tail(s), t) /\ \A i \in 1 .. Len(t) : Head(s) < t[i]
    BY SMTT(30), <1>1 DEF Before
  <1>5. /\ PostedBefore(posts, l, Tail(s))
        /\ \A i \in 1 .. Len(posts) : posts[i].life = l => posts[i].offset < Head(s)
    <2>1. 1 \in 1 .. Len(s) /\ \A j \in 1 .. Len(Tail(s)) : j + 1 \in 1 .. Len(s)
      BY <1>1
    <2> QED BY <2>1, <1>1 DEF PostedBefore
  <1> QED BY <1>1, <1>2, <1>3, <1>4, <1>5

(* t is a stretch of s, behind its first k elements.                       *)
Stretch(s, t, k) == /\ Len(s) \in Nat /\ Len(t) \in Nat /\ k \in Nat /\ k + Len(t) <= Len(s)
                    /\ \A i \in 1 .. Len(s) : s[i] \in Nat
                    /\ \A i \in 1 .. Len(t) : t[i] = s[k + i]

LEMMA StretchInOrder ==
    ASSUME NEW s, NEW t, NEW k, NEW n \in Nat, NEW posts, NEW l, Stretch(s, t, k),
           Ascending(s), Within(s, n), PostedBefore(posts, l, s)
    PROVE  Ascending(t) /\ Within(t, n) /\ PostedBefore(posts, l, t)
  <1>1. \A i \in 1 .. Len(t) : k + i \in 1 .. Len(s)
    BY DEF Stretch
  <1>2. \A i, j \in 1 .. Len(t) : i < j => k + i < k + j
    BY DEF Stretch
  <1>3. Ascending(t)
    BY <1>1, <1>2 DEF Stretch, Ascending
  <1>4. Within(t, n)
    BY <1>1 DEF Stretch, Within
  <1>5. PostedBefore(posts, l, t)
    BY <1>1 DEF Stretch, PostedBefore
  <1> QED BY <1>3, <1>4, <1>5

LEMMA StretchesInOrder ==
    ASSUME NEW s, NEW t, NEW u, NEW k, Stretch(s, t, 0), Stretch(s, u, k), Len(t) <= k, Ascending(s)
    PROVE  Before(t, u)
  <1> SUFFICES ASSUME NEW i \in 1 .. Len(t), NEW j \in 1 .. Len(u) PROVE t[i] < u[j]
    BY DEF Before
  <1>1. t[i] = s[i] /\ u[j] = s[k + j] /\ i \in 1 .. Len(s) /\ k + j \in 1 .. Len(s) /\ i < k + j
    BY DEF Stretch
  <1> QED BY <1>1 DEF Ascending

LEMMA SplitSeq ==
    ASSUME NEW s \in Seq(Nat), NEW m \in 0 .. Len(s)
    PROVE  /\ SubSeq(s, 1, m) \in Seq(Nat) /\ Stretch(s, SubSeq(s, 1, m), 0)
           /\ SubSeq(s, m + 1, Len(s)) \in Seq(Nat) /\ Stretch(s, SubSeq(s, m + 1, Len(s)), m)
           /\ Len(SubSeq(s, 1, m)) <= m
  BY DEF Stretch

-----------------------------------------------------------------------------
LEMMA IngestInitInv == StreamInit => IngestInv
  <1> SUFFICES ASSUME StreamInit PROVE IngestInv
    OBVIOUS
  <1>1. DataOK
    BY DEF StreamInit, DataOK
  <1>2. Pipeline
    BY NothingIsInOrder DEF StreamInit, Pipeline, PostedBefore, PostedBy, InOrder
  <1> QED BY <1>1, <1>2 DEF IngestInv

(* Fetch: the record at the position enters the queue or is passed over.   *)
LEMMA FetchKeepsInv ==
    ASSUME IngestInv, Fetch PROVE IngestInv'
  <1>1. /\ position' = position + 1 /\ position + 1 <= Len(topic)
        /\ UNCHANGED <<stream, batch, generation, topic, committed, received>>
        /\ buffer' = buffer \/ buffer' = Append(buffer, position + 1)
    BY DEF Fetch, IngestInv, DataOK
  <1>2. /\ position \in Nat /\ generation \in Nat /\ received \in Seq(PostRecord)
        /\ buffer \in Seq(Nat) /\ batch \in Seq(Nat)
    BY DEF IngestInv, DataOK
  <1>3. /\ buffer' \in Seq(Nat) /\ Ascending(buffer') /\ Within(buffer', position + 1)
    BY <1>1, <1>2, AppendInOrder, WithinGrows DEF IngestInv, Pipeline
  <1>4. Within(batch, position + 1) /\ PostedBy(received, generation, position + 1)
    BY <1>2, WithinGrows, PostedByGrows DEF IngestInv, Pipeline
  <1>5. Before(batch, buffer') /\ PostedBefore(received, generation, buffer')
    BY <1>1, <1>2, BehindAppended, PostedBehindAppended DEF IngestInv, Pipeline
  <1>6. DataOK'
    BY <1>1, <1>3 DEF IngestInv, DataOK
  <1>7. committed' <= position'
    BY <1>1 DEF IngestInv, DataOK, Pipeline
  <1> QED BY <1>1, <1>3, <1>4, <1>5, <1>6, <1>7 DEF IngestInv, Pipeline

LEMMA PollKeepsInv ==
    ASSUME IngestInv, Poll PROVE IngestInv'
  <1>1. /\ batch' = SubSeq(buffer, 1, BatchSize)
        /\ buffer' = SubSeq(buffer, BatchSize + 1, Len(buffer))
        /\ UNCHANGED <<stream, position, generation, topic, committed, received>>
    BY DEF Poll
  <1>2. /\ position \in Nat /\ buffer \in Seq(Nat)
    BY DEF IngestInv, DataOK
  <1>3. BatchSize \in 0 .. Len(buffer)
    BY <1>2, StreamBounds DEF BatchSize
  <1>4. /\ batch' \in Seq(Nat) /\ Stretch(buffer, batch', 0) /\ Len(batch') <= BatchSize
        /\ buffer' \in Seq(Nat) /\ Stretch(buffer, buffer', BatchSize)
    BY <1>1, <1>2, <1>3, SplitSeq
  <1>5. /\ Ascending(batch') /\ Within(batch', position) /\ PostedBefore(received, generation, batch')
        /\ Ascending(buffer') /\ Within(buffer', position) /\ PostedBefore(received, generation, buffer')
    BY <1>2, <1>4, StretchInOrder DEF IngestInv, Pipeline
  <1>6. Before(batch', buffer')
    BY <1>4, StretchesInOrder DEF IngestInv, Pipeline
  <1> QED BY <1>1, <1>4, <1>5, <1>6 DEF IngestInv, DataOK, Pipeline

(* Of the batch's first record, taken and dropped or posted.               *)
LEMMA ForwardKeepsInv ==
    ASSUME IngestInv, Forward PROVE IngestInv'
  <1>1. /\ batch # << >> /\ batch' = Tail(batch)
        /\ UNCHANGED <<stream, position, buffer, generation, topic, committed>>
        /\ received' = received \/ received' = Append(received, [offset |-> Head(batch), life |-> generation])
    BY DEF Forward, Skip, Post, PostUnanswered, PostFails, Take, Receive
  <1>2. /\ position \in Nat /\ generation \in Nat /\ received \in Seq(PostRecord)
        /\ buffer \in Seq(Nat) /\ batch \in Seq(Nat)
    BY DEF IngestInv, DataOK
  <1>3. /\ batch' \in Seq(Nat) /\ Ascending(batch') /\ Within(batch', position)
        /\ Before(batch', buffer) /\ PostedBefore(received, generation, batch')
        /\ Head(batch) \in 1 .. position
        /\ \A i \in 1 .. Len(batch') : Head(batch) < batch'[i]
        /\ \A i \in 1 .. Len(buffer) : Head(batch) < buffer[i]
        /\ \A i \in 1 .. Len(received) : received[i].life = generation => received[i].offset < Head(batch)
    BY <1>1, <1>2, TailInOrder DEF IngestInv, Pipeline
  <1>4. CASE received' = received
    BY <1>1, <1>3, <1>4 DEF IngestInv, DataOK, Pipeline
  <1>5. CASE received' = Append(received, [offset |-> Head(batch), life |-> generation])
    <2> DEFINE post == [offset |-> Head(batch), life |-> generation]
    <2>1. post \in PostRecord
      BY <1>2, <1>3 DEF PostRecord
    <2>2. /\ received' \in Seq(PostRecord) /\ Len(received) \in Nat
          /\ Len(received') = Len(received) + 1
          /\ \A i \in 1 .. Len(received) : received'[i] = received[i]
          /\ received'[Len(received) + 1] = post
      BY <1>2, <1>5, <2>1
    <2>3. \A i \in 1 .. Len(received') : received'[i] = post \/
              (i \in 1 .. Len(received) /\ received'[i] = received[i])
      BY <2>2
    <2>4. ASSUME NEW t, PostedBefore(received, generation, t), \A j \in 1 .. Len(t) : Head(batch) < t[j]
          PROVE  PostedBefore(received', generation, t)
      BY <2>3, <2>4 DEF PostedBefore
    <2>5. PostedBy(received', generation, position)
      <3> SUFFICES ASSUME NEW i \in 1 .. Len(received')
                   PROVE  /\ received'[i].life <= generation
                          /\ received'[i].life = generation => received'[i].offset <= position
        BY DEF PostedBy
      <3>1. CASE received'[i] = post
        BY <1>2, <1>3, <3>1
      <3>2. CASE i \in 1 .. Len(received) /\ received'[i] = received[i]
        BY <3>2 DEF IngestInv, Pipeline, PostedBy
      <3> QED BY <2>3, <3>1, <3>2
    <2>6. InOrder(received')
      <3> SUFFICES ASSUME NEW i \in 1 .. Len(received'), NEW j \in 1 .. Len(received'), i < j,
                          received'[i].life = received'[j].life
                   PROVE  received'[i].offset < received'[j].offset
        BY DEF InOrder
      <3>1. i \in 1 .. Len(received) /\ received'[i] = received[i]
        BY <2>2
      <3>2. CASE j \in 1 .. Len(received)
        BY <2>2, <3>1, <3>2 DEF IngestInv, Pipeline, InOrder
      <3>3. CASE received'[j] = post
        BY <1>3, <3>1, <3>3
      <3> QED BY <2>3, <3>2, <3>3
    <2> QED BY <1>1, <1>3, <2>2, <2>4, <2>5, <2>6 DEF IngestInv, DataOK, Pipeline
  <1> QED BY <1>1, <1>4, <1>5

(* A new life has posted nothing yet, and goes on where the broker was     *)
(* told.                                                                   *)
LEMMA RestartGatewayKeepsInv ==
    ASSUME IngestInv, RestartGateway, committed' \in {committed, position} PROVE IngestInv'
  <1>1. /\ generation' = generation + 1 /\ position' = committed' /\ buffer' = << >> /\ batch' = << >>
        /\ UNCHANGED <<stream, topic, received>>
    BY DEF RestartGateway
  <1>2. DataOK'
    BY <1>1, NothingIsInOrder DEF IngestInv, DataOK
  <1>3. PostedBy(received, generation + 1, position')
    <2>1. generation \in Nat /\ received \in Seq(PostRecord)
      BY DEF IngestInv, DataOK
    <2>2. \A i \in 1 .. Len(received) : received[i].life \in Nat /\ received[i].life <= generation
      BY <2>1, PostSeq DEF IngestInv, Pipeline, PostedBy
    <2>3. \A i \in 1 .. Len(received) : /\ received[i].life <= generation + 1
                                        /\ received[i].life # generation + 1
      BY <2>1, <2>2
    <2> QED BY <2>3 DEF PostedBy
  <1>4. committed' <= position' /\ position' <= Len(topic)
    BY <1>1 DEF IngestInv, DataOK, Pipeline
  <1> QED BY <1>1, <1>2, <1>3, <1>4, NothingIsInOrder DEF IngestInv, Pipeline

LEMMA IngestKeepsInv == IngestInv /\ [StreamNext]_streamVars => IngestInv'
  <1> SUFFICES ASSUME IngestInv, [StreamNext]_streamVars PROVE IngestInv'
    OBVIOUS
  <1>1. ASSUME NEW kind \in Kind, Produce(kind) PROVE IngestInv'
    <2>1. topic' \in Seq(Kind) /\ Len(topic) \in Nat /\ Len(topic') = Len(topic) + 1
      BY <1>1 DEF Produce, IngestInv, DataOK
    <2>2. position <= Len(topic')
      BY <2>1 DEF IngestInv, DataOK, Pipeline
    <2> QED BY <1>1, <2>1, <2>2 DEF Produce, gateway, IngestInv, DataOK, Pipeline
  <1>2. CASE FinishBatch \/ AutoCommit
    <2>1. committed' \in {committed, position}
      BY <1>2 DEF FinishBatch, AutoCommit
    <2>2. committed' \in Nat /\ committed' <= position
      BY <2>1 DEF IngestInv, DataOK, Pipeline
    <2> QED BY <1>2, <2>2 DEF FinishBatch, AutoCommit, gateway, IngestInv, DataOK, Pipeline
  <1>3. CASE Crash \/ Shutdown
    BY <1>3, RestartGatewayKeepsInv DEF Crash, Shutdown
  <1>4. CASE RcaDown \/ RcaUp \/ UNCHANGED streamVars
    BY <1>4 DEF RcaDown, RcaUp, streamVars, gateway, IngestInv, DataOK, Pipeline
  <1> QED BY <1>1, <1>2, <1>3, <1>4, FetchKeepsInv, PollKeepsInv, ForwardKeepsInv DEF StreamNext

THEOREM IngestInvariant == StreamSpec => []IngestInv
  <1> QED BY IngestInitInv, IngestKeepsInv, PTL DEF StreamSpec

(* The variables of both loops have their types, wherever the loops are    *)
(* and however often the gateway was restarted.                            *)
THEOREM StreamTypesCorrect == StreamSpec => []StreamTypeOK
  <1>1. StreamInit => FlagsOK
    BY DEF StreamInit, FlagsOK
  <1>2. FlagsOK /\ [StreamNext]_streamVars => FlagsOK'
    <2> SUFFICES ASSUME FlagsOK, [StreamNext]_streamVars PROVE FlagsOK'
      OBVIOUS
    <2>1. phase' \in {"idle", "draining"}
      BY DEF FlagsOK, StreamNext, Produce, Fetch, Poll, Forward, Skip, Post, PostUnanswered, PostFails, Take,
             Receive, FinishBatch, AutoCommit, Crash, Shutdown, RestartGateway, RcaDown, RcaUp, streamVars, gateway
    <2>2. forwarded' \in BOOLEAN
      BY DEF FlagsOK, StreamNext, Produce, Fetch, Poll, Forward, Skip, Post, PostUnanswered, PostFails, Take,
             Receive, FinishBatch, AutoCommit, Crash, Shutdown, RestartGateway, RcaDown, RcaUp, streamVars, gateway
    <2>3. up' \in BOOLEAN
      BY DEF FlagsOK, StreamNext, Produce, Fetch, Poll, Forward, Skip, Post, PostUnanswered, PostFails, Take,
             Receive, FinishBatch, AutoCommit, Crash, Shutdown, RestartGateway, RcaDown, RcaUp, streamVars, gateway
    <2> QED BY <2>1, <2>2, <2>3 DEF FlagsOK
  <1>3. IngestInv => DataOK
    BY DEF IngestInv
  <1> QED BY <1>1, <1>2, <1>3, IngestInvariant, PTL DEF StreamSpec, StreamTypeOK

(* The rca-agent is posted an alarm at most once per life of the gateway   *)
(* and in the order of the log (drain_batch of forwarder.py behind the     *)
(* poll loop of kafka_ingest.py), for any queue, batch and restarts.       *)
THEOREM PostedOnceInOrder == StreamSpec => []OncePerLifeInOrder
  <1>1. IngestInv => OncePerLifeInOrder
    BY DEF IngestInv, Pipeline, InOrder, OncePerLifeInOrder
  <1> QED BY <1>1, IngestInvariant, PTL

-----------------------------------------------------------------------------
(* While nobody goes down and the queue has room for the log, an alarm     *)
(* that was fetched is queued, in the batch or with the rca-agent: none is *)
(* passed over, whatever the malformed records around it.                  *)
Holds(s, o) == \E i \in 1 .. Len(s) : s[i] = o
OnItsWay(o) == Holds(buffer, o) \/ Holds(batch, o) \/ Received(o)
NothingLost == Calm => \A o \in 1 .. position : topic[o] = "alarm" => OnItsWay(o)

CalmInv == /\ Len(topic) <= MaxRecords
           /\ Calm => /\ up
                      /\ phase = "idle" => batch = << >>
                      /\ Len(buffer) <= position
           /\ NothingLost

LEMMA HoldsAppended ==
    ASSUME NEW s \in Seq(Nat), NEW n \in Nat
    PROVE  Holds(Append(s, n), n) /\ \A o : Holds(s, o) => Holds(Append(s, n), o)
  <1>1. /\ Len(s) \in Nat /\ Len(Append(s, n)) = Len(s) + 1 /\ Append(s, n)[Len(s) + 1] = n
        /\ \A i \in 1 .. Len(s) : i \in 1 .. Len(s) + 1 /\ Append(s, n)[i] = s[i]
    OBVIOUS
  <1> QED BY <1>1 DEF Holds

LEMMA HoldsSplit ==
    ASSUME NEW s \in Seq(Nat), NEW m \in 0 .. Len(s), NEW o, Holds(s, o)
    PROVE  Holds(SubSeq(s, 1, m), o) \/ Holds(SubSeq(s, m + 1, Len(s)), o)
  <1> DEFINE front == SubSeq(s, 1, m)
             back == SubSeq(s, m + 1, Len(s))
  <1>1. Len(front) = m /\ \A i \in 1 .. m : front[i] = s[i]
    OBVIOUS
  <1>2. Len(back) = Len(s) - m /\ \A i \in 1 .. Len(s) - m : back[i] = s[m + i]
    OBVIOUS
  <1> HIDE DEF front, back
  <1>3. PICK i \in 1 .. Len(s) : s[i] = o
    BY DEF Holds
  <1>4. ASSUME i <= m PROVE Holds(front, o)
    BY <1>1, <1>3, <1>4 DEF Holds
  <1>5. ASSUME i > m PROVE Holds(back, o)
    <2>1. i - m \in 1 .. Len(s) - m /\ m + (i - m) = i
      BY <1>5
    <2> QED BY <1>2, <1>3, <2>1 DEF Holds
  <1> QED BY <1>4, <1>5 DEF front, back

LEMMA HoldsTail ==
    ASSUME NEW s \in Seq(Nat), s # << >>, NEW o, Holds(s, o)
    PROVE  o = Head(s) \/ Holds(Tail(s), o)
  <1>1. /\ Len(s) \in Nat \ {0} /\ Len(Tail(s)) = Len(s) - 1 /\ Head(s) = s[1]
        /\ \A i \in 1 .. Len(s) - 1 : Tail(s)[i] = s[i + 1]
    OBVIOUS
  <1>2. PICK i \in 1 .. Len(s) : s[i] = o
    BY DEF Holds
  <1>3. CASE i # 1
    <2>1. i - 1 \in 1 .. Len(s) - 1 /\ (i - 1) + 1 = i
      BY <1>1, <1>3
    <2> QED BY <1>1, <1>2, <2>1 DEF Holds
  <1> QED BY <1>1, <1>2, <1>3

LEMMA CalmFetch ==
    ASSUME IngestInv, CalmInv, Fetch PROVE CalmInv'
  <1>1. /\ position' = position + 1 /\ position + 1 <= Len(topic)
        /\ UNCHANGED <<stream, batch, phase, topic, received, up>>
        /\ buffer' = IF topic[position + 1] = "undecodable" \/ Len(buffer) = stream.queue
                     THEN buffer ELSE Append(buffer, position + 1)
    BY DEF Fetch, IngestInv, DataOK
  <1>2. position \in Nat /\ buffer \in Seq(Nat) /\ Len(buffer) \in Nat /\ Len(topic) \in Nat
    BY DEF IngestInv, DataOK
  <1> SUFFICES ASSUME Calm
               PROVE  /\ up /\ (phase = "idle" => batch = << >>) /\ Len(buffer') <= position + 1
                      /\ \A o \in 1 .. position + 1 : topic[o] = "alarm" => OnItsWay(o)'
    BY <1>1 DEF CalmInv, NothingLost, Calm
  <1>3. Len(buffer) # stream.queue
    <2>1. stream.queue \in Nat /\ MaxRecords \in Nat
      BY StreamsAssumption, StreamBounds DEF IngestInv, DataOK
    <2> QED BY <1>1, <1>2, <2>1 DEF CalmInv, Calm
  <1>4. Len(buffer') <= position + 1
    BY <1>1, <1>2 DEF CalmInv
  <1>5. ASSUME NEW o \in 1 .. position + 1, topic[o] = "alarm" PROVE OnItsWay(o)'
    <2>1. CASE o \in 1 .. position
      <3>1. OnItsWay(o)
        BY <1>5, <2>1 DEF CalmInv, NothingLost
      <3>2. Holds(buffer, o) => Holds(buffer', o)
        BY <1>1, <1>2, HoldsAppended
      <3> QED BY <1>1, <3>1, <3>2 DEF OnItsWay, Received
    <2>2. CASE o = position + 1
      <3>1. Holds(buffer', o)
        BY <1>1, <1>2, <1>3, <1>5, <2>2, HoldsAppended
      <3> QED BY <3>1 DEF OnItsWay
    <2> QED BY <1>2, <2>1, <2>2
  <1> QED BY <1>4, <1>5 DEF CalmInv

LEMMA CalmPoll ==
    ASSUME IngestInv, CalmInv, Poll PROVE CalmInv'
  <1>1. /\ phase = "idle" /\ phase' = "draining"
        /\ batch' = SubSeq(buffer, 1, BatchSize)
        /\ buffer' = SubSeq(buffer, BatchSize + 1, Len(buffer))
        /\ UNCHANGED <<stream, position, topic, received, up>>
    BY DEF Poll
  <1>2. position \in Nat /\ buffer \in Seq(Nat) /\ Len(buffer) \in Nat
    BY DEF IngestInv, DataOK
  <1>3. BatchSize \in 0 .. Len(buffer)
    BY <1>2, StreamBounds DEF BatchSize
  <1> SUFFICES ASSUME Calm
               PROVE  /\ up /\ Len(buffer') <= position
                      /\ \A o \in 1 .. position : topic[o] = "alarm" => OnItsWay(o)'
    BY <1>1 DEF CalmInv, NothingLost, Calm
  <1>4. Len(buffer') <= position
    <2>1. Len(buffer') = Len(buffer) - BatchSize
      BY <1>1, <1>2, <1>3
    <2> QED BY <1>2, <1>3, <2>1 DEF CalmInv
  <1>5. ASSUME NEW o \in 1 .. position, topic[o] = "alarm" PROVE OnItsWay(o)'
    <2>1. Holds(buffer, o) \/ Received(o)
      BY <1>1, <1>5 DEF CalmInv, NothingLost, OnItsWay, Holds
    <2>2. Holds(buffer, o) => Holds(batch', o) \/ Holds(buffer', o)
      BY <1>1, <1>2, <1>3, HoldsSplit
    <2> QED BY <1>1, <2>1, <2>2 DEF OnItsWay, Received
  <1> QED BY <1>4, <1>5 DEF CalmInv

LEMMA CalmForward ==
    ASSUME IngestInv, CalmInv, Forward PROVE CalmInv'
  <1>1. /\ batch # << >> /\ batch' = Tail(batch) /\ phase = "draining"
        /\ UNCHANGED <<stream, position, phase, buffer, topic, up>>
        /\ \/ (topic[Head(batch)] # "alarm" \/ ~up) /\ received' = received
           \/ received' = Append(received, [offset |-> Head(batch), life |-> generation])
    BY DEF Forward, Skip, Post, PostUnanswered, PostFails, Take, Receive
  <1>2. batch \in Seq(Nat) /\ received \in Seq(PostRecord) /\ Len(received) \in Nat /\ generation \in Nat
    BY DEF IngestInv, DataOK
  <1> SUFFICES ASSUME Calm, NEW o \in 1 .. position, topic[o] = "alarm" PROVE OnItsWay(o)'
    BY <1>1 DEF CalmInv, NothingLost, Calm
  <1>3. OnItsWay(o) /\ up
    BY DEF CalmInv, NothingLost
  <1>4. CASE (topic[Head(batch)] # "alarm" \/ ~up) /\ received' = received
    <2>0. topic[Head(batch)] # "alarm"
      BY <1>3, <1>4, Zenon
    <2>1. o # Head(batch) /\ UNCHANGED <<buffer, received>>
      BY <1>1, <1>4, <2>0
    <2>2. Holds(batch, o) => Holds(batch', o)
      BY <1>1, <1>2, <2>1, HoldsTail
    <2> QED BY <1>3, <2>1, <2>2 DEF OnItsWay, Received
  <1>5. CASE received' = Append(received, [offset |-> Head(batch), life |-> generation])
    <2>1. Head(batch) \in Nat
      BY <1>1, <1>2
    <2>2. [offset |-> Head(batch), life |-> generation] \in PostRecord
      BY <1>2, <2>1 DEF PostRecord
    <2>3. /\ Len(received') = Len(received) + 1
          /\ \A i \in 1 .. Len(received) : received'[i] = received[i] /\ i \in 1 .. Len(received')
          /\ received'[Len(received')].offset = Head(batch) /\ Len(received') \in 1 .. Len(received')
      BY <1>2, <1>5, <2>2
    <2>4. Received(o) \/ o = Head(batch) => Received(o)'
      BY <2>3 DEF Received
    <2>5. Holds(batch, o) => o = Head(batch) \/ Holds(batch', o)
      BY <1>1, <1>2, HoldsTail
    <2> QED BY <1>1, <1>3, <2>4, <2>5 DEF OnItsWay
  <1> QED BY <1>1, <1>4, <1>5

(* In a calm deployment no fetched alarm is lost on the way of the two     *)
(* loops (kafka_ingest.py, forwarder.py): the safety half of AlarmsArrive. *)
THEOREM CalmLosesNothing == StreamSpec => []NothingLost
  <1>1. StreamInit => CalmInv
    BY StreamBounds DEF StreamInit, CalmInv, NothingLost
  <1>2. IngestInv /\ CalmInv /\ [StreamNext]_streamVars => CalmInv'
    <2> SUFFICES ASSUME IngestInv, CalmInv, [StreamNext]_streamVars PROVE CalmInv'
      OBVIOUS
    <2>1. ASSUME NEW kind \in Kind, Produce(kind) PROVE CalmInv'
      <3>1. /\ topic' = Append(topic, kind) /\ topic \in Seq(Kind) /\ Len(topic) < MaxRecords
            /\ position \in Nat /\ position <= Len(topic) /\ Len(topic) \in Nat
            /\ UNCHANGED <<gateway, received, up>>
        BY <2>1 DEF Produce, IngestInv, DataOK, Pipeline
      <3>2. Len(topic') <= MaxRecords /\ \A o \in 1 .. position : topic'[o] = topic[o]
        BY <3>1, StreamBounds
      <3> QED BY <3>1, <3>2 DEF gateway, CalmInv, NothingLost, OnItsWay, Received, Calm
    <2>2. CASE FinishBatch \/ AutoCommit \/ UNCHANGED streamVars
      BY <2>2 DEF FinishBatch, AutoCommit, streamVars, gateway, CalmInv, NothingLost, OnItsWay, Received, Calm
    <2>3. CASE Crash \/ Shutdown \/ RcaDown
      BY <2>3 DEF Crash, Shutdown, RestartGateway, RcaDown, gateway, CalmInv, NothingLost, Calm
    <2>4. CASE RcaUp
      BY <2>4 DEF RcaUp, gateway, CalmInv, NothingLost, OnItsWay, Received, Calm
    <2> QED BY <2>1, <2>2, <2>3, <2>4, CalmFetch, CalmPoll, CalmForward DEF StreamNext
  <1>3. CalmInv => NothingLost
    BY DEF CalmInv
  <1> QED BY <1>1, <1>2, <1>3, IngestInvariant, PTL DEF StreamSpec

-----------------------------------------------------------------------------
(* THE INVOCATION OF TOOLS, for any tools, threads, policy and threshold.  *)
Risk == {"read_only", "forbidden"}
Place == {"free", "upsert", "admit", "attempt", "fail", "count", "judge", "reset", "close", "log"}
JobRecord == [at : Place, tool : Tool \cup {None}, call : Nat, left : Int, seen : Nat, risk : Risk]
CallRecord == [tool : Tool, life : Nat, started : Nat, running : Nat, effects : Nat,
               answer : Outcome \cup {None}]
Breaker == [failures : Nat, state : {"closed", "open", "half_open"}, cooled : BOOLEAN]

TablesOK == /\ deployment \in Deployments
            /\ spec \in [Tool -> [risk : Risk, handler : BOOLEAN]]
            /\ row \in [Tool -> [risk : Risk, policy : {deployment.policy}]]
CircuitsOK == breaker \in [Tool -> Breaker] /\ streak \in [Tool -> Nat]
HandlersOK == job \in [Worker -> JobRecord] /\ calls \in Seq(CallRecord) /\ life \in Nat
LogOK == log \in [counter : Nat, rows : Seq(Nat)]
ToolTypeOK == TablesOK /\ CircuitsOK /\ HandlersOK /\ LogOK

-----------------------------------------------------------------------------
(* A thread that works on an invocation, and its call.                     *)
Working(w) == job[w].at \notin {"free", "upsert"}
JobsInv ==
    /\ \A w \in Worker : job[w].at # "free" => w \in deployment.threads /\ job[w].tool \in Tool
    /\ \A w \in Worker : Working(w) =>
           /\ job[w].call \in DOMAIN calls
           /\ calls[job[w].call].tool = job[w].tool /\ calls[job[w].call].life = life
           /\ job[w].at # "log" => calls[job[w].call].answer = None
    /\ \A v, w \in Worker : Working(v) /\ Working(w) /\ job[v].call = job[w].call => v = w

(* What the calls of a deployment's policy may start.                      *)
Budget == Attempts(deployment.policy)
BudgetInv ==
    /\ \A i \in DOMAIN calls : /\ calls[i].effects + calls[i].running <= calls[i].started
                               /\ calls[i].started <= Budget
    /\ \A w \in Worker : job[w].at \in {"admit", "attempt"} =>
           job[w].left >= 1 /\ calls[job[w].call].started + job[w].left <= Budget

ToolInv == ToolTypeOK /\ JobsInv /\ BudgetInv

-----------------------------------------------------------------------------
LEMMA BudgetType ==
    ASSUME ToolTypeOK
    PROVE  Budget \in Nat /\ Budget >= 1
  <1>1. deployment.policy \in [max_attempts : Nat] \cup [max_retries : Nat]
    BY DeploymentsAssumption DEF ToolTypeOK, TablesOK
  <1>2. CASE deployment.policy \in [max_attempts : Nat]
    BY <1>2 DEF Budget, Attempts
  <1>3. CASE deployment.policy \in [max_retries : Nat]
    BY <1>3 DEF Budget, Attempts
  <1> QED BY <1>1, <1>2, <1>3

(* A handler's step that goes on with its own call, as the record c, and    *)
(* becomes j.                                                              *)
Advances(w, j, c) ==
    /\ Working(w)
    /\ job' = [job EXCEPT ![w] = j] /\ calls' = [calls EXCEPT ![job[w].call] = c]
    /\ UNCHANGED <<deployment, life>>
    /\ c.tool = calls[job[w].call].tool /\ c.life = calls[job[w].call].life
    /\ j.at # "free" => /\ j.at # "upsert" /\ j.tool = job[w].tool /\ j.call = job[w].call
                        /\ j.at # "log" => c.answer = None
(* ... and stays within what the policy allows.                             *)
Spends(j, c) ==
    /\ c.effects + c.running <= c.started /\ c.started <= Budget
    /\ j.at \in {"admit", "attempt"} => j.left >= 1 /\ c.started + j.left <= Budget

LEMMA AdvancesKeeps ==
    ASSUME ToolTypeOK, JobsInv, BudgetInv, NEW w \in Worker, NEW j \in JobRecord, NEW c \in CallRecord,
           Advances(w, j, c), Spends(j, c)
    PROVE  HandlersOK' /\ JobsInv' /\ BudgetInv'
  <1> DEFINE i == job[w].call
  <1>1. /\ job \in [Worker -> JobRecord] /\ calls \in Seq(CallRecord)
        /\ job' = [job EXCEPT ![w] = j] /\ calls' = [calls EXCEPT ![i] = c]
        /\ i \in DOMAIN calls /\ Working(w) /\ deployment' = deployment /\ life' = life
    BY DEF ToolTypeOK, HandlersOK, Advances, JobsInv
  <1>2. calls' \in Seq(CallRecord) /\ DOMAIN calls' = DOMAIN calls /\ Len(calls') = Len(calls)
    BY <1>1
  <1>3. job' \in [Worker -> JobRecord] /\ job'[w] = j
        /\ \A v \in Worker : v # w => job'[v] = job[v]
    BY <1>1
  <1>4. calls'[i] = c /\ \A k \in DOMAIN calls : k # i => calls'[k] = calls[k]
    BY <1>1
  <1>5. \A v \in Worker : v # w /\ Working(v) => job[v].call # i
    BY <1>1 DEF JobsInv
  <1>6. HandlersOK'
    BY <1>1, <1>2, <1>3 DEF HandlersOK, ToolTypeOK
  <1>7. JobsInv'
    <2>1. ASSUME NEW v \in Worker, job'[v].at # "free"
          PROVE  v \in deployment'.threads /\ job'[v].tool \in Tool
      BY <2>1, <1>1, <1>3 DEF JobsInv, Advances, Working
    <2>2. ASSUME NEW v \in Worker, Working(v)'
          PROVE  /\ job'[v].call \in DOMAIN calls'
                 /\ calls'[job'[v].call].tool = job'[v].tool /\ calls'[job'[v].call].life = life'
                 /\ job'[v].at # "log" => calls'[job'[v].call].answer = None
      <3>1. CASE v = w
        BY <2>2, <3>1, <1>1, <1>2, <1>3, <1>4 DEF JobsInv, Advances, Working
      <3>2. CASE v # w
        <4>1. Working(v) /\ job'[v] = job[v] /\ job[v].call # i
          BY <2>2, <3>2, <1>3, <1>5 DEF Working
        <4> QED BY <4>1, <1>1, <1>2, <1>4 DEF JobsInv
      <3> QED BY <3>1, <3>2
    <2>3. ASSUME NEW u \in Worker, NEW v \in Worker, Working(u)', Working(v)', job'[u].call = job'[v].call
          PROVE  u = v
      <3>1. /\ u = w => job'[u].call = i
            /\ v = w => job'[v].call = i
        BY <2>3, <1>3 DEF Advances, Working
      <3>2. /\ u # w => Working(u) /\ job'[u] = job[u]
            /\ v # w => Working(v) /\ job'[v] = job[v]
        BY <2>3, <1>3 DEF Working
      <3> QED BY <3>1, <3>2, <2>3, <1>5 DEF JobsInv
    <2> QED BY <2>1, <2>2, <2>3 DEF JobsInv
  <1>8. BudgetInv'
    <2>1. Budget' = Budget
      BY <1>1 DEF Budget, Attempts
    <2>2. ASSUME NEW k \in DOMAIN calls'
          PROVE  /\ calls'[k].effects + calls'[k].running <= calls'[k].started
                 /\ calls'[k].started <= Budget'
      <3>1. CASE k = i
        BY <3>1, <2>1, <1>4 DEF Spends
      <3>2. CASE k # i
        BY <3>2, <2>1, <1>2, <1>4 DEF BudgetInv
      <3> QED BY <3>1, <3>2
    <2>3. ASSUME NEW v \in Worker, job'[v].at \in {"admit", "attempt"}
          PROVE  job'[v].left >= 1 /\ calls'[job'[v].call].started + job'[v].left <= Budget'
      <3>1. CASE v = w
        BY <2>3, <3>1, <2>1, <1>3, <1>4 DEF Spends, Advances
      <3>2. CASE v # w
        <4>1. Working(v) /\ job'[v] = job[v] /\ job[v].call # i /\ job[v].call \in DOMAIN calls
          BY <2>3, <3>2, <1>3, <1>5 DEF Working, JobsInv
        <4> QED BY <4>1, <2>3, <2>1, <1>4 DEF BudgetInv
      <3> QED BY <3>1, <3>2
    <2> QED BY <2>2, <2>3 DEF BudgetInv
  <1> QED BY <1>6, <1>7, <1>8

-----------------------------------------------------------------------------
(* What such a step does to the circuit of its tool: b, and n in a row.     *)
Tallies(w, j, c, b, n) ==
    /\ breaker' = [breaker EXCEPT ![job[w].tool] = b] /\ streak' = [streak EXCEPT ![job[w].tool] = n]
    /\ job[w].at = "reset" => /\ b.failures = 0 /\ n = 0 /\ b.state = breaker[job[w].tool].state
                              /\ j.at = "close"
    /\ job[w].at = "close" => /\ b.failures = breaker[job[w].tool].failures /\ n = streak[job[w].tool]
                              /\ b.state = "closed" /\ j.at \in {"free", "log"}
    /\ job[w].at = "count" => /\ b.failures = Capped(job[w].seen + 1)
                              /\ n = Capped(streak[job[w].tool] + 1)
                              /\ b.state = breaker[job[w].tool].state /\ j.at = "judge"
    /\ job[w].at = "judge" =>
           /\ b.failures = breaker[job[w].tool].failures /\ n = streak[job[w].tool]
           /\ b.state # "closed" <=> \/ breaker[job[w].tool].state # "closed"
                                     \/ breaker[job[w].tool].failures >= Threshold
           /\ c.answer = "failed" /\ j.at \in {"free", "log"}
    /\ job[w].at \notin {"reset", "close", "count", "judge"} =>
           /\ b.failures = breaker[job[w].tool].failures /\ n = streak[job[w].tool]
           /\ b.state = "closed" <=> breaker[job[w].tool].state = "closed"
           /\ j.at \notin {"close", "judge"}
           /\ j.at = "count" => j.seen = breaker[job[w].tool].failures
    /\ job[w].at = "log" => c.answer = calls[job[w].call].answer

Does(w) == \E j \in JobRecord, c \in CallRecord, b \in Breaker, n \in Nat :
               Advances(w, j, c) /\ Spends(j, c) /\ Tallies(w, j, c, b, n)

(* What is known of a thread at work.                                      *)
LEMMA AtWork ==
    ASSUME ToolTypeOK, JobsInv, BudgetInv, NEW w \in Worker, Working(w)
    PROVE  /\ job \in [Worker -> JobRecord] /\ breaker \in [Tool -> Breaker] /\ streak \in [Tool -> Nat]
           /\ job[w] \in JobRecord /\ job[w].tool \in Tool /\ job[w].call \in DOMAIN calls
           /\ calls[job[w].call] \in CallRecord
           /\ breaker[job[w].tool] \in Breaker /\ streak[job[w].tool] \in Nat
           /\ calls[job[w].call].started <= Budget
           /\ calls[job[w].call].effects + calls[job[w].call].running <= calls[job[w].call].started
  <1>1. job[w].at # "free" /\ job[w] \in JobRecord /\ calls \in Seq(CallRecord) /\ job[w].tool \in Tool
    BY DEF ToolTypeOK, HandlersOK, JobsInv, Working
  <1>2. job[w].call \in DOMAIN calls
    BY DEF JobsInv
  <1> QED BY <1>1, <1>2 DEF ToolTypeOK, HandlersOK, CircuitsOK, BudgetInv

LEMMA FreeIsAJob == Free \in JobRecord /\ Free.at = "free"
  BY DEF Free, JobRecord, Place, Risk

(* The same tables, where a step writes nothing to them.                   *)
LEMMA WritesItself ==
    /\ \A S, T : \A f \in [S -> T] : \A x \in S : f = [f EXCEPT ![x] = f[x]]
    /\ \A T : \A q \in Seq(T) : \A x \in DOMAIN q : q = [q EXCEPT ![x] = q[x]]
  <1>1. ASSUME NEW S, NEW T, NEW f \in [S -> T], NEW x \in S
        PROVE  f = [f EXCEPT ![x] = f[x]]
    OBVIOUS
  <1>2. ASSUME NEW T, NEW q \in Seq(T), NEW x \in DOMAIN q
        PROVE  q = [q EXCEPT ![x] = q[x]]
    <2>1. q \in [1 .. Len(q) -> T] /\ DOMAIN q = 1 .. Len(q)
      OBVIOUS
    <2> QED BY <2>1
  <1> QED BY <1>1, <1>2

LEMMA CircuitUntouched ==
    ASSUME ToolTypeOK, JobsInv, BudgetInv, NEW w \in Worker, Working(w), UNCHANGED <<breaker, streak>>
    PROVE  LET t == job[w].tool
           IN  /\ breaker' = [breaker EXCEPT ![t] = breaker[t]]
               /\ streak' = [streak EXCEPT ![t] = streak[t]]
  BY AtWork, WritesItself

LEMMA CappedType ==
    ASSUME NEW n \in Nat
    PROVE  /\ Capped(n) \in Nat /\ Capped(n) <= n
           /\ Capped(n) >= Threshold <=> n >= Threshold
  BY ConstantsAssumption DEF Capped

(* What starting a handler, or its late end, makes of a call.               *)
LEMMA StartedType ==
    ASSUME NEW c \in CallRecord, NEW effects \in Nat, NEW running \in Nat
    PROVE  LET d == Started(c, effects, running)
           IN  /\ d \in CallRecord
               /\ d.started = c.started + 1 /\ d.effects = c.effects + effects
               /\ d.running = c.running + running
               /\ d.answer = c.answer /\ d.tool = c.tool /\ d.life = c.life
  <1>1. PICK d : d = Started(c, effects, running)
    OBVIOUS
  <1>2. /\ d = [tool |-> c.tool, life |-> c.life, started |-> c.started + 1,
                running |-> c.running + running, effects |-> c.effects + effects, answer |-> c.answer]
    BY <1>1 DEF Started, CallRecord
  <1>3. c.tool \in Tool /\ {c.life, c.started, c.running, c.effects} \subseteq Nat
        /\ c.answer \in Outcome \cup {None}
    BY DEF CallRecord
  <1>4. d \in CallRecord
    BY <1>2, <1>3 DEF CallRecord
  <1> QED BY <1>1, <1>2, <1>4

LEMMA EndedType ==
    ASSUME NEW c \in CallRecord, NEW effects \in 0 .. 1, c.running > 0
    PROVE  LET d == Ended(c, effects)
           IN  /\ d \in CallRecord
               /\ d.started = c.started /\ d.effects = c.effects + effects
               /\ d.running = c.running - 1
               /\ d.answer = c.answer /\ d.tool = c.tool /\ d.life = c.life
  <1>1. PICK d : d = Ended(c, effects)
    OBVIOUS
  <1>2. /\ d = [tool |-> c.tool, life |-> c.life, started |-> c.started,
                running |-> c.running - 1, effects |-> c.effects + effects, answer |-> c.answer]
    BY <1>1 DEF Ended, CallRecord
  <1>3. c.tool \in Tool /\ {c.life, c.started, c.running, c.effects} \subseteq Nat
        /\ c.answer \in Outcome \cup {None}
    BY DEF CallRecord
  <1>4. d \in CallRecord
    BY <1>2, <1>3 DEF CallRecord
  <1> QED BY <1>1, <1>2, <1>4

LEMMA SucceedsDoes ==
    ASSUME ToolTypeOK, JobsInv, BudgetInv, NEW w \in Worker, Succeeds(w)
    PROVE  Does(w)
  <1> DEFINE t == job[w].tool
             i == job[w].call
             c == Started(calls[i], 1, 0)
  <1>1. Working(w) /\ job[w].at = "attempt"
    BY DEF Succeeds, Working
  <1>2. PICK j : j = [job[w] EXCEPT !.at = "reset"]
    OBVIOUS
  <1>3. j \in JobRecord /\ j.at = "reset" /\ j.tool = t /\ j.call = i
    BY <1>1, <1>2, AtWork DEF JobRecord, Place
  <1>4. /\ job' = [job EXCEPT ![w] = j] /\ calls' = [calls EXCEPT ![i] = c]
        /\ UNCHANGED <<deployment, life, breaker, streak>>
    BY <1>1, <1>2 DEF Succeeds, Goto
  <1>5. /\ c \in CallRecord /\ c.started = calls[i].started + 1 /\ c.effects = calls[i].effects + 1
        /\ c.running = calls[i].running + 0 /\ c.answer = calls[i].answer
        /\ c.tool = calls[i].tool /\ c.life = calls[i].life
    <2>1. PICK b : b = calls[i]
      OBVIOUS
    <2>2. b \in CallRecord /\ c = Started(b, 1, 0) /\ 1 \in Nat /\ 0 \in Nat
      BY <1>1, <2>1, AtWork
    <2> QED BY ONLY <2>1, <2>2, StartedType
  <1> HIDE DEF c
  <1>7. Advances(w, j, c)
    BY <1>1, <1>3, <1>4, <1>5 DEF Advances, JobsInv
  <1>8. Spends(j, c)
    BY <1>1, <1>3, <1>5, AtWork, BudgetType DEF Spends, BudgetInv, CallRecord, JobRecord
  <1>9. Tallies(w, j, c, breaker[t], streak[t])
    BY <1>1, <1>3, <1>4, CircuitUntouched DEF Tallies
  <1> QED BY <1>1, <1>3, <1>5, <1>7, <1>8, <1>9, AtWork DEF Does

(* An attempt without a result, whatever it left running.                   *)
LEMMA AttemptFails ==
    ASSUME ToolTypeOK, JobsInv, BudgetInv, NEW w \in Worker, job[w].at = "attempt", TryAgain(w),
           NEW c \in CallRecord, calls' = [calls EXCEPT ![job[w].call] = c],
           c.tool = calls[job[w].call].tool, c.life = calls[job[w].call].life,
           c.answer = calls[job[w].call].answer,
           c.effects + c.running <= c.started, c.started <= calls[job[w].call].started + 1,
           UNCHANGED <<deployment, life, breaker, streak>>
    PROVE  Does(w)
  <1> DEFINE t == job[w].tool
             i == job[w].call
             at == IF job[w].left > 1 THEN "attempt" ELSE "fail"
  <1>1. Working(w)
    BY DEF Working
  <1>2. PICK j : j = [job[w] EXCEPT !.left = job[w].left - 1, !.at = at]
    OBVIOUS
  <1>3. /\ j = [at |-> at, tool |-> t, call |-> i, left |-> job[w].left - 1,
                seen |-> job[w].seen, risk |-> job[w].risk]
    BY <1>1, <1>2, AtWork DEF JobRecord
  <1>4. /\ job[w].left \in Int /\ job[w].left - 1 \in Int /\ at \in Place /\ t \in Tool
        /\ i \in Nat /\ job[w].seen \in Nat /\ job[w].risk \in Risk
    BY <1>1, AtWork DEF JobRecord, Place
  <1>5. j \in JobRecord
    BY <1>3, <1>4 DEF JobRecord
  <1>6. job' = [job EXCEPT ![w] = j]
    BY <1>2 DEF TryAgain
  <1>7. Advances(w, j, c)
    BY <1>1, <1>3, <1>6 DEF Advances, JobsInv
  <1>8. Spends(j, c)
    <2>1. calls[i].started + job[w].left <= Budget /\ job[w].left >= 1
      BY DEF BudgetInv
    <2>2. {calls[i].started, c.started, c.effects, c.running, Budget} \subseteq Nat
      BY <1>1, AtWork, BudgetType DEF CallRecord
    <2>3. j.at = "attempt" => job[w].left > 1
      BY <1>3
    <2>4. j.at # "admit" /\ j.left = job[w].left - 1
      BY <1>3
    <2> QED BY <1>4, <2>1, <2>2, <2>3, <2>4 DEF Spends
  <1>9. Tallies(w, j, c, breaker[t], streak[t])
    BY <1>1, <1>3, CircuitUntouched DEF Tallies
  <1> QED BY <1>1, <1>5, <1>7, <1>8, <1>9, AtWork DEF Does

LEMMA RaisesDoes ==
    ASSUME ToolTypeOK, JobsInv, BudgetInv, NEW w \in Worker, Raises(w)
    PROVE  Does(w)
  <1> DEFINE i == job[w].call
             c == IF spec[job[w].tool].handler THEN Started(calls[i], 0, 0) ELSE calls[i]
  <1>1. Working(w) /\ job[w].at = "attempt" /\ TryAgain(w)
    BY DEF Raises, Working
  <1>2. calls' = [calls EXCEPT ![i] = c]
    BY <1>1 DEF Raises
  <1>3. /\ c \in CallRecord /\ c.tool = calls[i].tool /\ c.life = calls[i].life
        /\ c.answer = calls[i].answer
        /\ c.effects + c.running <= c.started /\ c.started <= calls[i].started + 1
    <2>1. CASE spec[job[w].tool].handler
      <3>1. c = Started(calls[i], 0, 0)
        BY <2>1
      <3>2. LET d == Started(calls[i], 0, 0)
            IN  /\ d.started = calls[i].started + 1 /\ d.effects = calls[i].effects + 0
                /\ d.running = calls[i].running + 0
                /\ d \in CallRecord /\ d.tool = calls[i].tool /\ d.life = calls[i].life
                /\ d.answer = calls[i].answer
        BY <1>1, AtWork, StartedType
      <3> HIDE DEF c
      <3> QED BY SMTT(30), <3>1, <3>2, <1>1, AtWork DEF CallRecord
    <2>2. CASE ~spec[job[w].tool].handler
      <3>1. c = calls[i]
        BY <2>2
      <3> HIDE DEF c
      <3> QED BY <3>1, <1>1, AtWork DEF CallRecord
    <2> QED BY <2>1, <2>2
  <1> HIDE DEF c
  <1> QED BY <1>1, <1>2, <1>3, AttemptFails DEF Raises

LEMMA TimesOutDoes ==
    ASSUME ToolTypeOK, JobsInv, BudgetInv, NEW w \in Worker, TimesOut(w)
    PROVE  Does(w)
  <1> DEFINE i == job[w].call
             c == Started(calls[i], 0, 1)
  <1>1. Working(w) /\ job[w].at = "attempt" /\ TryAgain(w)
    BY DEF TimesOut, Working
  <1>2. calls' = [calls EXCEPT ![i] = c]
    BY <1>1 DEF TimesOut
  <1>3. /\ c.started = calls[i].started + 1 /\ c.effects = calls[i].effects + 0
        /\ c.running = calls[i].running + 1
        /\ c \in CallRecord /\ c.tool = calls[i].tool /\ c.life = calls[i].life
        /\ c.answer = calls[i].answer
    BY <1>1, AtWork, StartedType
  <1> HIDE DEF c
  <1>4. c.effects + c.running <= c.started /\ c.started <= calls[i].started + 1
    BY <1>1, <1>3, AtWork DEF CallRecord
  <1> QED BY <1>1, <1>2, <1>3, <1>4, AttemptFails DEF TimesOut

(* The thread is sent elsewhere, and nothing else of its job changes.       *)
LEMMA GotoGives ==
    ASSUME ToolTypeOK, NEW w \in Worker, Working(w), NEW at \in Place, Goto(w, at)
    PROVE  \E j \in JobRecord : /\ job' = [job EXCEPT ![w] = j]
                                /\ j.at = at /\ j.tool = job[w].tool /\ j.call = job[w].call
                                /\ j.left = job[w].left
  <1>1. PICK j : j = [job[w] EXCEPT !.at = at]
    OBVIOUS
  <1>2. job[w] \in JobRecord
    BY DEF ToolTypeOK, HandlersOK
  <1>3. j \in JobRecord /\ j.at = at /\ j.tool = job[w].tool /\ j.call = job[w].call /\ j.left = job[w].left
    BY <1>1, <1>2 DEF JobRecord
  <1>4. job' = [job EXCEPT ![w] = j]
    BY <1>1 DEF Goto
  <1> QED BY <1>3, <1>4

(* A request is answered: its thread is free, or writes the log.            *)
LEMMA FinishGives ==
    ASSUME ToolTypeOK, JobsInv, BudgetInv, NEW w \in Worker, Working(w), NEW answer \in Outcome,
           Finish(w, answer), UNCHANGED <<deployment, life>>
    PROVE  \E j \in JobRecord, c \in CallRecord :
               Advances(w, j, c) /\ Spends(j, c) /\ j.at \in {"free", "log"} /\ c.answer = answer
  <1> DEFINE i == job[w].call
  <1>1. PICK c : c = [calls[i] EXCEPT !.answer = answer]
    OBVIOUS
  <1>2. /\ c \in CallRecord /\ c.started = calls[i].started /\ c.effects = calls[i].effects
        /\ c.running = calls[i].running /\ c.answer = answer
        /\ c.tool = calls[i].tool /\ c.life = calls[i].life
    BY <1>1, AtWork DEF CallRecord
  <1>3. calls' = [calls EXCEPT ![i] = c]
    BY <1>1 DEF Finish
  <1>4. \E j \in JobRecord : /\ job' = [job EXCEPT ![w] = j] /\ j.at \in {"free", "log"}
                             /\ j.at = "log" => j.tool = job[w].tool /\ j.call = job[w].call
    <2>1. CASE Registry
      <3>1. Goto(w, "log")
        BY <2>1 DEF Finish
      <3> QED BY <3>1, GotoGives DEF Place
    <2>2. CASE ~Registry
      <3>1. job' = [job EXCEPT ![w] = Free]
        BY <2>2 DEF Finish, Leave
      <3> QED BY <3>1, FreeIsAJob
    <2> QED BY <2>1, <2>2
  <1>5. PICK j \in JobRecord : /\ job' = [job EXCEPT ![w] = j] /\ j.at \in {"free", "log"}
                               /\ j.at = "log" => j.tool = job[w].tool /\ j.call = job[w].call
    BY <1>4
  <1>6. Advances(w, j, c)
    BY <1>2, <1>3, <1>5 DEF Advances
  <1>7. Spends(j, c)
    BY <1>2, <1>5, AtWork DEF Spends
  <1> QED BY <1>2, <1>5, <1>6, <1>7

LEMMA AdmitDoes ==
    ASSUME ToolTypeOK, JobsInv, BudgetInv, NEW w \in Worker, Admit(w)
    PROVE  Does(w)
  <1> DEFINE t == job[w].tool
             i == job[w].call
             old == breaker[t]
  <1>1. Working(w) /\ job[w].at = "admit" /\ UNCHANGED <<deployment, streak, life>>
    BY DEF Admit, Working
  <1>2. job[w].left >= 1 /\ calls[i].started + job[w].left <= Budget
    BY <1>1 DEF BudgetInv
  <1>3. CASE ~spec[t].handler
    <2>1. PICK c : c = [calls[i] EXCEPT !.answer = "not_invokable"]
      OBVIOUS
    <2>2. /\ calls' = [calls EXCEPT ![i] = c] /\ job' = [job EXCEPT ![w] = Free] /\ UNCHANGED breaker
      BY <1>3, <2>1 DEF Admit, Leave
    <2>3. /\ c \in CallRecord /\ c.started = calls[i].started /\ c.effects = calls[i].effects
          /\ c.running = calls[i].running /\ c.tool = calls[i].tool /\ c.life = calls[i].life
      BY <1>1, <2>1, AtWork DEF CallRecord, Outcome
    <2>4. Advances(w, Free, c)
      BY <1>1, <2>2, <2>3, FreeIsAJob DEF Advances
    <2>5. Spends(Free, c)
      BY <1>1, <2>3, AtWork, FreeIsAJob DEF Spends
    <2>6. Tallies(w, Free, c, breaker[t], streak[t])
      BY <1>1, <2>2, FreeIsAJob, CircuitUntouched DEF Tallies
    <2> QED BY <1>1, <2>3, <2>4, <2>5, <2>6, FreeIsAJob, AtWork DEF Does
  <1>4. CASE spec[t].handler /\ old.state = "open" /\ ~old.cooled
    <2>1. Finish(w, "circuit_open") /\ UNCHANGED breaker
      BY <1>4 DEF Admit
    <2>2. PICK j \in JobRecord, c \in CallRecord :
              Advances(w, j, c) /\ Spends(j, c) /\ j.at \in {"free", "log"} /\ c.answer = "circuit_open"
      BY <1>1, <2>1, FinishGives DEF Outcome
    <2>3. Tallies(w, j, c, breaker[t], streak[t])
      BY <1>1, <2>1, <2>2, CircuitUntouched DEF Tallies
    <2> QED BY <1>1, <2>2, <2>3, AtWork DEF Does
  <1>5. CASE spec[t].handler /\ ~(old.state = "open" /\ ~old.cooled)
    <2>1. /\ breaker' = [breaker EXCEPT ![t].state = IF @ = "open" THEN "half_open" ELSE @]
          /\ Goto(w, "attempt") /\ UNCHANGED calls
      BY <1>5 DEF Admit
    <2>2. PICK b : b = [old EXCEPT !.state = IF old.state = "open" THEN "half_open" ELSE old.state]
      OBVIOUS
    <2>3. b \in Breaker /\ b.failures = old.failures /\ (b.state = "closed" <=> old.state = "closed")
      BY <1>1, <2>2, AtWork DEF Breaker
    <2>4. breaker' = [breaker EXCEPT ![t] = b]
      BY <2>1, <2>2
    <2>5. PICK j \in JobRecord : /\ job' = [job EXCEPT ![w] = j] /\ j.at = "attempt"
                                 /\ j.tool = t /\ j.call = i /\ j.left = job[w].left
      BY <1>1, <2>1, GotoGives DEF Place
    <2>6. calls' = [calls EXCEPT ![i] = calls[i]]
      BY <1>1, <2>1, AtWork, WritesItself DEF ToolTypeOK, HandlersOK
    <2>7. Advances(w, j, calls[i])
      BY <1>1, <2>5, <2>6 DEF Advances, JobsInv
    <2>8. Spends(j, calls[i])
      BY <1>1, <1>2, <2>5, AtWork DEF Spends
    <2>9. Tallies(w, j, calls[i], b, streak[t])
      <3>1. streak' = [streak EXCEPT ![t] = streak[t]]
        BY <1>1, AtWork, WritesItself
      <3> QED BY <1>1, <2>3, <2>4, <2>5, <3>1 DEF Tallies
    <2> QED BY <1>1, <2>3, <2>5, <2>7, <2>8, <2>9, AtWork DEF Does
  <1> QED BY <1>3, <1>4, <1>5

(* A step of _on_success or _on_failure that goes on to another one.        *)
LEMMA CircuitStep ==
    ASSUME ToolTypeOK, JobsInv, BudgetInv, NEW w \in Worker, Working(w),
           job[w].at \notin {"admit", "attempt", "log"},
           NEW j \in JobRecord, job' = [job EXCEPT ![w] = j], j.tool = job[w].tool, j.call = job[w].call,
           j.at \notin {"free", "upsert", "admit", "attempt", "log"},
           UNCHANGED <<deployment, calls, life>>
    PROVE  Advances(w, j, calls[job[w].call]) /\ Spends(j, calls[job[w].call])
  <1>1. calls' = [calls EXCEPT ![job[w].call] = calls[job[w].call]]
    BY AtWork, WritesItself DEF ToolTypeOK, HandlersOK
  <1>2. Advances(w, j, calls[job[w].call])
    BY <1>1 DEF Advances, JobsInv
  <1>3. Spends(j, calls[job[w].call])
    BY AtWork DEF Spends
  <1> QED BY <1>2, <1>3

LEMMA ResetFailuresDoes ==
    ASSUME ToolTypeOK, JobsInv, BudgetInv, NEW w \in Worker, ResetFailures(w)
    PROVE  Does(w)
  <1> DEFINE t == job[w].tool
             old == breaker[t]
  <1>1. Working(w) /\ job[w].at = "reset" /\ UNCHANGED <<deployment, calls, life>> /\ Goto(w, "close")
    BY DEF ResetFailures, Working
  <1>2. PICK j \in JobRecord : /\ job' = [job EXCEPT ![w] = j] /\ j.at = "close"
                               /\ j.tool = t /\ j.call = job[w].call
    BY <1>1, GotoGives DEF Place
  <1>3. PICK b : b = [old EXCEPT !.failures = 0]
    OBVIOUS
  <1>4. b \in Breaker /\ b.failures = 0 /\ b.state = old.state
    BY <1>1, <1>3, AtWork DEF Breaker
  <1>5. breaker' = [breaker EXCEPT ![t] = b] /\ streak' = [streak EXCEPT ![t] = 0]
    BY <1>3 DEF ResetFailures
  <1>6. Tallies(w, j, calls[job[w].call], b, 0)
    BY <1>1, <1>2, <1>4, <1>5 DEF Tallies
  <1>7. Advances(w, j, calls[job[w].call]) /\ Spends(j, calls[job[w].call])
    BY <1>1, <1>2, CircuitStep
  <1> QED BY <1>1, <1>2, <1>4, <1>6, <1>7, AtWork DEF Does

LEMMA ReadFailuresDoes ==
    ASSUME ToolTypeOK, JobsInv, BudgetInv, NEW w \in Worker, ReadFailures(w)
    PROVE  Does(w)
  <1> DEFINE t == job[w].tool
  <1>1. /\ Working(w) /\ job[w].at = "fail"
        /\ UNCHANGED <<deployment, calls, life, breaker, streak>>
    BY DEF ReadFailures, Working
  <1>2. breaker[t].failures \in Nat
    BY <1>1, AtWork DEF Breaker
  <1>3. PICK j : j = [job[w] EXCEPT !.at = "count", !.seen = breaker[t].failures]
    OBVIOUS
  <1>4. /\ j \in JobRecord /\ j.at = "count" /\ j.seen = breaker[t].failures
        /\ j.tool = t /\ j.call = job[w].call
    BY <1>1, <1>2, <1>3, AtWork DEF JobRecord, Place
  <1>5. job' = [job EXCEPT ![w] = j]
    BY <1>3 DEF ReadFailures
  <1>6. Tallies(w, j, calls[job[w].call], breaker[t], streak[t])
    BY <1>1, <1>4, CircuitUntouched DEF Tallies
  <1>7. Advances(w, j, calls[job[w].call]) /\ Spends(j, calls[job[w].call])
    BY <1>1, <1>4, <1>5, CircuitStep
  <1> QED BY <1>1, <1>4, <1>6, <1>7, AtWork DEF Does

LEMMA CountFailureDoes ==
    ASSUME ToolTypeOK, JobsInv, BudgetInv, NEW w \in Worker, CountFailure(w)
    PROVE  Does(w)
  <1> DEFINE t == job[w].tool
             old == breaker[t]
             n == Capped(streak[t] + 1)
             k == Capped(job[w].seen + 1)
  <1>1. Working(w) /\ job[w].at = "count" /\ UNCHANGED <<deployment, calls, life>> /\ Goto(w, "judge")
    BY DEF CountFailure, Working
  <1>2. PICK j \in JobRecord : /\ job' = [job EXCEPT ![w] = j] /\ j.at = "judge"
                               /\ j.tool = t /\ j.call = job[w].call
    BY <1>1, GotoGives DEF Place
  <1>3. n \in Nat /\ k \in Nat
    <2>1. streak[t] + 1 \in Nat /\ job[w].seen + 1 \in Nat
      BY <1>1, AtWork DEF JobRecord
    <2>2. \A m \in Nat : Capped(m) \in Nat
      BY CappedType
    <2> QED BY <2>1, <2>2
  <1>4. PICK b : b = [old EXCEPT !.failures = k]
    OBVIOUS
  <1>5. breaker' = [breaker EXCEPT ![t] = b] /\ streak' = [streak EXCEPT ![t] = n]
    BY <1>4 DEF CountFailure
  <1> HIDE DEF n, k
  <1>6. b \in Breaker /\ b.failures = k /\ b.state = old.state
    BY <1>1, <1>3, <1>4, AtWork DEF Breaker
  <1>7. Tallies(w, j, calls[job[w].call], b, n)
    BY <1>1, <1>2, <1>5, <1>6 DEF Tallies, n, k
  <1>8. Advances(w, j, calls[job[w].call]) /\ Spends(j, calls[job[w].call])
    BY <1>1, <1>2, CircuitStep
  <1> QED BY <1>1, <1>2, <1>3, <1>6, <1>7, <1>8, AtWork DEF Does

LEMMA CloseDoes ==
    ASSUME ToolTypeOK, JobsInv, BudgetInv, NEW w \in Worker, Close(w)
    PROVE  Does(w)
  <1> DEFINE t == job[w].tool
             old == breaker[t]
  <1>1. Working(w) /\ job[w].at = "close" /\ UNCHANGED <<deployment, streak, life>> /\ Finish(w, "ok")
    BY DEF Close, Working
  <1>2. PICK j \in JobRecord, c \in CallRecord :
            Advances(w, j, c) /\ Spends(j, c) /\ j.at \in {"free", "log"} /\ c.answer = "ok"
    BY <1>1, FinishGives DEF Outcome
  <1>3. PICK b : b = [old EXCEPT !.state = "closed", !.cooled = FALSE]
    OBVIOUS
  <1>4. b \in Breaker /\ b.failures = old.failures /\ b.state = "closed"
    BY <1>1, <1>3, AtWork DEF Breaker
  <1>5. breaker' = [breaker EXCEPT ![t] = b] /\ streak' = [streak EXCEPT ![t] = streak[t]]
    BY <1>1, <1>3, AtWork, WritesItself DEF Close
  <1>6. Tallies(w, j, c, b, streak[t])
    BY <1>1, <1>2, <1>4, <1>5 DEF Tallies
  <1> QED BY <1>1, <1>2, <1>4, <1>6, AtWork DEF Does

LEMMA JudgeDoes ==
    ASSUME ToolTypeOK, JobsInv, BudgetInv, NEW w \in Worker, Judge(w)
    PROVE  Does(w)
  <1> DEFINE t == job[w].tool
             old == breaker[t]
             opens == old.failures >= Threshold \/ old.state = "half_open"
  <1>1. Working(w) /\ job[w].at = "judge" /\ UNCHANGED <<deployment, streak, life>> /\ Finish(w, "failed")
    BY DEF Judge, Working
  <1>2. PICK j \in JobRecord, c \in CallRecord :
            Advances(w, j, c) /\ Spends(j, c) /\ j.at \in {"free", "log"} /\ c.answer = "failed"
    BY <1>1, FinishGives DEF Outcome
  <1>3. PICK b : b = IF opens THEN [old EXCEPT !.state = "open", !.cooled = FALSE] ELSE old
    OBVIOUS
  <1>4. /\ b \in Breaker /\ b.failures = old.failures
        /\ b.state # "closed" <=> old.state # "closed" \/ old.failures >= Threshold
    <2>1. CASE opens
      BY <2>1, <1>1, <1>3, AtWork DEF Breaker
    <2>2. CASE ~opens
      BY <2>2, <1>1, <1>3, AtWork DEF Breaker
    <2> QED BY <2>1, <2>2
  <1>5. breaker' = [breaker EXCEPT ![t] = b] /\ streak' = [streak EXCEPT ![t] = streak[t]]
    BY <1>1, <1>3, AtWork, WritesItself DEF Judge
  <1>6. Tallies(w, j, c, b, streak[t])
    BY <1>1, <1>2, <1>4, <1>5 DEF Tallies
  <1> QED BY <1>1, <1>2, <1>4, <1>6, AtWork DEF Does

LEMMA RecordDoes ==
    ASSUME ToolTypeOK, JobsInv, BudgetInv, NEW w \in Worker, Record(w)
    PROVE  Does(w)
  <1> DEFINE i == job[w].call
  <1>1. /\ Working(w) /\ job[w].at = "log" /\ job' = [job EXCEPT ![w] = Free]
        /\ UNCHANGED <<deployment, calls, life, breaker, streak>>
    BY DEF Record, Working, Leave
  <1>2. calls' = [calls EXCEPT ![i] = calls[i]]
    BY <1>1, AtWork, WritesItself DEF ToolTypeOK, HandlersOK
  <1>3. Advances(w, Free, calls[i])
    BY <1>1, <1>2, FreeIsAJob DEF Advances
  <1>4. Spends(Free, calls[i])
    BY <1>1, AtWork, FreeIsAJob DEF Spends
  <1>5. Tallies(w, Free, calls[i], breaker[job[w].tool], streak[job[w].tool])
    BY <1>1, FreeIsAJob, CircuitUntouched DEF Tallies
  <1> QED BY <1>1, <1>3, <1>4, <1>5, FreeIsAJob, AtWork DEF Does

LEMMA ServeDoes ==
    ASSUME ToolTypeOK, JobsInv, BudgetInv, NEW w \in Worker, Serve(w), ~Upsert(w)
    PROVE  Does(w)
  BY AdmitDoes, SucceedsDoes, RaisesDoes, TimesOutDoes, ResetFailuresDoes, CloseDoes, ReadFailuresDoes,
     CountFailureDoes, JudgeDoes, RecordDoes DEF Serve

-----------------------------------------------------------------------------
(* Steps that take up a request, or none: a registration or an invocation   *)
(* begins, a declaration is stored.                                        *)
TakesUp(w, j) ==
    /\ job[w].at \in {"free", "upsert"} /\ job' = [job EXCEPT ![w] = j]
    /\ j.at # "free" => w \in deployment.threads /\ j.tool \in Tool
    /\ UNCHANGED <<deployment, life, breaker, streak>>
    /\ \/ j.at \in {"free", "upsert"} /\ UNCHANGED calls
       \/ /\ j.at = "admit" /\ j.call = Len(calls) + 1 /\ 1 <= j.left /\ j.left <= Budget
          /\ \E c \in CallRecord : /\ calls' = Append(calls, c) /\ c.tool = j.tool /\ c.life = life
                                   /\ c.started = 0 /\ c.effects = 0 /\ c.running = 0 /\ c.answer = None

LEMMA RegisterTakesUp ==
    ASSUME ToolTypeOK, NEW w \in Worker, NEW t \in Tool, NEW risk \in Risk, Register(w, t, risk)
    PROVE  \E j \in JobRecord : TakesUp(w, j)
  <1>1. PICK j : j = [Free EXCEPT !.at = "upsert", !.tool = t, !.risk = risk]
    OBVIOUS
  <1>2. j = [at |-> "upsert", tool |-> t, call |-> 0, left |-> 0, seen |-> 0, risk |-> risk]
    BY <1>1 DEF Free
  <1>3. j \in JobRecord
    BY <1>2 DEF JobRecord, Place
  <1>4. /\ job[w].at = "free" /\ job' = [job EXCEPT ![w] = j] /\ w \in deployment.threads
        /\ UNCHANGED <<deployment, calls, life, breaker, streak>>
    BY <1>1, FreeIsAJob DEF Register
  <1> QED BY <1>2, <1>3, <1>4 DEF TakesUp

LEMMA UpsertTakesUp ==
    ASSUME NEW w \in Worker, Upsert(w)
    PROVE  TakesUp(w, Free)
  BY FreeIsAJob DEF Upsert, Leave, TakesUp

LEMMA InvokeTakesUp ==
    ASSUME ToolTypeOK, NEW w \in Worker, NEW t \in Tool, Invoke(w, t)
    PROVE  \E j \in JobRecord : TakesUp(w, j)
  <1> DEFINE left == IF Registry THEN Attempts(row[t].policy) ELSE 1
  <1>1. PICK c : c = [tool |-> t, life |-> life, started |-> 0, running |-> 0,
                      effects |-> 0, answer |-> None]
    OBVIOUS
  <1>2. /\ job[w].at = "free" /\ w \in deployment.threads /\ calls' = Append(calls, c)
        /\ UNCHANGED <<deployment, life, breaker, streak>>
    BY <1>1, FreeIsAJob DEF Invoke
  <1>3. calls \in Seq(CallRecord) /\ life \in Nat
    BY DEF ToolTypeOK, HandlersOK
  <1>4. c \in CallRecord
    BY <1>1, <1>3 DEF CallRecord
  <1>5. Len(calls') = Len(calls) + 1 /\ Len(calls) \in Nat
    BY <1>2, <1>3, <1>4
  <1>6. left \in Nat /\ 1 <= left /\ left <= Budget
    <2>1. row[t].policy = deployment.policy
      BY DEF ToolTypeOK, TablesOK
    <2> QED BY <2>1, BudgetType DEF Budget
  <1>7. PICK j : j = [Free EXCEPT !.at = "admit", !.tool = t, !.call = Len(calls'), !.left = left]
    OBVIOUS
  <1>8. job' = [job EXCEPT ![w] = j]
    BY <1>7 DEF Invoke
  <1> HIDE DEF left
  <1>9. j = [at |-> "admit", tool |-> t, call |-> Len(calls'), left |-> left, seen |-> 0, risk |-> "read_only"]
    BY <1>7 DEF Free
  <1>10. j \in JobRecord
    BY <1>5, <1>6, <1>9 DEF JobRecord, Place, Risk
  <1>11. j.at = "admit" /\ j.call = Len(calls) + 1 /\ j.left = left /\ j.tool = t
    BY <1>5, <1>9
  <1>12. TakesUp(w, j)
    BY <1>1, <1>2, <1>4, <1>6, <1>8, <1>11 DEF TakesUp
  <1> QED BY <1>10, <1>12

LEMMA TakingUpKeeps ==
    ASSUME ToolTypeOK, JobsInv, BudgetInv, NEW w \in Worker, NEW j \in JobRecord, TakesUp(w, j)
    PROVE  HandlersOK' /\ JobsInv' /\ BudgetInv'
  <1>1. /\ job \in [Worker -> JobRecord] /\ calls \in Seq(CallRecord) /\ Len(calls) \in Nat
        /\ job' = [job EXCEPT ![w] = j] /\ UNCHANGED <<deployment, life>>
        /\ DOMAIN calls = 1 .. Len(calls) /\ ~Working(w)
    BY DEF ToolTypeOK, HandlersOK, TakesUp, Working
  <1>2. job' \in [Worker -> JobRecord] /\ job'[w] = j /\ \A v \in Worker : v # w => job'[v] = job[v]
    BY <1>1
  <1>3. Budget' = Budget
    BY <1>1 DEF Budget, Attempts
  <1>4. \A v \in Worker : job'[v].at # "free" => v \in deployment'.threads /\ job'[v].tool \in Tool
    BY <1>1, <1>2 DEF JobsInv, TakesUp
  <1>5. \A v \in Worker : Working(v) => v # w /\ job[v].call \in DOMAIN calls
    BY <1>1 DEF JobsInv
  <1>6. CASE j.at \in {"free", "upsert"} /\ UNCHANGED calls
    <2>1. \A v \in Worker : Working(v)' => Working(v) /\ job'[v] = job[v]
      BY <1>2, <1>6 DEF Working
    <2>2. HandlersOK'
      BY <1>1, <1>2, <1>6 DEF HandlersOK, ToolTypeOK
    <2>3. JobsInv'
      BY <1>1, <1>4, <1>6, <2>1 DEF JobsInv
    <2>4. \A v \in Worker : job'[v].at \in {"admit", "attempt"} => job'[v] = job[v]
      BY <1>2, <1>6
    <2>5. BudgetInv'
      BY <1>3, <1>6, <2>4 DEF BudgetInv
    <2> QED BY <2>2, <2>3, <2>5
  <1>7. CASE ~(j.at \in {"free", "upsert"} /\ UNCHANGED calls)
    <2>1. j.at = "admit" /\ j.call = Len(calls) + 1 /\ 1 <= j.left /\ j.left <= Budget
      BY <1>7 DEF TakesUp
    <2>2. PICK c \in CallRecord : /\ calls' = Append(calls, c) /\ c.tool = j.tool /\ c.life = life
                                  /\ c.started = 0 /\ c.effects = 0 /\ c.running = 0 /\ c.answer = None
      BY <1>7 DEF TakesUp
    <2>3. /\ calls' \in Seq(CallRecord) /\ DOMAIN calls' = 1 .. Len(calls) + 1
          /\ calls'[Len(calls) + 1] = c /\ \A i \in DOMAIN calls : calls'[i] = calls[i]
      BY <1>1, <2>2
    <2>4. \A v \in Worker : Working(v)' => v = w \/ (v # w /\ Working(v) /\ job'[v] = job[v])
      BY <1>2 DEF Working
    <2>5. HandlersOK'
      BY <1>1, <1>2, <2>3 DEF HandlersOK, ToolTypeOK
    <2>6. ASSUME NEW v \in Worker, Working(v)'
          PROVE  /\ job'[v].call \in DOMAIN calls'
                 /\ calls'[job'[v].call].tool = job'[v].tool /\ calls'[job'[v].call].life = life'
                 /\ job'[v].at # "log" => calls'[job'[v].call].answer = None
      <3>1. CASE v = w
        BY <3>1, <1>1, <1>2, <2>1, <2>2, <2>3
      <3>2. CASE v # w
        <4>1. Working(v) /\ job'[v] = job[v] /\ job[v].call \in DOMAIN calls
          BY <2>6, <3>2, <2>4, <1>5
        <4>2. job[v].call \in DOMAIN calls' /\ calls'[job[v].call] = calls[job[v].call]
          BY <4>1, <1>1, <2>3
        <4> QED BY <4>1, <4>2, <1>1 DEF JobsInv
      <3> QED BY <3>1, <3>2
    <2>7. ASSUME NEW u \in Worker, NEW v \in Worker, Working(u)', Working(v)', job'[u].call = job'[v].call
          PROVE  u = v
      <3>1. \A x \in Worker : Working(x) => job[x].call \in 1 .. Len(calls)
        BY <1>1, <1>5
      <3>2. j.call \notin 1 .. Len(calls)
        BY <1>1, <2>1
      <3> QED BY <2>7, <2>4, <3>1, <3>2, <1>2 DEF JobsInv
    <2>8. JobsInv'
      BY <1>4, <2>6, <2>7 DEF JobsInv
    <2>9. BudgetInv'
      <3>1. ASSUME NEW i \in DOMAIN calls'
            PROVE  /\ calls'[i].effects + calls'[i].running <= calls'[i].started
                   /\ calls'[i].started <= Budget'
        <4>1. CASE i \in DOMAIN calls
          BY <4>1, <1>3, <2>3 DEF BudgetInv
        <4>2. CASE i \notin DOMAIN calls
          <5>1. i = Len(calls) + 1
            BY <4>2, <1>1, <2>3
          <5> QED BY <5>1, <1>3, <2>2, <2>3, BudgetType
        <4> QED BY <4>1, <4>2
      <3>2. ASSUME NEW v \in Worker, job'[v].at \in {"admit", "attempt"}
            PROVE  job'[v].left >= 1 /\ calls'[job'[v].call].started + job'[v].left <= Budget'
        <4>1. CASE v = w
          <5>1. job'[v] = j /\ calls'[job'[v].call] = c
            BY <4>1, <1>2, <2>1, <2>3
          <5> QED BY <5>1, <1>3, <2>1, <2>2, BudgetType DEF JobRecord
        <4>2. CASE v # w
          <5>1. Working(v) /\ job'[v] = job[v] /\ job[v].call \in DOMAIN calls
            BY <3>2, <4>2, <1>2, <1>5 DEF Working
          <5>2. calls'[job[v].call] = calls[job[v].call]
            BY <5>1, <2>3
          <5> QED BY <3>2, <5>1, <5>2, <1>3 DEF BudgetInv
        <4> QED BY <4>1, <4>2
      <3> QED BY <3>1, <3>2 DEF BudgetInv
    <2> QED BY <2>5, <2>8, <2>9
  <1> QED BY <1>6, <1>7

-----------------------------------------------------------------------------
(* The steps of the service, by what they are to calls and circuits.        *)
LEMMA NextCases ==
    ASSUME ToolTypeOK, JobsInv, BudgetInv, Next
    PROVE  \/ \E w \in Worker : Does(w)
           \/ \E w \in Worker, j \in JobRecord : TakesUp(w, j)
           \/ \E i \in DOMAIN calls : LateEnd(i)
           \/ \E t \in Tool : CoolDown(t)
           \/ Restart
  <1>1. ASSUME NEW w \in Worker, NEW t \in Tool, Invoke(w, t)
        PROVE  \E v \in Worker, j \in JobRecord : TakesUp(v, j)
    BY <1>1, InvokeTakesUp
  <1>2. ASSUME NEW w \in Worker, NEW t \in Tool, NEW risk \in {"read_only", "forbidden"}, Register(w, t, risk)
        PROVE  \E v \in Worker, j \in JobRecord : TakesUp(v, j)
    BY <1>2, RegisterTakesUp DEF Risk
  <1>3. ASSUME NEW w \in Worker, Serve(w)
        PROVE  (\E v \in Worker : Does(v)) \/ \E v \in Worker, j \in JobRecord : TakesUp(v, j)
    BY <1>3, ServeDoes, UpsertTakesUp, FreeIsAJob
  <1> QED BY <1>1, <1>2, <1>3 DEF Next

LEMMA LateEndKeeps ==
    ASSUME ToolTypeOK, JobsInv, BudgetInv, NEW i \in DOMAIN calls, LateEnd(i)
    PROVE  HandlersOK' /\ JobsInv' /\ BudgetInv'
  <1>1. PICK effect \in 0 .. 1 : calls' = [calls EXCEPT ![i] = Ended(@, effect)]
    BY DEF LateEnd
  <1>2. PICK c : c = Ended(calls[i], effect)
    OBVIOUS
  <1>3. calls \in Seq(CallRecord) /\ calls[i] \in CallRecord /\ calls[i].running > 0
    BY DEF ToolTypeOK, HandlersOK, LateEnd
  <1>4. /\ c \in CallRecord /\ c.started = calls[i].started
        /\ c.effects = calls[i].effects + effect /\ c.running = calls[i].running - 1
        /\ c.answer = calls[i].answer /\ c.tool = calls[i].tool /\ c.life = calls[i].life
    BY <1>2, <1>3, EndedType
  <1>5. calls' = [calls EXCEPT ![i] = c] /\ UNCHANGED <<deployment, job, life>>
    BY <1>1, <1>2 DEF LateEnd
  <1>6. /\ calls' \in Seq(CallRecord) /\ DOMAIN calls' = DOMAIN calls /\ calls'[i] = c
        /\ \A k \in DOMAIN calls : k # i => calls'[k] = calls[k]
    BY <1>3, <1>4, <1>5
  <1>7. \A k \in DOMAIN calls : /\ calls'[k].tool = calls[k].tool /\ calls'[k].life = calls[k].life
                                /\ calls'[k].started = calls[k].started
                                /\ calls'[k].answer = calls[k].answer
    BY <1>4, <1>6
  <1>8. Budget' = Budget
    BY <1>5 DEF Budget, Attempts
  <1>9. HandlersOK'
    BY <1>5, <1>6 DEF ToolTypeOK, HandlersOK
  <1>10. JobsInv'
    BY <1>5, <1>6, <1>7 DEF JobsInv, Working
  <1>11. BudgetInv'
    <2>1. ASSUME NEW k \in DOMAIN calls
          PROVE  /\ calls'[k].effects + calls'[k].running <= calls'[k].started
                 /\ calls'[k].started <= Budget
      <3>1. CASE k = i
        <4>1. {c.started, c.running, c.effects, calls[i].started, calls[i].effects, calls[i].running} \subseteq Nat
          BY <1>3, <1>4 DEF CallRecord
        <4>2. calls[i].effects + calls[i].running <= calls[i].started /\ calls[i].started <= Budget
          BY DEF BudgetInv
        <4>3. c.effects + c.running <= c.started
          BY <4>1, <4>2, <1>4
        <4> QED BY <3>1, <4>2, <4>3, <1>4, <1>6
      <3>2. CASE k # i
        BY <3>2, <1>6 DEF BudgetInv
      <3> QED BY <3>1, <3>2
    <2>2. ASSUME NEW w \in Worker, job[w].at \in {"admit", "attempt"}
          PROVE  calls'[job[w].call].started = calls[job[w].call].started
      BY <2>2, <1>7 DEF JobsInv, Working
    <2> QED BY <2>1, <2>2, <1>5, <1>6, <1>8 DEF BudgetInv
  <1> QED BY <1>9, <1>10, <1>11

LEMMA RestartKeeps ==
    ASSUME ToolTypeOK, JobsInv, BudgetInv, Restart
    PROVE  HandlersOK' /\ JobsInv' /\ BudgetInv'
  <1>1. /\ calls \in Seq(CallRecord) /\ calls' = [i \in DOMAIN calls |-> [calls[i] EXCEPT !.running = 0]]
        /\ job' = [w \in Worker |-> Free] /\ life' \in Nat /\ deployment' = deployment
    BY DEF Restart, ToolTypeOK, HandlersOK
  <1>2. \A i \in DOMAIN calls :
            /\ calls'[i] \in CallRecord /\ calls'[i].running = 0
            /\ calls'[i].effects = calls[i].effects /\ calls'[i].started = calls[i].started
    <2>1. ASSUME NEW i \in DOMAIN calls, NEW c, c = [calls[i] EXCEPT !.running = 0]
          PROVE  /\ c \in CallRecord /\ c.running = 0
                 /\ c.effects = calls[i].effects /\ c.started = calls[i].started
      <3>1. calls[i] \in CallRecord
        BY <1>1
      <3> QED BY <2>1, <3>1 DEF CallRecord
    <2> QED BY <1>1, <2>1
  <1>3. calls' \in Seq(CallRecord) /\ DOMAIN calls' = DOMAIN calls
    <2>1. DOMAIN calls' = 1 .. Len(calls) /\ Len(calls) \in Nat
      BY <1>1
    <2> QED BY <1>1, <1>2, <2>1
  <1>4. job' \in [Worker -> JobRecord] /\ \A w \in Worker : job'[w].at = "free"
    BY <1>1, FreeIsAJob
  <1>5. HandlersOK'
    BY <1>1, <1>3, <1>4 DEF HandlersOK
  <1>6. JobsInv'
    BY <1>4 DEF JobsInv, Working
  <1>7. BudgetInv'
    <2>1. Budget' = Budget
      BY <1>1 DEF Budget, Attempts
    <2>2. \A i \in DOMAIN calls : /\ {calls[i].effects, calls[i].running, calls[i].started} \subseteq Nat
                                  /\ calls[i].effects + calls[i].running <= calls[i].started
                                  /\ calls[i].started <= Budget
      <3>1. \A i \in DOMAIN calls : calls[i] \in CallRecord
        BY <1>1
      <3> QED BY <3>1 DEF BudgetInv, CallRecord
    <2> QED BY SMTT(30), <1>2, <1>3, <1>4, <2>1, <2>2 DEF BudgetInv
  <1> QED BY <1>5, <1>6, <1>7

LEMMA BudgetStep ==
    ASSUME ToolTypeOK, JobsInv, BudgetInv, [Next]_vars
    PROVE  HandlersOK' /\ JobsInv' /\ BudgetInv'
  <1>1. ASSUME NEW w \in Worker, Does(w)
        PROVE  HandlersOK' /\ JobsInv' /\ BudgetInv'
    BY <1>1, AdvancesKeeps DEF Does
  <1>2. ASSUME NEW t \in Tool, CoolDown(t)
        PROVE  HandlersOK' /\ JobsInv' /\ BudgetInv'
    BY <1>2 DEF CoolDown, HandlersOK, ToolTypeOK, JobsInv, BudgetInv, Working, Budget, Attempts
  <1>3. CASE UNCHANGED vars
    BY <1>3 DEF vars, HandlersOK, ToolTypeOK, JobsInv, BudgetInv, Working, Budget, Attempts
  <1>4. CASE Next
    BY <1>1, <1>2, <1>4, NextCases, TakingUpKeeps, LateEndKeeps, RestartKeeps
  <1> QED BY <1>3, <1>4

(* The tables in memory and in the database keep their types.               *)
LEMMA TablesStep ==
    ASSUME ToolTypeOK, JobsInv, [Next]_vars
    PROVE  TablesOK' /\ LogOK'
  <1> USE DEF ToolTypeOK, TablesOK, LogOK
  <1>1. UNCHANGED <<deployment, spec, row>> \/ (\E w \in Worker, t \in Tool, risk \in Risk : Register(w, t, risk))
           \/ (\E w \in Worker : Upsert(w)) \/ Restart
    BY DEF Next, vars, Invoke, Serve, Admit, Succeeds, Raises, TimesOut, ResetFailures, Close,
           ReadFailures, CountFailure, Judge, Record, LateEnd, CoolDown, Risk
  <1>2. UNCHANGED log \/ (\E w \in Worker : Record(w)) \/ Restart
    BY DEF Next, vars, Invoke, Serve, Admit, Succeeds, Raises, TimesOut, ResetFailures, Close,
           ReadFailures, CountFailure, Judge, Register, Upsert, LateEnd, CoolDown
  <1>3. Bound \in [risk : Risk, handler : BOOLEAN]
    BY DEF Bound, Risk
  <1>4. \A risk \in Risk : Declared(risk) \in [risk : Risk, policy : {deployment.policy}]
    BY DEF Declared
  <1>5. TablesOK'
    <2>1. ASSUME NEW w \in Worker, NEW t \in Tool, NEW risk \in Risk, Register(w, t, risk)
          PROVE  TablesOK'
      BY <2>1 DEF Register
    <2>2. ASSUME NEW w \in Worker, Upsert(w)
          PROVE  TablesOK'
      <3>1. job[w] \in JobRecord /\ job[w].tool \in Tool
        BY <2>2 DEF Upsert, HandlersOK, JobsInv
      <3>2. Declared(job[w].risk) \in [risk : Risk, policy : {deployment.policy}]
        BY <3>1, <1>4 DEF JobRecord
      <3> QED BY <2>2, <3>1, <3>2 DEF Upsert
    <2>3. CASE Restart
      <3>1. Declared("read_only") \in [risk : Risk, policy : {deployment.policy}]
        BY <1>4 DEF Risk
      <3> QED BY <2>3, <1>3, <3>1 DEF Restart
    <2> QED BY <1>1, <2>1, <2>2, <2>3
  <1>6. LogOK'
    <2>1. ASSUME NEW w \in Worker, Record(w)
          PROVE  LogOK'
      <3>1. job[w].call \in Nat /\ log.counter + 1 \in Nat /\ log.rows \in Seq(Nat)
        BY DEF HandlersOK, JobRecord
      <3>2. Append(log.rows, job[w].call) \in Seq(Nat)
        BY <3>1
      <3> QED BY <2>1, <3>1, <3>2 DEF Record
    <2>2. CASE Restart
      BY <2>2 DEF Restart
    <2> QED BY <1>2, <2>1, <2>2
  <1> QED BY <1>5, <1>6

LEMMA CircuitsStep ==
    ASSUME ToolTypeOK, JobsInv, BudgetInv, [Next]_vars
    PROVE  CircuitsOK'
  <1> USE DEF ToolTypeOK, CircuitsOK
  <1>1. ASSUME NEW w \in Worker, Does(w)
        PROVE  CircuitsOK'
    <2>1. PICK j \in JobRecord, c \in CallRecord, b \in Breaker, n \in Nat : Tallies(w, j, c, b, n)
      BY <1>1 DEF Does
    <2> QED BY <2>1 DEF Tallies
  <1>2. ASSUME NEW w \in Worker, NEW j \in JobRecord, TakesUp(w, j)
        PROVE  CircuitsOK'
    BY <1>2 DEF TakesUp
  <1>3. ASSUME NEW t \in Tool, CoolDown(t)
        PROVE  CircuitsOK'
    <2>1. PICK b : b = [breaker[t] EXCEPT !.cooled = TRUE]
      OBVIOUS
    <2>2. b \in Breaker
      BY <2>1 DEF Breaker
    <2>3. breaker' = [breaker EXCEPT ![t] = b] /\ streak' = streak
      BY <1>3, <2>1 DEF CoolDown
    <2> QED BY <2>2, <2>3
  <1>4. CASE Restart
    <2>1. Closed \in Breaker
      BY DEF Closed, Breaker
    <2> QED BY <1>4, <2>1 DEF Restart
  <1>5. ASSUME NEW i \in DOMAIN calls, LateEnd(i)
        PROVE  CircuitsOK'
    BY <1>5 DEF LateEnd
  <1>6. CASE UNCHANGED vars
    BY <1>6 DEF vars
  <1>7. CASE Next
    BY <1>1, <1>2, <1>3, <1>4, <1>5, <1>7, NextCases
  <1> QED BY <1>6, <1>7

LEMMA ToolInvInitially ==
    ASSUME Init
    PROVE  ToolInv
  <1>1. TablesOK
    <2>1. Bound \in [risk : Risk, handler : BOOLEAN]
      BY DEF Bound, Risk
    <2>2. Declared("read_only") \in [risk : Risk, policy : {deployment.policy}]
      BY DEF Declared, Risk
    <2> QED BY <2>1, <2>2 DEF Init, TablesOK
  <1>2. CircuitsOK
    <2>1. Closed \in Breaker
      BY DEF Closed, Breaker
    <2> QED BY <2>1 DEF Init, CircuitsOK
  <1>3. HandlersOK /\ LogOK
    <2>1. << >> \in Seq(CallRecord) /\ << >> \in Seq(Nat)
      OBVIOUS
    <2> QED BY <2>1, FreeIsAJob DEF Init, HandlersOK, LogOK
  <1>4. \A w \in Worker : job[w].at = "free"
    BY FreeIsAJob DEF Init
  <1>5. calls = << >>
    BY DEF Init
  <1> QED BY <1>1, <1>2, <1>3, <1>4, <1>5 DEF ToolInv, ToolTypeOK, JobsInv, BudgetInv, Working

LEMMA ToolInvStep ==
    ASSUME ToolInv, [Next]_vars
    PROVE  ToolInv'
  BY BudgetStep, TablesStep, CircuitsStep DEF ToolInv, ToolTypeOK

LEMMA ToolInvAlways == Spec => []ToolInv
  <1>1. Init => ToolInv
    BY ToolInvInitially
  <1>2. ToolInv /\ [Next]_vars => ToolInv'
    BY ToolInvStep
  <1> QED BY <1>1, <1>2, PTL DEF Spec

(* Tables, circuits, jobs, calls and log keep their types, for any number   *)
(* of tools, threads and invocations.                                      *)
THEOREM ToolTypesCorrect == Spec => []ToolTypeOK
  <1>1. ToolInv => ToolTypeOK
    BY DEF ToolInv
  <1> QED BY <1>1, ToolInvAlways, PTL

(* An invocation's effects stay within its retry policy, whatever the       *)
(* policy is, however many requests overlap, time out and are answered      *)
(* late, and across restarts: every effect and every handler still running *)
(* has been an attempt, and attempts made and left never exceed it.         *)
THEOREM PolicyBoundsEffects ==
    Spec => []( /\ EffectsWithinPolicy
                /\ \A i \in DOMAIN calls :
                       calls[i].effects + calls[i].running <= Attempts(deployment.policy) )
  <1>1. ASSUME ToolInv, NEW i \in DOMAIN calls
        PROVE  calls[i].effects + calls[i].running <= Budget
    <2>1. calls[i] \in CallRecord
      BY <1>1 DEF ToolInv, ToolTypeOK, HandlersOK
    <2>2. /\ calls[i].effects + calls[i].running <= calls[i].started
          /\ calls[i].started <= Budget
      BY <1>1 DEF ToolInv, BudgetInv
    <2>3. Budget \in Nat
      BY <1>1, BudgetType DEF ToolInv
    <2> QED BY <2>1, <2>2, <2>3 DEF CallRecord
  <1>2. ASSUME ToolInv
        PROVE  EffectsWithinPolicy
    <2>1. ASSUME NEW i \in DOMAIN calls, NEW n \in 0 .. 3,
                 \/ deployment.policy = [max_retries |-> n]
                 \/ deployment.policy = [max_attempts |-> n + 1]
                 \/ n = 0 /\ deployment.policy = [max_attempts |-> 0]
          PROVE  calls[i].effects + calls[i].running <= n + 1
      <3>1. Budget = n + 1
        BY <2>1 DEF Budget, Attempts
      <3> QED BY <1>1, <1>2, <3>1
    <2>2. ASSUME NEW i \in DOMAIN calls,
                 deployment.policy \in {[max_retries |-> 0], [max_attempts |-> 0], [max_attempts |-> 1]}
          PROVE  calls[i].effects + calls[i].running <= 1
      <3>1. \/ deployment.policy = [max_retries |-> 0]
            \/ deployment.policy = [max_attempts |-> 0 + 1]
            \/ deployment.policy = [max_attempts |-> 0]
        BY <2>2
      <3>2. calls[i].effects + calls[i].running <= 0 + 1
        BY <2>1, <3>1
      <3> QED BY <3>2
    <2>3. ASSUME NEW i \in DOMAIN calls, NEW n \in 1 .. 3,
                 deployment.policy \in {[max_retries |-> n], [max_attempts |-> n + 1]}
          PROVE  calls[i].effects + calls[i].running <= n + 1
      BY <2>1, <2>3
    <2> QED BY <2>2, <2>3 DEF EffectsWithinPolicy
  <1>3. ToolInv => /\ EffectsWithinPolicy
                   /\ \A i \in DOMAIN calls :
                          calls[i].effects + calls[i].running <= Attempts(deployment.policy)
    BY <1>1, <1>2 DEF Budget
  <1> QED BY <1>3, ToolInvAlways, PTL

-----------------------------------------------------------------------------
(* The requests for t that have failed in this life, and are counted.       *)
Counted(t) == {i \in DOMAIN calls :
                  /\ calls[i].tool = t /\ calls[i].life = life
                  /\ \/ calls[i].answer = "failed"
                     \/ \E w \in Worker : job[w].call = i /\ job[w].at = "judge"}
CountInv ==
    \A t \in Tool :
        /\ breaker[t].failures <= Cardinality(Counted(t))
        /\ breaker[t].state # "closed" => Cardinality(Counted(t)) >= Threshold
        /\ \A w \in Worker : job[w].at = "count" /\ job[w].tool = t =>
               job[w].seen <= Cardinality(Counted(t))

(* In turn the breaker's count is the number of failures in a row, and its  *)
(* state follows but for the step that is about to bring it in line.        *)
Settling(w, t) == job[w].tool = t /\ job[w].at \in {"close", "judge"}
TurnInv ==
    InTurn =>
        /\ \A t \in Tool : /\ breaker[t].failures = streak[t]
                           /\ (\A w \in Worker : ~Settling(w, t)) =>
                                  (breaker[t].state = "closed" <=> streak[t] < Threshold)
        /\ \A w \in Worker :
               /\ job[w].at = "count" => job[w].seen = breaker[job[w].tool].failures
               /\ job[w].at = "close" => streak[job[w].tool] = 0
               /\ job[w].at = "judge" /\ breaker[job[w].tool].state # "closed" =>
                      streak[job[w].tool] >= Threshold


LEMMA CallsFinite ==
    ASSUME NEW q \in Seq(CallRecord), NEW S, S \subseteq DOMAIN q
    PROVE  IsFiniteSet(S) /\ Cardinality(S) \in Nat
  <1>1. IsFiniteSet(1 .. Len(q)) /\ DOMAIN q = 1 .. Len(q)
    BY FS_Interval
  <1> QED BY <1>1, FS_Subset, FS_CardinalityType

(* What is counted stays so while the process lives.                       *)
LEMMA CountedStays ==
    ASSUME ToolTypeOK, HandlersOK', NEW t, Counted(t) \subseteq Counted(t)'
    PROVE  /\ Cardinality(Counted(t)) <= Cardinality(Counted(t)')
           /\ Cardinality(Counted(t)) \in Nat /\ Cardinality(Counted(t)') \in Nat
           /\ IsFiniteSet(Counted(t)) /\ IsFiniteSet(Counted(t)')
  <1>1. calls' \in Seq(CallRecord) /\ calls \in Seq(CallRecord)
    BY DEF ToolTypeOK, HandlersOK
  <1>2. Counted(t)' \subseteq DOMAIN calls' /\ Counted(t) \subseteq DOMAIN calls
    BY DEF Counted
  <1>3. /\ IsFiniteSet(Counted(t)') /\ Cardinality(Counted(t)') \in Nat
        /\ IsFiniteSet(Counted(t)) /\ Cardinality(Counted(t)) \in Nat
    BY <1>1, <1>2, CallsFinite
  <1> QED BY <1>3, FS_Subset

(* Nothing is counted anew, and no circuit opens.                          *)
LEMMA CountKeptBy ==
    ASSUME ToolTypeOK, HandlersOK', CountInv,
           \A t \in Tool : Counted(t) \subseteq Counted(t)',
           \A t \in Tool : breaker'[t].failures = breaker[t].failures /\ breaker'[t].state = breaker[t].state,
           \A w \in Worker : job'[w].at = "count" => job'[w] = job[w]
    PROVE  CountInv'
  <1>1. ASSUME NEW t \in Tool
        PROVE  /\ breaker'[t].failures <= Cardinality(Counted(t)')
               /\ breaker'[t].state # "closed" => Cardinality(Counted(t)') >= Threshold
               /\ \A w \in Worker : job'[w].at = "count" /\ job'[w].tool = t =>
                      job'[w].seen <= Cardinality(Counted(t)')
    <2>1. /\ Cardinality(Counted(t)) <= Cardinality(Counted(t)')
          /\ Cardinality(Counted(t)) \in Nat /\ Cardinality(Counted(t)') \in Nat
      BY CountedStays
    <2>2. breaker[t] \in Breaker /\ Threshold \in Nat
      BY ConstantsAssumption DEF ToolTypeOK, CircuitsOK
    <2>3. /\ breaker[t].failures <= Cardinality(Counted(t))
          /\ breaker[t].state # "closed" => Cardinality(Counted(t)) >= Threshold
      BY DEF CountInv
    <2>4. ASSUME NEW w \in Worker, job'[w].at = "count", job'[w].tool = t
          PROVE  job'[w].seen <= Cardinality(Counted(t)')
      <3>1. job[w].seen <= Cardinality(Counted(t)) /\ job[w] \in JobRecord /\ job'[w] = job[w]
        BY <2>4 DEF CountInv, ToolTypeOK, HandlersOK
      <3> QED BY <2>1, <3>1 DEF JobRecord
    <2> QED BY <2>1, <2>2, <2>3, <2>4 DEF Breaker
  <1> QED BY <1>1 DEF CountInv

LEMMA CountTakingUp ==
    ASSUME ToolTypeOK, JobsInv, HandlersOK', CountInv, NEW w \in Worker, NEW j \in JobRecord, TakesUp(w, j)
    PROVE  CountInv'
  <1>1. /\ job \in [Worker -> JobRecord] /\ job' = [job EXCEPT ![w] = j] /\ job[w].at \in {"free", "upsert"}
        /\ j.at \in {"free", "upsert", "admit"} /\ UNCHANGED <<breaker, life>>
    BY DEF TakesUp, ToolTypeOK, HandlersOK
  <1>2. job'[w] = j /\ \A v \in Worker : v # w => job'[v] = job[v]
    BY <1>1
  <1>3. \A i \in DOMAIN calls : i \in DOMAIN calls' /\ calls'[i] = calls[i]
    <2>1. CASE UNCHANGED calls
      BY <2>1
    <2>2. CASE ~UNCHANGED calls
      <3>1. PICK c \in CallRecord : calls' = Append(calls, c)
        BY <2>2 DEF TakesUp
      <3>2. calls \in Seq(CallRecord)
        BY DEF ToolTypeOK, HandlersOK
      <3> QED BY <3>1, <3>2
    <2> QED BY <2>1, <2>2
  <1>4. \A t \in Tool : Counted(t) \subseteq Counted(t)'
    BY <1>1, <1>2, <1>3 DEF Counted
  <1>5. \A v \in Worker : job'[v].at = "count" => job'[v] = job[v]
    BY <1>1, <1>2
  <1>6. \A t \in Tool : breaker'[t].failures = breaker[t].failures /\ breaker'[t].state = breaker[t].state
    BY <1>1
  <1> QED BY <1>4, <1>5, <1>6, CountKeptBy

LEMMA CountServing ==
    ASSUME ToolTypeOK, JobsInv, BudgetInv, HandlersOK', CountInv, NEW w \in Worker, Does(w)
    PROVE  CountInv'
  <1>1. PICK j \in JobRecord, c \in CallRecord, b \in Breaker, n \in Nat :
            Advances(w, j, c) /\ Tallies(w, j, c, b, n)
    BY DEF Does
  <1> DEFINE i == job[w].call
             u == job[w].tool
  <1>2. /\ job \in [Worker -> JobRecord] /\ job' = [job EXCEPT ![w] = j] /\ job[w] \in JobRecord
        /\ calls \in Seq(CallRecord) /\ calls' = [calls EXCEPT ![i] = c]
        /\ breaker \in [Tool -> Breaker] /\ breaker' = [breaker EXCEPT ![u] = b]
        /\ i \in DOMAIN calls /\ Working(w) /\ life' = life /\ u \in Tool
        /\ c.tool = calls[i].tool /\ c.life = calls[i].life /\ calls[i].tool = u /\ calls[i].life = life
    BY <1>1, AtWork DEF ToolTypeOK, HandlersOK, Advances, Tallies, JobsInv
  <1>3. /\ job'[w] = j /\ \A v \in Worker : v # w => job'[v] = job[v]
        /\ DOMAIN calls' = DOMAIN calls
        /\ calls'[i] = c /\ \A k \in DOMAIN calls : k # i => calls'[k] = calls[k]
        /\ breaker'[u] = b /\ \A t \in Tool : t # u => breaker'[t] = breaker[t]
    BY <1>2
  <1>4. job[w].at # "log" => calls[i].answer # "failed"
    BY <1>2, ConstantsAssumption DEF JobsInv, Outcome
  <1>5. \A t \in Tool : Counted(t) \subseteq Counted(t)'
    <2>1. ASSUME NEW t \in Tool, NEW k \in Counted(t)
          PROVE  k \in Counted(t)'
      <3>1. CASE k = i
        <4>1. job[w].at \in {"log", "judge"} /\ (job[w].at = "log" => calls[i].answer = "failed")
          <5>1. ASSUME job[w].at # "log"
                PROVE  job[w].at = "judge"
            <6>1. PICK v \in Worker : job[v].call = i /\ job[v].at = "judge"
              BY <2>1, <3>1, <5>1, <1>4 DEF Counted
            <6>2. v = w
              BY <6>1, <1>2 DEF JobsInv, Working
            <6> QED BY <6>1, <6>2
          <5>2. ASSUME job[w].at = "log", calls[i].answer # "failed"
                PROVE  FALSE
            <6>1. PICK v \in Worker : job[v].call = i /\ job[v].at = "judge"
              BY <2>1, <3>1, <5>2 DEF Counted
            <6>2. v = w
              BY <6>1, <1>2 DEF JobsInv, Working
            <6> QED BY <6>1, <6>2, <5>2
          <5> QED BY <5>1, <5>2
        <4>2. c.answer = "failed"
          BY <4>1, <1>1 DEF Tallies
        <4> QED BY <2>1, <3>1, <4>2, <1>2, <1>3 DEF Counted
      <3>2. CASE k # i
        <4>1. \A v \in Worker : job[v].call = k /\ job[v].at = "judge" => v # w
          BY <3>2
        <4> QED BY <2>1, <3>2, <4>1, <1>2, <1>3 DEF Counted
      <3> QED BY <3>1, <3>2
    <2> QED BY <2>1
  <1>6. ASSUME NEW t \in Tool
        PROVE  /\ breaker'[t].failures <= Cardinality(Counted(t)')
               /\ breaker'[t].state # "closed" => Cardinality(Counted(t)') >= Threshold
               /\ \A v \in Worker : job'[v].at = "count" /\ job'[v].tool = t =>
                      job'[v].seen <= Cardinality(Counted(t)')
    <2>1. /\ Cardinality(Counted(t)) <= Cardinality(Counted(t)')
          /\ Cardinality(Counted(t)) \in Nat /\ Cardinality(Counted(t)') \in Nat
          /\ IsFiniteSet(Counted(t)) /\ IsFiniteSet(Counted(t)')
      BY <1>5, CountedStays
    <2>2. breaker[t] \in Breaker /\ Threshold \in Nat
      BY ConstantsAssumption DEF ToolTypeOK, CircuitsOK
    <2>3. /\ breaker[t].failures <= Cardinality(Counted(t))
          /\ breaker[t].state # "closed" => Cardinality(Counted(t)) >= Threshold
          /\ \A v \in Worker : job[v].at = "count" /\ job[v].tool = t => job[v].seen <= Cardinality(Counted(t))
      BY DEF CountInv
    <2>4. breaker'[t].failures <= Cardinality(Counted(t)')
      <3>1. CASE t # u
        BY <3>1, <2>1, <2>2, <2>3, <1>3 DEF Breaker
      <3>2. CASE t = u /\ job[w].at = "count"
        <4>1. b.failures <= job[w].seen + 1 /\ job[w].seen \in Nat /\ j.at = "judge"
          <5>1. job[w].seen \in Nat /\ job[w].seen + 1 \in Nat
            BY <1>2 DEF JobRecord
          <5>2. \A m \in Nat : Capped(m) <= m
            BY CappedType
          <5> QED BY <3>2, <5>1, <5>2, <1>1 DEF Tallies
        <4>2. i \notin Counted(t)
          <5>1. ASSUME NEW v \in Worker, job[v].call = i, job[v].at = "judge"
                PROVE  FALSE
            BY <5>1, <3>2, <1>2 DEF JobsInv, Working
          <5> QED BY <5>1, <3>2, <1>4 DEF Counted
        <4>3. i \in Counted(t)'
          <5>1. job'[w].call = i /\ job'[w].at = "judge"
            BY <4>1, <1>1, <1>3 DEF Advances
          <5> QED BY <5>1, <3>2, <1>2, <1>3 DEF Counted
        <4>4. Cardinality(Counted(t) \cup {i}) = Cardinality(Counted(t)) + 1
          BY <2>1, <4>2, FS_AddElement
        <4>5. Cardinality(Counted(t) \cup {i}) <= Cardinality(Counted(t)')
          <5>1. Counted(t) \cup {i} \subseteq Counted(t)'
            BY <4>3, <1>5
          <5> QED BY <5>1, <2>1, FS_Subset
        <4>6. job[w].seen <= Cardinality(Counted(t))
          BY <2>3, <3>2
        <4>7. breaker'[t].failures = b.failures /\ b.failures \in Nat
          BY <3>2, <1>3 DEF Breaker
        <4> QED BY <2>1, <4>1, <4>4, <4>5, <4>6, <4>7
      <3>3. CASE t = u /\ job[w].at # "count"
        <4>1. b.failures <= breaker[t].failures
          BY <3>3, <2>2, <1>1 DEF Tallies, Breaker
        <4> QED BY <3>3, <4>1, <2>1, <2>2, <2>3, <1>3 DEF Breaker
      <3> QED BY <3>1, <3>2, <3>3
    <2>5. breaker'[t].state # "closed" => Cardinality(Counted(t)') >= Threshold
      <3>1. CASE t # u
        BY <3>1, <2>1, <2>2, <2>3, <1>3
      <3>2. CASE t = u
        <4>1. b.state # "closed" => breaker[t].state # "closed" \/ breaker[t].failures >= Threshold
          BY <3>2, <1>1 DEF Tallies
        <4> QED BY <3>2, <4>1, <2>1, <2>2, <2>3, <1>3 DEF Breaker
      <3> QED BY <3>1, <3>2
    <2>6. ASSUME NEW v \in Worker, job'[v].at = "count", job'[v].tool = t
          PROVE  job'[v].seen <= Cardinality(Counted(t)')
      <3>1. CASE v # w
        <4>1. job'[v] = job[v] /\ job[v].seen <= Cardinality(Counted(t)) /\ job[v].seen \in Nat
          BY <2>6, <3>1, <2>3, <1>2, <1>3 DEF JobRecord
        <4> QED BY <4>1, <2>1
      <3>2. CASE v = w
        <4>1. j.at = "count" /\ j.tool = u /\ u = t
          BY <2>6, <3>2, <1>1, <1>3 DEF Advances
        <4>2. j.seen = breaker[t].failures
          BY <4>1, <1>1 DEF Tallies
        <4> QED BY <3>2, <4>2, <2>1, <2>2, <2>3, <1>3 DEF Breaker
      <3> QED BY <3>1, <3>2
    <2> QED BY <2>4, <2>5, <2>6
  <1> QED BY <1>6 DEF CountInv

(* Steps that take no request further leave what was answered as it is.     *)
LEMMA LateEndGives ==
    ASSUME ToolTypeOK, NEW i \in DOMAIN calls, LateEnd(i)
    PROVE  /\ UNCHANGED <<deployment, job, breaker, streak, life>> /\ DOMAIN calls' = DOMAIN calls
           /\ \A k \in DOMAIN calls : /\ calls'[k].tool = calls[k].tool /\ calls'[k].life = calls[k].life
                                      /\ calls'[k].answer = calls[k].answer
  <1>1. PICK effect \in 0 .. 1 : calls' = [calls EXCEPT ![i] = Ended(@, effect)]
    BY DEF LateEnd
  <1>2. PICK c : c = Ended(calls[i], effect)
    OBVIOUS
  <1>3. calls \in Seq(CallRecord) /\ calls[i] \in CallRecord /\ calls[i].running > 0
    BY DEF ToolTypeOK, HandlersOK, LateEnd
  <1>4. c.answer = calls[i].answer /\ c.tool = calls[i].tool /\ c.life = calls[i].life
    BY <1>2, <1>3, EndedType
  <1>5. calls' = [calls EXCEPT ![i] = c] /\ UNCHANGED <<deployment, job, breaker, streak, life>>
    BY <1>1, <1>2 DEF LateEnd
  <1> QED BY <1>3, <1>4, <1>5

LEMMA CountStep ==
    ASSUME ToolTypeOK, JobsInv, BudgetInv, HandlersOK', CountInv, [Next]_vars
    PROVE  CountInv'
  <1>1. ASSUME NEW i \in DOMAIN calls, LateEnd(i)
        PROVE  CountInv'
    <2>1. \A t \in Tool : Counted(t) \subseteq Counted(t)'
      BY <1>1, LateEndGives DEF Counted
    <2> QED BY <1>1, <2>1, LateEndGives, CountKeptBy
  <1>2. ASSUME NEW t \in Tool, CoolDown(t)
        PROVE  CountInv'
    <2>1. UNCHANGED <<job, calls, life>>
      BY <1>2 DEF CoolDown
    <2>2. \A u \in Tool : Counted(u) \subseteq Counted(u)'
      BY <2>1 DEF Counted
    <2>3. ASSUME NEW u \in Tool
          PROVE  breaker'[u].failures = breaker[u].failures /\ breaker'[u].state = breaker[u].state
      <3>1. breaker[u] \in Breaker /\ breaker \in [Tool -> Breaker]
        BY DEF ToolTypeOK, CircuitsOK
      <3>2. breaker' = [breaker EXCEPT ![t].cooled = TRUE]
        BY <1>2 DEF CoolDown
      <3> QED BY <3>1, <3>2 DEF Breaker
    <2> QED BY <2>1, <2>2, <2>3, CountKeptBy
  <1>3. CASE Restart
    <2>1. /\ \A t \in Tool : breaker'[t].failures = 0 /\ breaker'[t].state = "closed"
          /\ \A w \in Worker : job'[w].at = "free"
      BY <1>3, FreeIsAJob DEF Restart, Closed
    <2>2. ASSUME NEW t \in Tool
          PROVE  Cardinality(Counted(t)') \in Nat
      <3>1. calls' \in Seq(CallRecord) /\ Counted(t)' \subseteq DOMAIN calls'
        BY DEF HandlersOK, Counted
      <3> QED BY <3>1, CallsFinite
    <2> QED BY <2>1, <2>2 DEF CountInv
  <1>4. CASE UNCHANGED vars
    <2>1. UNCHANGED <<job, calls, life, breaker>>
      BY <1>4 DEF vars
    <2>2. \A t \in Tool : Counted(t)' = Counted(t)
      BY <2>1 DEF Counted
    <2> QED BY <2>1, <2>2 DEF CountInv
  <1>5. CASE Next
    BY <1>1, <1>2, <1>3, <1>5, NextCases, CountServing, CountTakingUp
  <1> QED BY <1>4, <1>5

-----------------------------------------------------------------------------
(* In turn there is one thread.                                            *)
LEMMA OneThread ==
    ASSUME ToolTypeOK, InTurn
    PROVE  \E x \in Worker : deployment.threads = {x}
  <1>1. deployment.threads \subseteq Worker
    BY DeploymentsAssumption DEF ToolTypeOK, TablesOK
  <1>2. IsFiniteSet(deployment.threads)
    BY <1>1, ConstantsAssumption, FS_Subset
  <1>3. \E x : deployment.threads = {x}
    BY <1>2, FS_Singleton DEF InTurn
  <1> QED BY <1>1, <1>3

LEMMA OthersFree ==
    ASSUME ToolTypeOK, JobsInv, InTurn, NEW w \in Worker, job[w].at # "free"
    PROVE  \A v \in Worker : v # w => job[v].at = "free"
  BY OneThread DEF JobsInv

LEMMA TurnServing ==
    ASSUME ToolTypeOK, JobsInv, BudgetInv, TurnInv, NEW w \in Worker, Does(w)
    PROVE  TurnInv'
  <1>1. PICK j \in JobRecord, c \in CallRecord, b \in Breaker, n \in Nat :
            Advances(w, j, c) /\ Tallies(w, j, c, b, n)
    BY DEF Does
  <1> SUFFICES ASSUME InTurn'
               PROVE  /\ \A t \in Tool :
                             /\ breaker'[t].failures = streak'[t]
                             /\ (\A v \in Worker : ~Settling(v, t)') =>
                                    (breaker'[t].state = "closed" <=> streak'[t] < Threshold)
                      /\ \A v \in Worker :
                             /\ job'[v].at = "count" => job'[v].seen = breaker'[job'[v].tool].failures
                             /\ job'[v].at = "close" => streak'[job'[v].tool] = 0
                             /\ job'[v].at = "judge" /\ breaker'[job'[v].tool].state # "closed" =>
                                    streak'[job'[v].tool] >= Threshold
    BY DEF TurnInv
  <1> DEFINE u == job[w].tool
             old == breaker[u]
  <1>2. /\ job \in [Worker -> JobRecord] /\ job' = [job EXCEPT ![w] = j]
        /\ breaker \in [Tool -> Breaker] /\ breaker' = [breaker EXCEPT ![u] = b]
        /\ streak \in [Tool -> Nat] /\ streak' = [streak EXCEPT ![u] = n]
        /\ Working(w) /\ u \in Tool /\ job[w] \in JobRecord
        /\ j.at # "free" => j.tool = u
    BY <1>1, AtWork DEF Advances, Tallies
  <1>3. InTurn /\ \A v \in Worker : v # w => job[v].at = "free"
    <2>1. InTurn
      BY <1>1 DEF Advances, InTurn
    <2> QED BY <2>1, <1>2, OthersFree DEF Working
  <1>4. /\ job'[w] = j /\ \A v \in Worker : v # w => job'[v].at = "free"
        /\ breaker'[u] = b /\ \A t \in Tool : t # u => breaker'[t] = breaker[t]
        /\ streak'[u] = n /\ \A t \in Tool : t # u => streak'[t] = streak[t]
    BY <1>2, <1>3
  <1>5. /\ \A t \in Tool : breaker[t].failures = streak[t]
        /\ \A t \in Tool : t # u => (breaker[t].state = "closed" <=> streak[t] < Threshold)
        /\ job[w].at \notin {"close", "judge"} => (old.state = "closed" <=> streak[u] < Threshold)
        /\ job[w].at = "count" => job[w].seen = old.failures
        /\ job[w].at = "close" => streak[u] = 0
        /\ job[w].at = "judge" /\ old.state # "closed" => streak[u] >= Threshold
    BY <1>2, <1>3 DEF TurnInv, Settling
  <1>6. /\ old.failures \in Nat /\ streak[u] \in Nat /\ job[w].seen \in Nat
        /\ Threshold \in Nat /\ Threshold > 0 /\ 0 < Threshold
    BY <1>2, ConstantsAssumption DEF Breaker, JobRecord
  <1>7. /\ Capped(streak[u] + 1) >= Threshold <=> streak[u] + 1 >= Threshold
        /\ Capped(streak[u] + 1) \in Nat
    <2>1. streak[u] + 1 \in Nat
      BY <1>6
    <2> QED BY <2>1, CappedType
  <1>8. /\ b.failures = n
        /\ j.at \notin {"close", "judge"} => (b.state = "closed" <=> n < Threshold)
        /\ j.at = "count" => j.seen = b.failures
        /\ j.at = "close" => n = 0
        /\ j.at = "judge" /\ b.state # "closed" => n >= Threshold
    <2>1. CASE job[w].at = "reset"
      BY <2>1, <1>1 DEF Tallies
    <2>2. CASE job[w].at = "close"
      <3>1. /\ b.failures = old.failures /\ n = streak[u] /\ b.state = "closed" /\ j.at \in {"free", "log"}
        BY <2>2, <1>1 DEF Tallies
      <3>2. old.failures = streak[u] /\ streak[u] = 0
        BY <2>2, <1>2, <1>5
      <3> QED BY <3>1, <3>2, <1>6
    <2>3. CASE job[w].at = "count"
      <3>1. job[w].seen = streak[u]
        BY <2>3, <1>2, <1>5
      <3>2. b.failures = Capped(job[w].seen + 1) /\ n = Capped(streak[u] + 1) /\ b.state = old.state /\ j.at = "judge"
        BY <2>3, <1>1 DEF Tallies
      <3>3. b.state # "closed" => n >= Threshold
        BY <2>3, <3>2, <1>5, <1>6, <1>7
      <3> QED BY <3>1, <3>2, <3>3
    <2>4. CASE job[w].at = "judge"
      <3>1. /\ b.failures = old.failures /\ n = streak[u]
            /\ b.state # "closed" <=> old.state # "closed" \/ old.failures >= Threshold
            /\ j.at \in {"free", "log"}
        BY <2>4, <1>1 DEF Tallies
      <3>2. old.failures = streak[u]
        BY <1>2, <1>5
      <3>3. b.state # "closed" <=> n >= Threshold
        BY <2>4, <3>1, <3>2, <1>5
      <3> QED BY <3>1, <3>2, <3>3, <1>6
    <2>5. CASE job[w].at \notin {"reset", "close", "count", "judge"}
      <3>1. /\ b.failures = old.failures /\ n = streak[u]
            /\ b.state = "closed" <=> old.state = "closed"
            /\ j.at \notin {"close", "judge"}
            /\ j.at = "count" => j.seen = old.failures
        BY <2>5, <1>1 DEF Tallies
      <3>2. old.failures = streak[u]
        BY <1>2, <1>5
      <3> QED BY <2>5, <3>1, <3>2, <1>5
    <2> QED BY <2>1, <2>2, <2>3, <2>4, <2>5
  <1>9. ASSUME NEW t \in Tool
        PROVE  /\ breaker'[t].failures = streak'[t]
               /\ (\A v \in Worker : ~Settling(v, t)') =>
                      (breaker'[t].state = "closed" <=> streak'[t] < Threshold)
    <2>1. CASE t # u
      BY <2>1, <1>4, <1>5
    <2>2. CASE t = u
      BY <2>2, <1>2, <1>4, <1>8 DEF Settling
    <2> QED BY <2>1, <2>2
  <1>10. ASSUME NEW v \in Worker
         PROVE  /\ job'[v].at = "count" => job'[v].seen = breaker'[job'[v].tool].failures
                /\ job'[v].at = "close" => streak'[job'[v].tool] = 0
                /\ job'[v].at = "judge" /\ breaker'[job'[v].tool].state # "closed" =>
                       streak'[job'[v].tool] >= Threshold
    <2>1. CASE v # w
      BY <2>1, <1>4
    <2>2. CASE v = w
      BY <2>2, <1>2, <1>4, <1>8
    <2> QED BY <2>1, <2>2
  <1> QED BY <1>9, <1>10

(* Steps that write no count, and send no thread to a settling step.        *)
LEMMA TurnKeptBy ==
    ASSUME ToolTypeOK, TurnInv, UNCHANGED <<deployment, streak>>,
           \A t \in Tool : breaker'[t].failures = breaker[t].failures /\ breaker'[t].state = breaker[t].state,
           \A w \in Worker : \/ job'[w] = job[w]
                             \/ {job[w].at, job'[w].at} \subseteq {"free", "upsert", "admit"},
           \A w \in Worker : job[w].at # "free" => job[w].tool \in Tool
    PROVE  TurnInv'
  <1> SUFFICES ASSUME InTurn'
               PROVE  /\ \A t \in Tool :
                             /\ breaker'[t].failures = streak'[t]
                             /\ (\A v \in Worker : ~Settling(v, t)') =>
                                    (breaker'[t].state = "closed" <=> streak'[t] < Threshold)
                      /\ \A v \in Worker :
                             /\ job'[v].at = "count" => job'[v].seen = breaker'[job'[v].tool].failures
                             /\ job'[v].at = "close" => streak'[job'[v].tool] = 0
                             /\ job'[v].at = "judge" /\ breaker'[job'[v].tool].state # "closed" =>
                                    streak'[job'[v].tool] >= Threshold
    BY DEF TurnInv
  <1>1. InTurn
    BY DEF InTurn
  <1>2. \A v \in Worker, t \in Tool : Settling(v, t)' <=> Settling(v, t)
    BY DEF Settling
  <1>3. ASSUME NEW t \in Tool
        PROVE  /\ breaker'[t].failures = streak'[t]
               /\ (\A v \in Worker : ~Settling(v, t)') =>
                      (breaker'[t].state = "closed" <=> streak'[t] < Threshold)
    BY <1>1, <1>2 DEF TurnInv
  <1>4. ASSUME NEW v \in Worker, job'[v].at \in {"count", "close", "judge"}
        PROVE  /\ job'[v].at = "count" => job'[v].seen = breaker'[job'[v].tool].failures
               /\ job'[v].at = "close" => streak'[job'[v].tool] = 0
               /\ job'[v].at = "judge" /\ breaker'[job'[v].tool].state # "closed" =>
                      streak'[job'[v].tool] >= Threshold
    <2>1. job'[v] = job[v] /\ job[v].tool \in Tool
      BY <1>4
    <2> QED BY <1>1, <1>4, <2>1 DEF TurnInv
  <1> QED BY <1>3, <1>4

LEMMA TurnStep ==
    ASSUME ToolTypeOK, JobsInv, BudgetInv, TurnInv, [Next]_vars
    PROVE  TurnInv'
  <1>1. ASSUME NEW w \in Worker, NEW j \in JobRecord, TakesUp(w, j)
        PROVE  TurnInv'
    <2>1. /\ job \in [Worker -> JobRecord] /\ job' = [job EXCEPT ![w] = j] /\ job[w].at \in {"free", "upsert"}
          /\ j.at \in {"free", "upsert", "admit"} /\ UNCHANGED <<deployment, breaker, streak>>
      BY <1>1 DEF TakesUp, ToolTypeOK, HandlersOK
    <2>2. \A v \in Worker : \/ job'[v] = job[v]
                            \/ {job[v].at, job'[v].at} \subseteq {"free", "upsert", "admit"}
      BY <2>1
    <2> QED BY <2>1, <2>2, TurnKeptBy DEF JobsInv
  <1>2. ASSUME NEW i \in DOMAIN calls, LateEnd(i)
        PROVE  TurnInv'
    BY <1>2, LateEndGives, TurnKeptBy DEF JobsInv
  <1>3. ASSUME NEW t \in Tool, CoolDown(t)
        PROVE  TurnInv'
    <2>1. ASSUME NEW u \in Tool
          PROVE  breaker'[u].failures = breaker[u].failures /\ breaker'[u].state = breaker[u].state
      <3>1. breaker[u] \in Breaker /\ breaker \in [Tool -> Breaker]
        BY DEF ToolTypeOK, CircuitsOK
      <3>2. breaker' = [breaker EXCEPT ![t].cooled = TRUE]
        BY <1>3 DEF CoolDown
      <3> QED BY <3>1, <3>2 DEF Breaker
    <2>2. UNCHANGED <<deployment, job, streak>>
      BY <1>3 DEF CoolDown
    <2> QED BY <2>1, <2>2, TurnKeptBy DEF JobsInv
  <1>4. CASE Restart
    <2>1. /\ \A t \in Tool : breaker'[t].failures = 0 /\ breaker'[t].state = "closed" /\ streak'[t] = 0
          /\ \A w \in Worker : job'[w].at = "free"
      BY <1>4, FreeIsAJob DEF Restart, Closed
    <2>2. 0 < Threshold
      BY ConstantsAssumption
    <2> QED BY <2>1, <2>2 DEF TurnInv
  <1>5. CASE UNCHANGED vars
    BY <1>5, TurnKeptBy DEF vars, JobsInv
  <1>6. CASE Next
    BY <1>1, <1>2, <1>3, <1>4, <1>6, NextCases, TurnServing
  <1> QED BY <1>5, <1>6

LEMMA CircuitInvInitially ==
    ASSUME Init
    PROVE  CountInv /\ TurnInv
  <1>1. /\ \A t \in Tool : breaker[t].failures = 0 /\ breaker[t].state = "closed" /\ streak[t] = 0
        /\ \A w \in Worker : job[w].at = "free"
    BY FreeIsAJob DEF Init, Closed
  <1>2. 0 < Threshold
    BY ConstantsAssumption
  <1>3. ASSUME NEW t \in Tool
        PROVE  Cardinality(Counted(t)) \in Nat
    <2>1. calls \in Seq(CallRecord) /\ Counted(t) \subseteq DOMAIN calls
      BY ToolInvInitially DEF ToolInv, ToolTypeOK, HandlersOK, Counted
    <2> QED BY <2>1, CallsFinite
  <1> QED BY <1>1, <1>2, <1>3 DEF CountInv, TurnInv

LEMMA CircuitInvAlways == Spec => [](ToolInv /\ CountInv /\ TurnInv)
  <1>1. Init => ToolInv /\ CountInv /\ TurnInv
    BY ToolInvInitially, CircuitInvInitially
  <1>2. ToolInv /\ CountInv /\ TurnInv /\ [Next]_vars => (ToolInv /\ CountInv /\ TurnInv)'
    <2> SUFFICES ASSUME ToolInv, CountInv, TurnInv, [Next]_vars
                 PROVE  (ToolInv /\ CountInv /\ TurnInv)'
      OBVIOUS
    <2>1. ToolInv'
      BY ToolInvStep
    <2>2. HandlersOK'
      BY <2>1 DEF ToolInv, ToolTypeOK
    <2> QED BY <2>1, <2>2, CountStep, TurnStep DEF ToolInv
  <1> QED BY <1>1, <1>2, PTL DEF Spec

(* A circuit follows the failures it is there to count.  However requests   *)
(* overlap, it is open only after Threshold failed requests of this life:   *)
(* what a thread read of the count before it writes it is no more than had  *)
(* failed by then.  In turn count and streak are the same number, and       *)
(* between requests the circuit is closed exactly below Threshold.          *)
THEOREM CircuitsFollowFailures == Spec => []CircuitFollowsFailures
  <1>1. ASSUME ToolInv, CountInv, TurnInv
        PROVE  CircuitFollowsFailures
    <2>1. ASSUME NEW t \in Tool, InTurn, Quiet
          PROVE  breaker[t].state = "closed" <=> streak[t] < Threshold
      <3>1. \A w \in Worker : ~Settling(w, t)
        BY <2>1, FreeIsAJob DEF Quiet, Settling
      <3> QED BY <1>1, <2>1, <3>1 DEF TurnInv
    <2>2. ASSUME NEW t \in Tool, breaker[t].state # "closed",
                 NEW failed, failed = {i \in DOMAIN calls :
                     /\ calls[i].tool = t /\ calls[i].life = life
                     /\ \/ calls[i].answer = "failed"
                        \/ \E w \in Worker : job[w].call = i /\ job[w].at \in {"count", "judge"}}
          PROVE  Cardinality(failed) >= Threshold
      <3>1. Counted(t) \subseteq failed /\ failed \subseteq DOMAIN calls /\ Counted(t) \subseteq DOMAIN calls
        BY <2>2 DEF Counted
      <3>2. calls \in Seq(CallRecord)
        BY <1>1 DEF ToolInv, ToolTypeOK, HandlersOK
      <3>3. IsFiniteSet(failed) /\ Cardinality(failed) \in Nat /\ Cardinality(Counted(t)) \in Nat
        BY <3>1, <3>2, CallsFinite
      <3>4. Cardinality(Counted(t)) <= Cardinality(failed)
        BY <3>1, <3>3, FS_Subset
      <3>5. Cardinality(Counted(t)) >= Threshold
        BY <1>1, <2>2 DEF CountInv
      <3> QED BY <3>3, <3>4, <3>5, ConstantsAssumption
    <2> QED BY <2>1, <2>2 DEF CircuitFollowsFailures
  <1> QED BY <1>1, CircuitInvAlways, PTL

-----------------------------------------------------------------------------
(* THE ANSWERS OF THE KNOWLEDGE BASE, for any documents, words, sessions,  *)
(* threads, page and setup.                                                *)
(* Types.  A text is a finite set of words.                                 *)
Vocabulary == UNION (Questions \cup {Words[d] : d \in Doc} \cup {Title[d] : d \in Doc})
Texts == {text \in SUBSET Vocabulary : IsFiniteSet(text)}
Similarities == UNION {[docs -> Similarity] : docs \in SUBSET Doc}
LogRow == [hits : SUBSET Doc, words : Texts]
QuestionRecord == [phase : {"idle", "resolve", "keywords", "vectors", "rank", "answer", "done"},
              session : Session \cup {NoRow}, words : Texts, scopes : Scopes \cup {{}},
              prior : LogRow \cup {NoRow}, docs : SUBSET Doc, keyed : SUBSET Doc,
              titled : SUBSET Doc, best : Similarities, ranked : SUBSET Doc, hits : SUBSET Doc,
              top : Doc \cup {NoRow},
              result : {"none", "error", "refused", "unavailable", "answered"},
              always : SUBSET Doc, ever : SUBSET Doc]

DocumentsTyped ==
    /\ setup \in Setups
    /\ status \in [Doc -> {"absent", "uploaded", "parse_failed", "ready", "published", "archived"}]
    /\ worker \in [Doc -> {"idle", "index", "insert", "return"}]
    /\ waiting \in [Doc -> {"none", "upload", "reparse"}]
    /\ sparse \subseteq Doc /\ vectors \subseteq Doc
QuestionsTyped ==
    /\ qaLogs \in [Session -> LogRow \cup {NoRow}]
    /\ query \in [Thread -> QuestionRecord] /\ poisoned \in BOOLEAN /\ asked \in Nat
AnswersTyped == DocumentsTyped /\ QuestionsTyped

(* A handler waits for a document it has just uploaded, so what is           *)
(* published stays published or archived.                                   *)
UploadsInv ==
    \A d \in Doc : /\ waiting[d] # "none" => status[d] = "uploaded"
                   /\ waiting[d] = "reparse" => setup.store = "sqlite"
                   /\ status[d] # "absent" => d <= setup.docs

(* What is true of a question at each step.                                 *)
WasPublished(d) == status[d] \in {"published", "archived"}
Watched(q) == q.phase \in {"resolve", "keywords", "vectors", "rank", "answer"} =>
    q.session \in Session /\ q.result = "none" /\ q.always \subseteq Published /\ Published \subseteq q.ever
ListIsSound(q) == q.phase \in {"keywords", "vectors", "rank", "answer"} =>
    q.docs \subseteq VisibleTo(q.ever, q.scopes) /\ \A d \in q.docs : WasPublished(d)
ListIsComplete(q) == q.phase \in {"keywords", "vectors", "rank"} =>
    \A d \in VisibleTo(q.always, q.scopes) : Newest(d) => d \in q.docs
RecallIsSound(q) == q.phase \in {"vectors", "rank"} =>
    /\ q.keyed \subseteq q.docs
    /\ \A d \in q.keyed : Matches(Normalized(q.words), d)
    /\ q.keyed = {} => \A d \in q.docs : ~Matches(Normalized(q.words), d)
    /\ q.phase = "rank" => DOMAIN q.best \subseteq q.docs
IdleIsBlank(q) == q.phase = "idle" => q.result = "none" /\ q.prior = NoRow
RefusedRightly(q) ==
    \A d \in VisibleTo(q.always, q.scopes) : Newest(d) => ~Matches(Normalized(q.words), d)
RestsOnEvidence(q) ==
    /\ q.hits # {} /\ q.hits \subseteq VisibleTo(q.ever, q.scopes) \cap q.ranked
    /\ \E d \in q.ranked : Evidenced(q, d)
Sound(q) == /\ Watched(q) /\ ListIsSound(q) /\ ListIsComplete(q) /\ RecallIsSound(q) /\ IdleIsBlank(q)
            /\ q.result = "refused" => RefusedRightly(q)
            /\ q.phase = "answer" => q.top \in q.hits
            /\ q.phase = "answer" \/ q.result = "answered" => RestsOnEvidence(q)

(* The log's row of a session stays what its follow-ups read.               *)
PriorsInv ==
    \A t \in Thread : LET q == query[t] IN q.phase # "idle" =>
        q.session \in Session /\ (q.prior # NoRow => q.prior = qaLogs[q.session])

SoundInv == \A t \in Thread : \A q \in QuestionRecord : q = query[t] => Sound(q)
AnswersInv == AnswersTyped /\ UploadsInv /\ PriorsInv /\ SoundInv

-----------------------------------------------------------------------------
(* The updates of a question's record, field by field.                      *)
Basis(q, r) == /\ r.session = q.session /\ r.words = q.words
               /\ r.scopes = q.scopes /\ r.prior = q.prior
Found(q, r) == /\ r.docs = q.docs /\ r.keyed = q.keyed /\ r.best = q.best /\ r.ranked = q.ranked
               /\ r.hits = q.hits /\ r.top = q.top

LEMMA EndIs ==
    ASSUME NEW q \in QuestionRecord, NEW e, NEW x \in {"error", "refused", "unavailable", "answered"},
           e = End(q, x)
    PROVE  /\ e \in QuestionRecord /\ Basis(q, e) /\ Found(q, e)
           /\ e.phase = "done" /\ e.result = x /\ e.always = q.always /\ e.ever = q.ever
  <1>1. e = [phase |-> "done", session |-> q.session, words |-> q.words, scopes |-> q.scopes,
             prior |-> q.prior, docs |-> q.docs, keyed |-> q.keyed, titled |-> q.titled,
             best |-> q.best, ranked |-> q.ranked, hits |-> q.hits, top |-> q.top, result |-> x,
             always |-> q.always, ever |-> q.ever]
    BY DEF End, QuestionRecord
  <1>2. e \in QuestionRecord
    BY <1>1 DEF QuestionRecord
  <1> QED BY <1>1, <1>2 DEF Basis, Found

Listed(q, list) == [q EXCEPT !.phase = "keywords", !.docs = list]
Keyed(q, k, m) == [q EXCEPT !.phase = "vectors", !.keyed = k, !.titled = m]
Remembered(q, b) == [q EXCEPT !.phase = "rank", !.best = b]
Ranked(q, w, h, d) == [q EXCEPT !.phase = "answer", !.ranked = w, !.hits = h, !.top = d]

LEMMA ListedIs ==
    ASSUME NEW q \in QuestionRecord, NEW e, NEW list \in SUBSET Doc,
           e = Listed(q, list)
    PROVE  /\ e \in QuestionRecord /\ Basis(q, e) /\ e.docs = list
           /\ e.phase = "keywords" /\ e.result = q.result /\ e.always = q.always /\ e.ever = q.ever
  <1>1. e = [phase |-> "keywords", session |-> q.session, words |-> q.words, scopes |-> q.scopes,
             prior |-> q.prior, docs |-> list, keyed |-> q.keyed, titled |-> q.titled,
             best |-> q.best, ranked |-> q.ranked, hits |-> q.hits, top |-> q.top, result |-> q.result,
             always |-> q.always, ever |-> q.ever]
    BY DEF QuestionRecord, Listed
  <1>2. e \in QuestionRecord
    BY <1>1 DEF QuestionRecord
  <1> QED BY <1>1, <1>2 DEF Basis

LEMMA KeyedIs ==
    ASSUME NEW q \in QuestionRecord, NEW e, NEW k \in SUBSET Doc, NEW m \in SUBSET Doc,
           e = Keyed(q, k, m)
    PROVE  /\ e \in QuestionRecord /\ Basis(q, e) /\ e.docs = q.docs /\ e.keyed = k
           /\ e.phase = "vectors" /\ e.result = q.result /\ e.always = q.always /\ e.ever = q.ever
  <1>1. e = [phase |-> "vectors", session |-> q.session, words |-> q.words, scopes |-> q.scopes,
             prior |-> q.prior, docs |-> q.docs, keyed |-> k, titled |-> m,
             best |-> q.best, ranked |-> q.ranked, hits |-> q.hits, top |-> q.top, result |-> q.result,
             always |-> q.always, ever |-> q.ever]
    BY DEF QuestionRecord, Keyed
  <1>2. e \in QuestionRecord
    BY <1>1 DEF QuestionRecord
  <1> QED BY <1>1, <1>2 DEF Basis

LEMMA RememberedIs ==
    ASSUME NEW q \in QuestionRecord, NEW e, NEW b \in Similarities,
           e = Remembered(q, b)
    PROVE  /\ e \in QuestionRecord /\ Basis(q, e) /\ e.docs = q.docs /\ e.keyed = q.keyed
           /\ e.best = b
           /\ e.phase = "rank" /\ e.result = q.result /\ e.always = q.always /\ e.ever = q.ever
  <1>1. e = [phase |-> "rank", session |-> q.session, words |-> q.words, scopes |-> q.scopes,
             prior |-> q.prior, docs |-> q.docs, keyed |-> q.keyed, titled |-> q.titled,
             best |-> b, ranked |-> q.ranked, hits |-> q.hits, top |-> q.top, result |-> q.result,
             always |-> q.always, ever |-> q.ever]
    BY DEF QuestionRecord, Remembered
  <1>2. e \in QuestionRecord
    BY <1>1 DEF QuestionRecord
  <1> QED BY <1>1, <1>2 DEF Basis

LEMMA RankedIs ==
    ASSUME NEW q \in QuestionRecord, NEW e, NEW w \in SUBSET Doc, NEW h \in SUBSET Doc,
           NEW d \in Doc, e = Ranked(q, w, h, d)
    PROVE  /\ e \in QuestionRecord /\ Basis(q, e) /\ e.docs = q.docs /\ e.keyed = q.keyed
           /\ e.ranked = w /\ e.best = q.best /\ e.hits = h /\ e.top = d
           /\ e.phase = "answer" /\ e.result = q.result /\ e.always = q.always /\ e.ever = q.ever
  <1>1. e = [phase |-> "answer", session |-> q.session, words |-> q.words, scopes |-> q.scopes,
             prior |-> q.prior, docs |-> q.docs, keyed |-> q.keyed, titled |-> q.titled,
             best |-> q.best, ranked |-> w, hits |-> h, top |-> d, result |-> q.result,
             always |-> q.always, ever |-> q.ever]
    BY DEF QuestionRecord, Ranked
  <1>2. e \in QuestionRecord
    BY <1>1 DEF QuestionRecord
  <1> QED BY <1>1, <1>2 DEF Basis

LEMMA ChangedIs ==
    ASSUME NEW q \in QuestionRecord, NEW e, NEW d \in Doc,
           e = [q EXCEPT !.ever = @ \cup {d}] \/ e = [q EXCEPT !.always = @ \ {d}] \/ e = q
    PROVE  /\ e \in QuestionRecord /\ Basis(q, e) /\ Found(q, e)
           /\ e.phase = q.phase /\ e.result = q.result
           /\ e.always \in {q.always, q.always \ {d}} /\ e.ever \in {q.ever, q.ever \cup {d}}
           /\ e = [q EXCEPT !.ever = @ \cup {d}] => e.ever = q.ever \cup {d} /\ e.always = q.always
           /\ e = [q EXCEPT !.always = @ \ {d}] => e.always = q.always \ {d} /\ e.ever = q.ever
  <1> DEFINE R(a, v) ==
            [phase |-> q.phase, session |-> q.session, words |-> q.words, scopes |-> q.scopes,
             prior |-> q.prior, docs |-> q.docs, keyed |-> q.keyed, titled |-> q.titled,
             best |-> q.best, ranked |-> q.ranked, hits |-> q.hits, top |-> q.top, result |-> q.result,
             always |-> a, ever |-> v]
  <1>7. q = R(q.always, q.ever)
    BY DEF QuestionRecord
  <1>8. [q EXCEPT !.ever = q.ever \cup {d}] = R(q.always, q.ever \cup {d})
    BY SMTT(30) DEF QuestionRecord
  <1>9. [q EXCEPT !.always = q.always \ {d}] = R(q.always \ {d}, q.ever)
    BY DEF QuestionRecord
  <1>1. /\ q = R(q.always, q.ever)
        /\ [q EXCEPT !.ever = @ \cup {d}] = R(q.always, q.ever \cup {d})
        /\ [q EXCEPT !.always = @ \ {d}] = R(q.always \ {d}, q.ever)
    BY <1>7, <1>8, <1>9
  <1>2. q.always \in SUBSET Doc /\ q.ever \in SUBSET Doc
    BY DEF QuestionRecord
  <1>3. \A a, v \in SUBSET Doc :
            /\ R(a, v) \in QuestionRecord /\ Basis(q, R(a, v)) /\ Found(q, R(a, v))
            /\ R(a, v).phase = q.phase /\ R(a, v).result = q.result
            /\ R(a, v).always = a /\ R(a, v).ever = v
    BY DEF QuestionRecord, Basis, Found
  <1> HIDE DEF R
  <1>4. q.always \ {d} \in SUBSET Doc /\ q.ever \cup {d} \in SUBSET Doc
    BY <1>2
  <1>5. PICK a \in SUBSET Doc, v \in SUBSET Doc : e = R(a, v)
                /\ a \in {q.always, q.always \ {d}} /\ v \in {q.ever, q.ever \cup {d}}
    <2>1. CASE e = [q EXCEPT !.ever = @ \cup {d}]
      BY <1>1, <1>2, <1>4, <2>1
    <2>2. CASE e = [q EXCEPT !.always = @ \ {d}]
      BY <1>1, <1>2, <1>4, <2>2
    <2>3. CASE e = q
      BY <1>1, <1>2, <2>3
    <2> QED BY <2>1, <2>2, <2>3
  <1>6. /\ e = [q EXCEPT !.ever = @ \cup {d}] => e.ever = q.ever \cup {d} /\ e.always = q.always
        /\ e = [q EXCEPT !.always = @ \ {d}] => e.always = q.always \ {d} /\ e.ever = q.ever
    <2>1. /\ R(q.always, q.ever \cup {d}).ever = q.ever \cup {d}
          /\ R(q.always, q.ever \cup {d}).always = q.always
          /\ R(q.always \ {d}, q.ever).ever = q.ever
          /\ R(q.always \ {d}, q.ever).always = q.always \ {d}
      BY <1>2, <1>3, <1>4
    <2> QED BY <1>1, <2>1
  <1> QED BY <1>3, <1>5, <1>6

LEMMA BlankIs ==
    Idle \in QuestionRecord /\ Idle.phase = "idle" /\ Idle.result = "none" /\ Idle.prior = NoRow
  <1>1. {} \in Texts
    BY FS_EmptySet DEF Texts
  <1>2. << >> \in Similarities
    <2>1. << >> \in [{} -> Similarity]
      OBVIOUS
    <2> QED BY <2>1 DEF Similarities
  <1> QED BY <1>1, <1>2 DEF Idle, QuestionRecord

LEMMA EffectiveType ==
    ASSUME NEW words \in Questions, NEW prior \in LogRow \cup {NoRow}
    PROVE  Effective(words, prior) \in Texts
  <1>1. words \in Texts
    BY TextsAssumption DEF Texts, Vocabulary
  <1>2. {} \in Texts
    BY FS_EmptySet DEF Texts
  <1>3. prior # NoRow => prior.words \in Texts
    BY DEF LogRow
  <1>4. \A a, b \in Texts : a \cup b \in Texts
    BY FS_Union DEF Texts
  <1> QED BY <1>1, <1>2, <1>3, <1>4 DEF Effective

LEMMA AskedIs ==
    ASSUME AnswersTyped, NEW s \in Session, NEW words \in Questions, NEW scopes \in Scopes,
           NEW e, e = Asked(s, words, scopes)
    PROVE  /\ e \in QuestionRecord /\ e.session = s /\ e.prior = qaLogs[s]
           /\ e.always = Published /\ e.ever = Published
           /\ \/ e.phase = "resolve" /\ e.result = "none"
              \/ e.phase = "done" /\ e.result = "error"
  <1> DEFINE q == [Idle EXCEPT !.phase = "resolve", !.session = s, !.prior = qaLogs[s],
                               !.scopes = scopes, !.words = Effective(words, qaLogs[s]),
                               !.always = Published, !.ever = Published]
  <1>1. q = [phase |-> "resolve", session |-> s, words |-> Effective(words, qaLogs[s]),
             scopes |-> scopes, prior |-> qaLogs[s], docs |-> Idle.docs, keyed |-> Idle.keyed,
             titled |-> Idle.titled, best |-> Idle.best, ranked |-> Idle.ranked, hits |-> Idle.hits,
             top |-> Idle.top, result |-> Idle.result, always |-> Published, ever |-> Published]
    <2>1. PICK b, l, x, p, f : /\ b = Idle /\ l = qaLogs[s] /\ p = Published
                               /\ x = Effective(words, qaLogs[s])
                               /\ f = [b EXCEPT !.phase = "resolve", !.session = s, !.prior = l,
                                       !.scopes = scopes, !.words = x, !.always = p, !.ever = p]
      OBVIOUS
    <2>2. f = q
      BY <2>1
    <2>3. b \in QuestionRecord
      BY <2>1, BlankIs
    <2>4. f = [phase |-> "resolve", session |-> s, words |-> x, scopes |-> scopes, prior |-> l,
               docs |-> b.docs, keyed |-> b.keyed, titled |-> b.titled, best |-> b.best,
               ranked |-> b.ranked, hits |-> b.hits, top |-> b.top, result |-> b.result,
               always |-> p, ever |-> p]
      <3>1. PICK g : g = [b EXCEPT !.phase = "resolve", !.session = s, !.prior = l, !.scopes = scopes]
        OBVIOUS
      <3>2. g = [phase |-> "resolve", session |-> s, words |-> b.words, scopes |-> scopes, prior |-> l,
                 docs |-> b.docs, keyed |-> b.keyed, titled |-> b.titled, best |-> b.best,
                 ranked |-> b.ranked, hits |-> b.hits, top |-> b.top, result |-> b.result,
                 always |-> b.always, ever |-> b.ever]
        BY <2>3, <3>1 DEF QuestionRecord
      <3>3. f = [g EXCEPT !.words = x, !.always = p, !.ever = p]
        BY <2>1, <3>1
      <3> QED BY <3>2, <3>3
    <2> QED BY <2>1, <2>2, <2>4
  <1>2. qaLogs[s] \in LogRow \cup {NoRow} /\ Published \in SUBSET Doc
    BY DEF AnswersTyped, QuestionsTyped, Published
  <1>3. Effective(words, qaLogs[s]) \in Texts
    BY <1>2, EffectiveType
  <1>4. q \in QuestionRecord
    BY <1>1, <1>2, <1>3, BlankIs DEF QuestionRecord
  <1>5. /\ q.session = s /\ q.prior = qaLogs[s] /\ q.always = Published /\ q.ever = Published
        /\ q.phase = "resolve" /\ q.result = "none"
    BY <1>1, BlankIs
  <1>6. e = q \/ e = End(q, "error")
    BY DEF Asked
  <1> HIDE DEF q
  <1> QED BY <1>4, <1>5, <1>6, EndIs DEF Basis

-----------------------------------------------------------------------------
(* The newest documents are on the first page of the list.                  *)
LEMMA FirstPageHasNewest ==
    ASSUME AnswersTyped, UploadsInv, NEW d \in Published, Newest(d)
    PROVE  d \in FirstPage(Published)
  <1> DEFINE later == {e \in Published : e > d}
  <1>1. setup.docs \in Nat /\ PageSize \in Int /\ d \in Int /\ d <= setup.docs
    BY SetupsAssumption, TextsAssumption DEF AnswersTyped, DocumentsTyped, UploadsInv, Published
  <1>2. later \subseteq (d + 1) .. setup.docs
    <2>1. \A e \in Published : e \in Int /\ e <= setup.docs
      BY TextsAssumption DEF UploadsInv, Published
    <2>2. \A e \in later : e \in Int /\ e > d /\ e <= setup.docs
      BY <2>1
    <2> HIDE DEF later
    <2> QED BY <1>1, <2>2
  <1>3. /\ IsFiniteSet((d + 1) .. setup.docs)
        /\ Cardinality((d + 1) .. setup.docs) <= setup.docs - d
    <2>1. d + 1 \in Int /\ setup.docs \in Int
      BY <1>1
    <2>2. /\ IsFiniteSet((d + 1) .. setup.docs)
          /\ Cardinality((d + 1) .. setup.docs)
                = IF d + 1 > setup.docs THEN 0 ELSE setup.docs - (d + 1) + 1
      BY <2>1, FS_Interval
    <2> QED BY <1>1, <2>2
  <1>4. Cardinality(later) <= Cardinality((d + 1) .. setup.docs) /\ Cardinality(later) \in Nat
    BY <1>2, <1>3, FS_Subset, FS_CardinalityType
  <1>5. Cardinality((d + 1) .. setup.docs) \in Nat
    BY <1>3, FS_CardinalityType
  <1>6. Cardinality(later) < PageSize
    BY <1>1, <1>3, <1>4, <1>5 DEF Newest
  <1> QED BY <1>6 DEF FirstPage

(* What holds of a question holds when it has ended.                        *)
LEMMA EndIsSound ==
    ASSUME NEW q \in QuestionRecord, NEW e, NEW x \in {"error", "refused", "unavailable", "answered"},
           e = End(q, x), x = "refused" => RefusedRightly(q), x = "answered" => RestsOnEvidence(q)
    PROVE  Sound(e)
  <1>1. /\ Basis(q, e) /\ Found(q, e) /\ e.phase = "done" /\ e.result = x
        /\ e.always = q.always /\ e.ever = q.ever
    BY EndIs
  <1>2. Watched(e) /\ ListIsSound(e) /\ ListIsComplete(e) /\ RecallIsSound(e) /\ IdleIsBlank(e)
    BY <1>1 DEF Watched, ListIsSound, ListIsComplete, RecallIsSound, IdleIsBlank
  <1>3. e.result = "refused" => RefusedRightly(e)
    BY <1>1 DEF RefusedRightly, Basis, VisibleTo, Newest, Matches, MatchesFts, MatchesTerm,
                Normalized, ExtractEntities
  <1>4. e.result = "answered" => RestsOnEvidence(e)
    <2> SUFFICES ASSUME e.result = "answered" PROVE RestsOnEvidence(e)
      OBVIOUS
    <2>1. RestsOnEvidence(q)
      BY <1>1
    <2>2. \A d : Evidenced(e, d) <=> Evidenced(q, d)
      BY <1>1 DEF Evidenced, Near, Basis, Found, Matches, MatchesFts, MatchesTerm,
                  Normalized, ExtractEntities
    <2>3. /\ e.hits = q.hits /\ e.ranked = q.ranked
          /\ VisibleTo(e.ever, e.scopes) = VisibleTo(q.ever, q.scopes)
      BY <1>1 DEF Basis, Found, VisibleTo
    <2> QED BY <2>1, <2>2, <2>3 DEF RestsOnEvidence
  <1> QED BY <1>1, <1>2, <1>3, <1>4 DEF Sound

(* A step of a question that is asked or goes on.                           *)
Proceeds(t, r) ==
    /\ query[t].phase # "idle" /\ r.phase # "idle" /\ Basis(query[t], r)
    /\ r \in QuestionRecord /\ Sound(r)
    /\ query' = [query EXCEPT ![t] = r] /\ UNCHANGED <<setup, documents>>

LEMMA EndProceeds ==
    ASSUME AnswersTyped, NEW t \in Thread, query[t].phase # "idle",
           NEW x \in {"error", "refused", "unavailable", "answered"},
           query' = [query EXCEPT ![t] = End(query[t], x)], UNCHANGED <<setup, documents>>,
           x = "refused" => RefusedRightly(query[t]), x = "answered" => RestsOnEvidence(query[t])
    PROVE  \E r \in QuestionRecord : Proceeds(t, r)
  <1>1. query[t] \in QuestionRecord
    BY DEF AnswersTyped, QuestionsTyped
  <1>2. PICK e : e = End(query[t], x)
    OBVIOUS
  <1>3. e \in QuestionRecord /\ Basis(query[t], e) /\ e.phase = "done"
    BY <1>1, <1>2, EndIs
  <1>4. Sound(e)
    BY <1>1, <1>2, EndIsSound
  <1>5. query' = [query EXCEPT ![t] = e]
    BY <1>2
  <1> QED BY <1>3, <1>4, <1>5 DEF Proceeds

LEMMA ResolveProceeds ==
    ASSUME AnswersTyped, UploadsInv, NEW t \in Thread, NEW q \in QuestionRecord, q = query[t],
           Sound(q), Resolve(t)
    PROVE  \E r \in QuestionRecord : Proceeds(t, r)
  <1> DEFINE list == Resolved(query[t].scopes)
  <1>1. q \in QuestionRecord /\ q.phase = "resolve" /\ UNCHANGED <<setup, documents>>
    BY DEF AnswersTyped, QuestionsTyped, Resolve, Reading, Step
  <1>2. q.always \subseteq Published /\ Published \subseteq q.ever /\ q.session \in Session /\ q.result = "none"
    BY <1>1 DEF Sound, Watched
  <1>3. \A d \in VisibleTo(q.always, q.scopes) : Newest(d) => d \in list
    BY <1>2, FirstPageHasNewest DEF Resolved, VisibleTo
  <1>4. /\ list \subseteq VisibleTo(q.ever, q.scopes) /\ list \in SUBSET Doc
        /\ \A d \in list : WasPublished(d)
    BY <1>2 DEF Resolved, VisibleTo, FirstPage, Published, WasPublished
  <1>5. CASE query' = [query EXCEPT ![t] = End(q, "error")]
    BY <1>1, <1>5, EndProceeds
  <1>6. CASE list = {} /\ query' = [query EXCEPT ![t] = End(q, "refused")]
    <2>1. RefusedRightly(q)
      BY <1>3, <1>6 DEF RefusedRightly
    <2> QED BY <1>1, <1>6, <2>1, EndProceeds
  <1>7. CASE query' = [query EXCEPT ![t] = [q EXCEPT !.phase = "keywords", !.docs = list]]
    <2>1. PICK l \in SUBSET Doc : l = list
      BY <1>4
    <2>2. PICK e : e = Listed(q, l)
      OBVIOUS
    <2>3. /\ e \in QuestionRecord /\ Basis(q, e) /\ e.docs = l
          /\ e.phase = "keywords" /\ e.result = q.result /\ e.always = q.always /\ e.ever = q.ever
      BY <1>1, <2>2, ListedIs
    <2>4. query' = [query EXCEPT ![t] = e]
      BY <1>7, <2>1, <2>2 DEF Listed
    <2>5. VisibleTo(e.ever, e.scopes) = VisibleTo(q.ever, q.scopes)
          /\ VisibleTo(e.always, e.scopes) = VisibleTo(q.always, q.scopes)
      BY <2>3 DEF Basis, VisibleTo
    <2>6. ListIsSound(e) /\ ListIsComplete(e)
      BY <1>3, <1>4, <2>1, <2>3, <2>5 DEF ListIsSound, ListIsComplete
    <2>7. Sound(e)
      BY <1>2, <2>3, <2>6 DEF Sound, Watched, RecallIsSound, IdleIsBlank, Basis
    <2> QED BY <1>1, <2>3, <2>4, <2>7 DEF Proceeds
  <1> QED BY <1>5, <1>6, <1>7 DEF Resolve, Reading, Step

(* Some of the rows are kept, if there are any.                             *)
LEMMA UpToKeeps ==
    ASSUME NEW limit \in Nat \ {0}, NEW rows, NEW kept \in UpTo(limit, rows)
    PROVE  kept \subseteq rows /\ (kept = {} => rows = {})
  <1>1. kept = rows \/ (kept \subseteq rows /\ Cardinality(kept) = limit)
    BY DEF UpTo
  <1>2. Cardinality({}) # limit
    BY FS_EmptySet
  <1> QED BY <1>1, <1>2

(* The store's search finds what the index finds, and every chunk of the    *)
(* list is in the store.                                                    *)
LEMMA KeywordRowsSound ==
    ASSUME AnswersTyped, NEW q \in QuestionRecord, NEW reached \in BOOLEAN,
           \A d \in q.docs : WasPublished(d),
           NEW found \in SearchSparse(Normalized(q.words), q.docs, reached),
           NEW k \in KeywordRows(Normalized(q.words), q.docs, found)
    PROVE  /\ k \subseteq q.docs /\ \A d \in k : Matches(Normalized(q.words), d)
           /\ k = {} => \A d \in q.docs : ~Matches(Normalized(q.words), d)
  <1> PICK words : words = Normalized(q.words)
    OBVIOUS
  <1> DEFINE index == {d \in q.docs \cap sparse : MatchesFts(words, d)}
             store == {d \in q.docs : Matches(words, d)}
  <1>1. \A d \in Doc : MatchesFts(words, d) => Matches(words, d)
    BY TextsAssumption DEF Matches, MatchesTerm, MatchesFts
  <1>2. q.docs \subseteq Doc
    BY DEF QuestionRecord
  <1>3. setup.rows \in Nat \ {0}
    BY SetupsAssumption DEF AnswersTyped, DocumentsTyped
  <1>4. CASE found # {}
    <2>1. found \in UpTo(setup.rows, index)
      BY <1>4 DEF SearchSparse
    <2>2. found \subseteq index
      <3> HIDE DEF index
      <3> QED BY <1>3, <2>1, UpToKeeps
    <2>3. \A d \in found : d \in q.docs /\ Matches(words, d) /\ Stored(d)
      BY <1>1, <1>2, <2>2 DEF WasPublished, Stored
    <2>4. k = found
      BY <1>4, <2>3 DEF KeywordRows
    <2> QED BY <1>4, <2>3, <2>4
  <1>5. CASE found = {}
    <2>1. k \in UpTo(setup.rows, store)
      BY <1>5 DEF KeywordRows, SearchFts
    <2>2. k \subseteq store /\ (k = {} => store = {})
      <3> HIDE DEF store
      <3> QED BY <1>3, <2>1, UpToKeeps
    <2> QED BY <2>2
  <1> QED BY <1>4, <1>5

LEMMA RecallKeywordsProceeds ==
    ASSUME AnswersTyped, UploadsInv, NEW t \in Thread, NEW q \in QuestionRecord, q = query[t],
           Sound(q), RecallKeywords(t)
    PROVE  \E r \in QuestionRecord : Proceeds(t, r)
  <1> DEFINE words == Normalized(q.words)
  <1>1. q \in QuestionRecord /\ q.phase = "keywords" /\ UNCHANGED <<setup, documents>>
    BY DEF AnswersTyped, QuestionsTyped, RecallKeywords, Reading, Step
  <1>2. /\ q.always \subseteq Published /\ Published \subseteq q.ever /\ q.session \in Session
        /\ q.result = "none" /\ ListIsSound(q) /\ ListIsComplete(q)
    BY <1>1 DEF Sound, Watched
  <1>3. PICK reached \in BOOLEAN : \E found \in SearchSparse(words, q.docs, reached) :
            \E k \in KeywordRows(words, q.docs, found) :
               Reading(t, "keywords", [query[t] EXCEPT !.phase = "vectors", !.keyed = k,
                                                       !.titled = IF found = {} THEN k ELSE {}])
    BY DEF RecallKeywords
  <1>11. PICK found \in SearchSparse(words, q.docs, reached) :
            \E k \in KeywordRows(words, q.docs, found) :
               Reading(t, "keywords", [query[t] EXCEPT !.phase = "vectors", !.keyed = k,
                                                       !.titled = IF found = {} THEN k ELSE {}])
    BY <1>3
  <1>4. PICK k \in KeywordRows(words, q.docs, found) :
            Reading(t, "keywords", [query[t] EXCEPT !.phase = "vectors", !.keyed = k,
                                                    !.titled = IF found = {} THEN k ELSE {}])
    BY <1>11
  <1>10. PICK m : m = IF found = {} THEN k ELSE {}
    OBVIOUS
  <1>5. \A d \in q.docs : WasPublished(d)
    BY <1>1, <1>2 DEF ListIsSound
  <1>6. /\ k \subseteq q.docs /\ \A d \in k : Matches(Normalized(q.words), d)
        /\ k = {} => \A d \in q.docs : ~Matches(Normalized(q.words), d)
    BY <1>1, <1>5, KeywordRowsSound
  <1>7. k \in SUBSET Doc /\ m \in SUBSET Doc
    BY <1>1, <1>6, <1>10 DEF QuestionRecord
  <1>8. CASE query' = [query EXCEPT ![t] = End(q, "error")]
    BY <1>1, <1>8, EndProceeds
  <1>9. CASE query' = [query EXCEPT ![t] = Keyed(q, k, m)]
    <2>1. PICK e : e = Keyed(q, k, m)
      OBVIOUS
    <2>2. /\ e \in QuestionRecord /\ Basis(q, e) /\ e.docs = q.docs /\ e.keyed = k
          /\ e.phase = "vectors" /\ e.result = q.result /\ e.always = q.always /\ e.ever = q.ever
      BY <1>1, <1>7, <2>1, KeyedIs
    <2>3. query' = [query EXCEPT ![t] = e]
      BY <1>9, <2>1
    <2>4. /\ VisibleTo(e.ever, e.scopes) = VisibleTo(q.ever, q.scopes)
          /\ VisibleTo(e.always, e.scopes) = VisibleTo(q.always, q.scopes)
      BY <2>2 DEF Basis, VisibleTo
    <2>5. ListIsSound(e) /\ ListIsComplete(e)
      BY <1>1, <1>2, <2>2, <2>4 DEF ListIsSound, ListIsComplete
    <2>6. \A d : Matches(Normalized(e.words), d) <=> Matches(Normalized(q.words), d)
      BY <2>2 DEF Basis, Matches, MatchesFts, MatchesTerm, Normalized, ExtractEntities
    <2>7. RecallIsSound(e)
      BY <1>6, <2>2, <2>6 DEF RecallIsSound
    <2>8. Sound(e)
      BY <1>2, <2>2, <2>5, <2>7 DEF Sound, Watched, IdleIsBlank, Basis
    <2> QED BY <1>1, <2>2, <2>3, <2>8 DEF Proceeds
  <1> QED BY <1>4, <1>8, <1>9, <1>10 DEF Reading, Step, Keyed

LEMMA RecallVectorsProceeds ==
    ASSUME AnswersTyped, UploadsInv, NEW t \in Thread, NEW q \in QuestionRecord, q = query[t],
           Sound(q), RecallVectors(t)
    PROVE  \E r \in QuestionRecord : Proceeds(t, r)
  <1>1. q \in QuestionRecord /\ q.phase = "vectors" /\ UNCHANGED <<setup, documents>>
    BY DEF AnswersTyped, QuestionsTyped, RecallVectors, Step
  <1>2. /\ q.always \subseteq Published /\ Published \subseteq q.ever /\ q.session \in Session
        /\ q.result = "none" /\ ListIsSound(q) /\ ListIsComplete(q) /\ RecallIsSound(q)
    BY <1>1 DEF Sound, Watched
  <1>3. PICK reached \in BOOLEAN : \E found \in SearchVectors(q.docs, reached) :
            \E best \in [VectorRows(q.docs, found) -> Similarity] :
               Step(t, "vectors", IF poisoned /\ found = {} THEN End(query[t], "error")
                                  ELSE [query[t] EXCEPT !.phase = "rank", !.best = best])
    BY DEF RecallVectors
  <1>8. PICK found \in SearchVectors(q.docs, reached) :
            \E best \in [VectorRows(q.docs, found) -> Similarity] :
               Step(t, "vectors", IF poisoned /\ found = {} THEN End(query[t], "error")
                                  ELSE [query[t] EXCEPT !.phase = "rank", !.best = best])
    BY <1>3
  <1>4. PICK b \in [VectorRows(q.docs, found) -> Similarity] :
            Step(t, "vectors", IF poisoned /\ found = {} THEN End(query[t], "error")
                               ELSE [query[t] EXCEPT !.phase = "rank", !.best = b])
    BY <1>8
  <1>5. DOMAIN b \subseteq q.docs /\ b \in Similarities
    <2>1. setup.rows \in Nat \ {0} /\ q.docs \in SUBSET Doc
      BY SetupsAssumption DEF AnswersTyped, DocumentsTyped, QuestionRecord
    <2>2. found \subseteq q.docs
      <3>1. CASE found \in UpTo(setup.rows, q.docs \cap vectors)
        <4>1. found \subseteq q.docs \cap vectors
          BY <2>1, <3>1, UpToKeeps
        <4> QED BY <4>1
      <3>2. CASE found = {}
        BY <3>2
      <3> QED BY <3>1, <3>2 DEF SearchVectors
    <2>3. VectorRows(q.docs, found) \subseteq q.docs
      BY <2>2 DEF VectorRows, ChunkRows
    <2> QED BY <2>1, <2>3 DEF Similarities
  <1>6. CASE query' = [query EXCEPT ![t] = End(q, "error")]
    BY <1>1, <1>6, EndProceeds
  <1>7. CASE query' = [query EXCEPT ![t] = Remembered(q, b)]
    <2>1. PICK e : e = Remembered(q, b)
      OBVIOUS
    <2>2. /\ e \in QuestionRecord /\ Basis(q, e) /\ e.docs = q.docs /\ e.keyed = q.keyed
          /\ e.best = b
          /\ e.phase = "rank" /\ e.result = q.result /\ e.always = q.always /\ e.ever = q.ever
      BY <1>1, <1>5, <2>1, RememberedIs
    <2>3. query' = [query EXCEPT ![t] = e]
      BY <1>7, <2>1
    <2>4. /\ VisibleTo(e.ever, e.scopes) = VisibleTo(q.ever, q.scopes)
          /\ VisibleTo(e.always, e.scopes) = VisibleTo(q.always, q.scopes)
      BY <2>2 DEF Basis, VisibleTo
    <2>5. ListIsSound(e) /\ ListIsComplete(e)
      BY <1>1, <1>2, <2>2, <2>4 DEF ListIsSound, ListIsComplete
    <2>6. \A d : Matches(Normalized(e.words), d) <=> Matches(Normalized(q.words), d)
      BY <2>2 DEF Basis, Matches, MatchesFts, MatchesTerm, Normalized, ExtractEntities
    <2>7. RecallIsSound(e)
      BY <1>1, <1>2, <1>5, <2>2, <2>6 DEF RecallIsSound
    <2>8. Sound(e)
      BY <1>2, <2>2, <2>5, <2>7 DEF Sound, Watched, IdleIsBlank, Basis
    <2> QED BY <1>1, <2>2, <2>3, <2>8 DEF Proceeds
  <1> QED BY <1>4, <1>6, <1>7 DEF Step, Remembered

LEMMA EmbeddingFailsProceeds ==
    ASSUME AnswersTyped, NEW t \in Thread, EmbeddingFails(t)
    PROVE  \E r \in QuestionRecord : Proceeds(t, r)
  BY EndProceeds DEF EmbeddingFails, Step

LEMMA AnswerProceeds ==
    ASSUME AnswersTyped, NEW t \in Thread, NEW q \in QuestionRecord, q = query[t],
           Sound(q), Answer(t)
    PROVE  \E r \in QuestionRecord : Proceeds(t, r)
  <1>1. RestsOnEvidence(query[t])
    BY DEF Sound, Answer, Step, RestsOnEvidence
  <1> QED BY <1>1, EndProceeds DEF Answer, Step

-----------------------------------------------------------------------------
(* The fused score of a document found by a word is at least half, that of  *)
(* a near one more than that of any document found by nothing.              *)
LEMMA FusedBounds ==
    ASSUME NEW q \in QuestionRecord, NEW d
    PROVE  /\ Fused(q, d) \in Int
           /\ d \in q.keyed => Fused(q, d) >= 200
           /\ d \in Near(q) => Fused(q, d) >= 170
           /\ d \notin q.keyed /\ d \notin Near(q) => Fused(q, d) < 170
  <1>1. \A e \in DOMAIN q.best : q.best[e] \in -100 .. 100
    <2>1. PICK docs \in SUBSET Doc : q.best \in [docs -> Similarity]
      BY DEF QuestionRecord, Similarities
    <2> QED BY <2>1, SimilarityAssumption
  <1>2. PICK b : b = IF d \in DOMAIN q.best /\ \E e \in DOMAIN q.best : q.best[e] > 0
                     THEN 100 + q.best[d] ELSE 0
    OBVIOUS
  <1>3. b \in 0 .. 200
    BY <1>1, <1>2
  <1>4. d \in Near(q) => b >= 170
    BY <1>1, <1>2 DEF Near
  <1>5. d \notin Near(q) => b < 170
    BY <1>1, <1>2 DEF Near
  <1>6. Fused(q, d) = (IF d \in q.keyed THEN 200 ELSE 0) + b
    BY <1>2 DEF Fused
  <1> QED BY <1>3, <1>4, <1>5, <1>6

(* What the window leaves out scores no more than what it holds.            *)
LEMMA WindowHasEvidence ==
    ASSUME AnswersTyped, NEW q \in QuestionRecord, q.phase = "rank", RecallIsSound(q),
           ~Unsupported(q), NEW ranked \in Windows(q)
    PROVE  ranked \subseteq Candidates(q) /\ \E d \in ranked : Evidenced(q, d)
  <1>1. /\ q.keyed \subseteq q.docs /\ DOMAIN q.best \subseteq q.docs
        /\ \A d \in q.keyed : Evidenced(q, d)
    BY DEF RecallIsSound, Evidenced
  <1>2. ranked \subseteq Candidates(q) /\ (ranked = {} => Candidates(q) = {})
    <2>1. setup.window \in Nat \ {0} /\ ranked \in UpTo(setup.window, Candidates(q))
      BY SetupsAssumption DEF AnswersTyped, DocumentsTyped, Windows
    <2> QED BY <2>1, UpToKeeps
  <1>3. PICK c \in Candidates(q) : c \in q.keyed \/ c \in Near(q)
    BY <1>1 DEF Unsupported, Candidates, Near
  <1>4. PICK d \in ranked : TRUE
    BY <1>2, <1>3
  <1>5. CASE c \in ranked
    BY <1>1, <1>3, <1>5, <1>2 DEF Evidenced
  <1>6. CASE c \notin ranked
    <2>1. Fused(q, d) >= Fused(q, c)
      BY <1>3, <1>6 DEF Windows
    <2>2. Fused(q, d) \in Int /\ Fused(q, c) \in Int /\ Fused(q, c) >= 170
      BY <1>3, FusedBounds
    <2>3. d \in q.keyed \/ d \in Near(q)
      BY <2>1, <2>2, FusedBounds
    <2> QED BY <1>1, <1>2, <2>3 DEF Evidenced
  <1> QED BY <1>5, <1>6

LEMMA RankProceeds ==
    ASSUME AnswersTyped, NEW t \in Thread, NEW q \in QuestionRecord, q = query[t],
           Sound(q), Rank(t)
    PROVE  \E r \in QuestionRecord : Proceeds(t, r)
  <1>1. q \in QuestionRecord /\ q.phase = "rank" /\ UNCHANGED <<setup, documents>>
    BY DEF AnswersTyped, QuestionsTyped, Rank, Step
  <1>2. /\ q.always \subseteq Published /\ Published \subseteq q.ever /\ q.session \in Session
        /\ q.result = "none" /\ ListIsSound(q) /\ ListIsComplete(q) /\ RecallIsSound(q)
    BY <1>1 DEF Sound, Watched
  <1>3. /\ q.keyed \subseteq q.docs /\ DOMAIN q.best \subseteq q.docs
        /\ q.docs \subseteq VisibleTo(q.ever, q.scopes) /\ q.docs \subseteq Doc
        /\ \A d \in q.keyed : Matches(Normalized(q.words), d)
        /\ q.keyed = {} => \A d \in q.docs : ~Matches(Normalized(q.words), d)
    BY <1>1, <1>2 DEF ListIsSound, RecallIsSound, QuestionRecord
  <1>4. CASE Unsupported(q) /\ query' = [query EXCEPT ![t] = End(q, "refused")]
    <2>1. q.keyed = {}
      BY <1>3, <1>4 DEF Unsupported, Candidates
    <2>2. RefusedRightly(q)
      BY <1>1, <1>2, <1>3, <2>1 DEF RefusedRightly, ListIsComplete
    <2> QED BY <1>1, <1>4, <2>2, EndProceeds
  <1>5. CASE query' = [query EXCEPT ![t] = End(q, "error")]
    BY <1>1, <1>5, EndProceeds
  <1>6. ASSUME ~Unsupported(q), NEW ranked \in Windows(q), NEW hits \in UpTo(TopK, ranked),
               NEW top \in hits, query' = [query EXCEPT ![t] = Ranked(q, ranked, hits, top)]
        PROVE  \E r \in QuestionRecord : Proceeds(t, r)
    <2>1. ranked \subseteq Candidates(q) /\ \E d \in ranked : Evidenced(q, d)
      BY <1>1, <1>2, <1>6, WindowHasEvidence
    <2>2. /\ hits \subseteq ranked /\ hits \in SUBSET Doc /\ top \in Doc /\ hits # {}
          /\ ranked \in SUBSET Doc /\ Candidates(q) \subseteq q.docs
      BY <1>3, <1>6, <2>1 DEF Candidates, UpTo
    <2>3. PICK e : e = Ranked(q, ranked, hits, top)
      OBVIOUS
    <2>4. /\ e \in QuestionRecord /\ Basis(q, e) /\ e.docs = q.docs /\ e.keyed = q.keyed
          /\ e.ranked = ranked /\ e.best = q.best /\ e.hits = hits /\ e.top = top
          /\ e.phase = "answer" /\ e.result = q.result /\ e.always = q.always /\ e.ever = q.ever
      BY <1>1, <2>2, <2>3, RankedIs
    <2>5. query' = [query EXCEPT ![t] = e]
      BY <1>6, <2>3
    <2>6. VisibleTo(e.ever, e.scopes) = VisibleTo(q.ever, q.scopes)
      BY <2>4 DEF Basis, VisibleTo
    <2>7. ListIsSound(e) /\ ListIsComplete(e) /\ RecallIsSound(e)
      BY <1>1, <1>2, <2>4, <2>6 DEF ListIsSound, ListIsComplete, RecallIsSound
    <2>8. \A d : Evidenced(e, d) <=> Evidenced(q, d)
      BY <2>4 DEF Evidenced, Near, Basis, Matches, MatchesFts, MatchesTerm,
                  Normalized, ExtractEntities
    <2>9. RestsOnEvidence(e)
      BY <1>3, <2>1, <2>2, <2>4, <2>6, <2>8 DEF RestsOnEvidence
    <2>10. Sound(e)
      BY <1>2, <1>6, <2>4, <2>7, <2>9 DEF Sound, Watched, IdleIsBlank, Basis
    <2> QED BY <1>1, <2>4, <2>5, <2>10 DEF Proceeds
  <1> QED BY <1>4, <1>5, <1>6 DEF Rank, Step, Ranked

-----------------------------------------------------------------------------
(* A question is asked.                                                     *)
LEMMA AskGives ==
    ASSUME AnswersTyped, NEW t \in Thread, NEW s \in Session, NEW words \in Questions,
           NEW scopes \in Scopes, Ask(t, s, words, scopes)
    PROVE  \E r \in QuestionRecord :
              /\ Sound(r) /\ r.phase # "idle" /\ r.session = s /\ r.prior = qaLogs[s]
              /\ query' = [query EXCEPT ![t] = r]
              /\ UNCHANGED <<setup, documents, qaLogs, poisoned>> /\ asked' = asked + 1
  <1>1. PICK e : e = Asked(s, words, scopes)
    OBVIOUS
  <1>2. /\ e \in QuestionRecord /\ e.session = s /\ e.prior = qaLogs[s]
        /\ e.always = Published /\ e.ever = Published
        /\ \/ e.phase = "resolve" /\ e.result = "none"
           \/ e.phase = "done" /\ e.result = "error"
    BY <1>1, AskedIs
  <1>3. Sound(e)
    BY <1>2 DEF Sound, Watched, ListIsSound, ListIsComplete, RecallIsSound, IdleIsBlank
  <1>4. /\ query' = [query EXCEPT ![t] = e]
        /\ UNCHANGED <<setup, documents, qaLogs, poisoned>> /\ asked' = asked + 1
    BY <1>1 DEF Ask
  <1> QED BY <1>2, <1>3, <1>4

(* A document's status moves, and the questions in progress are told.       *)
Moves(d, new) == /\ SetStatus(d, new) /\ UNCHANGED <<setup, qaLogs>>
                 /\ WasPublished(d) => new \in {"published", "archived"}

LEMMA SoundUnchanged ==
    ASSUME NEW q \in QuestionRecord, Sound(q), UNCHANGED <<setup, status>>
    PROVE  Sound(q)'
  BY ZenonT(40) DEF Sound, Watched, ListIsSound, ListIsComplete, RecallIsSound, IdleIsBlank, RefusedRightly,
         RestsOnEvidence, Published, VisibleTo, Newest, Matches, MatchesFts, MatchesTerm, WasPublished,
         Evidenced, Near, Normalized, ExtractEntities

LEMMA MovesGives ==
    ASSUME AnswersTyped, NEW d \in Doc, NEW new, Moves(d, new), NEW t \in Thread,
           NEW q \in QuestionRecord, q = query[t], Sound(q)
    PROVE  \E r \in QuestionRecord :
              r = query'[t] /\ Basis(q, r) /\ r.phase = q.phase /\ Sound(r)'
  <1>1. PICK r : r = query'[t]
    OBVIOUS
  <1>2. \/ r = q /\ q.phase \in {"idle", "done"}
        \/ /\ q.phase \notin {"idle", "done"} /\ new = "published"
           /\ r = [q EXCEPT !.ever = @ \cup {d}]
        \/ /\ q.phase \notin {"idle", "done"} /\ new # "published"
           /\ r = [q EXCEPT !.always = @ \ {d}]
    BY <1>1 DEF Moves, SetStatus
  <1>3. /\ r \in QuestionRecord /\ Basis(q, r) /\ Found(q, r)
        /\ r.phase = q.phase /\ r.result = q.result
        /\ r.always \in {q.always, q.always \ {d}} /\ r.ever \in {q.ever, q.ever \cup {d}}
        /\ r = [q EXCEPT !.ever = @ \cup {d}] => r.ever = q.ever \cup {d} /\ r.always = q.always
        /\ r = [q EXCEPT !.always = @ \ {d}] => r.always = q.always \ {d} /\ r.ever = q.ever
    BY <1>2, ChangedIs
  <1>4. setup' = setup
        /\ Published' = IF new = "published" THEN Published \cup {d} ELSE Published \ {d}
    BY DEF Moves, SetStatus, Published, AnswersTyped, DocumentsTyped
  <1>5. \A c \in Doc : WasPublished(c) => WasPublished(c)'
    BY DEF Moves, SetStatus, WasPublished, AnswersTyped, DocumentsTyped
  <1>6. Watched(r)'
    BY <1>2, <1>3, <1>4 DEF Sound, Watched, Basis
  <1>7. /\ VisibleTo(q.ever, q.scopes) \subseteq VisibleTo(r.ever, r.scopes)
        /\ VisibleTo(r.always, r.scopes) \subseteq VisibleTo(q.always, q.scopes)
    BY <1>3 DEF VisibleTo, Basis
  <1>8. q.docs \subseteq Doc /\ r.docs = q.docs
    BY <1>3 DEF QuestionRecord, Found
  <1>9. ListIsSound(r)'
    BY <1>3, <1>5, <1>7, <1>8 DEF Sound, ListIsSound, VisibleTo
  <1>10. ListIsComplete(r)'
    BY <1>3, <1>4, <1>7, <1>8 DEF Sound, ListIsComplete, VisibleTo, Newest
  <1>11. \A c : Matches(Normalized(q.words), c) => Matches(Normalized(r.words), c)'
    BY <1>3, <1>4 DEF Basis, Matches, MatchesFts, MatchesTerm, Normalized, ExtractEntities
  <1>12. \A c : ~Matches(Normalized(q.words), c) => ~Matches(Normalized(r.words), c)'
    BY <1>3, <1>4 DEF Basis, Matches, MatchesFts, MatchesTerm, Normalized, ExtractEntities
  <1>13. RecallIsSound(r)'
    BY <1>3, <1>11, <1>12 DEF Sound, RecallIsSound, Found
  <1>14. IdleIsBlank(r)'
    BY <1>3 DEF Sound, IdleIsBlank, Basis
  <1>15. q.result = "refused" => RefusedRightly(r)'
    BY <1>4, <1>7, <1>12 DEF Sound, RefusedRightly, VisibleTo, Newest
  <1>16. q.phase = "answer" \/ q.result = "answered" => RestsOnEvidence(r)'
    <2> SUFFICES ASSUME RestsOnEvidence(q) PROVE RestsOnEvidence(r)'
      BY DEF Sound
    <2>1. \A c : Evidenced(q, c) => Evidenced(r, c)'
      BY <1>3, <1>11 DEF Evidenced, Near, Found
    <2>2. r.hits = q.hits /\ r.ranked = q.ranked
      BY <1>3 DEF Found
    <2> QED BY <1>4, <1>7, <2>1, <2>2 DEF RestsOnEvidence, VisibleTo
  <1>17. q.phase = "answer" => r.top \in r.hits
    BY <1>3 DEF Sound, Found
  <1> QED BY <1>1, <1>3, <1>6, <1>9, <1>10, <1>13, <1>14, <1>15, <1>16, <1>17 DEF Sound

-----------------------------------------------------------------------------
(* The steps of the documents.                                              *)
LEMMA DocumentStep ==
    ASSUME AnswersTyped, UploadsInv, NEW d \in Doc, Document(d)
    PROVE  /\ UNCHANGED <<status, query, setup, qaLogs>> \/ \E new : Moves(d, new)
           /\ UNCHANGED <<setup, qaLogs, poisoned, asked>>
  <1> USE DEF Moves, WasPublished
  <1>1. ASSUME Upload(d) \/ Reparse(d)
        PROVE  SetStatus(d, "uploaded") /\ ~WasPublished(d) /\ UNCHANGED <<setup, qaLogs, poisoned, asked>>
    BY <1>1 DEF Upload, Reparse, Parse
  <1>2. ASSUME NEW new, Settle(d, new)
        PROVE  /\ UNCHANGED <<setup, qaLogs, poisoned, asked>>
               /\ UNCHANGED <<status, query>> \/ (SetStatus(d, new) /\ ~WasPublished(d))
    BY <1>2 DEF Settle, UploadsInv
  <1>3. ASSUME NEW from, NEW to, Move(d, from, to)
        PROVE  SetStatus(d, to) /\ UNCHANGED <<setup, qaLogs, poisoned, asked>>
    BY <1>3 DEF Move
  <1>4. ASSUME WorkerIndexes(d) \/ WorkerInserts(d) \/ WorkerTimesOut(d)
        PROVE  UNCHANGED <<status, query, setup, qaLogs, poisoned, asked>>
    BY <1>4 DEF WorkerIndexes, WorkerInserts, WorkerTimesOut
  <1>5. CASE Upload(d) \/ Reparse(d)
    BY <1>1, <1>5
  <1>6. CASE WorkerReturns(d) \/ WorkerFails(d)
    BY <1>2, <1>6 DEF WorkerReturns, WorkerFails
  <1>7. CASE Publish(d) \/ Restore(d) \/ Archive(d)
    BY <1>3, <1>7 DEF Publish, Restore, Archive
  <1>8. CASE WorkerIndexes(d) \/ WorkerInserts(d) \/ WorkerTimesOut(d)
    BY <1>4, <1>8
  <1> QED BY <1>5, <1>6, <1>7, <1>8 DEF Document

LEMMA UploadsStep ==
    ASSUME AnswersTyped, UploadsInv, NEW c \in Doc, Document(c)
    PROVE  UploadsInv' /\ DocumentsTyped'
  <1> USE DEF AnswersTyped, DocumentsTyped
  <1>1. CASE Upload(c)
    BY <1>1, TextsAssumption DEF Upload, Parse, SetStatus, UploadsInv
  <1>2. CASE Reparse(c)
    BY <1>2 DEF Reparse, Parse, SetStatus, UploadsInv
  <1>3. CASE WorkerIndexes(c)
    BY <1>3 DEF WorkerIndexes, Indexed, UploadsInv
  <1>4. CASE WorkerInserts(c)
    BY <1>4 DEF WorkerInserts, Inserted, UploadsInv
  <1>5. ASSUME NEW new \in {"ready", "parse_failed"}, Settle(c, new)
        PROVE  UploadsInv' /\ DocumentsTyped'
    BY <1>5 DEF Settle, SetStatus, UploadsInv
  <1>6. CASE WorkerReturns(c) \/ WorkerFails(c)
    BY <1>5, <1>6 DEF WorkerReturns, WorkerFails
  <1>7. CASE WorkerTimesOut(c)
    BY <1>7 DEF WorkerTimesOut, UploadsInv
  <1>8. CASE Publish(c)
    BY <1>8 DEF Publish, Move, SetStatus, UploadsInv
  <1>9. CASE Archive(c)
    <2>1. waiting[c] = "none"
      BY <1>9 DEF Archive, Move, LoopIsFree, UploadsInv
    <2> QED BY <1>9, <2>1 DEF Archive, Move, SetStatus, UploadsInv
  <1>10. CASE Restore(c)
    BY <1>10 DEF Restore, Move, SetStatus, UploadsInv
  <1> QED BY <1>1, <1>2, <1>3, <1>4, <1>6, <1>7, <1>8, <1>9, <1>10 DEF Document

(* The steps of the questions, but for asking.                              *)
LEMMA QuestionStep ==
    ASSUME AnswersTyped, UploadsInv, SoundInv, NEW t \in Thread, Question(t)
    PROVE  \/ \E s \in Session, words \in Questions, scopes \in Scopes : Ask(t, s, words, scopes)
           \/ (\E r \in QuestionRecord : Proceeds(t, r)) /\ UNCHANGED <<qaLogs, poisoned, asked>>
           \/ (\E r \in QuestionRecord : Proceeds(t, r)) /\ Answer(t)
  <1> PICK q : q = query[t]
    OBVIOUS
  <1>1. q \in QuestionRecord /\ Sound(q)
    BY DEF AnswersTyped, QuestionsTyped, SoundInv
  <1>2. Resolve(t) \/ RecallKeywords(t) \/ EmbeddingFails(t) \/ RecallVectors(t) \/ Rank(t)
            => UNCHANGED <<qaLogs, poisoned, asked>>
    BY DEF Resolve, RecallKeywords, EmbeddingFails, RecallVectors, Rank, NothingLogged, Reading, Step
  <1>3. Resolve(t) \/ RecallKeywords(t) \/ EmbeddingFails(t) \/ RecallVectors(t) \/ Rank(t) \/ Answer(t)
            => \E r \in QuestionRecord : Proceeds(t, r)
    BY <1>1, ResolveProceeds, RecallKeywordsProceeds, EmbeddingFailsProceeds,
       RecallVectorsProceeds, RankProceeds, AnswerProceeds
  <1> QED BY <1>2, <1>3 DEF Question

(* A row of the log is written once.                                        *)
LEMMA AnswerLogs ==
    ASSUME AnswersTyped, SoundInv, NEW t \in Thread, Answer(t)
    PROVE  /\ qaLogs' \in [Session -> LogRow \cup {NoRow}] /\ poisoned' \in BOOLEAN /\ asked' = asked
           /\ \A s \in Session : qaLogs[s] # NoRow => qaLogs'[s] = qaLogs[s]
  <1> PICK q : q = query[t]
    OBVIOUS
  <1>1. q \in QuestionRecord /\ q.phase = "answer" /\ Sound(q) /\ asked' = asked
    BY DEF AnswersTyped, QuestionsTyped, SoundInv, Answer, Step
  <1>2. q.session \in Session /\ q.top \in Doc /\ q.hits \in SUBSET Doc
    BY <1>1 DEF Sound, Watched, QuestionRecord
  <1>3. AnswerWords(q) \subseteq Texts
    <2>1. {} \in Texts
      BY FS_EmptySet DEF Texts
    <2>2. Title[q.top] \in Texts /\ Words[q.top] \in Texts
      BY <1>2, TextsAssumption DEF Texts, Vocabulary
    <2>3. \A a, b \in Texts : a \cup b \in Texts
      BY FS_Union DEF Texts
    <2> QED BY <2>1, <2>2, <2>3 DEF AnswerWords
  <1>4. CASE UNCHANGED <<qaLogs, poisoned>>
    BY <1>1, <1>4 DEF AnswersTyped, QuestionsTyped
  <1>5. CASE ~poisoned
    <2>1. PICK words \in AnswerWords(q) :
             qaLogs' = [qaLogs EXCEPT ![q.session] = Logged(@, [hits |-> q.hits, words |-> words])]
      BY <1>5 DEF Answer
    <2>2. PICK w : w = [hits |-> q.hits, words |-> words]
      OBVIOUS
    <2>3. w \in LogRow
      BY <1>2, <1>3, <2>2 DEF LogRow
    <2>4. qaLogs' = [qaLogs EXCEPT ![q.session] = IF qaLogs[q.session] = NoRow THEN w ELSE qaLogs[q.session]]
      BY <2>1, <2>2 DEF Logged
    <2>5. poisoned' \in BOOLEAN
      BY <1>5 DEF Answer, Poisons
    <2> QED BY <1>1, <1>2, <2>3, <2>4, <2>5 DEF AnswersTyped, QuestionsTyped
  <1> QED BY <1>4, <1>5 DEF Answer, NothingLogged

-----------------------------------------------------------------------------
(* How a step changes the questions and the log.                            *)
LogKept == \A s \in Session : qaLogs[s] # NoRow => qaLogs'[s] = qaLogs[s]

LEMMA AskStep ==
    ASSUME AnswersTyped, UploadsInv, PriorsInv, SoundInv, NEW t \in Thread, NEW s \in Session,
           NEW words \in Questions, NEW scopes \in Scopes, Ask(t, s, words, scopes)
    PROVE  AnswersInv'
  <1>1. PICK r \in QuestionRecord :
            /\ Sound(r) /\ r.phase # "idle" /\ r.session = s /\ r.prior = qaLogs[s]
            /\ query' = [query EXCEPT ![t] = r]
            /\ UNCHANGED <<setup, documents, qaLogs, poisoned>> /\ asked' = asked + 1
    BY AskGives
  <1>2. /\ query' \in [Thread -> QuestionRecord] /\ query'[t] = r
        /\ \A v \in Thread : v # t => query'[v] = query[v]
    BY <1>1 DEF AnswersTyped, QuestionsTyped
  <1>3. AnswersTyped'
    BY <1>1, <1>2 DEF AnswersTyped, DocumentsTyped, QuestionsTyped, documents
  <1>4. UploadsInv'
    BY <1>1 DEF UploadsInv, documents
  <1>5. PriorsInv'
    BY <1>1, <1>2 DEF PriorsInv
  <1>6. SoundInv'
    <2> SUFFICES ASSUME NEW v \in Thread, NEW q \in QuestionRecord, q = query'[v] PROVE Sound(q)'
      BY DEF SoundInv
    <2>1. Sound(q)
      <3>1. CASE v = t
        <4>1. q = r
          BY <1>2, <3>1
        <4> QED BY <1>1, <4>1
      <3>2. CASE v # t
        BY <1>2, <3>2 DEF SoundInv
      <3> QED BY <3>1, <3>2
    <2> QED BY <1>1, <2>1, SoundUnchanged DEF documents
  <1> QED BY <1>3, <1>4, <1>5, <1>6 DEF AnswersInv

LEMMA ProceedsStep ==
    ASSUME AnswersTyped, UploadsInv, PriorsInv, SoundInv, NEW t \in Thread,
           NEW r \in QuestionRecord, Proceeds(t, r), LogKept,
           qaLogs' \in [Session -> LogRow \cup {NoRow}], poisoned' \in BOOLEAN, asked' = asked
    PROVE  AnswersInv'
  <1>1. /\ Sound(r) /\ r.phase # "idle" /\ query[t].phase # "idle" /\ Basis(query[t], r)
        /\ query' = [query EXCEPT ![t] = r] /\ UNCHANGED <<setup, documents>>
    BY DEF Proceeds
  <1>2. /\ query' \in [Thread -> QuestionRecord] /\ query'[t] = r
        /\ \A v \in Thread : v # t => query'[v] = query[v]
    BY <1>1 DEF AnswersTyped, QuestionsTyped
  <1>3. AnswersTyped'
    BY <1>1, <1>2 DEF AnswersTyped, DocumentsTyped, QuestionsTyped, documents
  <1>4. UploadsInv'
    BY <1>1 DEF UploadsInv, documents
  <1>5. PriorsInv'
    <2>1. \A v \in Thread : query'[v].phase # "idle" =>
              /\ query[v].phase # "idle" /\ query'[v].session = query[v].session
              /\ query'[v].prior = query[v].prior
      BY <1>1, <1>2 DEF Basis
    <2> QED BY <2>1 DEF PriorsInv, LogKept
  <1>6. SoundInv'
    <2> SUFFICES ASSUME NEW v \in Thread, NEW q \in QuestionRecord, q = query'[v] PROVE Sound(q)'
      BY DEF SoundInv
    <2>1. Sound(q)
      <3>1. CASE v = t
        <4>1. q = r
          BY <1>2, <3>1
        <4> QED BY <1>1, <4>1
      <3>2. CASE v # t
        BY <1>2, <3>2 DEF SoundInv
      <3> QED BY <3>1, <3>2
    <2> QED BY <1>1, <2>1, SoundUnchanged DEF documents
  <1> QED BY <1>3, <1>4, <1>5, <1>6 DEF AnswersInv

LEMMA MovesStep ==
    ASSUME AnswersTyped, PriorsInv, SoundInv, NEW d \in Doc, NEW new, Moves(d, new),
           UNCHANGED <<poisoned, asked>>
    PROVE  QuestionsTyped' /\ PriorsInv' /\ SoundInv'
  <1>1. \A t \in Thread : \E r \in QuestionRecord :
            r = query'[t] /\ Basis(query[t], r) /\ r.phase = query[t].phase /\ Sound(r)'
    <2> SUFFICES ASSUME NEW t \in Thread
                 PROVE  \E r \in QuestionRecord :
                           r = query'[t] /\ Basis(query[t], r) /\ r.phase = query[t].phase /\ Sound(r)'
      OBVIOUS
    <2>1. PICK q : q = query[t]
      OBVIOUS
    <2>2. q \in QuestionRecord /\ Sound(q)
      BY <2>1 DEF AnswersTyped, QuestionsTyped, SoundInv
    <2>3. PICK r \in QuestionRecord : r = query'[t] /\ Basis(q, r) /\ r.phase = q.phase /\ Sound(r)'
      BY <2>1, <2>2, MovesGives
    <2> QED BY <2>1, <2>3 DEF Basis
  <1>2. query' = [t \in Thread |-> query'[t]] /\ UNCHANGED qaLogs
    BY DEF Moves, SetStatus
  <1>3. QuestionsTyped'
    BY <1>1, <1>2 DEF QuestionsTyped, AnswersTyped
  <1>4. \A t \in Thread : /\ query'[t].phase = query[t].phase
                          /\ query'[t].session = query[t].session /\ query'[t].prior = query[t].prior
    BY <1>1 DEF Basis
  <1>5. PriorsInv'
    BY <1>2, <1>4 DEF PriorsInv
  <1>6. SoundInv'
    <2> SUFFICES ASSUME NEW t \in Thread, NEW q \in QuestionRecord, q = query'[t] PROVE Sound(q)'
      BY DEF SoundInv
    <2>1. PICK r \in QuestionRecord : r = query'[t] /\ Sound(r)'
      BY <1>1
    <2>2. r = q
      BY <2>1
    <2> QED BY <2>1, <2>2
  <1> QED BY <1>3, <1>5, <1>6

LEMMA QuestionsUnchanged ==
    ASSUME AnswersTyped, PriorsInv, SoundInv, UNCHANGED <<setup, status, query, qaLogs, poisoned, asked>>
    PROVE  QuestionsTyped' /\ PriorsInv' /\ SoundInv'
  <1>1. SoundInv'
    <2> SUFFICES ASSUME NEW t \in Thread, NEW q \in QuestionRecord, q = query'[t] PROVE Sound(q)'
      BY DEF SoundInv
    <2>1. Sound(q)
      BY DEF SoundInv
    <2> QED BY <2>1, SoundUnchanged
  <1> QED BY <1>1 DEF AnswersTyped, QuestionsTyped, PriorsInv

LEMMA RestartApiStep ==
    ASSUME AnswersTyped, UploadsInv, RestartApi
    PROVE  AnswersInv'
  <1>1. AnswersTyped'
    BY BlankIs DEF RestartApi, AnswersTyped, DocumentsTyped, QuestionsTyped
  <1>2. UploadsInv'
    BY DEF RestartApi, UploadsInv
  <1>3. PriorsInv'
    BY BlankIs DEF RestartApi, PriorsInv
  <1>4. SoundInv'
    <2> SUFFICES ASSUME NEW t \in Thread, NEW q \in QuestionRecord, q = query'[t] PROVE Sound(q)'
      BY DEF SoundInv
    <2>1. q = Idle
      BY DEF RestartApi
    <2> QED BY <2>1, BlankIs DEF Sound, Watched, ListIsSound, ListIsComplete, RecallIsSound, IdleIsBlank
  <1> QED BY <1>1, <1>2, <1>3, <1>4 DEF AnswersInv

LEMMA AnswersInvInitially == AnswersInit => AnswersInv
  <1> SUFFICES ASSUME AnswersInit PROVE AnswersInv
    OBVIOUS
  <1>1. AnswersTyped /\ UploadsInv /\ PriorsInv
    BY BlankIs DEF AnswersInit, AnswersTyped, DocumentsTyped, QuestionsTyped, UploadsInv, PriorsInv
  <1>2. SoundInv
    <2> SUFFICES ASSUME NEW t \in Thread, NEW q \in QuestionRecord, q = query[t] PROVE Sound(q)
      BY DEF SoundInv
    <2>1. q = Idle
      BY DEF AnswersInit
    <2> QED BY <2>1, BlankIs DEF Sound, Watched, ListIsSound, ListIsComplete, RecallIsSound, IdleIsBlank
  <1> QED BY <1>1, <1>2 DEF AnswersInv

LEMMA AnswersInvStep == AnswersInv /\ [AnswersNext]_answersVars => AnswersInv'
  <1> SUFFICES ASSUME AnswersTyped, UploadsInv, PriorsInv, SoundInv, [AnswersNext]_answersVars
               PROVE  AnswersInv'
    BY DEF AnswersInv
  <1>1. CASE UNCHANGED answersVars
    <2>1. QuestionsTyped' /\ PriorsInv' /\ SoundInv'
      BY <1>1, QuestionsUnchanged DEF answersVars
    <2>2. DocumentsTyped' /\ UploadsInv'
      BY <1>1 DEF answersVars, AnswersTyped, DocumentsTyped, UploadsInv
    <2> QED BY <2>1, <2>2 DEF AnswersInv, AnswersTyped
  <1>2. ASSUME NEW d \in Doc, Document(d) PROVE AnswersInv'
    <2>1. UploadsInv' /\ DocumentsTyped'
      BY <1>2, UploadsStep
    <2>2. /\ UNCHANGED <<status, query, setup, qaLogs>> \/ \E new : Moves(d, new)
          /\ UNCHANGED <<setup, qaLogs, poisoned, asked>>
      BY <1>2, DocumentStep
    <2>3. QuestionsTyped' /\ PriorsInv' /\ SoundInv'
      <3>1. CASE UNCHANGED <<status, query, setup, qaLogs>>
        BY <2>2, <3>1, QuestionsUnchanged
      <3>2. ASSUME NEW new, Moves(d, new) PROVE QuestionsTyped' /\ PriorsInv' /\ SoundInv'
        BY <2>2, <3>2, MovesStep
      <3> QED BY <2>2, <3>1, <3>2
    <2> QED BY <2>1, <2>3 DEF AnswersInv, AnswersTyped
  <1>3. ASSUME NEW t \in Thread, Question(t) PROVE AnswersInv'
    <2>1. CASE \E s \in Session, words \in Questions, scopes \in Scopes : Ask(t, s, words, scopes)
      BY <2>1, AskStep
    <2>2. ASSUME NEW r \in QuestionRecord, Proceeds(t, r), UNCHANGED <<qaLogs, poisoned, asked>>
          PROVE  AnswersInv'
      <3>1. /\ LogKept /\ qaLogs' \in [Session -> LogRow \cup {NoRow}]
            /\ poisoned' \in BOOLEAN /\ asked' = asked
        BY <2>2 DEF LogKept, AnswersTyped, QuestionsTyped
      <3> QED BY <2>2, <3>1, ProceedsStep
    <2>3. ASSUME NEW r \in QuestionRecord, Proceeds(t, r), Answer(t)
          PROVE  AnswersInv'
      <3>1. /\ LogKept /\ qaLogs' \in [Session -> LogRow \cup {NoRow}]
            /\ poisoned' \in BOOLEAN /\ asked' = asked
        BY <2>3, AnswerLogs DEF LogKept
      <3> QED BY <2>3, <3>1, ProceedsStep
    <2> QED BY <1>3, <2>1, <2>2, <2>3, QuestionStep
  <1>4. CASE RestartApi
    BY <1>4, RestartApiStep
  <1> QED BY <1>1, <1>2, <1>3, <1>4 DEF AnswersNext

LEMMA AnswersInvAlways == AnswersSpec => []AnswersInv
  BY AnswersInvInitially, AnswersInvStep, PTL DEF AnswersSpec

-----------------------------------------------------------------------------
(* Every variable keeps its type.                                           *)
THEOREM AnswersTypesCorrect == AnswersSpec => []AnswersTyped
  <1>1. AnswersInv => AnswersTyped
    BY DEF AnswersInv
  <1> QED BY <1>1, AnswersInvAlways, PTL

(* What an answer cites was published and visible while the answer was      *)
(* worked out, and the window it was chosen from holds a document found by  *)
(* a word or a near vector, for any similarities and limits (retrieval.py). *)
THEOREM AnswersAreGrounded == AnswersSpec => []AnswersRestOnEvidence
  <1>1. AnswersInv => AnswersRestOnEvidence
    <2> SUFFICES ASSUME AnswersInv, NEW t \in Thread, query[t].result = "answered"
                 PROVE  RestsOnEvidence(query[t])
      BY DEF AnswersRestOnEvidence, RestsOnEvidence
    <2>1. PICK q : q = query[t]
      OBVIOUS
    <2>2. q \in QuestionRecord /\ Sound(q)
      BY <2>1 DEF AnswersInv, AnswersTyped, QuestionsTyped, SoundInv
    <2>3. RestsOnEvidence(q)
      BY <2>1, <2>2 DEF Sound
    <2> QED BY <2>1, <2>3
  <1> QED BY <1>1, AnswersInvAlways, PTL

(* A question is refused only if none of the newest documents that stayed   *)
(* published in its scopes has one of its words, whatever the indexes held  *)
(* or failed to do (retrieval.py, _answer_query).                           *)
THEOREM RefusalsHideNothing == AnswersSpec => []RefusalsAreTrue
  <1>1. AnswersInv => RefusalsAreTrue
    <2> SUFFICES ASSUME AnswersInv, NEW t \in Thread, query[t].result = "refused"
                 PROVE  RefusedRightly(query[t])
      BY DEF RefusalsAreTrue, RefusedRightly
    <2>1. PICK q : q = query[t]
      OBVIOUS
    <2>2. q \in QuestionRecord /\ Sound(q)
      BY <2>1 DEF AnswersInv, AnswersTyped, QuestionsTyped, SoundInv
    <2>3. RefusedRightly(q)
      BY <2>1, <2>2 DEF Sound
    <2> QED BY <2>1, <2>3
  <1> QED BY <1>1, AnswersInvAlways, PTL

(* All follow-ups of a session go back to the same logged answer            *)
(* (_answer_query, write_qa_log).                                           *)
THEOREM FollowUpsAgree == AnswersSpec => []FollowUpsShareOneAnswer
  <1>1. AnswersInv => FollowUpsShareOneAnswer
    BY DEF AnswersInv, PriorsInv, FollowUpsShareOneAnswer
  <1> QED BY <1>1, AnswersInvAlways, PTL

-----------------------------------------------------------------------------
(* FROM INCIDENTS TO KNOWLEDGE, for any requests, handlers and limits,     *)
(* whatever is stopped, and on either store.                               *)

(* Types.  A table is numbered, and its numbers have a bound.              *)
Numbers == {N \in SUBSET Nat : \E b \in Nat : \A i \in N : i <= b}
Table(S) == UNION {[N -> S] : N \in Numbers}

AgentRequests == UNION {d.requests : d \in Agents}
Group == UNION {Range(Converge(q.alarms, q)) : q \in AgentRequests}
Incident == [alarms : Group, primary : {PrimaryAlarm(g) : g \in Group}]
RcaRun == [incident : Nat, report : Nat, status : Decisions \cup {"waiting_review"}]
Report == [incident : Nat, run : Nat, cause : BOOLEAN, extra : Nat, review : Decisions \cup {"pending"}]
Candidate == [report : Nat, hypothesis : Hypothesis, review : {"pending", "approved", "rejected"}, doc : Nat]
Objects == [incident : Table(Incident), run : Table(RcaRun), report : Table(Report), candidate : Table(Candidate)]

Keeping == [at : {"keep"}, request : AgentRequests, next : Nat, first : Nat, groups : Seq(Group) \ {<< >>}]
Running == [at : {"evidence", "keep_run"}, incident : Nat, attended : BOOLEAN]
Saving == [at : {"save_report", "generate"}, id : Nat, report : Report, todo : SUBSET Hypothesis]
Holding == [at : {"decide", "call", "imported"}, id : Nat, candidate : Candidate]
Recording == [at : {"record"}, status : {"success", "failed"}, posted : BOOLEAN]
Work == {NoWork} \cup Keeping \cup Running \cup Saving \cup Holding \cup Recording

Import == [report : Nat, hypothesis : Hypothesis, lost : BOOLEAN]
AgentTypeOK ==
    /\ agent \in Agents
    /\ mem \in Objects /\ disk \in Objects
    /\ count \in [incident : Nat, run : Nat, report : Nat, candidate : Nat]
    /\ work \in [Handler -> Work]
    /\ started \in [Kinds -> Nat] /\ stops \in Nat
    /\ library \in Seq(Import)
    /\ comments \in Nat /\ audit \in Seq({"success", "failed"})
    /\ input \in Seq([request : AgentRequests, from : Nat, to : Nat])
    /\ grounds \in [causes : SUBSET Nat, approvals : SUBSET (Nat \X Hypothesis)]

LEMMA TableFacts ==
    ASSUME NEW S, NEW f \in Table(S)
    PROVE  /\ DOMAIN f \in Numbers /\ f = [i \in DOMAIN f |-> f[i]]
           /\ \A i \in DOMAIN f : f[i] \in S /\ i \in Nat
  <1>1. PICK N \in Numbers : f \in [N -> S]
    BY DEF Table
  <1>2. N \subseteq Nat
    BY DEF Numbers
  <1> QED BY <1>1, <1>2

LEMMA WithFacts ==
    ASSUME NEW f, NEW id, NEW x
    PROVE  /\ DOMAIN With(f, id, x) = DOMAIN f \cup {id} /\ With(f, id, x)[id] = x
           /\ \A i \in DOMAIN f : i # id => With(f, id, x)[i] = f[i]
  BY DEF With

LEMMA WithType ==
    ASSUME NEW S, NEW f \in Table(S), NEW id \in Nat, NEW x \in S
    PROVE  With(f, id, x) \in Table(S)
  <1>1. PICK N : N = DOMAIN f \cup {id}
    OBVIOUS
  <1>2. N \in Numbers
    <2>1. DOMAIN f \in Numbers
      BY TableFacts
    <2>2. PICK b \in Nat : \A i \in DOMAIN f : i <= b
      BY <2>1 DEF Numbers
    <2>3. DOMAIN f \subseteq Nat
      BY <2>1 DEF Numbers
    <2>4. CASE id <= b
      BY <1>1, <2>2, <2>3, <2>4 DEF Numbers
    <2>5. CASE ~(id <= b)
      <3>1. \A i \in N : i <= id
        BY <1>1, <2>2, <2>3, <2>5
      <3> QED BY <1>1, <2>3, <3>1 DEF Numbers
    <2> QED BY <2>4, <2>5
  <1>3. With(f, id, x) \in [N -> S]
    BY <1>1, TableFacts DEF With
  <1> QED BY <1>2, <1>3 DEF Table

LEMMA EmptyTable == ASSUME NEW S PROVE << >> \in Table(S)
  <1>1. {} \in Numbers
    <2>1. 0 \in Nat /\ \A i \in {} : i <= 0
      OBVIOUS
    <2> QED BY <2>1 DEF Numbers
  <1>2. << >> \in [{} -> S]
    OBVIOUS
  <1> QED BY <1>1, <1>2 DEF Table

LEMMA ObjectFields ==
    ASSUME NEW o \in Objects
    PROVE  /\ o.incident \in Table(Incident) /\ o.run \in Table(RcaRun)
           /\ o.report \in Table(Report) /\ o.candidate \in Table(Candidate)
           /\ o = [incident |-> o.incident, run |-> o.run, report |-> o.report, candidate |-> o.candidate]
  BY DEF Objects

(* A step writes one row of one kind.                                      *)
LEMMA PutShapes ==
    ASSUME NEW o \in Objects, NEW id, NEW x
    PROVE  /\ Put(o, "incident", id, x) = [incident |-> With(o.incident, id, x), run |-> o.run,
                                           report |-> o.report, candidate |-> o.candidate]
           /\ Put(o, "run", id, x) = [incident |-> o.incident, run |-> With(o.run, id, x),
                                      report |-> o.report, candidate |-> o.candidate]
           /\ Put(o, "report", id, x) = [incident |-> o.incident, run |-> o.run,
                                         report |-> With(o.report, id, x), candidate |-> o.candidate]
           /\ Put(o, "candidate", id, x) = [incident |-> o.incident, run |-> o.run,
                                            report |-> o.report, candidate |-> With(o.candidate, id, x)]
  <1>1. PICK a, b, c, d : o = [incident |-> a, run |-> b, report |-> c, candidate |-> d]
    BY ObjectFields
  <1>2. /\ o["incident"] = a /\ o["run"] = b /\ o["report"] = c /\ o["candidate"] = d
        /\ o.incident = a /\ o.run = b /\ o.report = c /\ o.candidate = d
    BY <1>1
  <1>3. Put(o, "incident", id, x) = [incident |-> With(a, id, x), run |-> b, report |-> c, candidate |-> d]
    BY <1>1, <1>2 DEF Put
  <1>4. Put(o, "run", id, x) = [incident |-> a, run |-> With(b, id, x), report |-> c, candidate |-> d]
    BY <1>1, <1>2 DEF Put
  <1>5. Put(o, "report", id, x) = [incident |-> a, run |-> b, report |-> With(c, id, x), candidate |-> d]
    BY <1>1, <1>2 DEF Put
  <1>6. Put(o, "candidate", id, x) = [incident |-> a, run |-> b, report |-> c, candidate |-> With(d, id, x)]
    BY <1>1, <1>2 DEF Put
  <1> QED BY <1>2, <1>3, <1>4, <1>5, <1>6

LEMMA PutTypes ==
    ASSUME NEW o \in Objects, NEW id \in Nat
    PROVE  /\ \A x \in Incident : Put(o, "incident", id, x) \in Objects
           /\ \A x \in RcaRun : Put(o, "run", id, x) \in Objects
           /\ \A x \in Report : Put(o, "report", id, x) \in Objects
           /\ \A x \in Candidate : Put(o, "candidate", id, x) \in Objects
  <1>0. /\ o.incident \in Table(Incident) /\ o.run \in Table(RcaRun)
        /\ o.report \in Table(Report) /\ o.candidate \in Table(Candidate)
    BY ObjectFields
  <1>1. ASSUME NEW x \in Incident PROVE Put(o, "incident", id, x) \in Objects
    <2>1. With(o.incident, id, x) \in Table(Incident)
      BY <1>0, <1>1, WithType
    <2> QED BY <1>0, <2>1, PutShapes DEF Objects
  <1>2. ASSUME NEW x \in RcaRun PROVE Put(o, "run", id, x) \in Objects
    <2>1. With(o.run, id, x) \in Table(RcaRun)
      BY <1>0, <1>2, WithType
    <2> QED BY <1>0, <2>1, PutShapes DEF Objects
  <1>3. ASSUME NEW x \in Report PROVE Put(o, "report", id, x) \in Objects
    <2>1. With(o.report, id, x) \in Table(Report)
      BY <1>0, <1>3, WithType
    <2> QED BY <1>0, <2>1, PutShapes DEF Objects
  <1>4. ASSUME NEW x \in Candidate PROVE Put(o, "candidate", id, x) \in Objects
    <2>1. With(o.candidate, id, x) \in Table(Candidate)
      BY <1>0, <1>4, WithType
    <2> QED BY <1>0, <2>1, PutShapes DEF Objects
  <1> QED BY <1>1, <1>2, <1>3, <1>4

LEMMA TailFacts ==
    ASSUME NEW S, NEW s \in Seq(S), Len(s) > 1
    PROVE  Tail(s) \in Seq(S) /\ Len(Tail(s)) = Len(s) - 1 /\ Tail(s) # << >>
  <1>1. Len(s) \in Nat
    OBVIOUS
  <1>2. s # << >>
    BY <1>1
  <1>3. Tail(s) \in Seq(S) /\ Len(Tail(s)) = Len(s) - 1
    BY <1>2, HeadTailProperties, Zenon
  <1>4. 1 \in DOMAIN Tail(s)
    BY <1>1, <1>2
  <1>5. DOMAIN << >> = {}
    OBVIOUS
  <1>6. Tail(s) # << >>
    BY <1>4, <1>5, Zenon
  <1> QED BY <1>3, <1>6, Zenon

(* What a handler is at tells what it carries.                             *)
LEMMA WorkFacts ==
    ASSUME NEW j \in Work
    PROVE  /\ j.at = "keep" => j \in Keeping
           /\ j.at \in {"evidence", "keep_run"} => j \in Running
           /\ j.at \in {"save_report", "generate"} => j \in Saving
           /\ j.at \in {"decide", "call", "imported"} => j \in Holding
           /\ j.at = "record" => j \in Recording
           /\ j.at = "free" => j = NoWork
  BY DEF Work, NoWork, Keeping, Running, Saving, Holding, Recording

LEMMA HandlerWork == ASSUME AgentTypeOK, NEW w \in Handler PROVE work[w] \in Work
  BY DEF AgentTypeOK

LEMMA WorkMoves ==
    ASSUME AgentTypeOK, NEW w \in Handler, NEW j \in Work, work' = [work EXCEPT ![w] = j]
    PROVE  /\ work' \in [Handler -> Work] /\ work'[w] = j
           /\ \A v \in Handler \ {w} : work'[v] = work[v]
  BY DEF AgentTypeOK

LEMMA RequestGroups ==
    ASSUME NEW d \in Agents, NEW q \in d.requests
    PROVE  /\ q \in AgentRequests
           /\ Converge(q.alarms, q) \in Seq(Group) \ {<< >>}
  <1>1. q \in AgentRequests
    BY DEF AgentRequests
  <1>2. PICK g : g = Converge(q.alarms, q)
    OBVIOUS
  <1>3. g \in Seq(Range(g)) /\ g # << >>
    BY <1>2, ConvergeAssumption
  <1>4. Range(g) \subseteq Group
    BY <1>1, <1>2 DEF Group
  <1>5. g \in Seq(Group)
    BY <1>3, <1>4
  <1> QED BY <1>1, <1>2, <1>3, <1>5

(* A handler starts.                                                       *)
LEMMA StartFacts ==
    ASSUME AgentTypeOK, NEW w \in Handler, NEW kind \in Kinds, NEW j, Start(w, kind, j)
    PROVE  /\ w \in agent.threads /\ work[w] = NoWork
           /\ work' = [work EXCEPT ![w] = j]
           /\ started' \in [Kinds -> Nat] /\ started'[kind] = started[kind] + 1
           /\ \A k \in Kinds \ {kind} : started'[k] = started[k]
  BY DEF Start, AgentTypeOK

-----------------------------------------------------------------------------
(* The steps, as what they do to a handler's work and to the rows.         *)
LEMMA BuildDoes ==
    ASSUME AgentTypeOK, NEW w \in Handler, Build(w)
    PROVE  \E j \in Keeping :
               /\ work' = [work EXCEPT ![w] = j] /\ work[w] = NoWork /\ w \in agent.threads
               /\ j.next = count.incident + 1 /\ j.first = j.next
               /\ count' = [count EXCEPT !.incident = @ + Len(j.groups)]
               /\ started' \in [Kinds -> Nat] /\ started'["review"] = started["review"]
               /\ UNCHANGED <<agent, mem, disk, stops, library, comments, audit, input, grounds>>
  <1>1. PICK q \in agent.requests :
            /\ Start(w, "build", [at |-> "keep", request |-> q, next |-> count.incident + 1,
                                  first |-> count.incident + 1, groups |-> Converge(q.alarms, q)])
            /\ count' = [count EXCEPT !.incident = @ + Len(work'[w].groups)]
            /\ UNCHANGED <<agent, mem, disk, stops, library, comments, audit, input, grounds>>
    BY DEF Build
  <1>2. PICK g : g = Converge(q.alarms, q)
    OBVIOUS
  <1>3. g \in Seq(Group) \ {<< >>} /\ q \in AgentRequests
    BY <1>2, RequestGroups DEF AgentTypeOK
  <1>4. PICK n \in Nat : n = count.incident + 1
    BY DEF AgentTypeOK
  <1>5. PICK j : j = [at |-> "keep", request |-> q, next |-> n, first |-> n, groups |-> g]
    OBVIOUS
  <1>6. j \in Keeping /\ j.next = n /\ j.first = n /\ j.groups = g
    BY <1>3, <1>5 DEF Keeping
  <1>7. Start(w, "build", j)
    BY <1>1, <1>2, <1>4, <1>5
  <1>8. /\ work[w] = NoWork /\ work' = [work EXCEPT ![w] = j] /\ started' \in [Kinds -> Nat]
        /\ started'["review"] = started["review"] /\ w \in agent.threads
    BY <1>7, StartFacts DEF Kinds
  <1>9. work'[w] = j
    BY <1>8 DEF AgentTypeOK
  <1> QED BY <1>1, <1>4, <1>6, <1>8, <1>9

LEMMA KeepIncidentDoes ==
    ASSUME AgentTypeOK, NEW w \in Handler, KeepIncident(w)
    PROVE  \E j \in Keeping, x \in Incident, next \in Work :
               /\ j = work[w] /\ work' = [work EXCEPT ![w] = next]
               /\ mem' = Put(mem, "incident", j.next, x) /\ disk' = Put(disk, "incident", j.next, x)
               /\ \/ next \in Keeping /\ next.next = j.next + 1 /\ Len(next.groups) = Len(j.groups) - 1
                  \/ next = NoWork
               /\ input' \in Seq([request : AgentRequests, from : Nat, to : Nat])
               /\ UNCHANGED <<agent, count, started, stops, library, comments, audit, grounds>>
  <1>1. PICK j \in Keeping : j = work[w]
    <2>1. work[w] \in Work /\ work[w].at = "keep"
      BY HandlerWork DEF KeepIncident
    <2> QED BY <2>1, WorkFacts
  <1>2. /\ j.groups \in Seq(Group) /\ j.groups # << >> /\ j.next \in Nat /\ j.first \in Nat
        /\ j.request \in AgentRequests
    BY DEF Keeping
  <1>3. PICK x : x = [alarms |-> Head(j.groups), primary |-> PrimaryAlarm(Head(j.groups))]
    OBVIOUS
  <1>4. x \in Incident
    <2>1. Head(j.groups) \in Group
      BY <1>2
    <2> QED BY <1>3, <2>1 DEF Incident
  <1>5. mem' = Put(mem, "incident", j.next, x) /\ disk' = Put(disk, "incident", j.next, x)
    BY <1>1, <1>3 DEF KeepIncident, Save
  <1>6. UNCHANGED <<agent, count, started, stops, library, comments, audit, grounds>>
    BY DEF KeepIncident
  <1>7. CASE Len(j.groups) > 1
    <2>1. PICK next : next = [j EXCEPT !.groups = Tail(@), !.next = @ + 1]
      OBVIOUS
    <2>2. PICK rest \in Seq(Group) : rest = Tail(j.groups) /\ Len(rest) = Len(j.groups) - 1 /\ rest # << >>
      BY <1>2, <1>7, TailFacts
    <2>3. next = [at |-> "keep", request |-> j.request, next |-> j.next + 1, first |-> j.first, groups |-> rest]
      BY <2>1, <2>2 DEF Keeping
    <2>6. next \in Keeping /\ next.next = j.next + 1 /\ next.groups = rest
      BY <1>2, <2>2, <2>3 DEF Keeping
    <2>4. work' = [work EXCEPT ![w] = next] /\ input' = input
      BY <1>1, <1>7, <2>1 DEF KeepIncident, GoesOn
    <2>5. next \in Work
      BY <2>6 DEF Work
    <2> QED BY <1>1, <1>4, <1>5, <1>6, <2>2, <2>4, <2>5, <2>6 DEF AgentTypeOK
  <1>8. CASE ~(Len(j.groups) > 1)
    <2>1. work' = [work EXCEPT ![w] = NoWork]
      BY <1>1, <1>8 DEF KeepIncident, Leaves
    <2>2. input' = Append(input, [request |-> j.request, from |-> j.first, to |-> j.next])
      BY <1>1, <1>8 DEF KeepIncident
    <2>3. input' \in Seq([request : AgentRequests, from : Nat, to : Nat])
      BY <1>2, <2>2 DEF AgentTypeOK
    <2>4. NoWork \in Work
      BY DEF Work
    <2> QED BY <1>1, <1>4, <1>5, <1>6, <2>1, <2>3, <2>4
  <1> QED BY <1>7, <1>8

LEMMA StartRunDoes ==
    ASSUME AgentTypeOK, NEW w \in Handler, StartRun(w)
    PROVE  \E j \in Running :
               /\ j.at = "evidence" /\ work' = [work EXCEPT ![w] = j] /\ work[w] = NoWork /\ w \in agent.threads
               /\ count' = [count EXCEPT !.run = @ + 1, !.report = @ + 1]
               /\ started' \in [Kinds -> Nat] /\ started'["review"] = started["review"]
               /\ UNCHANGED <<agent, mem, disk, stops, library, comments, audit, input, grounds>>
  <1>1. PICK i \in DOMAIN mem.incident, attended \in BOOLEAN :
            Start(w, "run", [at |-> "evidence", incident |-> i, attended |-> attended])
    BY DEF StartRun
  <1>2. /\ count' = [count EXCEPT !.run = @ + 1, !.report = @ + 1]
        /\ UNCHANGED <<agent, mem, disk, stops, library, comments, audit, input, grounds>>
    BY DEF StartRun
  <1>3. i \in Nat
    BY ObjectFields, TableFacts DEF AgentTypeOK
  <1>4. PICK j : j = [at |-> "evidence", incident |-> i, attended |-> attended]
    OBVIOUS
  <1>5. j \in Running /\ j.at = "evidence"
    BY <1>3, <1>4 DEF Running
  <1>6. /\ work[w] = NoWork /\ work' = [work EXCEPT ![w] = j] /\ started' \in [Kinds -> Nat]
        /\ started'["review"] = started["review"] /\ w \in agent.threads
    BY <1>1, <1>4, StartFacts DEF Kinds
  <1> QED BY <1>2, <1>5, <1>6

LEMMA CollectEvidenceDoes ==
    ASSUME AgentTypeOK, NEW w \in Handler, CollectEvidence(w)
    PROVE  \E j \in Running :
               /\ j.at = "keep_run" /\ work' = [work EXCEPT ![w] = j] /\ work[w].at = "evidence"
               /\ count' = [count EXCEPT !.run = @ + 1, !.report = @ + 1]
               /\ UNCHANGED <<agent, mem, disk, started, stops, library, comments, audit, input, grounds>>
  <1>1. PICK i : i = work[w]
    OBVIOUS
  <1>2. i \in Running
    BY <1>1, HandlerWork, WorkFacts DEF CollectEvidence
  <1>3. PICK j : j = [i EXCEPT !.at = "keep_run"]
    OBVIOUS
  <1>4. j \in Running /\ j.at = "keep_run"
    BY <1>2, <1>3 DEF Running
  <1> QED BY <1>1, <1>3, <1>4 DEF CollectEvidence, GoesOn

LEMMA KeepRunDoes ==
    ASSUME AgentTypeOK, NEW w \in Handler, KeepRun(w)
    PROVE  \E n \in Nat, m \in Nat, run \in RcaRun, report \in Report, j \in Saving :
               /\ work[w].at = "keep_run" /\ n = count.run /\ m = count.report
               /\ run.report = m /\ report.run = n /\ run.incident = report.incident
               /\ Told(run.status, report.review)
               /\ j = [at |-> "save_report", id |-> m, report |-> report, todo |-> {}]
               /\ work' = [work EXCEPT ![w] = j]
               /\ mem' = Put(Put(mem, "run", n, run), "report", m, report)
               /\ disk' = Put(disk, "run", n, run)
               /\ UNCHANGED <<agent, count, started, stops, library, comments, audit, input, grounds>>
  <1>1. PICK i : i = work[w]
    OBVIOUS
  <1>2. i \in Running /\ i.at = "keep_run"
    BY <1>1, HandlerWork, WorkFacts DEF KeepRun
  <1>3. PICK n \in Nat, m \in Nat : n = count.run /\ m = count.report
    BY DEF AgentTypeOK
  <1>4. PICK run : run = [incident |-> i.incident, report |-> m,
                          status |-> IF i.attended THEN "waiting_review" ELSE "accepted"]
    OBVIOUS
  <1>5. PICK report : report = [incident |-> i.incident, run |-> n, cause |-> FALSE, extra |-> 0,
                                review |-> IF i.attended THEN "pending" ELSE "accepted"]
    OBVIOUS
  <1>6. PICK j : j = [at |-> "save_report", id |-> m, report |-> report, todo |-> {}]
    OBVIOUS
  <1>7. i.incident \in Nat /\ i.attended \in BOOLEAN
    BY <1>2 DEF Running
  <1>8. run \in RcaRun /\ run.report = m /\ run.incident = i.incident
    BY <1>4, <1>7 DEF RcaRun, Decisions
  <1>9. report \in Report /\ report.run = n /\ report.incident = i.incident
    BY <1>5, <1>7 DEF Report, Decisions
  <1>10. Told(run.status, report.review)
    BY <1>4, <1>5, <1>7 DEF Told
  <1>11. j \in Saving
    BY <1>6, <1>9 DEF Saving
  <1>12. /\ work' = [work EXCEPT ![w] = j]
         /\ mem' = Put(Put(mem, "run", n, run), "report", m, report)
         /\ disk' = Put(disk, "run", n, run)
         /\ UNCHANGED <<agent, count, started, stops, library, comments, audit, input, grounds>>
    BY <1>1, <1>3, <1>4, <1>5, <1>6 DEF KeepRun, GoesOn, Save
  <1> QED BY <1>1, <1>2, <1>3, <1>6, <1>8, <1>9, <1>10, <1>11, <1>12

LEMMA SaveReportDoes ==
    ASSUME AgentTypeOK, NEW w \in Handler, SaveReport(w)
    PROVE  \E j \in Saving, next \in Work :
               /\ j = work[w] /\ j.at = "save_report" /\ disk' = Put(disk, "report", j.id, j.report)
               /\ \/ j.todo = {} /\ next = NoWork
                  \/ /\ j.todo # {} /\ next \in Saving /\ next.at = "generate"
                     /\ next.id = j.id /\ next.todo = j.todo
               /\ work' = [work EXCEPT ![w] = next]
               /\ UNCHANGED <<agent, mem, count, started, stops, library, comments, audit, input, grounds>>
  <1>1. PICK j \in Saving : j = work[w] /\ j.at = "save_report"
    BY HandlerWork, WorkFacts DEF SaveReport
  <1>2. /\ disk' = Put(disk, "report", j.id, j.report)
        /\ UNCHANGED <<agent, mem, count, started, stops, library, comments, audit, input, grounds>>
    BY <1>1 DEF SaveReport, Save
  <1>3. CASE j.todo = {}
    <2>1. work' = [work EXCEPT ![w] = NoWork] /\ NoWork \in Work
      BY <1>1, <1>3 DEF SaveReport, Leaves, Work
    <2> QED BY <1>1, <1>2, <1>3, <2>1
  <1>4. CASE j.todo # {}
    <2>1. PICK next : next = [j EXCEPT !.at = "generate"]
      OBVIOUS
    <2>2. next \in Saving /\ next.at = "generate" /\ next.id = j.id /\ next.todo = j.todo
      BY <2>1 DEF Saving
    <2>3. work' = [work EXCEPT ![w] = next]
      BY <1>1, <1>4, <2>1 DEF SaveReport, GoesOn
    <2> QED BY <1>1, <1>2, <1>4, <2>2, <2>3 DEF Work
  <1> QED BY <1>3, <1>4

(* The rows of a table that a handler reads.                               *)
LEMMA MemRows ==
    ASSUME AgentTypeOK
    PROVE  /\ \A i \in DOMAIN mem.run : mem.run[i] \in RcaRun /\ i \in Nat
           /\ \A i \in DOMAIN mem.report : mem.report[i] \in Report /\ i \in Nat
           /\ \A i \in DOMAIN mem.candidate : mem.candidate[i] \in Candidate /\ i \in Nat
  <1>1. /\ mem.run \in Table(RcaRun) /\ mem.report \in Table(Report) /\ mem.candidate \in Table(Candidate)
    BY ObjectFields DEF AgentTypeOK
  <1> QED BY <1>1, TableFacts

(* A review of report id changes it, and the run it names if that is kept. *)
LEMMA ReviewReportDoes ==
    ASSUME AgentTypeOK, NEW w \in Handler, ReviewReport(w)
    PROVE  \E id \in DOMAIN mem.report, report \in Report, j \in Saving :
               /\ j = [at |-> "save_report", id |-> id, report |-> report, todo |-> j.todo]
               /\ work[w] = NoWork /\ work' = [work EXCEPT ![w] = j] /\ w \in agent.threads
               /\ report.run = mem.report[id].run /\ report.incident = mem.report[id].incident
               /\ started' \in [Kinds -> Nat] /\ started'["review"] = started["review"] + 1
               /\ \/ \E run \in RcaRun :
                         /\ report.run \in DOMAIN mem.run
                         /\ run.incident = mem.run[report.run].incident
                         /\ run.report = mem.run[report.run].report /\ Told(run.status, report.review)
                         /\ mem' = Put(Put(mem, "report", id, report), "run", report.run, run)
                         /\ disk' = Put(disk, "run", report.run, run)
                  \/ /\ report.run \notin DOMAIN mem.run
                     /\ mem' = Put(mem, "report", id, report) /\ disk' = disk
               /\ grounds' = IF j.todo # {} THEN [grounds EXCEPT !.causes = @ \cup {id}] ELSE grounds
               /\ UNCHANGED <<agent, count, stops, library, comments, audit, input>>
  <1>1. PICK id \in DOMAIN mem.report, decision \in Decisions, cause \in BOOLEAN :
            LET report == [mem.report[id] EXCEPT !.review = decision, !.cause = cause]
                known == report.run \in DOMAIN mem.run
                run == [mem.run[report.run] EXCEPT !.status = decision]
                todo == IF report.incident \in DOMAIN mem.incident THEN CandidatesOf(report) ELSE {}
            IN  /\ Start(w, "review", [at |-> "save_report", id |-> id, report |-> report, todo |-> todo])
                /\ IF known
                   THEN /\ mem' = Put(Put(mem, "report", id, report), "run", report.run, run)
                        /\ Save("run", report.run, run)
                   ELSE mem' = Put(mem, "report", id, report) /\ UNCHANGED disk
                /\ grounds' = IF todo # {} THEN [grounds EXCEPT !.causes = @ \cup {id}] ELSE grounds
                /\ UNCHANGED <<agent, count, stops, library, comments, audit, input>>
    BY DEF ReviewReport
  <1>2. PICK old \in Report : old = mem.report[id]
    BY MemRows
  <1>3. PICK report : report = [old EXCEPT !.review = decision, !.cause = cause]
    OBVIOUS
  <1>4. /\ report \in Report /\ report.run = old.run /\ report.incident = old.incident
        /\ report.review = decision /\ report.run \in Nat
    BY <1>3 DEF Report
  <1>5. PICK todo \in SUBSET Hypothesis :
            todo = IF report.incident \in DOMAIN mem.incident THEN CandidatesOf(report) ELSE {}
    BY DEF CandidatesOf
  <1>6. PICK run : run = [mem.run[report.run] EXCEPT !.status = decision]
    OBVIOUS
  <1>7. PICK j : j = [at |-> "save_report", id |-> id, report |-> report, todo |-> todo]
    OBVIOUS
  <1>8. id \in Nat
    BY MemRows
  <1>9. j \in Saving /\ j.todo = todo
    BY <1>4, <1>7, <1>8 DEF Saving
  <1>10. /\ Start(w, "review", j)
         /\ IF report.run \in DOMAIN mem.run
            THEN /\ mem' = Put(Put(mem, "report", id, report), "run", report.run, run)
                 /\ disk' = Put(disk, "run", report.run, run)
            ELSE mem' = Put(mem, "report", id, report) /\ disk' = disk
         /\ grounds' = IF todo # {} THEN [grounds EXCEPT !.causes = @ \cup {id}] ELSE grounds
         /\ UNCHANGED <<agent, count, stops, library, comments, audit, input>>
    BY <1>1, <1>2, <1>3, <1>5, <1>6, <1>7 DEF Save
  <1>11. /\ work[w] = NoWork /\ work' = [work EXCEPT ![w] = j] /\ started' \in [Kinds -> Nat]
         /\ started'["review"] = started["review"] + 1 /\ w \in agent.threads
    BY <1>10, StartFacts DEF Kinds
  <1>12. CASE report.run \in DOMAIN mem.run
    <2>1. PICK before \in RcaRun : before = mem.run[report.run]
      BY <1>12, MemRows
    <2>2. run \in RcaRun /\ run.incident = before.incident /\ run.report = before.report /\ run.status = decision
      BY <1>6, <2>1 DEF RcaRun
    <2>3. decision # "pending"
      BY DEF Decisions
    <2>4. Told(run.status, report.review)
      BY <1>4, <2>2, <2>3 DEF Told
    <2> QED BY <1>2, <1>4, <1>7, <1>9, <1>10, <1>11, <1>12, <2>1, <2>2, <2>4
  <1>13. CASE report.run \notin DOMAIN mem.run
    BY <1>2, <1>4, <1>7, <1>9, <1>10, <1>11, <1>13
  <1> QED BY <1>12, <1>13

LEMMA SaveCandidateDoes ==
    ASSUME NEW id, NEW c, SaveCandidate(id, c)
    PROVE  /\ Sqlite => disk' = Put(disk, "candidate", id, c)
           /\ ~Sqlite => disk' = disk
  BY DEF SaveCandidate

LEMMA GenerateCandidateDoes ==
    ASSUME AgentTypeOK, NEW w \in Handler, GenerateCandidate(w)
    PROVE  \E j \in Saving, h \in Hypothesis, id \in Nat, c \in Candidate, next \in Work :
               /\ j = work[w] /\ j.at = "generate" /\ h \in j.todo /\ id = count.candidate + 1
               /\ c = [report |-> j.id, hypothesis |-> h, review |-> "pending", doc |-> 0]
               /\ count' = [count EXCEPT !.candidate = id]
               /\ mem' = Put(mem, "candidate", id, c) /\ SaveCandidate(id, c)
               /\ work' = [work EXCEPT ![w] = next]
               /\ \/ next = NoWork
                  \/ /\ next \in Saving /\ next.at = "generate" /\ next.id = j.id
                     /\ next.todo = j.todo \ {h}
               /\ UNCHANGED <<agent, started, stops, library, comments, audit, input, grounds>>
  <1>1. PICK j \in Saving : j = work[w] /\ j.at = "generate"
    BY HandlerWork, WorkFacts DEF GenerateCandidate
  <1>2. j.todo \subseteq Hypothesis /\ j.id \in Nat
    BY DEF Saving
  <1>3. PICK h \in j.todo :
            LET id == count.candidate + 1
                candidate == [report |-> j.id, hypothesis |-> h, review |-> "pending", doc |-> 0]
            IN  /\ count' = [count EXCEPT !.candidate = id]
                /\ mem' = Put(mem, "candidate", id, candidate)
                /\ SaveCandidate(id, candidate)
                /\ IF j.todo = {h} THEN Leaves(w) ELSE GoesOn(w, [j EXCEPT !.todo = @ \ {h}])
                /\ UNCHANGED <<agent, started, stops, library, comments, audit, input, grounds>>
    BY <1>1 DEF GenerateCandidate
  <1>4. PICK id \in Nat : id = count.candidate + 1
    BY DEF AgentTypeOK
  <1>5. PICK c : c = [report |-> j.id, hypothesis |-> h, review |-> "pending", doc |-> 0]
    OBVIOUS
  <1>6. c \in Candidate
    BY <1>2, <1>5 DEF Candidate
  <1>7. /\ count' = [count EXCEPT !.candidate = id]
        /\ mem' = Put(mem, "candidate", id, c) /\ SaveCandidate(id, c)
        /\ UNCHANGED <<agent, started, stops, library, comments, audit, input, grounds>>
    BY <1>3, <1>4, <1>5
  <1>8. CASE j.todo = {h}
    <2>1. work' = [work EXCEPT ![w] = NoWork] /\ NoWork \in Work
      BY <1>3, <1>8 DEF Leaves, Work
    <2> QED BY <1>1, <1>2, <1>4, <1>5, <1>6, <1>7, <2>1
  <1>9. CASE j.todo # {h}
    <2>1. PICK next : next = [j EXCEPT !.todo = @ \ {h}]
      OBVIOUS
    <2>2. next \in Saving /\ next.at = "generate" /\ next.id = j.id /\ next.todo = j.todo \ {h}
      BY <1>1, <2>1 DEF Saving
    <2>3. work' = [work EXCEPT ![w] = next] /\ next \in Work
      BY <1>3, <1>9, <2>1, <2>2 DEF GoesOn, Work
    <2> QED BY <1>1, <1>2, <1>4, <1>5, <1>6, <1>7, <2>2, <2>3
  <1> QED BY <1>8, <1>9

LEMMA ResumeDoes ==
    ASSUME AgentTypeOK, NEW w \in Handler, ResumeWithMoreEvidence(w)
    PROVE  \E id \in DOMAIN mem.run, run \in RcaRun, report \in Report, j \in Saving :
               /\ j = [at |-> "save_report", id |-> run.report, report |-> report, todo |-> {}]
               /\ work[w] = NoWork /\ work' = [work EXCEPT ![w] = j] /\ w \in agent.threads
               /\ run.report = mem.run[id].report /\ run.incident = mem.run[id].incident
               /\ run.report \in DOMAIN mem.report
               /\ report.run = mem.report[run.report].run
               /\ report.incident = mem.report[run.report].incident
               /\ Told(run.status, report.review)
               /\ started' \in [Kinds -> Nat] /\ started'["review"] = started["review"]
               /\ mem' = Put(Put(mem, "run", id, run), "report", run.report, report)
               /\ disk' = Put(disk, "run", id, run)
               /\ UNCHANGED <<agent, count, stops, library, comments, audit, input, grounds>>
  <1>1. PICK id \in DOMAIN mem.run :
            LET run == [mem.run[id] EXCEPT !.status = "waiting_review"]
                report == [mem.report[run.report] EXCEPT !.review = "pending", !.cause = FALSE, !.extra = @ + 1]
            IN  /\ run.report \in DOMAIN mem.report
                /\ Start(w, "resume", [at |-> "save_report", id |-> run.report, report |-> report, todo |-> {}])
                /\ mem' = Put(Put(mem, "run", id, run), "report", run.report, report)
                /\ Save("run", id, run)
                /\ UNCHANGED <<agent, count, stops, library, comments, audit, input, grounds>>
    BY DEF ResumeWithMoreEvidence
  <1>2. PICK before \in RcaRun : before = mem.run[id]
    BY MemRows
  <1>3. PICK run : run = [before EXCEPT !.status = "waiting_review"]
    OBVIOUS
  <1>4. /\ run \in RcaRun /\ run.report = before.report /\ run.incident = before.incident
        /\ run.status = "waiting_review" /\ run.report \in Nat
    BY <1>3 DEF RcaRun
  <1>5. run.report \in DOMAIN mem.report
    BY <1>1, <1>2, <1>3
  <1>6. PICK old \in Report : old = mem.report[run.report]
    BY <1>5, MemRows
  <1>7. PICK report : report = [old EXCEPT !.review = "pending", !.cause = FALSE, !.extra = @ + 1]
    OBVIOUS
  <1>8. report \in Report /\ report.run = old.run /\ report.incident = old.incident /\ report.review = "pending"
    <2>1. old.extra + 1 \in Nat /\ old.incident \in Nat /\ old.run \in Nat
      BY DEF Report
    <2>2. report = [incident |-> old.incident, run |-> old.run, cause |-> FALSE, extra |-> old.extra + 1,
                    review |-> "pending"]
      BY <1>7 DEF Report
    <2> QED BY <2>1, <2>2 DEF Report
  <1>9. PICK j : j = [at |-> "save_report", id |-> run.report, report |-> report, todo |-> {}]
    OBVIOUS
  <1>10. j \in Saving
    BY <1>4, <1>8, <1>9 DEF Saving
  <1>11. /\ Start(w, "resume", j)
         /\ mem' = Put(Put(mem, "run", id, run), "report", run.report, report)
         /\ disk' = Put(disk, "run", id, run)
         /\ UNCHANGED <<agent, count, stops, library, comments, audit, input, grounds>>
    BY <1>1, <1>2, <1>3, <1>6, <1>7, <1>9 DEF Save
  <1>12. /\ work[w] = NoWork /\ work' = [work EXCEPT ![w] = j] /\ started' \in [Kinds -> Nat]
         /\ started'["review"] = started["review"] /\ w \in agent.threads
    BY <1>11, StartFacts DEF Kinds
  <1>13. Told(run.status, report.review)
    BY <1>4, <1>8 DEF Told
  <1> QED BY <1>2, <1>4, <1>5, <1>6, <1>8, <1>9, <1>10, <1>11, <1>12, <1>13

LEMMA DecideCandidateDoes ==
    ASSUME AgentTypeOK, NEW w \in Handler, DecideCandidate(w)
    PROVE  \E id \in DOMAIN mem.candidate, c \in Candidate, j \in Holding :
               /\ j = [at |-> "decide", id |-> id, candidate |-> c]
               /\ work[w] = NoWork /\ work' = [work EXCEPT ![w] = j] /\ w \in agent.threads
               /\ mem.candidate[id].review = "pending"
               /\ c.report = mem.candidate[id].report /\ c.hypothesis = mem.candidate[id].hypothesis
               /\ c.doc = mem.candidate[id].doc
               /\ started' \in [Kinds -> Nat] /\ started'["review"] = started["review"]
               /\ UNCHANGED <<agent, mem, count, disk, stops, library, comments, audit, input, grounds>>
  <1>1. PICK id \in DOMAIN mem.candidate, decision \in {"approved", "rejected"} :
            /\ mem.candidate[id].review = "pending"
            /\ Start(w, "decide", [at |-> "decide", id |-> id,
                                   candidate |-> [mem.candidate[id] EXCEPT !.review = decision]])
            /\ UNCHANGED <<agent, mem, count, disk, stops, library, comments, audit, input, grounds>>
    BY DEF DecideCandidate
  <1>2. PICK old \in Candidate : old = mem.candidate[id] /\ id \in Nat
    BY MemRows
  <1>3. PICK c : c = [old EXCEPT !.review = decision]
    OBVIOUS
  <1>4. c \in Candidate /\ c.report = old.report /\ c.hypothesis = old.hypothesis /\ c.doc = old.doc
    BY <1>3 DEF Candidate
  <1>5. PICK j : j = [at |-> "decide", id |-> id, candidate |-> c]
    OBVIOUS
  <1>6. j \in Holding
    BY <1>2, <1>4, <1>5 DEF Holding
  <1>7. Start(w, "decide", j)
    BY <1>1, <1>2, <1>3, <1>5
  <1>8. /\ work[w] = NoWork /\ work' = [work EXCEPT ![w] = j] /\ started' \in [Kinds -> Nat]
        /\ started'["review"] = started["review"] /\ w \in agent.threads
    BY <1>7, StartFacts DEF Kinds
  <1> QED BY <1>1, <1>2, <1>4, <1>5, <1>6, <1>8

LEMMA KeepDecisionDoes ==
    ASSUME AgentTypeOK, NEW w \in Handler, KeepDecision(w)
    PROVE  \E j \in Holding :
               /\ j = work[w] /\ j.at = "decide" /\ work' = [work EXCEPT ![w] = NoWork]
               /\ mem' = Put(mem, "candidate", j.id, j.candidate) /\ SaveCandidate(j.id, j.candidate)
               /\ grounds' = IF j.candidate.review = "approved"
                             THEN [grounds EXCEPT !.approvals = @ \cup {<<j.candidate.report, j.candidate.hypothesis>>}]
                             ELSE grounds
               /\ UNCHANGED <<agent, count, started, stops, library, comments, audit, input>>
  <1>1. PICK j \in Holding : j = work[w] /\ j.at = "decide"
    BY HandlerWork, WorkFacts DEF KeepDecision
  <1> QED BY <1>1 DEF KeepDecision, Leaves

LEMMA ImportCandidateDoes ==
    ASSUME AgentTypeOK, NEW w \in Handler, ImportCandidate(w)
    PROVE  \E id \in DOMAIN mem.candidate, j \in Holding :
               /\ j = [at |-> "call", id |-> id, candidate |-> mem.candidate[id]]
               /\ work[w] = NoWork /\ work' = [work EXCEPT ![w] = j] /\ w \in agent.threads
               /\ Importable(mem.candidate[id])
               /\ started' \in [Kinds -> Nat] /\ started'["review"] = started["review"]
               /\ UNCHANGED <<agent, mem, count, disk, stops, library, comments, audit, input, grounds>>
  <1>1. PICK id \in DOMAIN mem.candidate :
            /\ Importable(mem.candidate[id])
            /\ Start(w, "import", [at |-> "call", id |-> id, candidate |-> mem.candidate[id]])
            /\ UNCHANGED <<agent, mem, count, disk, stops, library, comments, audit, input, grounds>>
    BY DEF ImportCandidate
  <1>2. PICK old \in Candidate : old = mem.candidate[id] /\ id \in Nat
    BY MemRows
  <1>3. PICK j : j = [at |-> "call", id |-> id, candidate |-> old]
    OBVIOUS
  <1>4. j \in Holding
    BY <1>2, <1>3 DEF Holding
  <1>5. Start(w, "import", j)
    BY <1>1, <1>2, <1>3
  <1>6. /\ work[w] = NoWork /\ work' = [work EXCEPT ![w] = j] /\ started' \in [Kinds -> Nat]
        /\ started'["review"] = started["review"] /\ w \in agent.threads
    BY <1>5, StartFacts DEF Kinds
  <1> QED BY <1>1, <1>2, <1>3, <1>4, <1>6

LEMMA CallKnowledgeApiDoes ==
    ASSUME AgentTypeOK, NEW w \in Handler, CallKnowledgeApi(w)
    PROVE  \E j \in Holding, next \in Work, d \in Import :
               /\ j = work[w] /\ j.at = "call" /\ work' = [work EXCEPT ![w] = next]
               /\ d.report = j.candidate.report /\ d.hypothesis = j.candidate.hypothesis
               /\ \/ /\ library' = Append(library, d) /\ ~d.lost /\ next \in Holding /\ next.at = "imported"
                     /\ next.id = j.id /\ next.candidate.report = j.candidate.report
                     /\ next.candidate.hypothesis = j.candidate.hypothesis
                     /\ next.candidate.review = j.candidate.review
                     /\ next.candidate.doc = Len(library) + 1
                  \/ library' = Append(library, d) /\ d.lost /\ next = NoWork
                  \/ library' = library /\ next = NoWork
               /\ UNCHANGED <<agent, mem, count, disk, started, stops, comments, audit, input, grounds>>
  <1>1. PICK j \in Holding : j = work[w] /\ j.at = "call"
    BY HandlerWork, WorkFacts DEF CallKnowledgeApi
  <1>2. j.candidate \in Candidate /\ j.id \in Nat
    BY DEF Holding
  <1>3. PICK d : d = [report |-> j.candidate.report, hypothesis |-> j.candidate.hypothesis, lost |-> FALSE]
    OBVIOUS
  <1>4. PICK e : e = [report |-> j.candidate.report, hypothesis |-> j.candidate.hypothesis, lost |-> TRUE]
    OBVIOUS
  <1>5. /\ d \in Import /\ d.report = j.candidate.report /\ d.hypothesis = j.candidate.hypothesis /\ ~d.lost
        /\ e \in Import /\ e.report = j.candidate.report /\ e.hypothesis = j.candidate.hypothesis /\ e.lost
    BY <1>2, <1>3, <1>4 DEF Import, Candidate
  <1>6. UNCHANGED <<agent, mem, count, disk, started, stops, comments, audit, input, grounds>>
    BY DEF CallKnowledgeApi
  <1>7. PICK n \in Nat : n = Len(library) + 1
    BY DEF AgentTypeOK
  <1>8. \/ library' = Append(library, d) /\ GoesOn(w, [at |-> "imported", id |-> j.id,
                                            candidate |-> [j.candidate EXCEPT !.doc = Len(library) + 1]])
        \/ library' = Append(library, e) /\ Leaves(w)
        \/ library' = library /\ Leaves(w)
    BY <1>1, <1>3, <1>4 DEF CallKnowledgeApi
  <1>12. CASE library' = Append(library, d) /\ GoesOn(w, [at |-> "imported", id |-> j.id,
                                                candidate |-> [j.candidate EXCEPT !.doc = Len(library) + 1]])
    <2>1. PICK c : c = [j.candidate EXCEPT !.doc = n]
      OBVIOUS
    <2>2. /\ c \in Candidate /\ c.report = j.candidate.report /\ c.hypothesis = j.candidate.hypothesis
          /\ c.review = j.candidate.review /\ c.doc = n
      BY <1>2, <2>1 DEF Candidate
    <2>3. PICK next : next = [at |-> "imported", id |-> j.id, candidate |-> c]
      OBVIOUS
    <2>4. next \in Holding /\ next.at = "imported" /\ next.id = j.id /\ next.candidate = c
      BY <1>2, <2>2, <2>3 DEF Holding
    <2>5. work' = [work EXCEPT ![w] = next] /\ next \in Work
      BY <1>7, <1>12, <2>1, <2>3, <2>4 DEF GoesOn, Work
    <2> QED BY <1>1, <1>5, <1>6, <1>7, <1>12, <2>2, <2>4, <2>5
  <1>13. CASE library' = Append(library, e) /\ Leaves(w)
    <2>1. work' = [work EXCEPT ![w] = NoWork] /\ NoWork \in Work
      BY <1>13 DEF Leaves, Work
    <2> QED BY <1>1, <1>5, <1>6, <1>13, <2>1
  <1>14. CASE library' = library /\ Leaves(w)
    <2>1. work' = [work EXCEPT ![w] = NoWork] /\ NoWork \in Work
      BY <1>14 DEF Leaves, Work
    <2> QED BY <1>1, <1>5, <1>6, <1>14, <2>1
  <1> QED BY <1>8, <1>12, <1>13, <1>14

LEMMA KeepImportDoes ==
    ASSUME AgentTypeOK, NEW w \in Handler, KeepImport(w)
    PROVE  \E j \in Holding :
               /\ j = work[w] /\ j.at = "imported" /\ work' = [work EXCEPT ![w] = NoWork]
               /\ mem' = Put(mem, "candidate", j.id, j.candidate) /\ SaveCandidate(j.id, j.candidate)
               /\ UNCHANGED <<agent, count, started, stops, library, comments, audit, input, grounds>>
  <1>1. PICK j \in Holding : j = work[w] /\ j.at = "imported"
    BY HandlerWork, WorkFacts DEF KeepImport
  <1> QED BY <1>1 DEF KeepImport, Leaves

LEMMA PostSummaryDoes ==
    ASSUME AgentTypeOK, NEW w \in Handler, PostSummary(w)
    PROVE  \E j \in Recording :
               /\ work[w] = NoWork /\ work' = [work EXCEPT ![w] = j] /\ w \in agent.threads
               /\ comments' \in Nat
               /\ started' \in [Kinds -> Nat] /\ started'["review"] = started["review"]
               /\ UNCHANGED <<agent, mem, count, disk, stops, library, audit, input, grounds>>
  <1>1. PICK outcome \in PostOutcomes :
            /\ Start(w, "post", [at |-> "record", status |-> IF outcome = "success" THEN "success" ELSE "failed",
                                 posted |-> outcome # "failed"])
            /\ comments' = IF outcome # "failed" THEN comments + 1 ELSE comments
            /\ UNCHANGED <<agent, mem, count, disk, stops, library, audit, input, grounds>>
    BY DEF PostSummary
  <1>2. PICK j : j = [at |-> "record", status |-> IF outcome = "success" THEN "success" ELSE "failed",
                      posted |-> outcome # "failed"]
    OBVIOUS
  <1>3. j \in Recording
    BY <1>2 DEF Recording
  <1>4. /\ work[w] = NoWork /\ work' = [work EXCEPT ![w] = j] /\ started' \in [Kinds -> Nat]
        /\ started'["review"] = started["review"] /\ w \in agent.threads
    BY <1>1, <1>2, StartFacts DEF Kinds
  <1>5. comments' \in Nat
    BY <1>1 DEF AgentTypeOK
  <1> QED BY <1>1, <1>3, <1>4, <1>5

LEMMA RecordWritebackDoes ==
    ASSUME AgentTypeOK, NEW w \in Handler, RecordWriteback(w)
    PROVE  /\ work[w].at = "record" /\ work' = [work EXCEPT ![w] = NoWork]
           /\ audit' \in Seq({"success", "failed"})
           /\ UNCHANGED <<agent, mem, count, disk, started, stops, library, comments, input, grounds>>
  <1>1. PICK j \in Recording : j = work[w] /\ j.at = "record"
    BY HandlerWork, WorkFacts DEF RecordWriteback
  <1>2. j.status \in {"success", "failed"}
    BY DEF Recording
  <1>3. audit' \in Seq({"success", "failed"})
    BY <1>1, <1>2 DEF RecordWriteback, AgentTypeOK
  <1> QED BY <1>1, <1>3 DEF RecordWriteback, Leaves

-----------------------------------------------------------------------------
(* The process is started anew.                                            *)
Below(t, n) == \A i \in DOMAIN t : i <= n

LEMMA GreatestElement ==
    ASSUME NEW N \in Numbers, N # {}
    PROVE  \E x \in N : \A y \in N : y <= x
  <1>1. N \subseteq Nat
    BY DEF Numbers
  <1>2. PICK B : B = {b \in Nat : \A i \in N : i <= b}
    OBVIOUS
  <1>3. B \subseteq Nat /\ B # {}
    BY <1>2 DEF Numbers
  <1>4. PICK x \in B : \A y \in B : ~(<<y, x>> \in OpToRel(<, Nat))
    BY <1>3, NatLessThanWellFounded, WFMin, Zenon
  <1>5. \A y \in B : ~(<<y, x>> \in {ss \in Nat \X Nat : ss[1] < ss[2]})
    BY <1>4, Zenon DEF OpToRel
  <1>6. ASSUME NEW y \in B, y < x PROVE <<y, x>> \in {ss \in Nat \X Nat : ss[1] < ss[2]}
    BY <1>3, <1>6
  <1>7. \A y \in B : ~(y < x)
    BY <1>5, <1>6, Zenon
  <1>8. x \in Nat /\ \A i \in N : i <= x
    BY <1>2
  <1>9. x \in N
    <2>1. SUFFICES ASSUME x \notin N PROVE FALSE
      OBVIOUS
    <2>2. \A i \in N : i < x
      BY <1>1, <1>8, <2>1
    <2>3. PICK z : z \in N
      OBVIOUS
    <2>4. x - 1 \in Nat /\ \A i \in N : i <= x - 1
      BY <1>1, <1>8, <2>2, <2>3
    <2>5. x - 1 \in B
      BY <1>2, <2>4
    <2> QED BY <1>7, <1>8, <2>5
  <1> QED BY <1>8, <1>9

LEMMA LargestFacts ==
    ASSUME NEW S, NEW f \in Table(S)
    PROVE  Largest(f) \in Nat /\ Below(f, Largest(f))
  <1>1. DOMAIN f \in Numbers /\ \A i \in DOMAIN f : i \in Nat
    BY TableFacts
  <1>2. CASE f = << >>
    <2>1. DOMAIN f = {}
      BY <1>2
    <2> QED BY <1>2, <2>1 DEF Largest, Below
  <1>3. CASE f # << >>
    <2>1. DOMAIN f # {}
      <3>1. SUFFICES ASSUME DOMAIN f = {} PROVE FALSE
        OBVIOUS
      <3>2. f = [i \in DOMAIN f |-> f[i]]
        BY TableFacts
      <3>3. f = [i \in {} |-> f[i]]
        BY <3>1, <3>2
      <3>4. [i \in {} |-> f[i]] = << >>
        OBVIOUS
      <3> QED BY <1>3, <3>3, <3>4
    <2>2. \E x \in DOMAIN f : \A y \in DOMAIN f : x >= y
      <3>1. PICK x \in DOMAIN f : \A y \in DOMAIN f : y <= x
        BY <1>1, <2>1, GreatestElement
      <3> QED BY <1>1, <3>1
    <2>3. PICK x : x = Max(DOMAIN f)
      OBVIOUS
    <2>4. x \in DOMAIN f /\ \A y \in DOMAIN f : x >= y
      BY <2>2, <2>3 DEF Max
    <2>5. Largest(f) = x
      BY <1>3, <2>3 DEF Largest
    <2> QED BY <1>1, <2>4, <2>5 DEF Below
  <1> QED BY <1>2, <1>3

LEMMA EmptyObjects == Empty \in Objects
  BY EmptyTable DEF Empty, Objects

LEMMA RestartDoes ==
    ASSUME AgentTypeOK, RestartAgent
    PROVE  /\ mem' \in Objects /\ (Sqlite => mem' = disk) /\ (~Sqlite => mem' = Empty)
           /\ count' \in [incident : Nat, run : Nat, report : Nat, candidate : Nat]
           /\ Sqlite => /\ Below(disk.incident, count'.incident) /\ Below(disk.run, count'.run)
                        /\ Below(disk.report, count'.report) /\ Below(disk.candidate, count'.candidate)
           /\ work' = [w \in Handler |-> NoWork]
           /\ stops' \in Nat /\ stops' > 0
           /\ comments' = 0 /\ audit' = << >> /\ input' = << >>
           /\ UNCHANGED <<agent, disk, started, library, grounds>>
  <1>1. /\ mem' \in Objects /\ (Sqlite => mem' = disk) /\ (~Sqlite => mem' = Empty)
    BY EmptyObjects DEF RestartAgent, Reloaded, AgentTypeOK
  <1>2. /\ work' = [w \in Handler |-> NoWork] /\ comments' = 0 /\ audit' = << >> /\ input' = << >>
        /\ UNCHANGED <<agent, disk, started, library, grounds>>
    BY DEF RestartAgent
  <1>3. stops' \in Nat /\ stops' > 0
    BY DEF RestartAgent, AgentTypeOK
  <1>4. CASE Sqlite
    <2>1. PICK a, b, c, d : a = disk.incident /\ b = disk.run /\ c = disk.report /\ d = disk.candidate
      OBVIOUS
    <2>2. a \in Table(Incident) /\ b \in Table(RcaRun) /\ c \in Table(Report) /\ d \in Table(Candidate)
      BY <2>1, ObjectFields DEF AgentTypeOK
    <2>3. /\ Largest(a) \in Nat /\ Below(a, Largest(a)) /\ Largest(b) \in Nat /\ Below(b, Largest(b))
          /\ Largest(c) \in Nat /\ Below(c, Largest(c)) /\ Largest(d) \in Nat /\ Below(d, Largest(d))
      BY <2>2, LargestFacts
    <2>4. DOMAIN count = {"incident", "run", "report", "candidate"}
      BY DEF AgentTypeOK
    <2>5. count' = [k \in {"incident", "run", "report", "candidate"} |-> Largest(disk[k])]
      BY <1>4, <2>4 DEF RestartAgent, SyncCounters
    <2>6. /\ disk["incident"] = a /\ disk["run"] = b /\ disk["report"] = c /\ disk["candidate"] = d
      BY <2>1
    <2>7. count' = [incident |-> Largest(a), run |-> Largest(b), report |-> Largest(c), candidate |-> Largest(d)]
      BY <2>5, <2>6
    <2>8. /\ count'.incident = Largest(a) /\ count'.run = Largest(b) /\ count'.report = Largest(c)
          /\ count'.candidate = Largest(d)
      BY <2>7
    <2>9. count' \in [incident : Nat, run : Nat, report : Nat, candidate : Nat]
      BY <2>3, <2>7
    <2> QED BY <1>1, <1>2, <1>3, <2>1, <2>3, <2>8, <2>9
  <1>5. CASE ~Sqlite
    <2>1. count' \in [incident : Nat, run : Nat, report : Nat, candidate : Nat]
      BY <1>5 DEF RestartAgent, Zero
    <2> QED BY <1>1, <1>2, <1>3, <1>5, <2>1
  <1> QED BY <1>4, <1>5

-----------------------------------------------------------------------------
(* The types are kept.                                                     *)
LEMMA AgentInitTypes == AgentInit => AgentTypeOK
  <1>1. SUFFICES ASSUME AgentInit PROVE AgentTypeOK
    OBVIOUS
  <1>2. mem \in Objects /\ disk \in Objects
    BY <1>1, EmptyObjects DEF AgentInit
  <1>3. /\ agent \in Agents /\ count \in [incident : Nat, run : Nat, report : Nat, candidate : Nat]
        /\ started \in [Kinds -> Nat] /\ stops \in Nat /\ comments \in Nat
    BY <1>1 DEF AgentInit, Zero
  <1>4. work \in [Handler -> Work]
    BY <1>1 DEF AgentInit, Work
  <1>5. library \in Seq(Import) /\ audit \in Seq({"success", "failed"})
        /\ input \in Seq([request : AgentRequests, from : Nat, to : Nat])
    BY <1>1 DEF AgentInit
  <1>6. grounds \in [causes : SUBSET Nat, approvals : SUBSET (Nat \X Hypothesis)]
    BY <1>1 DEF AgentInit
  <1> QED BY <1>2, <1>3, <1>4, <1>5, <1>6 DEF AgentTypeOK

LEMMA CandidateKeptTypes ==
    ASSUME AgentTypeOK, NEW id \in Nat, NEW c \in Candidate, SaveCandidate(id, c)
    PROVE  Put(mem, "candidate", id, c) \in Objects /\ disk' \in Objects
  BY SMTT(30), PutTypes, SaveCandidateDoes DEF AgentTypeOK

(* The counters grow, and the grounds of the experts.                      *)
LEMMA CountTypes ==
    ASSUME AgentTypeOK, NEW n \in Nat
    PROVE  /\ [count EXCEPT !.incident = @ + n] =
                 [incident |-> count.incident + n, run |-> count.run, report |-> count.report, candidate |-> count.candidate]
           /\ [count EXCEPT !.run = @ + 1, !.report = @ + 1] =
                 [incident |-> count.incident, run |-> count.run + 1, report |-> count.report + 1, candidate |-> count.candidate]
           /\ [count EXCEPT !.candidate = n] =
                 [incident |-> count.incident, run |-> count.run, report |-> count.report, candidate |-> n]
           /\ [count EXCEPT !.incident = @ + n] \in [incident : Nat, run : Nat, report : Nat, candidate : Nat]
           /\ [count EXCEPT !.run = @ + 1, !.report = @ + 1] \in [incident : Nat, run : Nat, report : Nat, candidate : Nat]
           /\ [count EXCEPT !.candidate = n] \in [incident : Nat, run : Nat, report : Nat, candidate : Nat]
  <1>1. PICK a, b, c, d \in Nat : count = [incident |-> a, run |-> b, report |-> c, candidate |-> d]
    BY DEF AgentTypeOK
  <1>5. count.incident = a /\ count.run = b /\ count.report = c /\ count.candidate = d
    BY <1>1
  <1>2. /\ [count EXCEPT !.incident = @ + n] = [incident |-> a + n, run |-> b, report |-> c, candidate |-> d]
        /\ [count EXCEPT !.candidate = n] = [incident |-> a, run |-> b, report |-> c, candidate |-> n]
    BY <1>1, <1>5
  <1>3. [count EXCEPT !.run = @ + 1, !.report = @ + 1] =
            [incident |-> a, run |-> b + 1, report |-> c + 1, candidate |-> d]
    <2>1. PICK f : f = [count EXCEPT !.run = @ + 1]
      OBVIOUS
    <2>2. f = [incident |-> a, run |-> b + 1, report |-> c, candidate |-> d]
      BY <1>1, <1>5, <2>1
    <2>3. [count EXCEPT !.run = @ + 1, !.report = @ + 1] = [f EXCEPT !.report = @ + 1]
      BY <2>1
    <2> QED BY <2>2, <2>3
  <1>4. a + n \in Nat /\ b + 1 \in Nat /\ c + 1 \in Nat
    OBVIOUS
  <1> QED BY <1>2, <1>3, <1>4, <1>5

LEMMA GroundTypes ==
    ASSUME AgentTypeOK, NEW n \in Nat, NEW h \in Hypothesis
    PROVE  /\ [grounds EXCEPT !.causes = @ \cup {n}] =
                  [causes |-> grounds.causes \cup {n}, approvals |-> grounds.approvals]
           /\ [grounds EXCEPT !.approvals = @ \cup {<<n, h>>}] =
                  [causes |-> grounds.causes, approvals |-> grounds.approvals \cup {<<n, h>>}]
           /\ [grounds EXCEPT !.causes = @ \cup {n}] \in [causes : SUBSET Nat, approvals : SUBSET (Nat \X Hypothesis)]
           /\ [grounds EXCEPT !.approvals = @ \cup {<<n, h>>}]
                  \in [causes : SUBSET Nat, approvals : SUBSET (Nat \X Hypothesis)]
  <1>1. PICK a \in SUBSET Nat, b \in SUBSET (Nat \X Hypothesis) : grounds = [causes |-> a, approvals |-> b]
    BY DEF AgentTypeOK
  <1>4. grounds.causes = a /\ grounds.approvals = b
    BY <1>1
  <1>2. /\ [grounds EXCEPT !.causes = @ \cup {n}] = [causes |-> a \cup {n}, approvals |-> b]
        /\ [grounds EXCEPT !.approvals = @ \cup {<<n, h>>}] = [causes |-> a, approvals |-> b \cup {<<n, h>>}]
    <2>1. PICK c, d : c = a \cup {n} /\ d = b \cup {<<n, h>>}
      OBVIOUS
    <2>2. [grounds EXCEPT !.causes = c] = [causes |-> c, approvals |-> b]
      BY <1>1
    <2>3. [grounds EXCEPT !.approvals = d] = [causes |-> a, approvals |-> d]
      BY <1>1
    <2>4. [grounds EXCEPT !.causes = @ \cup {n}] = [grounds EXCEPT !.causes = c]
      BY <1>1, <1>4, <2>1
    <2>5. [grounds EXCEPT !.approvals = @ \cup {<<n, h>>}] = [grounds EXCEPT !.approvals = d]
      BY <1>1, <1>4, <2>1
    <2> QED BY <2>1, <2>2, <2>3, <2>4, <2>5
  <1>3. a \cup {n} \in SUBSET Nat /\ b \cup {<<n, h>>} \in SUBSET (Nat \X Hypothesis)
    OBVIOUS
  <1> QED BY <1>2, <1>3, <1>4

LEMMA KeptTypes ==
    ASSUME AgentTypeOK, mem' \in Objects, disk' \in Objects, work' \in [Handler -> Work],
           started' \in [Kinds -> Nat],
           UNCHANGED <<agent, count, stops, library, comments, audit, input, grounds>>
    PROVE  AgentTypeOK'
  BY DEF AgentTypeOK

LEMMA StartTypes ==
    ASSUME AgentTypeOK, NEW w \in Handler, NEW j \in Work, work' = [work EXCEPT ![w] = j]
    PROVE  work' \in [Handler -> Work]
  BY WorkMoves

LEMMA IncidentTypes ==
    ASSUME AgentTypeOK, NEW w \in Handler
    PROVE  /\ Build(w) => AgentTypeOK'
           /\ KeepIncident(w) => AgentTypeOK'
           /\ StartRun(w) => AgentTypeOK'
           /\ CollectEvidence(w) => AgentTypeOK'
           /\ KeepRun(w) => AgentTypeOK'
           /\ SaveReport(w) => AgentTypeOK'
  <1>1. ASSUME Build(w) PROVE AgentTypeOK'
    <2>1. PICK j \in Keeping :
               /\ work' = [work EXCEPT ![w] = j]
               /\ count' = [count EXCEPT !.incident = @ + Len(j.groups)]
               /\ started' \in [Kinds -> Nat]
               /\ UNCHANGED <<agent, mem, disk, stops, library, comments, audit, input, grounds>>
      BY <1>1, BuildDoes
    <2>2. work' \in [Handler -> Work]
      BY <2>1, WorkMoves DEF Work
    <2>3. PICK n \in Nat : n = Len(j.groups)
      BY DEF Keeping
    <2>4. count' \in [incident : Nat, run : Nat, report : Nat, candidate : Nat]
      BY <2>1, <2>3, CountTypes
    <2> QED BY <2>1, <2>2, <2>4 DEF AgentTypeOK
  <1>2. ASSUME KeepIncident(w) PROVE AgentTypeOK'
    <2>1. PICK j \in Keeping, x \in Incident, next \in Work :
               /\ work' = [work EXCEPT ![w] = next]
               /\ mem' = Put(mem, "incident", j.next, x) /\ disk' = Put(disk, "incident", j.next, x)
               /\ input' \in Seq([request : AgentRequests, from : Nat, to : Nat])
               /\ UNCHANGED <<agent, count, started, stops, library, comments, audit, grounds>>
      BY <1>2, KeepIncidentDoes
    <2>2. work' \in [Handler -> Work]
      BY <2>1, WorkMoves
    <2>3. j.next \in Nat
      BY DEF Keeping
    <2>4. mem' \in Objects /\ disk' \in Objects
      BY <2>1, <2>3, PutTypes DEF AgentTypeOK
    <2> QED BY <2>1, <2>2, <2>4 DEF AgentTypeOK
  <1>3. ASSUME StartRun(w) PROVE AgentTypeOK'
    <2>1. PICK j \in Running :
               /\ work' = [work EXCEPT ![w] = j]
               /\ count' = [count EXCEPT !.run = @ + 1, !.report = @ + 1]
               /\ started' \in [Kinds -> Nat]
               /\ UNCHANGED <<agent, mem, disk, stops, library, comments, audit, input, grounds>>
      BY <1>3, StartRunDoes
    <2>2. work' \in [Handler -> Work]
      BY <2>1, WorkMoves DEF Work
    <2>3. count' \in [incident : Nat, run : Nat, report : Nat, candidate : Nat]
      BY <2>1, CountTypes
    <2> QED BY <2>1, <2>2, <2>3 DEF AgentTypeOK
  <1>4. ASSUME CollectEvidence(w) PROVE AgentTypeOK'
    <2>1. PICK j \in Running :
               /\ work' = [work EXCEPT ![w] = j]
               /\ count' = [count EXCEPT !.run = @ + 1, !.report = @ + 1]
               /\ UNCHANGED <<agent, mem, disk, started, stops, library, comments, audit, input, grounds>>
      BY <1>4, CollectEvidenceDoes
    <2>2. work' \in [Handler -> Work]
      BY <2>1, WorkMoves DEF Work
    <2>3. count' \in [incident : Nat, run : Nat, report : Nat, candidate : Nat]
      BY <2>1, CountTypes
    <2> QED BY <2>1, <2>2, <2>3 DEF AgentTypeOK
  <1>5. ASSUME KeepRun(w) PROVE AgentTypeOK'
    <2>1. PICK n \in Nat, m \in Nat, run \in RcaRun, report \in Report, j \in Saving :
               /\ work' = [work EXCEPT ![w] = j]
               /\ mem' = Put(Put(mem, "run", n, run), "report", m, report)
               /\ disk' = Put(disk, "run", n, run)
               /\ UNCHANGED <<agent, count, started, stops, library, comments, audit, input, grounds>>
      BY <1>5, KeepRunDoes
    <2>2. work' \in [Handler -> Work]
      BY <2>1, WorkMoves DEF Work
    <2>3. Put(mem, "run", n, run) \in Objects /\ disk' \in Objects
      BY <2>1, PutTypes DEF AgentTypeOK
    <2>4. mem' \in Objects
      BY <2>1, <2>3, PutTypes
    <2>5. started' \in [Kinds -> Nat]
      BY <2>1 DEF AgentTypeOK
    <2> QED BY <2>1, <2>2, <2>3, <2>4, <2>5, KeptTypes
  <1>6. ASSUME SaveReport(w) PROVE AgentTypeOK'
    <2>1. PICK j \in Saving, next \in Work :
               /\ disk' = Put(disk, "report", j.id, j.report)
               /\ work' = [work EXCEPT ![w] = next]
               /\ UNCHANGED <<agent, mem, count, started, stops, library, comments, audit, input, grounds>>
      BY <1>6, SaveReportDoes
    <2>2. work' \in [Handler -> Work]
      BY <2>1, WorkMoves
    <2>3. j.id \in Nat /\ j.report \in Report
      BY DEF Saving
    <2>4. disk' \in Objects
      BY <2>1, <2>3, PutTypes DEF AgentTypeOK
    <2>5. started' \in [Kinds -> Nat] /\ mem' \in Objects
      BY <2>1 DEF AgentTypeOK
    <2> QED BY <2>1, <2>2, <2>4, <2>5, KeptTypes
  <1> QED BY <1>1, <1>2, <1>3, <1>4, <1>5, <1>6

LEMMA ReviewTypes ==
    ASSUME AgentTypeOK, NEW w \in Handler
    PROVE  /\ ReviewReport(w) => AgentTypeOK'
           /\ GenerateCandidate(w) => AgentTypeOK'
           /\ ResumeWithMoreEvidence(w) => AgentTypeOK'
           /\ DecideCandidate(w) => AgentTypeOK'
           /\ KeepDecision(w) => AgentTypeOK'
  <1>1. ASSUME ReviewReport(w) PROVE AgentTypeOK'
    <2>1. PICK id \in DOMAIN mem.report, report \in Report, j \in Saving :
               /\ work' = [work EXCEPT ![w] = j] /\ started' \in [Kinds -> Nat]
               /\ \/ \E run \in RcaRun :
                         /\ mem' = Put(Put(mem, "report", id, report), "run", report.run, run)
                         /\ disk' = Put(disk, "run", report.run, run)
                  \/ mem' = Put(mem, "report", id, report) /\ disk' = disk
               /\ grounds' = IF j.todo # {} THEN [grounds EXCEPT !.causes = @ \cup {id}] ELSE grounds
               /\ UNCHANGED <<agent, count, stops, library, comments, audit, input>>
      BY <1>1, ReviewReportDoes
    <2>2. work' \in [Handler -> Work]
      BY <2>1, WorkMoves DEF Work
    <2>3. id \in Nat /\ report.run \in Nat
      BY MemRows DEF Report
    <2>4. Put(mem, "report", id, report) \in Objects
      BY <2>3, PutTypes DEF AgentTypeOK
    <2>5. mem' \in Objects /\ disk' \in Objects
      <3>1. ASSUME NEW run \in RcaRun
            PROVE  /\ Put(Put(mem, "report", id, report), "run", report.run, run) \in Objects
                   /\ Put(disk, "run", report.run, run) \in Objects
        BY <2>3, <2>4, PutTypes DEF AgentTypeOK
      <3>2. disk \in Objects
        BY DEF AgentTypeOK
      <3> QED BY <2>1, <2>4, <3>1, <3>2, Zenon
    <2>6. grounds' \in [causes : SUBSET Nat, approvals : SUBSET (Nat \X Hypothesis)]
      BY <2>1, <2>3 DEF AgentTypeOK
    <2> QED BY <2>1, <2>2, <2>5, <2>6 DEF AgentTypeOK
  <1>2. ASSUME GenerateCandidate(w) PROVE AgentTypeOK'
    <2>1. PICK id \in Nat, c \in Candidate, next \in Work :
               /\ count' = [count EXCEPT !.candidate = id]
               /\ mem' = Put(mem, "candidate", id, c) /\ SaveCandidate(id, c)
               /\ work' = [work EXCEPT ![w] = next]
               /\ UNCHANGED <<agent, started, stops, library, comments, audit, input, grounds>>
      BY <1>2, GenerateCandidateDoes
    <2>2. work' \in [Handler -> Work]
      BY <2>1, WorkMoves
    <2>3. mem' \in Objects /\ disk' \in Objects
      BY <2>1, CandidateKeptTypes
    <2>4. count' \in [incident : Nat, run : Nat, report : Nat, candidate : Nat]
      BY <2>1, CountTypes
    <2> QED BY <2>1, <2>2, <2>3, <2>4 DEF AgentTypeOK
  <1>3. ASSUME ResumeWithMoreEvidence(w) PROVE AgentTypeOK'
    <2>1. PICK id \in DOMAIN mem.run, run \in RcaRun, report \in Report, j \in Saving :
               /\ work' = [work EXCEPT ![w] = j] /\ started' \in [Kinds -> Nat]
               /\ mem' = Put(Put(mem, "run", id, run), "report", run.report, report)
               /\ disk' = Put(disk, "run", id, run)
               /\ UNCHANGED <<agent, count, stops, library, comments, audit, input, grounds>>
      BY <1>3, ResumeDoes
    <2>2. work' \in [Handler -> Work]
      BY <2>1, WorkMoves DEF Work
    <2>3. id \in Nat /\ run.report \in Nat
      BY MemRows DEF RcaRun
    <2>4. Put(mem, "run", id, run) \in Objects /\ disk' \in Objects
      BY <2>1, <2>3, PutTypes DEF AgentTypeOK
    <2>5. mem' \in Objects
      BY <2>1, <2>3, <2>4, PutTypes
    <2> QED BY <2>1, <2>2, <2>4, <2>5, KeptTypes
  <1>4. ASSUME DecideCandidate(w) PROVE AgentTypeOK'
    <2>1. PICK j \in Holding :
               /\ work' = [work EXCEPT ![w] = j] /\ started' \in [Kinds -> Nat]
               /\ UNCHANGED <<agent, mem, count, disk, stops, library, comments, audit, input, grounds>>
      BY <1>4, DecideCandidateDoes
    <2>2. work' \in [Handler -> Work]
      BY <2>1, WorkMoves DEF Work
    <2> QED BY <2>1, <2>2 DEF AgentTypeOK
  <1>5. ASSUME KeepDecision(w) PROVE AgentTypeOK'
    <2>1. PICK j \in Holding :
               /\ work' = [work EXCEPT ![w] = NoWork]
               /\ mem' = Put(mem, "candidate", j.id, j.candidate) /\ SaveCandidate(j.id, j.candidate)
               /\ grounds' = IF j.candidate.review = "approved"
                             THEN [grounds EXCEPT !.approvals = @ \cup {<<j.candidate.report, j.candidate.hypothesis>>}]
                             ELSE grounds
               /\ UNCHANGED <<agent, count, started, stops, library, comments, audit, input>>
      BY <1>5, KeepDecisionDoes
    <2>2. work' \in [Handler -> Work]
      BY <2>1, WorkMoves DEF Work
    <2>3. j.id \in Nat /\ j.candidate \in Candidate
      BY DEF Holding
    <2>4. mem' \in Objects /\ disk' \in Objects
      BY <2>1, <2>3, CandidateKeptTypes
    <2>5. j.candidate.report \in Nat /\ j.candidate.hypothesis \in Hypothesis
      BY <2>3 DEF Candidate
    <2>6. grounds' \in [causes : SUBSET Nat, approvals : SUBSET (Nat \X Hypothesis)]
      <3>1. PICK n \in Nat, h \in Hypothesis : n = j.candidate.report /\ h = j.candidate.hypothesis
        BY <2>5
      <3>2. grounds' = grounds \/ grounds' = [grounds EXCEPT !.approvals = @ \cup {<<n, h>>}]
        BY <2>1, <3>1
      <3>3. [grounds EXCEPT !.approvals = @ \cup {<<n, h>>}]
               \in [causes : SUBSET Nat, approvals : SUBSET (Nat \X Hypothesis)]
        BY GroundTypes
      <3>4. grounds \in [causes : SUBSET Nat, approvals : SUBSET (Nat \X Hypothesis)]
        BY DEF AgentTypeOK
      <3> QED BY <3>2, <3>3, <3>4
    <2> QED BY <2>1, <2>2, <2>4, <2>6 DEF AgentTypeOK
  <1> QED BY <1>1, <1>2, <1>3, <1>4, <1>5

LEMMA ImportTypes ==
    ASSUME AgentTypeOK, NEW w \in Handler
    PROVE  /\ ImportCandidate(w) => AgentTypeOK'
           /\ CallKnowledgeApi(w) => AgentTypeOK'
           /\ KeepImport(w) => AgentTypeOK'
           /\ PostSummary(w) => AgentTypeOK'
           /\ RecordWriteback(w) => AgentTypeOK'
  <1>1. ASSUME ImportCandidate(w) PROVE AgentTypeOK'
    <2>1. PICK j \in Holding :
               /\ work' = [work EXCEPT ![w] = j] /\ started' \in [Kinds -> Nat]
               /\ UNCHANGED <<agent, mem, count, disk, stops, library, comments, audit, input, grounds>>
      BY <1>1, ImportCandidateDoes
    <2>2. work' \in [Handler -> Work]
      BY <2>1, WorkMoves DEF Work
    <2> QED BY <2>1, <2>2 DEF AgentTypeOK
  <1>2. ASSUME CallKnowledgeApi(w) PROVE AgentTypeOK'
    <2>1. PICK next \in Work, d \in Import :
               /\ work' = [work EXCEPT ![w] = next]
               /\ library' = Append(library, d) \/ library' = library
               /\ UNCHANGED <<agent, mem, count, disk, started, stops, comments, audit, input, grounds>>
      BY <1>2, CallKnowledgeApiDoes
    <2>2. work' \in [Handler -> Work]
      BY <2>1, WorkMoves
    <2>3. library' \in Seq(Import)
      <3>1. PICK l \in Seq(Import) : l = library
        BY DEF AgentTypeOK
      <3>2. Append(l, d) \in Seq(Import)
        OBVIOUS
      <3> QED BY <2>1, <3>1, <3>2
    <2> QED BY <2>1, <2>2, <2>3 DEF AgentTypeOK
  <1>3. ASSUME KeepImport(w) PROVE AgentTypeOK'
    <2>1. PICK j \in Holding :
               /\ work' = [work EXCEPT ![w] = NoWork]
               /\ mem' = Put(mem, "candidate", j.id, j.candidate) /\ SaveCandidate(j.id, j.candidate)
               /\ UNCHANGED <<agent, count, started, stops, library, comments, audit, input, grounds>>
      BY <1>3, KeepImportDoes
    <2>2. work' \in [Handler -> Work]
      BY <2>1, WorkMoves DEF Work
    <2>3. j.id \in Nat /\ j.candidate \in Candidate
      BY DEF Holding
    <2>4. mem' \in Objects /\ disk' \in Objects
      BY <2>1, <2>3, CandidateKeptTypes
    <2>5. started' \in [Kinds -> Nat]
      BY <2>1 DEF AgentTypeOK
    <2> QED BY <2>1, <2>2, <2>4, <2>5, KeptTypes
  <1>4. ASSUME PostSummary(w) PROVE AgentTypeOK'
    <2>1. PICK j \in Recording :
               /\ work' = [work EXCEPT ![w] = j] /\ started' \in [Kinds -> Nat] /\ comments' \in Nat
               /\ UNCHANGED <<agent, mem, count, disk, stops, library, audit, input, grounds>>
      BY <1>4, PostSummaryDoes
    <2>2. work' \in [Handler -> Work]
      BY <2>1, WorkMoves DEF Work
    <2> QED BY <2>1, <2>2 DEF AgentTypeOK
  <1>5. ASSUME RecordWriteback(w) PROVE AgentTypeOK'
    <2>1. /\ work' = [work EXCEPT ![w] = NoWork] /\ audit' \in Seq({"success", "failed"})
          /\ UNCHANGED <<agent, mem, count, disk, started, stops, library, comments, input, grounds>>
      BY <1>5, RecordWritebackDoes
    <2>2. work' \in [Handler -> Work]
      BY <2>1, WorkMoves DEF Work
    <2> QED BY <2>1, <2>2 DEF AgentTypeOK
  <1> QED BY <1>1, <1>2, <1>3, <1>4, <1>5

LEMMA AgentTypesKept == AgentTypeOK /\ [AgentNext]_agentVars => AgentTypeOK'
  <1>1. SUFFICES ASSUME AgentTypeOK, [AgentNext]_agentVars PROVE AgentTypeOK'
    OBVIOUS
  <1>2. ASSUME RestartAgent PROVE AgentTypeOK'
    <2>1. /\ mem' \in Objects /\ count' \in [incident : Nat, run : Nat, report : Nat, candidate : Nat]
          /\ work' = [w \in Handler |-> NoWork] /\ stops' \in Nat
          /\ comments' = 0 /\ audit' = << >> /\ input' = << >>
          /\ UNCHANGED <<agent, disk, started, library, grounds>>
      BY <1>1, <1>2, RestartDoes
    <2>2. work' \in [Handler -> Work]
      BY <2>1 DEF Work
    <2>3. audit' \in Seq({"success", "failed"}) /\ input' \in Seq([request : AgentRequests, from : Nat, to : Nat])
      BY <2>1
    <2> QED BY <1>1, <2>1, <2>2, <2>3 DEF AgentTypeOK
  <1>3. ASSUME UNCHANGED agentVars PROVE AgentTypeOK'
    BY <1>1, <1>3 DEF agentVars, AgentTypeOK
  <1>4. ASSUME NEW w \in Handler,
               \/ Build(w) \/ KeepIncident(w)
               \/ StartRun(w) \/ CollectEvidence(w) \/ KeepRun(w) \/ SaveReport(w)
               \/ ReviewReport(w) \/ GenerateCandidate(w) \/ ResumeWithMoreEvidence(w)
               \/ DecideCandidate(w) \/ KeepDecision(w)
               \/ ImportCandidate(w) \/ CallKnowledgeApi(w) \/ KeepImport(w)
               \/ PostSummary(w) \/ RecordWriteback(w)
        PROVE  AgentTypeOK'
    BY <1>1, <1>4, IncidentTypes, ReviewTypes, ImportTypes
  <1> QED BY <1>1, <1>2, <1>3, <1>4 DEF AgentNext

(* Every object has the fields its kind says, a table is numbered, and a   *)
(* handler carries what its step needs.                                    *)
THEOREM AgentTypes == AgentSpec => []AgentTypeOK
  <1> QED BY AgentInitTypes, AgentTypesKept, PTL DEF AgentSpec

-----------------------------------------------------------------------------
(* What a step leaves alone.                                               *)
LEMMA PutFields ==
    ASSUME NEW o \in Objects, NEW id, NEW x
    PROVE  /\ LET p == Put(o, "incident", id, x)
              IN  /\ p.incident = With(o.incident, id, x)
                  /\ p.run = o.run /\ p.report = o.report /\ p.candidate = o.candidate
           /\ LET p == Put(o, "run", id, x)
              IN  /\ p.run = With(o.run, id, x)
                  /\ p.incident = o.incident /\ p.report = o.report /\ p.candidate = o.candidate
           /\ LET p == Put(o, "report", id, x)
              IN  /\ p.report = With(o.report, id, x)
                  /\ p.incident = o.incident /\ p.run = o.run /\ p.candidate = o.candidate
           /\ LET p == Put(o, "candidate", id, x)
              IN  /\ p.candidate = With(o.candidate, id, x)
                  /\ p.incident = o.incident /\ p.run = o.run /\ p.report = o.report
  BY PutShapes

LEMMA CandidatesUntouched ==
    ASSUME AgentTypeOK, NEW w \in Handler,
           \/ Build(w) \/ KeepIncident(w)
           \/ StartRun(w) \/ CollectEvidence(w) \/ KeepRun(w) \/ SaveReport(w)
           \/ ReviewReport(w) \/ ResumeWithMoreEvidence(w)
           \/ DecideCandidate(w) \/ ImportCandidate(w) \/ CallKnowledgeApi(w)
           \/ PostSummary(w) \/ RecordWriteback(w)
    PROVE  mem'.candidate = mem.candidate /\ disk'.candidate = disk.candidate
  <1>0. mem \in Objects /\ disk \in Objects
    BY DEF AgentTypeOK
  <1>1. CASE \/ Build(w) \/ StartRun(w) \/ CollectEvidence(w) \/ DecideCandidate(w) \/ ImportCandidate(w)
             \/ CallKnowledgeApi(w) \/ PostSummary(w) \/ RecordWriteback(w)
    <2>1. mem' = mem /\ disk' = disk
      BY <1>1 DEF Build, StartRun, CollectEvidence, DecideCandidate, ImportCandidate, CallKnowledgeApi,
                  PostSummary, RecordWriteback
    <2> QED BY <2>1
  <1>2. CASE KeepIncident(w)
    <2>1. PICK id, x : mem' = Put(mem, "incident", id, x) /\ disk' = Put(disk, "incident", id, x)
      BY <1>2, KeepIncidentDoes
    <2> QED BY <1>0, <2>1, PutFields
  <1>3. CASE KeepRun(w)
    <2>1. PICK n \in Nat, m \in Nat, run \in RcaRun, report \in Report :
              mem' = Put(Put(mem, "run", n, run), "report", m, report) /\ disk' = Put(disk, "run", n, run)
      BY <1>3, KeepRunDoes
    <2>2. Put(mem, "run", n, run) \in Objects
      BY <1>0, PutTypes
    <2> QED BY <1>0, <2>1, <2>2, PutFields
  <1>4. CASE SaveReport(w)
    <2>1. PICK id, x : mem' = mem /\ disk' = Put(disk, "report", id, x)
      BY <1>4, SaveReportDoes
    <2> QED BY <1>0, <2>1, PutFields
  <1>5. CASE ReviewReport(w)
    <2>1. PICK id \in DOMAIN mem.report, report \in Report :
               \/ \E run \in RcaRun :
                         /\ mem' = Put(Put(mem, "report", id, report), "run", report.run, run)
                         /\ disk' = Put(disk, "run", report.run, run)
               \/ mem' = Put(mem, "report", id, report) /\ disk' = disk
      BY <1>5, ReviewReportDoes
    <2>2. id \in Nat
      BY MemRows
    <2>3. Put(mem, "report", id, report) \in Objects
      BY <1>0, <2>2, PutTypes
    <2>4. CASE mem' = Put(mem, "report", id, report) /\ disk' = disk
      BY <1>0, <2>4, PutFields
    <2>5. ASSUME NEW run, mem' = Put(Put(mem, "report", id, report), "run", report.run, run),
                 disk' = Put(disk, "run", report.run, run)
          PROVE  mem'.candidate = mem.candidate /\ disk'.candidate = disk.candidate
      BY <1>0, <2>3, <2>5, PutFields
    <2> QED BY <2>1, <2>4, <2>5
  <1>6. CASE ResumeWithMoreEvidence(w)
    <2>1. PICK id \in DOMAIN mem.run, run \in RcaRun, report \in Report :
               /\ mem' = Put(Put(mem, "run", id, run), "report", run.report, report)
               /\ disk' = Put(disk, "run", id, run)
      BY <1>6, ResumeDoes
    <2>2. id \in Nat
      BY MemRows
    <2>3. Put(mem, "run", id, run) \in Objects
      BY <1>0, <2>2, PutTypes
    <2> QED BY <1>0, <2>1, <2>3, PutFields
  <1> QED BY <1>1, <1>2, <1>3, <1>4, <1>5, <1>6

-----------------------------------------------------------------------------
(* What is in the knowledge base was earned.                               *)
EarnedCause(c, g) == c.report \in g.causes
EarnedApproval(c, g) == <<c.report, c.hypothesis>> \in g.approvals
EarnedTable(t, g) ==
    \A i \in DOMAIN t : EarnedCause(t[i], g) /\ (t[i].review = "approved" => EarnedApproval(t[i], g))
EarnedWork(j, g) ==
    /\ j.at \in {"save_report", "generate"} => j.todo = {} \/ j.id \in g.causes
    /\ j.at \in {"decide", "call", "imported"} => EarnedCause(j.candidate, g)
    /\ j.at \in {"call", "imported"} => EarnedApproval(j.candidate, g)
EarnedLibrary(l, g) == \A n \in DOMAIN l : EarnedCause(l[n], g) /\ EarnedApproval(l[n], g)
Earned == /\ EarnedTable(mem.candidate, grounds) /\ EarnedTable(disk.candidate, grounds)
          /\ \A w \in Handler : EarnedWork(work[w], grounds)
          /\ EarnedLibrary(library, grounds)

MoreGrounds(g, h) == g.causes \subseteq h.causes /\ g.approvals \subseteq h.approvals

LEMMA EarnedGrows ==
    ASSUME NEW g, NEW h, MoreGrounds(g, h), NEW x
    PROVE  /\ EarnedTable(x, g) => EarnedTable(x, h)
           /\ EarnedWork(x, g) => EarnedWork(x, h)
           /\ EarnedLibrary(x, g) => EarnedLibrary(x, h)
  <1>1. \A c : (EarnedCause(c, g) => EarnedCause(c, h)) /\ (EarnedApproval(c, g) => EarnedApproval(c, h))
    BY DEF MoreGrounds, EarnedCause, EarnedApproval
  <1>2. g.causes \subseteq h.causes
    BY DEF MoreGrounds
  <1>3. EarnedTable(x, g) => EarnedTable(x, h)
    BY <1>1 DEF EarnedTable
  <1>4. EarnedWork(x, g) => EarnedWork(x, h)
    BY <1>1, <1>2 DEF EarnedWork
  <1>5. EarnedLibrary(x, g) => EarnedLibrary(x, h)
    BY <1>1 DEF EarnedLibrary
  <1> QED BY <1>3, <1>4, <1>5

LEMMA EarnedWith ==
    ASSUME NEW t, NEW id, NEW c, NEW g, EarnedTable(t, g),
           EarnedCause(c, g), c.review = "approved" => EarnedApproval(c, g)
    PROVE  EarnedTable(With(t, id, c), g)
  <1>1. ASSUME NEW i \in DOMAIN With(t, id, c)
        PROVE  \/ With(t, id, c)[i] = c
               \/ i \in DOMAIN t /\ With(t, id, c)[i] = t[i]
    BY DEF With
  <1> QED BY <1>1 DEF EarnedTable

LEMMA EarnedMoves ==
    ASSUME AgentTypeOK, Earned, NEW w \in Handler, NEW j \in Work, work' = [work EXCEPT ![w] = j],
           MoreGrounds(grounds, grounds'), EarnedWork(j, grounds'),
           EarnedTable(mem'.candidate, grounds'), EarnedTable(disk'.candidate, grounds'),
           EarnedLibrary(library', grounds')
    PROVE  Earned'
  <1>1. PICK g, h : g = grounds /\ h = grounds'
    OBVIOUS
  <1>2. ASSUME NEW v \in Handler PROVE EarnedWork(work'[v], h)
    <2>1. CASE v = w
      BY <1>1, <2>1, WorkMoves
    <2>2. CASE v # w
      <3>1. work'[v] = work[v] /\ EarnedWork(work[v], g)
        BY <1>1, <2>2, WorkMoves DEF Earned
      <3> QED BY <1>1, <3>1, EarnedGrows
    <2> QED BY <2>1, <2>2
  <1> QED BY <1>1, <1>2 DEF Earned

(* No candidate is touched: the work and the library decide.               *)
LEMMA EarnedElsewhere ==
    ASSUME AgentTypeOK, Earned, NEW w \in Handler, NEW j \in Work, work' = [work EXCEPT ![w] = j],
           mem'.candidate = mem.candidate, disk'.candidate = disk.candidate,
           MoreGrounds(grounds, grounds'), EarnedWork(j, grounds'), EarnedLibrary(library', grounds')
    PROVE  Earned'
  <1>1. PICK g, h : g = grounds /\ h = grounds'
    OBVIOUS
  <1>2. EarnedTable(mem.candidate, h) /\ EarnedTable(disk.candidate, h)
    BY <1>1, EarnedGrows DEF Earned
  <1> QED BY <1>1, <1>2, EarnedMoves

(* A candidate is kept.                                                    *)
LEMMA EarnedCandidate ==
    ASSUME AgentTypeOK, Earned, NEW w \in Handler, NEW j \in Work, work' = [work EXCEPT ![w] = j],
           NEW id \in Nat, NEW c \in Candidate,
           mem' = Put(mem, "candidate", id, c), SaveCandidate(id, c),
           MoreGrounds(grounds, grounds'), EarnedWork(j, grounds'), library' = library,
           EarnedCause(c, grounds'), c.review = "approved" => EarnedApproval(c, grounds')
    PROVE  Earned'
  <1>1. PICK g, h : g = grounds /\ h = grounds'
    OBVIOUS
  <1>2. /\ EarnedTable(mem.candidate, h) /\ EarnedTable(disk.candidate, h) /\ EarnedLibrary(library, h)
    BY <1>1, EarnedGrows DEF Earned
  <1>3. EarnedTable(With(mem.candidate, id, c), h) /\ EarnedTable(With(disk.candidate, id, c), h)
    BY <1>1, <1>2, EarnedWith
  <1>4. mem \in Objects /\ disk \in Objects
    BY DEF AgentTypeOK
  <1>5. EarnedTable(mem'.candidate, h)
    BY <1>3, <1>4, PutFields
  <1>6. EarnedTable(disk'.candidate, h)
    <2>1. disk' = disk \/ disk' = Put(disk, "candidate", id, c)
      BY SaveCandidateDoes
    <2> QED BY <1>2, <1>3, <1>4, <2>1, PutFields
  <1> QED BY <1>1, <1>2, <1>5, <1>6, EarnedMoves

LEMMA SameGrounds == ASSUME NEW g PROVE MoreGrounds(g, g)
  BY DEF MoreGrounds

LEMMA EarnedBySteps ==
    ASSUME AgentTypeOK, Earned, NEW w \in Handler,
           \/ Build(w) \/ KeepIncident(w) \/ StartRun(w) \/ CollectEvidence(w) \/ KeepRun(w)
           \/ PostSummary(w) \/ RecordWriteback(w)
    PROVE  Earned'
  <1>1. mem'.candidate = mem.candidate /\ disk'.candidate = disk.candidate
    BY CandidatesUntouched
  <1>2. grounds' = grounds /\ library' = library
    BY DEF Build, KeepIncident, StartRun, CollectEvidence, KeepRun, PostSummary, RecordWriteback
  <1>3. \A g : EarnedWork(NoWork, g)
    BY DEF NoWork, EarnedWork
  <1>4. \A g : \A j \in Keeping \cup Running \cup Recording : EarnedWork(j, g)
    BY DEF Keeping, Running, Recording, EarnedWork
  <1>5. \E j \in Work : work' = [work EXCEPT ![w] = j] /\ EarnedWork(j, grounds)
    <2>1. CASE Build(w)
      BY <1>4, <2>1, BuildDoes DEF Work
    <2>2. CASE KeepIncident(w)
      BY <1>3, <1>4, <2>2, KeepIncidentDoes
    <2>3. CASE StartRun(w)
      BY <1>4, <2>3, StartRunDoes DEF Work
    <2>4. CASE CollectEvidence(w)
      BY <1>4, <2>4, CollectEvidenceDoes DEF Work
    <2>5. CASE KeepRun(w)
      <3>1. PICK m \in Nat, report \in Report, j \in Saving :
               /\ j = [at |-> "save_report", id |-> m, report |-> report, todo |-> {}]
               /\ work' = [work EXCEPT ![w] = j]
        BY <2>5, KeepRunDoes
      <3>2. EarnedWork(j, grounds)
        BY <3>1 DEF EarnedWork
      <3> QED BY <3>1, <3>2 DEF Work
    <2>6. CASE PostSummary(w)
      BY <1>4, <2>6, PostSummaryDoes DEF Work
    <2>7. CASE RecordWriteback(w)
      BY <1>3, <2>7, RecordWritebackDoes DEF Work
    <2> QED BY <2>1, <2>2, <2>3, <2>4, <2>5, <2>6, <2>7
  <1>6. PICK j \in Work : work' = [work EXCEPT ![w] = j] /\ EarnedWork(j, grounds)
    BY <1>5
  <1>7. EarnedLibrary(library, grounds)
    BY DEF Earned
  <1> QED BY <1>1, <1>2, <1>6, <1>7, SameGrounds, EarnedElsewhere

LEMMA EarnedByReviews ==
    ASSUME AgentTypeOK, Earned, NEW w \in Handler,
           SaveReport(w) \/ ReviewReport(w) \/ GenerateCandidate(w) \/ ResumeWithMoreEvidence(w)
    PROVE  Earned'
  <1>0. EarnedLibrary(library, grounds) /\ EarnedWork(work[w], grounds)
    BY DEF Earned
  <1>1. CASE SaveReport(w)
    <2>1. PICK j \in Saving, next \in Work :
               /\ j = work[w] /\ j.at = "save_report"
               /\ \/ j.todo = {} /\ next = NoWork
                  \/ /\ j.todo # {} /\ next \in Saving /\ next.at = "generate"
                     /\ next.id = j.id /\ next.todo = j.todo
               /\ work' = [work EXCEPT ![w] = next]
               /\ UNCHANGED <<library, grounds>>
      BY <1>1, SaveReportDoes
    <2>2. EarnedWork(next, grounds)
      BY <1>0, <2>1 DEF NoWork, EarnedWork
    <2> QED BY <1>0, <1>1, <2>1, <2>2, CandidatesUntouched, SameGrounds, EarnedElsewhere
  <1>2. CASE ReviewReport(w)
    <2>1. PICK id \in DOMAIN mem.report, report \in Report, j \in Saving :
               /\ j = [at |-> "save_report", id |-> id, report |-> report, todo |-> j.todo]
               /\ work' = [work EXCEPT ![w] = j]
               /\ grounds' = IF j.todo # {} THEN [grounds EXCEPT !.causes = @ \cup {id}] ELSE grounds
               /\ UNCHANGED library
      BY SMTT(30), <1>2, ReviewReportDoes
    <2>2. id \in Nat
      BY MemRows
    <2>3. [grounds EXCEPT !.causes = @ \cup {id}] = [causes |-> grounds.causes \cup {id}, approvals |-> grounds.approvals]
      <3>2. PICK a, b : grounds = [causes |-> a, approvals |-> b]
        BY DEF AgentTypeOK
      <3>3. grounds.causes = a /\ grounds.approvals = b
        BY <3>2
      <3> QED BY <3>2, <3>3
    <2>4. MoreGrounds(grounds, grounds') /\ (j.todo # {} => id \in grounds'.causes)
      BY <2>1, <2>3 DEF MoreGrounds
    <2>5. EarnedWork(j, grounds')
      BY <2>1, <2>4 DEF EarnedWork
    <2>6. EarnedLibrary(library, grounds')
      BY <1>0, <2>4, EarnedGrows
    <2>7. j \in Work
      BY DEF Work
    <2> QED BY <1>2, <2>1, <2>4, <2>5, <2>6, <2>7, CandidatesUntouched, EarnedElsewhere
  <1>3. CASE GenerateCandidate(w)
    <2>1. PICK j \in Saving, h \in Hypothesis, id \in Nat, c \in Candidate, next \in Work :
               /\ j = work[w] /\ j.at = "generate" /\ h \in j.todo
               /\ c = [report |-> j.id, hypothesis |-> h, review |-> "pending", doc |-> 0]
               /\ mem' = Put(mem, "candidate", id, c) /\ SaveCandidate(id, c)
               /\ work' = [work EXCEPT ![w] = next]
               /\ \/ next = NoWork
                  \/ /\ next \in Saving /\ next.at = "generate" /\ next.id = j.id
                     /\ next.todo = j.todo \ {h}
               /\ UNCHANGED <<library, grounds>>
      BY <1>3, GenerateCandidateDoes
    <2>2. j.id \in grounds.causes
      BY <1>0, <2>1 DEF EarnedWork
    <2>3. EarnedWork(next, grounds)
      BY <2>1, <2>2 DEF NoWork, EarnedWork
    <2>4. EarnedCause(c, grounds) /\ c.review # "approved"
      BY <2>1, <2>2 DEF EarnedCause
    <2> QED BY <2>1, <2>3, <2>4, SameGrounds, EarnedCandidate
  <1>4. CASE ResumeWithMoreEvidence(w)
    <2>1. PICK id \in Nat, report \in Report, j \in Saving :
               /\ j = [at |-> "save_report", id |-> id, report |-> report, todo |-> {}]
               /\ work' = [work EXCEPT ![w] = j] /\ UNCHANGED <<library, grounds>>
      <3>1. PICK run \in RcaRun, report \in Report, j \in Saving :
               /\ j = [at |-> "save_report", id |-> run.report, report |-> report, todo |-> {}]
               /\ work' = [work EXCEPT ![w] = j] /\ UNCHANGED <<library, grounds>>
        BY SMTT(30), <1>4, ResumeDoes
      <3>2. run.report \in Nat
        BY DEF RcaRun
      <3> QED BY <3>1, <3>2
    <2>2. EarnedWork(j, grounds)
      BY <2>1 DEF EarnedWork
    <2>3. j \in Work
      BY DEF Work
    <2> QED BY <1>0, <1>4, <2>1, <2>2, <2>3, CandidatesUntouched, SameGrounds, EarnedElsewhere
  <1> QED BY <1>1, <1>2, <1>3, <1>4

LEMMA EarnedByCandidates ==
    ASSUME AgentTypeOK, Earned, NEW w \in Handler,
           \/ DecideCandidate(w) \/ KeepDecision(w)
           \/ ImportCandidate(w) \/ CallKnowledgeApi(w) \/ KeepImport(w)
    PROVE  Earned'
  <1>0. /\ EarnedLibrary(library, grounds) /\ EarnedWork(work[w], grounds)
        /\ EarnedTable(mem.candidate, grounds)
    BY DEF Earned
  <1>1. CASE DecideCandidate(w)
    <2>1. PICK id \in DOMAIN mem.candidate, c \in Candidate, j \in Holding :
               /\ j = [at |-> "decide", id |-> id, candidate |-> c]
               /\ work' = [work EXCEPT ![w] = j]
               /\ c.report = mem.candidate[id].report /\ UNCHANGED <<library, grounds>>
      BY <1>1, DecideCandidateDoes
    <2>2. EarnedCause(c, grounds)
      BY <1>0, <2>1 DEF EarnedTable, EarnedCause
    <2>3. EarnedWork(j, grounds)
      BY <2>1, <2>2 DEF EarnedWork
    <2>4. j \in Work
      BY DEF Work
    <2> QED BY <1>0, <1>1, <2>1, <2>3, <2>4, CandidatesUntouched, SameGrounds, EarnedElsewhere
  <1>2. CASE KeepDecision(w)
    <2>1. PICK j \in Holding :
               /\ j = work[w] /\ j.at = "decide" /\ work' = [work EXCEPT ![w] = NoWork]
               /\ mem' = Put(mem, "candidate", j.id, j.candidate) /\ SaveCandidate(j.id, j.candidate)
               /\ grounds' = IF j.candidate.review = "approved"
                             THEN [grounds EXCEPT !.approvals = @ \cup {<<j.candidate.report, j.candidate.hypothesis>>}]
                             ELSE grounds
               /\ UNCHANGED library
      BY <1>2, KeepDecisionDoes
    <2>2. j.id \in Nat /\ j.candidate \in Candidate
      BY DEF Holding
    <2>3. PICK n \in Nat, h \in Hypothesis : n = j.candidate.report /\ h = j.candidate.hypothesis
      BY <2>2 DEF Candidate
    <2>4. [grounds EXCEPT !.approvals = @ \cup {<<n, h>>}] =
              [causes |-> grounds.causes, approvals |-> grounds.approvals \cup {<<n, h>>}]
      BY GroundTypes
    <2>5. /\ j.candidate.review = "approved" =>
                 grounds' = [causes |-> grounds.causes, approvals |-> grounds.approvals \cup {<<n, h>>}]
          /\ j.candidate.review # "approved" => grounds' = grounds
      BY <2>1, <2>3, <2>4
    <2>6. /\ MoreGrounds(grounds, grounds')
          /\ j.candidate.review = "approved" => <<n, h>> \in grounds'.approvals
      BY <2>5 DEF MoreGrounds
    <2>7. EarnedCause(j.candidate, grounds)
      BY <1>0, <2>1 DEF EarnedWork
    <2>8. /\ EarnedCause(j.candidate, grounds')
          /\ j.candidate.review = "approved" => EarnedApproval(j.candidate, grounds')
      BY <2>3, <2>6, <2>7 DEF MoreGrounds, EarnedCause, EarnedApproval
    <2>9. EarnedWork(NoWork, grounds') /\ NoWork \in Work
      BY DEF NoWork, EarnedWork, Work
    <2> QED BY <2>1, <2>2, <2>6, <2>8, <2>9, EarnedCandidate
  <1>3. CASE ImportCandidate(w)
    <2>1. PICK id \in DOMAIN mem.candidate, j \in Holding :
               /\ j = [at |-> "call", id |-> id, candidate |-> mem.candidate[id]]
               /\ work' = [work EXCEPT ![w] = j] /\ Importable(mem.candidate[id])
               /\ UNCHANGED <<library, grounds>>
      BY <1>3, ImportCandidateDoes
    <2>2. EarnedCause(mem.candidate[id], grounds) /\ EarnedApproval(mem.candidate[id], grounds)
      BY <1>0, <2>1 DEF EarnedTable, Importable
    <2>3. EarnedWork(j, grounds)
      BY <2>1, <2>2 DEF EarnedWork
    <2>4. j \in Work
      BY DEF Work
    <2> QED BY <1>0, <1>3, <2>1, <2>3, <2>4, CandidatesUntouched, SameGrounds, EarnedElsewhere
  <1>4. CASE CallKnowledgeApi(w)
    <2>1. PICK j \in Holding, next \in Work, d \in Import :
               /\ j = work[w] /\ j.at = "call" /\ work' = [work EXCEPT ![w] = next]
               /\ d.report = j.candidate.report /\ d.hypothesis = j.candidate.hypothesis
               /\ \/ /\ library' = Append(library, d) /\ next \in Holding /\ next.at = "imported"
                     /\ next.candidate.report = j.candidate.report
                     /\ next.candidate.hypothesis = j.candidate.hypothesis
                  \/ library' = Append(library, d) /\ next = NoWork
                  \/ library' = library /\ next = NoWork
               /\ UNCHANGED grounds
      BY <1>4, CallKnowledgeApiDoes
    <2>2. EarnedCause(j.candidate, grounds) /\ EarnedApproval(j.candidate, grounds)
      BY <1>0, <2>1 DEF EarnedWork
    <2>3. EarnedCause(d, grounds) /\ EarnedApproval(d, grounds)
      BY <2>1, <2>2 DEF EarnedCause, EarnedApproval
    <2>4. EarnedWork(next, grounds)
      <3>1. CASE next = NoWork
        BY <3>1 DEF NoWork, EarnedWork
      <3>2. CASE next.at = "imported" /\ next.candidate.report = j.candidate.report
                 /\ next.candidate.hypothesis = j.candidate.hypothesis
        BY <2>2, <3>2 DEF EarnedWork, EarnedCause, EarnedApproval
      <3> QED BY <2>1, <3>1, <3>2
    <2>5. EarnedLibrary(Append(library, d), grounds)
      <3>1. PICK l \in Seq(Import) : l = library
        BY DEF AgentTypeOK
      <3>2. ASSUME NEW n \in DOMAIN Append(l, d)
            PROVE  Append(l, d)[n] = d \/ (n \in DOMAIN l /\ Append(l, d)[n] = l[n])
        OBVIOUS
      <3> QED BY <1>0, <2>3, <3>1, <3>2 DEF EarnedLibrary
    <2>6. EarnedLibrary(library', grounds)
      BY <1>0, <2>1, <2>5
    <2> QED BY <1>4, <2>1, <2>4, <2>6, CandidatesUntouched, SameGrounds, EarnedElsewhere
  <1>5. CASE KeepImport(w)
    <2>1. PICK j \in Holding :
               /\ j = work[w] /\ j.at = "imported" /\ work' = [work EXCEPT ![w] = NoWork]
               /\ mem' = Put(mem, "candidate", j.id, j.candidate) /\ SaveCandidate(j.id, j.candidate)
               /\ UNCHANGED <<library, grounds>>
      BY <1>5, KeepImportDoes
    <2>2. j.id \in Nat /\ j.candidate \in Candidate
      BY DEF Holding
    <2>3. EarnedCause(j.candidate, grounds) /\ EarnedApproval(j.candidate, grounds)
      BY <1>0, <2>1 DEF EarnedWork
    <2>4. EarnedWork(NoWork, grounds) /\ NoWork \in Work
      BY DEF NoWork, EarnedWork, Work
    <2> QED BY <2>1, <2>2, <2>3, <2>4, SameGrounds, EarnedCandidate
  <1> QED BY <1>1, <1>2, <1>3, <1>4, <1>5

LEMMA EarnedKept == AgentTypeOK /\ Earned /\ [AgentNext]_agentVars => Earned'
  <1>1. SUFFICES ASSUME AgentTypeOK, Earned, [AgentNext]_agentVars PROVE Earned'
    OBVIOUS
  <1>2. ASSUME RestartAgent PROVE Earned'
    <2>1. /\ (Sqlite => mem' = disk) /\ (~Sqlite => mem' = Empty) /\ work' = [w \in Handler |-> NoWork]
          /\ UNCHANGED <<disk, library, grounds>>
      BY <1>1, <1>2, RestartDoes
    <2>2. EarnedTable(mem'.candidate, grounds)
      <3>1. EarnedTable(Empty.candidate, grounds)
        BY DEF Empty, EarnedTable
      <3> QED BY <1>1, <2>1, <3>1 DEF Earned
    <2>3. EarnedWork(NoWork, grounds)
      BY DEF NoWork, EarnedWork
    <2> QED BY <1>1, <2>1, <2>2, <2>3 DEF Earned
  <1>3. ASSUME UNCHANGED agentVars PROVE Earned'
    BY <1>1, <1>3 DEF agentVars, Earned
  <1> QED BY <1>1, <1>2, <1>3, EarnedBySteps, EarnedByReviews, EarnedByCandidates DEF AgentNext

-----------------------------------------------------------------------------
(* With one thread, the handler that steps is the only one at work.        *)
Threads == \A w \in Handler : work[w] # NoWork => w \in agent.threads

LEMMA HandlerSteps ==
    ASSUME AgentTypeOK, Threads, NEW w \in Handler,
           \/ Build(w) \/ KeepIncident(w)
           \/ StartRun(w) \/ CollectEvidence(w) \/ KeepRun(w) \/ SaveReport(w)
           \/ ReviewReport(w) \/ GenerateCandidate(w) \/ ResumeWithMoreEvidence(w)
           \/ DecideCandidate(w) \/ KeepDecision(w)
           \/ ImportCandidate(w) \/ CallKnowledgeApi(w) \/ KeepImport(w)
           \/ PostSummary(w) \/ RecordWriteback(w)
    PROVE  /\ w \in agent.threads /\ agent' = agent /\ stops' = stops
           /\ \E j \in Work : work' = [work EXCEPT ![w] = j]
  <1>1. agent' = agent /\ stops' = stops
    BY ZenonT(40) DEF Build, KeepIncident, StartRun, CollectEvidence, KeepRun, SaveReport, ReviewReport,
           GenerateCandidate, ResumeWithMoreEvidence, DecideCandidate, KeepDecision,
           ImportCandidate, CallKnowledgeApi, KeepImport, PostSummary, RecordWriteback
  <1>2. ASSUME \/ KeepIncident(w) \/ CollectEvidence(w) \/ KeepRun(w) \/ SaveReport(w)
               \/ GenerateCandidate(w) \/ KeepDecision(w) \/ CallKnowledgeApi(w) \/ KeepImport(w)
               \/ RecordWriteback(w)
        PROVE  w \in agent.threads
    <2>1. work[w].at # "free"
      BY <1>2 DEF KeepIncident, CollectEvidence, KeepRun, SaveReport, GenerateCandidate, KeepDecision,
                  CallKnowledgeApi, KeepImport, RecordWriteback
    <2>2. w \in agent.threads
      BY <2>1 DEF Threads, NoWork
    <2> QED BY <2>2
  <1>3. ASSUME \/ Build(w) \/ StartRun(w) \/ ReviewReport(w) \/ ResumeWithMoreEvidence(w)
               \/ DecideCandidate(w) \/ ImportCandidate(w) \/ PostSummary(w)
        PROVE  w \in agent.threads
    <2>1. \E kind \in Kinds : \E j : Start(w, kind, j)
      BY ZenonT(40), <1>3 DEF Build, StartRun, ReviewReport, ResumeWithMoreEvidence, DecideCandidate, ImportCandidate,
                  PostSummary, Kinds
    <2> QED BY <2>1 DEF Start
  <1>4. w \in agent.threads
    BY <1>2, <1>3
  <1>5. \A j : (j \in Keeping \/ j \in Running \/ j \in Saving \/ j \in Holding \/ j \in Recording \/ j = NoWork)
                  => j \in Work
    BY DEF Work
  <1>6. \E j \in Work : work' = [work EXCEPT ![w] = j]
    <2>1. CASE Build(w)
      BY <1>5, <2>1, BuildDoes
    <2>2. CASE KeepIncident(w)
      BY <2>2, KeepIncidentDoes
    <2>3. CASE StartRun(w)
      BY <1>5, <2>3, StartRunDoes
    <2>4. CASE CollectEvidence(w)
      BY <1>5, <2>4, CollectEvidenceDoes
    <2>5. CASE KeepRun(w)
      BY <1>5, <2>5, KeepRunDoes
    <2>6. CASE SaveReport(w)
      BY <2>6, SaveReportDoes
    <2>7. CASE ReviewReport(w)
      BY <1>5, <2>7, ReviewReportDoes
    <2>8. CASE GenerateCandidate(w)
      BY <2>8, GenerateCandidateDoes
    <2>9. CASE ResumeWithMoreEvidence(w)
      BY <1>5, <2>9, ResumeDoes
    <2>10. CASE DecideCandidate(w)
      BY <1>5, <2>10, DecideCandidateDoes
    <2>11. CASE KeepDecision(w)
      BY <1>5, <2>11, KeepDecisionDoes
    <2>12. CASE ImportCandidate(w)
      BY <1>5, <2>12, ImportCandidateDoes
    <2>13. CASE CallKnowledgeApi(w)
      BY <2>13, CallKnowledgeApiDoes
    <2>14. CASE KeepImport(w)
      BY <1>5, <2>14, KeepImportDoes
    <2>15. CASE PostSummary(w)
      BY <1>5, <2>15, PostSummaryDoes
    <2>16. CASE RecordWriteback(w)
      BY <1>5, <2>16, RecordWritebackDoes
    <2> QED BY <2>1, <2>2, <2>3, <2>4, <2>5, <2>6, <2>7, <2>8, <2>9, <2>10, <2>11, <2>12, <2>13, <2>14,
               <2>15, <2>16
  <1> QED BY <1>1, <1>4, <1>6

LEMMA ThreadsKept == AgentTypeOK /\ Threads /\ [AgentNext]_agentVars => Threads'
  <1>1. SUFFICES ASSUME AgentTypeOK, Threads, [AgentNext]_agentVars PROVE Threads'
    OBVIOUS
  <1>2. ASSUME RestartAgent PROVE Threads'
    BY <1>1, <1>2, RestartDoes DEF Threads
  <1>3. ASSUME UNCHANGED agentVars PROVE Threads'
    BY <1>1, <1>3 DEF agentVars, Threads
  <1>4. ASSUME NEW w \in Handler, NEW j \in Work, w \in agent.threads, agent' = agent,
               work' = [work EXCEPT ![w] = j]
        PROVE  Threads'
    BY <1>1, <1>4 DEF Threads, AgentTypeOK
  <1> QED BY <1>1, <1>2, <1>3, <1>4, HandlerSteps DEF AgentNext

LEMMA Sole ==
    ASSUME AgentTypeOK, Threads, OneHandler, NEW w \in agent.threads
    PROVE  \A v \in Handler : v # w => work[v] = NoWork
  <1>1. agent.threads \subseteq Handler
    BY AgentsAssumption DEF AgentTypeOK
  <1>2. PICK T : T = agent.threads
    OBVIOUS
  <1>3. IsFiniteSet(T)
    BY <1>1, <1>2, HandlersAssumption, FS_Subset
  <1>4. IsFiniteSet(T \ {w}) /\ Cardinality(T \ {w}) = Cardinality(T) - 1
    BY <1>2, <1>3, FS_RemoveElement
  <1>5. Cardinality(T) = 1
    BY <1>2 DEF OneHandler
  <1>6. T \ {w} = {}
    BY <1>4, <1>5, FS_EmptySet
  <1> QED BY <1>2, <1>6 DEF Threads

(* A step of the only handler at work, and what others are at.             *)
LEMMA SoleMoves ==
    ASSUME AgentTypeOK, Threads, OneHandler, NEW w \in Handler, w \in agent.threads,
           NEW j \in Work, work' = [work EXCEPT ![w] = j]
    PROVE  \A v \in Handler : /\ v # w => work[v] = NoWork /\ work'[v] = NoWork
                              /\ v = w => work'[v] = j
  BY Sole, WorkMoves

-----------------------------------------------------------------------------
(* A candidate that is decided or imported is in memory, as it was read.   *)
AtCandidate == {"decide", "call", "imported"}
AtReport == {"save_report", "generate"}
Todo(j) == IF j.at \in AtReport THEN j.todo ELSE {}

Numbered == /\ Below(mem.candidate, count.candidate)
            /\ \A w \in Handler : work[w].at \in AtCandidate => work[w].id \in DOMAIN mem.candidate

HeldAs(j, t) ==
    j.at \in AtCandidate =>
        /\ j.candidate.report = t[j.id].report /\ j.candidate.hypothesis = t[j.id].hypothesis
        /\ j.at = "decide" => t[j.id].review = "pending" /\ j.candidate.doc = t[j.id].doc
        /\ j.at # "decide" => j.candidate.review = t[j.id].review /\ t[j.id].doc = 0
AsRead == OneHandler => \A w \in Handler : HeldAs(work[w], mem.candidate)

(* Steps that have to do with no candidate.                                *)
Elsewhere(w) ==
    \/ Build(w) \/ KeepIncident(w)
    \/ StartRun(w) \/ CollectEvidence(w) \/ KeepRun(w) \/ SaveReport(w)
    \/ ReviewReport(w) \/ ResumeWithMoreEvidence(w)
    \/ PostSummary(w) \/ RecordWriteback(w)

LEMMA ElsewhereDoes ==
    ASSUME AgentTypeOK, NEW w \in Handler, Elsewhere(w)
    PROVE  /\ mem'.candidate = mem.candidate /\ disk'.candidate = disk.candidate
           /\ count'.candidate = count.candidate /\ library' = library
           /\ work[w].at \notin AtCandidate
           /\ \E j \in Work : /\ work' = [work EXCEPT ![w] = j] /\ j.at \notin AtCandidate
                              /\ \/ started'["review"] = started["review"] /\ Todo(j) \subseteq Todo(work[w])
                                 \/ started'["review"] = started["review"] + 1 /\ work[w] = NoWork
  <1>1. mem'.candidate = mem.candidate /\ disk'.candidate = disk.candidate
    BY CandidatesUntouched DEF Elsewhere
  <1>2. library' = library
    BY ZenonT(40) DEF Elsewhere, Build, KeepIncident, StartRun, CollectEvidence, KeepRun, SaveReport, ReviewReport,
           ResumeWithMoreEvidence, PostSummary, RecordWriteback
  <1>3. /\ \A j \in Keeping \cup Running \cup Recording \cup {NoWork} :
               j \in Work /\ j.at \notin AtCandidate /\ Todo(j) = {}
        /\ \A j \in Saving : j \in Work /\ j.at \notin AtCandidate /\ Todo(j) = j.todo
    BY DEF Work, Keeping, Running, Recording, NoWork, Saving, AtCandidate, AtReport, Todo
  <1> DEFINE Carries(j) == /\ work' = [work EXCEPT ![w] = j] /\ j.at \notin AtCandidate
                         /\ \/ started'["review"] = started["review"] /\ Todo(j) \subseteq Todo(work[w])
                            \/ started'["review"] = started["review"] + 1 /\ work[w] = NoWork
             Held == count'.candidate = count.candidate /\ work[w].at \notin AtCandidate
  <1>4. CASE Build(w)
    <2>1. PICK j \in Keeping :
               /\ work' = [work EXCEPT ![w] = j] /\ work[w] = NoWork
               /\ count' = [count EXCEPT !.incident = @ + Len(j.groups)]
               /\ started'["review"] = started["review"]
      BY <1>4, BuildDoes
    <2>2. Len(j.groups) \in Nat
      BY DEF Keeping
    <2>3. count'.candidate = count.candidate
      BY <2>1, <2>2, CountTypes
    <2>4. j \in Work /\ Carries(j) /\ Held
      BY <1>3, <2>1, <2>3
    <2> QED BY <1>1, <1>2, <2>4
  <1>5. CASE KeepIncident(w)
    <2>1. PICK j \in Keeping, next \in Work :
               /\ j = work[w] /\ work' = [work EXCEPT ![w] = next] /\ (next \in Keeping \/ next = NoWork)
               /\ UNCHANGED <<count, started>>
      BY <1>5, KeepIncidentDoes
    <2>2. Carries(next) /\ Held
      BY <1>3, <2>1
    <2> QED BY <1>1, <1>2, <2>2
  <1>6. CASE StartRun(w)
    <2>1. PICK j \in Running :
               /\ work' = [work EXCEPT ![w] = j] /\ work[w] = NoWork
               /\ count' = [count EXCEPT !.run = @ + 1, !.report = @ + 1]
               /\ started'["review"] = started["review"]
      BY <1>6, StartRunDoes
    <2>2. count'.candidate = count.candidate
      BY <2>1, CountTypes
    <2>3. j \in Work /\ Carries(j) /\ Held
      BY <1>3, <2>1, <2>2
    <2> QED BY <1>1, <1>2, <2>3
  <1>7. CASE CollectEvidence(w)
    <2>1. PICK j \in Running :
               /\ work' = [work EXCEPT ![w] = j] /\ work[w].at = "evidence"
               /\ count' = [count EXCEPT !.run = @ + 1, !.report = @ + 1]
               /\ UNCHANGED started
      BY <1>7, CollectEvidenceDoes
    <2>2. count'.candidate = count.candidate
      BY <2>1, CountTypes
    <2>3. work[w].at \notin AtCandidate
      BY <2>1 DEF AtCandidate
    <2>4. j \in Work /\ Carries(j) /\ Held
      BY <1>3, <2>1, <2>2, <2>3
    <2> QED BY <1>1, <1>2, <2>4
  <1>8. CASE KeepRun(w)
    <2>1. PICK m \in Nat, report \in Report, j \in Saving :
               /\ work[w].at = "keep_run"
               /\ j = [at |-> "save_report", id |-> m, report |-> report, todo |-> {}]
               /\ work' = [work EXCEPT ![w] = j] /\ UNCHANGED <<count, started>>
      BY <1>8, KeepRunDoes
    <2>2. work[w].at \notin AtCandidate /\ Todo(j) = {}
      BY <1>3, <2>1 DEF AtCandidate
    <2>3. j \in Work /\ Carries(j) /\ Held
      BY <1>3, <2>1, <2>2
    <2> QED BY <1>1, <1>2, <2>3
  <1>9. CASE SaveReport(w)
    <2>1. PICK j \in Saving, next \in Work :
               /\ j = work[w]
               /\ \/ next = NoWork
                  \/ next \in Saving /\ next.todo = j.todo
               /\ work' = [work EXCEPT ![w] = next] /\ UNCHANGED <<count, started>>
      BY <1>9, SaveReportDoes
    <2>2. Carries(next) /\ Held
      BY <1>3, <2>1
    <2> QED BY <1>1, <1>2, <2>2
  <1>10. CASE ReviewReport(w)
    <2>1. PICK j \in Saving :
               /\ work[w] = NoWork /\ work' = [work EXCEPT ![w] = j]
               /\ started'["review"] = started["review"] + 1 /\ UNCHANGED count
      BY <1>10, ReviewReportDoes
    <2>2. j \in Work /\ Carries(j) /\ Held
      BY <1>3, <2>1
    <2> QED BY <1>1, <1>2, <2>2
  <1>11. CASE ResumeWithMoreEvidence(w)
    <2>1. PICK run \in RcaRun, report \in Report, j \in Saving :
               /\ j = [at |-> "save_report", id |-> run.report, report |-> report, todo |-> {}]
               /\ work[w] = NoWork /\ work' = [work EXCEPT ![w] = j]
               /\ started'["review"] = started["review"] /\ UNCHANGED count
      BY <1>11, ResumeDoes
    <2>2. Todo(j) = {}
      BY <1>3, <2>1
    <2>3. j \in Work /\ Carries(j) /\ Held
      BY <1>3, <2>1, <2>2
    <2> QED BY <1>1, <1>2, <2>3
  <1>12. CASE PostSummary(w)
    <2>1. PICK j \in Recording :
               /\ work[w] = NoWork /\ work' = [work EXCEPT ![w] = j]
               /\ started'["review"] = started["review"] /\ UNCHANGED count
      BY <1>12, PostSummaryDoes
    <2>2. j \in Work /\ Carries(j) /\ Held
      BY <1>3, <2>1
    <2> QED BY <1>1, <1>2, <2>2
  <1>13. CASE RecordWriteback(w)
    <2>1. /\ work[w].at = "record" /\ work' = [work EXCEPT ![w] = NoWork] /\ UNCHANGED <<count, started>>
      BY <1>13, RecordWritebackDoes
    <2>2. work[w].at \notin AtCandidate
      BY <2>1 DEF AtCandidate
    <2>3. NoWork \in Work /\ Carries(NoWork) /\ Held
      BY <1>3, <2>1, <2>2
    <2> QED BY <1>1, <1>2, <2>3
  <1> QED BY <1>4, <1>5, <1>6, <1>7, <1>8, <1>9, <1>10, <1>11, <1>12, <1>13 DEF Elsewhere

LEMMA NumberedKept == AgentTypeOK /\ Numbered /\ [AgentNext]_agentVars => Numbered'
  <1>1. SUFFICES ASSUME AgentTypeOK, Numbered, [AgentNext]_agentVars PROVE Numbered'
    OBVIOUS
  <1>2. mem \in Objects /\ count.candidate \in Nat /\ \A i \in DOMAIN mem.candidate : i \in Nat
    BY <1>1, MemRows DEF AgentTypeOK
  <1>3. ASSUME NEW w \in Handler, NEW j \in Work, work' = [work EXCEPT ![w] = j],
               DOMAIN mem.candidate \subseteq DOMAIN mem'.candidate,
               j.at \in AtCandidate => j.id \in DOMAIN mem.candidate,
               Below(mem'.candidate, count'.candidate)
        PROVE  Numbered'
    <2>1. ASSUME NEW v \in Handler, work'[v].at \in AtCandidate PROVE work'[v].id \in DOMAIN mem'.candidate
      <3>1. CASE v = w
        BY <1>1, <1>3, <2>1, <3>1, WorkMoves
      <3>2. CASE v # w
        <4>1. work'[v] = work[v]
          BY <1>1, <1>3, <3>2, WorkMoves
        <4> QED BY <1>1, <1>3, <2>1, <4>1 DEF Numbered
      <3> QED BY <3>1, <3>2
    <2> QED BY <1>3, <2>1 DEF Numbered
  <1>4. ASSUME NEW w \in Handler, Elsewhere(w) PROVE Numbered'
    <2>1. PICK j \in Work : work' = [work EXCEPT ![w] = j] /\ j.at \notin AtCandidate
      BY <1>1, <1>4, ElsewhereDoes
    <2>2. mem'.candidate = mem.candidate /\ count'.candidate = count.candidate
      BY <1>1, <1>4, ElsewhereDoes
    <2>3. Below(mem'.candidate, count'.candidate)
      BY <1>1, <2>2 DEF Numbered, Below
    <2> QED BY <1>3, <2>1, <2>2, <2>3
  <1>5. ASSUME NEW w \in Handler, GenerateCandidate(w) PROVE Numbered'
    <2>1. PICK id \in Nat, c \in Candidate, next \in Work :
               /\ id = count.candidate + 1 /\ count' = [count EXCEPT !.candidate = id]
               /\ mem' = Put(mem, "candidate", id, c) /\ work' = [work EXCEPT ![w] = next]
               /\ next = NoWork \/ next.at = "generate"
      BY <1>1, <1>5, GenerateCandidateDoes
    <2>2. count'.candidate = id
      BY <1>1, <2>1, CountTypes
    <2>3. DOMAIN mem'.candidate = DOMAIN mem.candidate \cup {id}
      <3>1. mem'.candidate = With(mem.candidate, id, c)
        BY <1>2, <2>1, PutFields
      <3> QED BY <3>1 DEF With
    <2>4. Below(mem'.candidate, count'.candidate)
      BY <1>1, <1>2, <2>1, <2>2, <2>3 DEF Numbered, Below
    <2>5. next.at \notin AtCandidate
      BY <2>1 DEF NoWork, AtCandidate
    <2> QED BY <1>3, <2>1, <2>3, <2>4, <2>5
  <1>6. ASSUME NEW w \in Handler, KeepDecision(w) \/ KeepImport(w) PROVE Numbered'
    <2>1. PICK j \in Holding :
               /\ j = work[w] /\ j.at \in AtCandidate /\ work' = [work EXCEPT ![w] = NoWork]
               /\ mem' = Put(mem, "candidate", j.id, j.candidate) /\ UNCHANGED count
      BY <1>1, <1>6, KeepDecisionDoes, KeepImportDoes DEF AtCandidate
    <2>2. j.id \in DOMAIN mem.candidate
      BY <1>1, <2>1 DEF Numbered
    <2>3. DOMAIN mem'.candidate = DOMAIN mem.candidate
      <3>1. mem'.candidate = With(mem.candidate, j.id, j.candidate)
        BY <1>2, <2>1, PutFields
      <3>2. DOMAIN With(mem.candidate, j.id, j.candidate) = DOMAIN mem.candidate \cup {j.id}
        BY DEF With
      <3> QED BY <2>2, <3>1, <3>2
    <2>4. Below(mem'.candidate, count'.candidate)
      BY <1>1, <2>1, <2>3 DEF Numbered, Below
    <2>5. NoWork \in Work /\ NoWork.at \notin AtCandidate
      BY DEF NoWork, Work, AtCandidate
    <2> QED BY <1>3, <2>1, <2>3, <2>4, <2>5
  <1>7. ASSUME NEW w \in Handler, DecideCandidate(w) \/ ImportCandidate(w) PROVE Numbered'
    <2>1. PICK id \in DOMAIN mem.candidate, j \in Holding :
               j.id = id /\ work' = [work EXCEPT ![w] = j] /\ UNCHANGED <<mem, count>>
      <3>1. CASE DecideCandidate(w)
        <4>1. PICK id \in DOMAIN mem.candidate, c \in Candidate, j \in Holding :
               /\ j = [at |-> "decide", id |-> id, candidate |-> c]
               /\ work' = [work EXCEPT ![w] = j] /\ UNCHANGED <<mem, count>>
          BY <1>1, <3>1, DecideCandidateDoes
        <4> QED BY <4>1
      <3>2. CASE ImportCandidate(w)
        <4>1. PICK id \in DOMAIN mem.candidate, j \in Holding :
               /\ j = [at |-> "call", id |-> id, candidate |-> mem.candidate[id]]
               /\ work' = [work EXCEPT ![w] = j] /\ UNCHANGED <<mem, count>>
          BY <1>1, <3>2, ImportCandidateDoes
        <4> QED BY <4>1
      <3> QED BY <1>7, <3>1, <3>2
    <2>2. j \in Work /\ Below(mem'.candidate, count'.candidate)
      BY <1>1, <2>1 DEF Work, Numbered
    <2> QED BY <1>3, <2>1, <2>2
  <1>8. ASSUME NEW w \in Handler, CallKnowledgeApi(w) PROVE Numbered'
    <2>1. PICK j \in Holding, next \in Work :
               /\ j = work[w] /\ j.at = "call" /\ work' = [work EXCEPT ![w] = next]
               /\ next.id = j.id \/ next = NoWork
               /\ UNCHANGED <<mem, count>>
      BY <1>1, <1>8, CallKnowledgeApiDoes
    <2>2. j.id \in DOMAIN mem.candidate /\ Below(mem'.candidate, count'.candidate)
      BY <1>1, <2>1 DEF Numbered, AtCandidate
    <2>3. next.at \in AtCandidate => next.id \in DOMAIN mem.candidate
      BY <2>1, <2>2 DEF NoWork, AtCandidate
    <2> QED BY <1>3, <2>1, <2>2, <2>3
  <1>9. ASSUME RestartAgent PROVE Numbered'
    <2>1. /\ (Sqlite => mem' = disk) /\ (~Sqlite => mem' = Empty) /\ work' = [w \in Handler |-> NoWork]
          /\ Sqlite => Below(disk.candidate, count'.candidate)
      BY <1>1, <1>9, RestartDoes
    <2>2. Below(Empty.candidate, count'.candidate)
      BY DEF Empty, Below
    <2>3. NoWork.at \notin AtCandidate
      BY DEF NoWork, AtCandidate
    <2> QED BY <2>1, <2>2, <2>3 DEF Numbered
  <1>10. ASSUME UNCHANGED agentVars PROVE Numbered'
    BY <1>1, <1>10 DEF agentVars, Numbered
  <1> QED BY <1>1, <1>4, <1>5, <1>6, <1>7, <1>8, <1>9, <1>10 DEF AgentNext, Elsewhere

LEMMA AsReadKept == AgentTypeOK /\ Threads /\ Numbered /\ AsRead /\ [AgentNext]_agentVars => AsRead'
  <1>1. SUFFICES ASSUME AgentTypeOK, Threads, Numbered, AsRead, [AgentNext]_agentVars, OneHandler'
                 PROVE  \A v \in Handler : HeldAs(work'[v], mem'.candidate)
    BY DEF AsRead
  <1>2. agent' = agent
    BY <1>1, HandlerSteps, RestartDoes DEF AgentNext, agentVars
  <1>3. OneHandler /\ \A v \in Handler : HeldAs(work[v], mem.candidate)
    BY <1>1, <1>2 DEF OneHandler, AsRead
  <1>4. \A t : HeldAs(NoWork, t)
    BY DEF NoWork, HeldAs, AtCandidate
  <1>5. mem \in Objects /\ NoWork \in Work
    BY <1>1 DEF AgentTypeOK, Work
  <1>6. ASSUME NEW w \in Handler, w \in agent.threads, NEW j \in Work, work' = [work EXCEPT ![w] = j],
               HeldAs(j, mem'.candidate)
        PROVE  \A v \in Handler : HeldAs(work'[v], mem'.candidate)
    <2>1. \A v \in Handler : work'[v] = j \/ work'[v] = NoWork
      BY <1>1, <1>3, <1>6, SoleMoves
    <2> QED BY <1>4, <1>6, <2>1
  <1>7. ASSUME NEW w \in Handler, Elsewhere(w) PROVE \A v \in Handler : HeldAs(work'[v], mem'.candidate)
    <2>1. PICK j \in Work : work' = [work EXCEPT ![w] = j] /\ j.at \notin AtCandidate
      BY <1>1, <1>7, ElsewhereDoes
    <2>2. HeldAs(j, mem'.candidate)
      BY <2>1 DEF HeldAs
    <2>3. w \in agent.threads
      BY <1>1, <1>7, HandlerSteps DEF Elsewhere
    <2> QED BY <1>6, <2>1, <2>2, <2>3
  <1>8. ASSUME NEW w \in Handler, GenerateCandidate(w) PROVE \A v \in Handler : HeldAs(work'[v], mem'.candidate)
    <2>1. PICK next \in Work : work' = [work EXCEPT ![w] = next] /\ (next = NoWork \/ next.at = "generate")
      BY <1>1, <1>8, GenerateCandidateDoes
    <2>2. HeldAs(next, mem'.candidate)
      BY <1>4, <2>1 DEF HeldAs, AtCandidate
    <2>3. w \in agent.threads
      BY <1>1, <1>8, HandlerSteps
    <2> QED BY <1>6, <2>1, <2>2, <2>3
  <1>9. ASSUME NEW w \in Handler, KeepDecision(w) \/ KeepImport(w)
        PROVE  \A v \in Handler : HeldAs(work'[v], mem'.candidate)
    <2>1. work' = [work EXCEPT ![w] = NoWork]
      BY <1>9 DEF KeepDecision, KeepImport, Leaves
    <2>2. w \in agent.threads
      BY <1>1, <1>9, HandlerSteps
    <2> QED BY <1>4, <1>5, <1>6, <2>1, <2>2
  <1>10. ASSUME NEW w \in Handler, DecideCandidate(w) PROVE \A v \in Handler : HeldAs(work'[v], mem'.candidate)
    <2>1. PICK id \in DOMAIN mem.candidate, c \in Candidate, j \in Holding :
               /\ j = [at |-> "decide", id |-> id, candidate |-> c]
               /\ work' = [work EXCEPT ![w] = j] /\ w \in agent.threads
               /\ mem.candidate[id].review = "pending"
               /\ c.report = mem.candidate[id].report /\ c.hypothesis = mem.candidate[id].hypothesis
               /\ c.doc = mem.candidate[id].doc
               /\ UNCHANGED mem
      BY <1>1, <1>10, DecideCandidateDoes
    <2>2. HeldAs(j, mem'.candidate)
      BY <2>1 DEF HeldAs
    <2>3. j \in Work
      BY DEF Work
    <2> QED BY <1>6, <2>1, <2>2, <2>3
  <1>11. ASSUME NEW w \in Handler, ImportCandidate(w) PROVE \A v \in Handler : HeldAs(work'[v], mem'.candidate)
    <2>1. PICK id \in DOMAIN mem.candidate, j \in Holding :
               /\ j = [at |-> "call", id |-> id, candidate |-> mem.candidate[id]]
               /\ work' = [work EXCEPT ![w] = j] /\ w \in agent.threads
               /\ Importable(mem.candidate[id]) /\ UNCHANGED mem
      BY <1>1, <1>11, ImportCandidateDoes
    <2>2. HeldAs(j, mem'.candidate)
      BY <2>1 DEF HeldAs, Importable
    <2>3. j \in Work
      BY DEF Work
    <2> QED BY <1>6, <2>1, <2>2, <2>3
  <1>12. ASSUME NEW w \in Handler, CallKnowledgeApi(w) PROVE \A v \in Handler : HeldAs(work'[v], mem'.candidate)
    <2>1. PICK j \in Holding, next \in Work :
               /\ j = work[w] /\ j.at = "call" /\ work' = [work EXCEPT ![w] = next]
               /\ \/ /\ next.at = "imported"
                     /\ next.id = j.id /\ next.candidate.report = j.candidate.report
                     /\ next.candidate.hypothesis = j.candidate.hypothesis
                     /\ next.candidate.review = j.candidate.review
                  \/ next = NoWork
               /\ UNCHANGED mem
      BY <1>1, <1>12, CallKnowledgeApiDoes
    <2>2. HeldAs(j, mem.candidate)
      BY <1>3, <2>1
    <2>3. HeldAs(next, mem'.candidate)
      BY <1>4, <2>1, <2>2 DEF HeldAs, AtCandidate
    <2>4. w \in agent.threads
      BY <1>1, <1>12, HandlerSteps
    <2> QED BY <1>6, <2>1, <2>3, <2>4
  <1>13. ASSUME RestartAgent PROVE \A v \in Handler : HeldAs(work'[v], mem'.candidate)
    BY <1>1, <1>4, <1>13, RestartDoes
  <1>14. ASSUME UNCHANGED agentVars PROVE \A v \in Handler : HeldAs(work'[v], mem'.candidate)
    BY <1>3, <1>14 DEF agentVars
  <1> QED BY <1>1, <1>7, <1>8, <1>9, <1>10, <1>11, <1>12, <1>13, <1>14 DEF AgentNext, Elsewhere

-----------------------------------------------------------------------------
(* Up to the second review, every candidate has a hypothesis of its own,   *)
(* and a document in the knowledge base is recorded in its candidate or    *)
(* about to be.                                                            *)
Distinct(t) == \A i, k \in DOMAIN t : t[i].hypothesis = t[k].hypothesis => i = k
Apart(s, t) == \A i \in DOMAIN t : t[i].hypothesis \notin s
Imported(n, i, at) == \E w \in Handler : at[w].at = "imported" /\ at[w].id = i /\ at[w].candidate.doc = n
Recorded(n, d, t, at) ==
    \E i \in DOMAIN t : t[i].hypothesis = d.hypothesis /\ (t[i].doc = n \/ Imported(n, i, at))

NothingBefore == started["review"] = 0 =>
                     DOMAIN mem.candidate = {} /\ \A w \in Handler : Todo(work[w]) = {}
OneReport == started["review"] < 2 =>
                 Distinct(mem.candidate) /\ \A w \in Handler : Apart(Todo(work[w]), mem.candidate)
AllRecorded == \A n \in DOMAIN library : ~library[n].lost => Recorded(n, library[n], mem.candidate, work)

ImportedOnce == OneHandler /\ stops = 0 => NothingBefore /\ OneReport /\ AllRecorded

LEMMA TodoFacts ==
    /\ Todo(NoWork) = {} /\ \A j \in Holding : Todo(j) = {}
    /\ \A t : Apart({}, t)
  BY DEF Todo, NoWork, Holding, AtReport, Apart

LEMMA ReviewsOnly ==
    ASSUME AgentTypeOK, NEW w \in Handler,
           \/ GenerateCandidate(w) \/ DecideCandidate(w) \/ KeepDecision(w)
           \/ ImportCandidate(w) \/ CallKnowledgeApi(w) \/ KeepImport(w)
    PROVE  started'["review"] = started["review"]
  <1>1. CASE GenerateCandidate(w) \/ KeepDecision(w) \/ CallKnowledgeApi(w) \/ KeepImport(w)
    BY <1>1 DEF GenerateCandidate, KeepDecision, CallKnowledgeApi, KeepImport
  <1>2. CASE DecideCandidate(w)
    BY <1>2, DecideCandidateDoes
  <1>3. CASE ImportCandidate(w)
    BY <1>3, ImportCandidateDoes
  <1> QED BY <1>1, <1>2, <1>3

LEMMA ImportedOnceElsewhere ==
    ASSUME AgentTypeOK, Threads, ImportedOnce, OneHandler, stops = 0, NEW w \in Handler, Elsewhere(w)
    PROVE  NothingBefore' /\ OneReport' /\ AllRecorded'
  <1>1. PICK j \in Work :
            /\ work' = [work EXCEPT ![w] = j] /\ j.at \notin AtCandidate
            /\ \/ started'["review"] = started["review"] /\ Todo(j) \subseteq Todo(work[w])
               \/ started'["review"] = started["review"] + 1 /\ work[w] = NoWork
    BY ElsewhereDoes
  <1>2. /\ mem'.candidate = mem.candidate /\ library' = library /\ work[w].at \notin AtCandidate
    BY ElsewhereDoes
  <1>3. w \in agent.threads
    BY HandlerSteps DEF Elsewhere
  <1>4. \A v \in Handler : (v # w => work[v] = NoWork /\ work'[v] = NoWork) /\ (v = w => work'[v] = j)
    BY <1>1, <1>3, SoleMoves
  <1>5. NothingBefore /\ OneReport /\ AllRecorded
    BY DEF ImportedOnce
  <1>6. started["review"] \in Nat
    BY DEF AgentTypeOK, Kinds
  <1>7. AllRecorded'
    <2>1. SUFFICES ASSUME NEW n \in DOMAIN library, ~library[n].lost
                   PROVE  Recorded(n, library[n], mem.candidate, work')
      BY <1>2 DEF AllRecorded
    <2>2. PICK i \in DOMAIN mem.candidate :
              /\ mem.candidate[i].hypothesis = library[n].hypothesis
              /\ mem.candidate[i].doc = n \/ Imported(n, i, work)
      BY <1>5, <2>1 DEF AllRecorded, Recorded
    <2>3. ~Imported(n, i, work)
      BY <1>2, <1>4 DEF Imported, AtCandidate, NoWork
    <2> QED BY <2>2, <2>3 DEF Recorded
  <1>8. CASE started'["review"] = started["review"] /\ Todo(j) \subseteq Todo(work[w])
    <2>1. NothingBefore'
      BY <1>2, <1>4, <1>5, <1>8, TodoFacts DEF NothingBefore
    <2>2. OneReport'
      <3>1. SUFFICES ASSUME started["review"] < 2
                     PROVE  Distinct(mem.candidate) /\ \A v \in Handler : Apart(Todo(work'[v]), mem.candidate)
        BY <1>2, <1>8 DEF OneReport
      <3>2. Distinct(mem.candidate) /\ Apart(Todo(work[w]), mem.candidate)
        BY <1>5, <3>1 DEF OneReport
      <3>3. Apart(Todo(j), mem.candidate)
        BY <1>8, <3>2 DEF Apart
      <3> QED BY <1>4, <3>2, <3>3, TodoFacts
    <2> QED BY <1>7, <2>1, <2>2
  <1>9. CASE started'["review"] = started["review"] + 1
    <2>1. NothingBefore'
      BY <1>6, <1>9 DEF NothingBefore
    <2>2. OneReport'
      <3>1. SUFFICES ASSUME started'["review"] < 2
                     PROVE  Distinct(mem.candidate) /\ \A v \in Handler : Apart(Todo(work'[v]), mem.candidate)
        BY <1>2 DEF OneReport
      <3>2. started["review"] = 0
        BY <1>6, <1>9, <3>1
      <3>3. DOMAIN mem.candidate = {}
        BY <1>5, <3>2 DEF NothingBefore
      <3> QED BY <3>3 DEF Distinct, Apart
    <2> QED BY <1>7, <2>1, <2>2
  <1> QED BY <1>1, <1>8, <1>9

LEMMA ImportedOnceGenerates ==
    ASSUME AgentTypeOK, Threads, Numbered, ImportedOnce, OneHandler, stops = 0,
           NEW w \in Handler, GenerateCandidate(w)
    PROVE  NothingBefore' /\ OneReport' /\ AllRecorded'
  <1>1. PICK j \in Saving, h \in Hypothesis, id \in Nat, c \in Candidate, next \in Work :
               /\ j = work[w] /\ j.at = "generate" /\ h \in j.todo /\ id = count.candidate + 1
               /\ c = [report |-> j.id, hypothesis |-> h, review |-> "pending", doc |-> 0]
               /\ mem' = Put(mem, "candidate", id, c)
               /\ work' = [work EXCEPT ![w] = next]
               /\ \/ next = NoWork
                  \/ /\ next \in Saving /\ next.at = "generate" /\ next.id = j.id
                     /\ next.todo = j.todo \ {h}
               /\ UNCHANGED <<started, library>>
    BY GenerateCandidateDoes
  <1>2. w \in agent.threads
    BY HandlerSteps
  <1>3. \A v \in Handler : (v # w => work[v] = NoWork /\ work'[v] = NoWork) /\ (v = w => work'[v] = next)
    BY <1>1, <1>2, SoleMoves
  <1>4. NothingBefore /\ OneReport /\ AllRecorded
    BY DEF ImportedOnce
  <1>5. mem \in Objects
    BY DEF AgentTypeOK
  <1>6. PICK t : t = mem.candidate
    OBVIOUS
  <1>7. mem'.candidate = With(t, id, c)
    BY <1>1, <1>5, <1>6, PutFields
  <1>8. /\ count.candidate \in Nat /\ \A i \in DOMAIN t : i \in Nat /\ i <= count.candidate
    BY <1>6, MemRows DEF AgentTypeOK, Numbered, Below
  <1>9. id \notin DOMAIN t
    BY <1>1, <1>8
  <1>10. PICK u : u = With(t, id, c)
    OBVIOUS
  <1>11. /\ DOMAIN u = DOMAIN t \cup {id} /\ u[id] = c
         /\ \A i \in DOMAIN t : u[i] = t[i]
    BY <1>9, <1>10 DEF With
  <1>12. c.hypothesis = h
    BY <1>1
  <1>13. Todo(work[w]) = j.todo /\ Todo(next) \subseteq j.todo \ {h}
    BY <1>1, TodoFacts DEF Todo, AtReport
  <1>14. NothingBefore'
    <2>1. Todo(work[w]) # {}
      BY <1>1, <1>13
    <2>2. started["review"] # 0
      BY <1>4, <2>1 DEF NothingBefore
    <2> QED BY <1>1, <2>2 DEF NothingBefore
  <1>15. OneReport'
    <2>1. SUFFICES ASSUME started["review"] < 2
                   PROVE  Distinct(u) /\ \A v \in Handler : Apart(Todo(work'[v]), u)
      BY <1>1, <1>7, <1>10 DEF OneReport
    <2>2. Distinct(t) /\ Apart(j.todo, t)
      BY <1>4, <1>6, <1>13, <2>1 DEF OneReport
    <2>3. \A i \in DOMAIN t : t[i].hypothesis # h
      BY <1>1, <2>2 DEF Apart
    <2>4. Distinct(u)
      BY <1>11, <1>12, <2>2, <2>3 DEF Distinct
    <2>5. Apart(Todo(next), u)
      BY <1>11, <1>12, <1>13, <2>2 DEF Apart
    <2> QED BY <1>3, <2>4, <2>5, TodoFacts
  <1>16. AllRecorded'
    <2>1. SUFFICES ASSUME NEW n \in DOMAIN library, ~library[n].lost
                   PROVE  Recorded(n, library[n], u, work')
      BY <1>1, <1>7, <1>10 DEF AllRecorded
    <2>2. PICK i \in DOMAIN t :
              /\ t[i].hypothesis = library[n].hypothesis
              /\ t[i].doc = n \/ Imported(n, i, work)
      BY <1>4, <1>6, <2>1 DEF AllRecorded, Recorded
    <2>3. ~Imported(n, i, work)
      BY <1>1, <1>3 DEF Imported, NoWork
    <2> QED BY <1>11, <2>2, <2>3 DEF Recorded
  <1> QED BY <1>14, <1>15, <1>16

(* A candidate is replaced by one with its hypothesis.                     *)
LEMMA ReplacedCandidates ==
    ASSUME NEW t, NEW id \in DOMAIN t, NEW c, c.hypothesis = t[id].hypothesis
    PROVE  /\ DOMAIN With(t, id, c) = DOMAIN t
           /\ \A i \in DOMAIN t : With(t, id, c)[i].hypothesis = t[i].hypothesis
           /\ Distinct(t) => Distinct(With(t, id, c))
  <1>1. PICK u : u = With(t, id, c)
    OBVIOUS
  <1>2. DOMAIN u = DOMAIN t
    BY <1>1 DEF With
  <1>3. \A i \in DOMAIN t : u[i].hypothesis = t[i].hypothesis
    BY <1>1 DEF With
  <1>4. Distinct(t) => Distinct(u)
    BY <1>2, <1>3 DEF Distinct
  <1> QED BY <1>1, <1>2, <1>3, <1>4

LEMMA ImportedOnceReads ==
    ASSUME AgentTypeOK, Threads, ImportedOnce, OneHandler, stops = 0, NEW w \in Handler,
           DecideCandidate(w) \/ ImportCandidate(w)
    PROVE  NothingBefore' /\ OneReport' /\ AllRecorded'
  <1>1. PICK j \in Holding :
            work[w] = NoWork /\ work' = [work EXCEPT ![w] = j] /\ w \in agent.threads /\ UNCHANGED <<mem, library>>
    <2>1. CASE DecideCandidate(w)
      BY <2>1, DecideCandidateDoes
    <2>2. CASE ImportCandidate(w)
      BY <2>2, ImportCandidateDoes
    <2> QED BY <2>1, <2>2
  <1>2. started'["review"] = started["review"]
    BY ReviewsOnly
  <1>3. j \in Work
    BY DEF Work
  <1>4. \A v \in Handler : (v # w => work[v] = NoWork /\ work'[v] = NoWork) /\ (v = w => work'[v] = j)
    BY <1>1, <1>3, SoleMoves
  <1>5. \A v \in Handler : work[v] = NoWork /\ Todo(work'[v]) = {}
    BY <1>1, <1>4, TodoFacts
  <1>6. NothingBefore /\ OneReport /\ AllRecorded
    BY DEF ImportedOnce
  <1>7. NothingBefore' /\ OneReport'
    BY <1>1, <1>2, <1>5, <1>6, TodoFacts DEF NothingBefore, OneReport
  <1>8. AllRecorded'
    <2>1. SUFFICES ASSUME NEW n \in DOMAIN library, ~library[n].lost
                   PROVE  Recorded(n, library[n], mem.candidate, work')
      BY <1>1 DEF AllRecorded
    <2>2. PICK i \in DOMAIN mem.candidate :
              /\ mem.candidate[i].hypothesis = library[n].hypothesis
              /\ mem.candidate[i].doc = n \/ Imported(n, i, work)
      BY <1>6, <2>1 DEF AllRecorded, Recorded
    <2>3. ~Imported(n, i, work)
      BY <1>5 DEF Imported, NoWork
    <2> QED BY <2>2, <2>3 DEF Recorded
  <1> QED BY <1>7, <1>8

LEMMA ImportedOnceKeeps ==
    ASSUME AgentTypeOK, Threads, Numbered, AsRead, ImportedOnce, OneHandler, stops = 0, NEW w \in Handler,
           KeepDecision(w) \/ KeepImport(w)
    PROVE  NothingBefore' /\ OneReport' /\ AllRecorded'
  <1>1. PICK j \in Holding :
            /\ j = work[w] /\ j.at \in {"decide", "imported"} /\ work' = [work EXCEPT ![w] = NoWork]
            /\ mem' = Put(mem, "candidate", j.id, j.candidate) /\ UNCHANGED <<library, started>>
    <2>1. CASE KeepDecision(w)
      BY <2>1, KeepDecisionDoes
    <2>2. CASE KeepImport(w)
      BY <2>2, KeepImportDoes
    <2> QED BY <2>1, <2>2
  <1>2. w \in agent.threads /\ NoWork \in Work
    BY HandlerSteps DEF Work
  <1>3. \A v \in Handler : (v # w => work[v] = NoWork /\ work'[v] = NoWork) /\ (v = w => work'[v] = NoWork)
    BY <1>1, <1>2, SoleMoves
  <1>4. PICK t : t = mem.candidate
    OBVIOUS
  <1>5. /\ j.id \in DOMAIN t /\ j.candidate.hypothesis = t[j.id].hypothesis
        /\ j.at = "decide" => j.candidate.doc = t[j.id].doc
        /\ j.at = "imported" => t[j.id].doc = 0
    BY <1>1, <1>4 DEF Numbered, AsRead, HeldAs, AtCandidate
  <1>6. PICK u : u = With(t, j.id, j.candidate)
    OBVIOUS
  <1>7. mem'.candidate = u
    <2>1. mem \in Objects
      BY DEF AgentTypeOK
    <2> QED BY <1>1, <1>4, <1>6, <2>1, PutFields
  <1>8. /\ DOMAIN u = DOMAIN t /\ \A i \in DOMAIN t : u[i].hypothesis = t[i].hypothesis
        /\ Distinct(t) => Distinct(u)
    BY <1>5, <1>6, ReplacedCandidates
  <1>9. u[j.id] = j.candidate /\ \A i \in DOMAIN t : i # j.id => u[i] = t[i]
    BY <1>6 DEF With
  <1>10. NothingBefore /\ OneReport /\ AllRecorded
    BY DEF ImportedOnce
  <1>11. \A v \in Handler : Todo(work'[v]) = {}
    BY <1>3, TodoFacts
  <1>12. NothingBefore'
    BY <1>1, <1>4, <1>7, <1>8, <1>10, <1>11 DEF NothingBefore
  <1>13. OneReport'
    BY <1>1, <1>4, <1>7, <1>8, <1>10, <1>11, TodoFacts DEF OneReport
  <1>14. AllRecorded'
    <2>1. SUFFICES ASSUME NEW n \in DOMAIN library, ~library[n].lost
                   PROVE  \E i \in DOMAIN u : u[i].hypothesis = library[n].hypothesis /\ u[i].doc = n
      BY <1>1, <1>7 DEF AllRecorded, Recorded
    <2>2. PICK i \in DOMAIN t :
              /\ t[i].hypothesis = library[n].hypothesis
              /\ t[i].doc = n \/ Imported(n, i, work)
      BY <1>4, <1>10, <2>1 DEF AllRecorded, Recorded
    <2>3. CASE Imported(n, i, work)
      <3>1. j.at = "imported" /\ j.id = i /\ j.candidate.doc = n
        BY <1>1, <1>3, <2>3 DEF Imported, NoWork
      <3> QED BY <1>8, <1>9, <2>2, <3>1
    <2>4. CASE t[i].doc = n
      <3>1. n # 0
        BY <2>1 DEF AgentTypeOK
      <3>2. u[i].doc = n
        <4>1. CASE i # j.id
          BY <1>9, <2>4, <4>1
        <4>2. CASE i = j.id
          BY <1>1, <1>5, <1>9, <2>4, <3>1, <4>2
        <4> QED BY <4>1, <4>2
      <3> QED BY <1>8, <2>2, <3>2
    <2> QED BY <2>2, <2>3, <2>4
  <1> QED BY <1>12, <1>13, <1>14

LEMMA ImportedOnceCalls ==
    ASSUME AgentTypeOK, Threads, Numbered, AsRead, ImportedOnce, OneHandler, stops = 0, NEW w \in Handler,
           CallKnowledgeApi(w)
    PROVE  NothingBefore' /\ OneReport' /\ AllRecorded'
  <1>1. PICK j \in Holding, next \in Work, d \in Import :
               /\ j = work[w] /\ j.at = "call" /\ work' = [work EXCEPT ![w] = next]
               /\ d.report = j.candidate.report /\ d.hypothesis = j.candidate.hypothesis
               /\ \/ /\ library' = Append(library, d) /\ ~d.lost /\ next \in Holding /\ next.at = "imported"
                     /\ next.id = j.id /\ next.candidate.doc = Len(library) + 1
                  \/ library' = Append(library, d) /\ d.lost /\ next = NoWork
                  \/ library' = library /\ next = NoWork
               /\ UNCHANGED <<mem, started>>
    BY CallKnowledgeApiDoes
  <1>2. w \in agent.threads
    BY HandlerSteps
  <1>3. \A v \in Handler : (v # w => work[v] = NoWork /\ work'[v] = NoWork) /\ (v = w => work'[v] = next)
    BY <1>1, <1>2, SoleMoves
  <1>4. PICK t, l : t = mem.candidate /\ l = library
    OBVIOUS
  <1>5. l \in Seq(Import)
    BY <1>4 DEF AgentTypeOK
  <1>6. j.id \in DOMAIN t /\ j.candidate.hypothesis = t[j.id].hypothesis
    BY <1>1, <1>4 DEF Numbered, AsRead, HeldAs, AtCandidate
  <1>7. NothingBefore /\ OneReport /\ AllRecorded
    BY DEF ImportedOnce
  <1>8. \A v \in Handler : Todo(work'[v]) = {}
    BY <1>1, <1>3, TodoFacts
  <1>9. NothingBefore' /\ OneReport'
    BY <1>1, <1>7, <1>8, TodoFacts DEF NothingBefore, OneReport
  <1>10. ASSUME NEW n \in DOMAIN l, ~l[n].lost
         PROVE  \E i \in DOMAIN t : t[i].hypothesis = l[n].hypothesis /\ t[i].doc = n
    <2>1. PICK i \in DOMAIN t :
              /\ t[i].hypothesis = l[n].hypothesis
              /\ t[i].doc = n \/ Imported(n, i, work)
      BY <1>4, <1>7, <1>10 DEF AllRecorded, Recorded
    <2>2. ~Imported(n, i, work)
      BY <1>1, <1>3 DEF Imported, NoWork
    <2> QED BY <2>1, <2>2
  <1>11. AllRecorded'
    <2>1. SUFFICES ASSUME NEW m, m = library', NEW n \in DOMAIN m, ~m[n].lost
                   PROVE  Recorded(n, m[n], t, work')
      BY <1>1, <1>4 DEF AllRecorded
    <2>2. ASSUME n \in DOMAIN l, m[n] = l[n] PROVE Recorded(n, m[n], t, work')
      BY <1>10, <2>1, <2>2 DEF Recorded
    <2>3. CASE m = l
      BY <2>1, <2>2, <2>3
    <2>4. CASE m = Append(l, d)
      <3>1. (n \in DOMAIN l /\ m[n] = l[n]) \/ (n = Len(l) + 1 /\ m[n] = d)
        BY <1>5, <2>1, <2>4
      <3>2. CASE n = Len(l) + 1 /\ m[n] = d
        <4>1. m # l
          BY <1>5, <2>4
        <4>2. next.at = "imported" /\ next.id = j.id /\ next.candidate.doc = n
          BY <1>1, <1>4, <2>1, <3>2, <4>1
        <4>3. Imported(n, j.id, work')
          BY <1>3, <4>2 DEF Imported
        <4> QED BY <1>1, <1>6, <3>2, <4>3 DEF Recorded
      <3> QED BY <2>2, <3>1, <3>2
    <2> QED BY <1>1, <1>4, <2>1, <2>3, <2>4
  <1> QED BY <1>9, <1>11

LEMMA ImportedOnceKept ==
    AgentTypeOK /\ Threads /\ Numbered /\ AsRead /\ ImportedOnce /\ [AgentNext]_agentVars => ImportedOnce'
  <1>1. SUFFICES ASSUME AgentTypeOK, Threads, Numbered, AsRead, ImportedOnce, [AgentNext]_agentVars,
                        OneHandler', stops' = 0
                 PROVE  NothingBefore' /\ OneReport' /\ AllRecorded'
    BY DEF ImportedOnce
  <1>2. ~RestartAgent
    BY <1>1, RestartDoes
  <1>3. agent' = agent /\ stops' = stops
    BY <1>1, <1>2, HandlerSteps DEF AgentNext, agentVars
  <1>4. OneHandler /\ stops = 0
    BY <1>1, <1>3 DEF OneHandler
  <1>5. CASE UNCHANGED agentVars
    BY <1>1, <1>4, <1>5 DEF agentVars, ImportedOnce, NothingBefore, OneReport, AllRecorded
  <1>6. CASE \E w \in Handler : \/ Elsewhere(w) \/ GenerateCandidate(w) \/ DecideCandidate(w) \/ KeepDecision(w)
                                \/ ImportCandidate(w) \/ CallKnowledgeApi(w) \/ KeepImport(w)
    BY <1>1, <1>4, <1>6, ImportedOnceElsewhere, ImportedOnceGenerates, ImportedOnceReads, ImportedOnceKeeps,
       ImportedOnceCalls
  <1> QED BY <1>1, <1>2, <1>5, <1>6 DEF AgentNext, Elsewhere

(* The documents of the knowledge base were earned, and imported once.     *)
LEMMA EarnedAndOnce == AgentTypeOK /\ Threads /\ AsRead /\ Earned /\ ImportedOnce => KnowledgeIsEarned
  <1>1. SUFFICES ASSUME AgentTypeOK, Threads, AsRead, Earned, ImportedOnce PROVE KnowledgeIsEarned
    OBVIOUS
  <1>2. \A n \in DOMAIN library : /\ library[n].report \in grounds.causes
                                  /\ <<library[n].report, library[n].hypothesis>> \in grounds.approvals
    BY <1>1 DEF Earned, EarnedLibrary, EarnedCause, EarnedApproval
  <1>3. ASSUME OneHandler, stops = 0, started.review < 2,
               NEW m \in DOMAIN library, NEW n \in DOMAIN library, library[m] = library[n], ~library[m].lost
        PROVE  m = n
    <2>1. PICK t : t = mem.candidate
      OBVIOUS
    <2>2. Distinct(t)
      BY <1>1, <1>3, <2>1 DEF ImportedOnce, OneReport
    <2>3. PICK i \in DOMAIN t : t[i].hypothesis = library[m].hypothesis /\ (t[i].doc = m \/ Imported(m, i, work))
      BY <1>1, <1>3, <2>1 DEF ImportedOnce, AllRecorded, Recorded
    <2>4. PICK k \in DOMAIN t : t[k].hypothesis = library[n].hypothesis /\ (t[k].doc = n \/ Imported(n, k, work))
      BY <1>1, <1>3, <2>1 DEF ImportedOnce, AllRecorded, Recorded
    <2>5. i = k
      BY <1>3, <2>2, <2>3, <2>4 DEF Distinct
    <2>6. m # 0 /\ n # 0
      BY <1>1 DEF AgentTypeOK
    <2>7. ASSUME NEW p, Imported(p, i, work) PROVE t[i].doc = 0
      <3>1. PICK v \in Handler : work[v].at = "imported" /\ work[v].id = i
        BY <2>7 DEF Imported
      <3>2. HeldAs(work[v], t)
        BY <1>1, <1>3, <2>1 DEF AsRead
      <3> QED BY <3>1, <3>2 DEF HeldAs, AtCandidate
    <2>8. ASSUME Imported(m, i, work), Imported(n, i, work) PROVE m = n
      <3>1. PICK v \in Handler : work[v].at = "imported" /\ work[v].candidate.doc = m
        BY <2>8 DEF Imported
      <3>2. PICK u \in Handler : work[u].at = "imported" /\ work[u].candidate.doc = n
        BY <2>8 DEF Imported
      <3>3. work[v] # NoWork /\ work[u] # NoWork
        BY <3>1, <3>2 DEF NoWork
      <3>4. v \in agent.threads
        BY <1>1, <3>3 DEF Threads
      <3>5. u = v
        BY <1>1, <1>3, <3>3, <3>4, Sole
      <3> QED BY <3>1, <3>2, <3>5
    <2> QED BY <2>3, <2>4, <2>5, <2>6, <2>7, <2>8
  <1> QED BY <1>2, <1>3 DEF KnowledgeIsEarned

(* Every document in the knowledge base comes from a report an expert        *)
(* accepted with a cause and from a candidate an expert approved, whatever   *)
(* overlaps and is stopped; in turn, a candidate is imported once until the  *)
(* process stops, an answer is lost or a second review is written            *)
(* (app.py, review_report to import_candidate).                              *)
THEOREM KnowledgeFromExperts == AgentSpec => []KnowledgeIsEarned
  <1> DEFINE Inv == AgentTypeOK /\ Threads /\ Earned /\ Numbered /\ AsRead /\ ImportedOnce
  <1>1. AgentInit => Inv
    <2>1. SUFFICES ASSUME AgentInit PROVE Inv
      OBVIOUS
    <2>2. /\ mem.candidate = << >> /\ disk.candidate = << >> /\ library = << >> /\ count.candidate = 0
          /\ \A w \in Handler : work[w] = NoWork
      BY <2>1 DEF AgentInit, Empty, Zero
    <2>3. AgentTypeOK
      BY <2>1, AgentInitTypes
    <2>4. Threads /\ Numbered /\ AsRead
      BY <2>2 DEF Threads, Numbered, Below, AsRead, HeldAs, NoWork, AtCandidate
    <2>5. Earned
      BY <2>2 DEF Earned, EarnedTable, EarnedWork, EarnedLibrary, NoWork
    <2>6. ImportedOnce
      BY <2>2, TodoFacts DEF ImportedOnce, NothingBefore, OneReport, AllRecorded, Distinct, Apart
    <2> QED BY <2>3, <2>4, <2>5, <2>6
  <1>2. Inv /\ [AgentNext]_agentVars => Inv'
    BY AgentTypesKept, ThreadsKept, EarnedKept, NumberedKept, AsReadKept, ImportedOnceKept
  <1>3. Inv => KnowledgeIsEarned
    BY EarnedAndOnce
  <1> QED BY <1>1, <1>2, <1>3, PTL DEF AgentSpec

-----------------------------------------------------------------------------
(* A run and its report have one number and say the same, until a restart. *)
Paired ==
    stops = 0 =>
        /\ count.run = count.report
        /\ \A i \in DOMAIN mem.report : /\ i \in DOMAIN mem.run /\ mem.report[i].run = i
                                        /\ Told(mem.run[i].status, mem.report[i].review)
        /\ \A i \in DOMAIN mem.run : i \in DOMAIN mem.report /\ mem.run[i].report = i

PairedTables(runs, reports) ==
    /\ \A i \in DOMAIN reports : /\ i \in DOMAIN runs /\ reports[i].run = i
                                 /\ Told(runs[i].status, reports[i].review)
    /\ \A i \in DOMAIN runs : i \in DOMAIN reports /\ runs[i].report = i

LEMMA PairedBy == Paired <=> (stops = 0 => count.run = count.report /\ PairedTables(mem.run, mem.report))
  BY DEF Paired, PairedTables

LEMMA RunsUntouched ==
    ASSUME AgentTypeOK, NEW w \in Handler,
           \/ Build(w) \/ KeepIncident(w) \/ StartRun(w) \/ CollectEvidence(w) \/ SaveReport(w)
           \/ GenerateCandidate(w) \/ DecideCandidate(w) \/ KeepDecision(w)
           \/ ImportCandidate(w) \/ CallKnowledgeApi(w) \/ KeepImport(w)
           \/ PostSummary(w) \/ RecordWriteback(w)
    PROVE  /\ mem'.run = mem.run /\ mem'.report = mem.report
           /\ count.run = count.report => count'.run = count'.report
  <1>0. mem \in Objects
    BY DEF AgentTypeOK
  <1>1. CASE StartRun(w) \/ CollectEvidence(w)
    <2>1. mem' = mem /\ count' = [count EXCEPT !.run = @ + 1, !.report = @ + 1]
      BY <1>1 DEF StartRun, CollectEvidence
    <2>2. count'.run = count.run + 1 /\ count'.report = count.report + 1
      <3>1. 0 \in Nat
        OBVIOUS
      <3> QED BY <2>1, <3>1, CountTypes
    <2> QED BY <2>1, <2>2
  <1>2. CASE \/ SaveReport(w) \/ DecideCandidate(w) \/ ImportCandidate(w)
             \/ CallKnowledgeApi(w) \/ PostSummary(w) \/ RecordWriteback(w)
    <2>1. mem' = mem /\ count' = count
      BY <1>2 DEF SaveReport, DecideCandidate, ImportCandidate, CallKnowledgeApi, PostSummary, RecordWriteback
    <2> QED BY <2>1
  <1>3. CASE Build(w)
    <2>1. PICK j \in Keeping : count' = [count EXCEPT !.incident = @ + Len(j.groups)] /\ mem' = mem
      BY <1>3, BuildDoes
    <2>2. Len(j.groups) \in Nat
      BY DEF Keeping
    <2>3. count'.run = count.run /\ count'.report = count.report
      BY <2>1, <2>2, CountTypes
    <2> QED BY <2>1, <2>3
  <1>4. CASE KeepIncident(w)
    <2>1. PICK id, x : mem' = Put(mem, "incident", id, x) /\ count' = count
      BY <1>4, KeepIncidentDoes
    <2> QED BY <1>0, <2>1, PutFields
  <1>5. CASE GenerateCandidate(w)
    <2>1. PICK id \in Nat, c \in Candidate :
              mem' = Put(mem, "candidate", id, c) /\ count' = [count EXCEPT !.candidate = id]
      BY <1>5, GenerateCandidateDoes
    <2>2. count'.run = count.run /\ count'.report = count.report
      BY <2>1, CountTypes
    <2> QED BY <1>0, <2>1, <2>2, PutFields
  <1>6. CASE KeepDecision(w) \/ KeepImport(w)
    <2>1. PICK id, c : mem' = Put(mem, "candidate", id, c) /\ count' = count
      BY <1>6 DEF KeepDecision, KeepImport
    <2> QED BY <1>0, <2>1, PutFields
  <1> QED BY <1>1, <1>2, <1>3, <1>4, <1>5, <1>6

(* Both rows are replaced, or both are new.                                *)
LEMMA PairedWith ==
    ASSUME NEW runs, NEW reports, PairedTables(runs, reports), NEW i, NEW run, NEW report,
           run.report = i, report.run = i, Told(run.status, report.review)
    PROVE  PairedTables(With(runs, i, run), With(reports, i, report))
  <1>1. PICK p, q : p = With(runs, i, run) /\ q = With(reports, i, report)
    OBVIOUS
  <1>2. /\ DOMAIN p = DOMAIN runs \cup {i} /\ p[i] = run /\ \A k \in DOMAIN runs : k # i => p[k] = runs[k]
        /\ DOMAIN q = DOMAIN reports \cup {i} /\ q[i] = report /\ \A k \in DOMAIN reports : k # i => q[k] = reports[k]
    BY <1>1 DEF With
  <1>3. PairedTables(p, q)
    BY <1>2 DEF PairedTables
  <1> QED BY <1>1, <1>3

LEMMA PairedKept == AgentTypeOK /\ Paired /\ [AgentNext]_agentVars => Paired'
  <1>1. SUFFICES ASSUME AgentTypeOK, Paired, [AgentNext]_agentVars, stops' = 0
                 PROVE  count'.run = count'.report /\ PairedTables(mem'.run, mem'.report)
    BY DEF Paired, PairedTables
  <1>2. ~RestartAgent
    BY <1>1, RestartDoes
  <1>3. stops = 0
    <2>1. ASSUME NEW w \in Handler,
                 \/ Build(w) \/ KeepIncident(w)
                 \/ StartRun(w) \/ CollectEvidence(w) \/ KeepRun(w) \/ SaveReport(w)
                 \/ ReviewReport(w) \/ GenerateCandidate(w) \/ ResumeWithMoreEvidence(w)
                 \/ DecideCandidate(w) \/ KeepDecision(w)
                 \/ ImportCandidate(w) \/ CallKnowledgeApi(w) \/ KeepImport(w)
                 \/ PostSummary(w) \/ RecordWriteback(w)
          PROVE  stops' = stops
      BY ZenonT(40), <2>1 DEF Build, KeepIncident, StartRun, CollectEvidence, KeepRun, SaveReport, ReviewReport,
                  GenerateCandidate, ResumeWithMoreEvidence, DecideCandidate, KeepDecision,
                  ImportCandidate, CallKnowledgeApi, KeepImport, PostSummary, RecordWriteback
    <2> QED BY <1>1, <1>2, <2>1 DEF AgentNext, agentVars
  <1>4. mem \in Objects /\ count.run = count.report /\ PairedTables(mem.run, mem.report)
    BY <1>1, <1>3, PairedBy DEF AgentTypeOK
  <1>5. CASE UNCHANGED agentVars
    BY <1>4, <1>5 DEF agentVars
  <1>6. ASSUME NEW w \in Handler,
               \/ Build(w) \/ KeepIncident(w) \/ StartRun(w) \/ CollectEvidence(w) \/ SaveReport(w)
               \/ GenerateCandidate(w) \/ DecideCandidate(w) \/ KeepDecision(w)
               \/ ImportCandidate(w) \/ CallKnowledgeApi(w) \/ KeepImport(w)
               \/ PostSummary(w) \/ RecordWriteback(w)
        PROVE  count'.run = count'.report /\ PairedTables(mem'.run, mem'.report)
    BY <1>1, <1>4, <1>6, RunsUntouched
  <1>7. ASSUME NEW w \in Handler, KeepRun(w)
        PROVE  count'.run = count'.report /\ PairedTables(mem'.run, mem'.report)
    <2>1. PICK n \in Nat, run \in RcaRun, report \in Report :
               /\ n = count.run /\ run.report = n /\ report.run = n
               /\ Told(run.status, report.review)
               /\ mem' = Put(Put(mem, "run", n, run), "report", n, report) /\ UNCHANGED count
      BY <1>1, <1>4, <1>7, KeepRunDoes
    <2>2. Put(mem, "run", n, run) \in Objects
      BY <1>4, PutTypes
    <2>3. mem'.run = With(mem.run, n, run) /\ mem'.report = With(mem.report, n, report)
      BY <1>4, <2>1, <2>2, PutFields
    <2> QED BY <1>4, <2>1, <2>3, PairedWith
  <1>8. ASSUME NEW w \in Handler, ReviewReport(w)
        PROVE  count'.run = count'.report /\ PairedTables(mem'.run, mem'.report)
    <2>1. PICK id \in DOMAIN mem.report, report \in Report :
               /\ report.run = mem.report[id].run
               /\ \/ \E run \in RcaRun :
                         /\ report.run \in DOMAIN mem.run
                         /\ run.report = mem.run[report.run].report /\ Told(run.status, report.review)
                         /\ mem' = Put(Put(mem, "report", id, report), "run", report.run, run)
                  \/ report.run \notin DOMAIN mem.run
               /\ UNCHANGED count
      BY <1>1, <1>8, ReviewReportDoes
    <2>2. id \in DOMAIN mem.run /\ report.run = id /\ mem.run[id].report = id /\ id \in Nat
      BY <1>1, <1>4, <2>1, MemRows DEF PairedTables
    <2>3. PICK run \in RcaRun :
               /\ run.report = id /\ Told(run.status, report.review)
               /\ mem' = Put(Put(mem, "report", id, report), "run", id, run)
      BY <2>1, <2>2
    <2>4. Put(mem, "report", id, report) \in Objects
      BY <1>4, <2>2, PutTypes
    <2>5. mem'.run = With(mem.run, id, run) /\ mem'.report = With(mem.report, id, report)
      BY <1>4, <2>3, <2>4, PutFields
    <2> QED BY <1>4, <2>1, <2>2, <2>3, <2>5, PairedWith
  <1>9. ASSUME NEW w \in Handler, ResumeWithMoreEvidence(w)
        PROVE  count'.run = count'.report /\ PairedTables(mem'.run, mem'.report)
    <2>1. PICK id \in DOMAIN mem.run, run \in RcaRun, report \in Report :
               /\ run.report = mem.run[id].report /\ run.report \in DOMAIN mem.report
               /\ report.run = mem.report[run.report].run
               /\ Told(run.status, report.review)
               /\ mem' = Put(Put(mem, "run", id, run), "report", run.report, report)
               /\ UNCHANGED count
      BY <1>1, <1>9, ResumeDoes
    <2>2. run.report = id /\ report.run = id /\ id \in Nat
      BY <1>1, <1>4, <2>1, MemRows DEF PairedTables
    <2>3. Put(mem, "run", id, run) \in Objects
      BY <1>4, <2>2, PutTypes
    <2>4. mem'.run = With(mem.run, id, run) /\ mem'.report = With(mem.report, id, report)
      BY <1>4, <2>1, <2>2, <2>3, PutFields
    <2> QED BY <1>4, <2>1, <2>2, <2>4, PairedWith
  <1> QED BY <1>1, <1>2, <1>5, <1>6, <1>7, <1>8, <1>9 DEF AgentNext

-----------------------------------------------------------------------------
(* With one thread on SQLite: what is in memory is on disk, but for the    *)
(* report whose row is to be written, and new numbers are free.            *)
KeptAt(j, m, d, c) ==
    /\ m = IF j.at = "save_report" THEN Put(d, "report", j.id, j.report) ELSE d
    /\ Below(m.incident, c.incident) /\ Below(m.run, c.run) /\ Below(m.report, c.report)
    /\ j.at = "keep" => Below(m.incident, j.next - 1) /\ j.next + Len(j.groups) - 1 <= c.incident
    /\ j.at \in {"evidence", "keep_run"} => Below(m.run, c.run - 1) /\ Below(m.report, c.report - 1)
    /\ j.at = "save_report" /\ j.id \in DOMAIN d.report => d.report[j.id].incident = j.report.incident

InStep == OneHandler /\ Sqlite => \A w \in agent.threads : KeptAt(work[w], mem, disk, count)

LEMMA TableNumbers ==
    ASSUME AgentTypeOK
    PROVE  /\ mem \in Objects /\ disk \in Objects
           /\ \A i \in DOMAIN mem.incident : i \in Nat /\ mem.incident[i] \in Incident
           /\ \A i \in DOMAIN mem.run : i \in Nat /\ mem.run[i] \in RcaRun
           /\ \A i \in DOMAIN mem.report : i \in Nat /\ mem.report[i] \in Report
           /\ \A i \in DOMAIN mem.candidate : i \in Nat /\ mem.candidate[i] \in Candidate
           /\ count.incident \in Nat /\ count.run \in Nat /\ count.report \in Nat /\ count.candidate \in Nat
  <1>1. mem \in Objects /\ disk \in Objects
    BY DEF AgentTypeOK
  <1>2. /\ mem.incident \in Table(Incident) /\ mem.run \in Table(RcaRun) /\ mem.report \in Table(Report)
        /\ mem.candidate \in Table(Candidate)
    BY <1>1, ObjectFields
  <1>3. count.incident \in Nat /\ count.run \in Nat /\ count.report \in Nat /\ count.candidate \in Nat
    BY DEF AgentTypeOK
  <1> QED BY <1>1, <1>2, <1>3, TableFacts

LEMMA BelowWith ==
    ASSUME NEW t, NEW n, Below(t, n), NEW id, id <= n, NEW x
    PROVE  Below(With(t, id, x), n)
  BY DEF Below, With

LEMMA BelowMore ==
    ASSUME NEW t, \A i \in DOMAIN t : i \in Nat, NEW n \in Int, NEW m \in Int, n <= m, Below(t, n)
    PROVE  Below(t, m)
  BY DEF Below

(* Rows of two kinds may be written in either order.                       *)
LEMMA PutsCommute ==
    ASSUME NEW o \in Objects, NEW i \in Nat, NEW k \in Nat, NEW run \in RcaRun, NEW report \in Report
    PROVE  Put(Put(o, "report", k, report), "run", i, run) = Put(Put(o, "run", i, run), "report", k, report)
  <1>1. PICK p \in Objects : p = Put(o, "report", k, report)
    BY PutTypes
  <1>2. PICK q \in Objects : q = Put(o, "run", i, run)
    BY PutTypes
  <1>3. p = [incident |-> o.incident, run |-> o.run, report |-> With(o.report, k, report), candidate |-> o.candidate]
    BY <1>1, PutShapes
  <1>4. q = [incident |-> o.incident, run |-> With(o.run, i, run), report |-> o.report, candidate |-> o.candidate]
    BY <1>2, PutShapes
  <1>5. Put(p, "run", i, run) = [incident |-> p.incident, run |-> With(p.run, i, run),
                                 report |-> p.report, candidate |-> p.candidate]
    BY PutShapes
  <1>6. Put(q, "report", k, report) = [incident |-> q.incident, run |-> q.run,
                                       report |-> With(q.report, k, report), candidate |-> q.candidate]
    BY PutShapes
  <1>7. /\ p.incident = o.incident /\ p.run = o.run /\ p.report = With(o.report, k, report) /\ p.candidate = o.candidate
        /\ q.incident = o.incident /\ q.run = With(o.run, i, run) /\ q.report = o.report /\ q.candidate = o.candidate
    BY <1>3, <1>4
  <1>8. Put(p, "run", i, run) = Put(q, "report", k, report)
    BY <1>5, <1>6, <1>7
  <1> QED BY <1>1, <1>2, <1>8

(* The work that is neither numbered nor a report to be saved.             *)
LEMMA KeptPlainly ==
    ASSUME NEW j, NEW m, NEW c, j.at \notin {"keep", "evidence", "keep_run", "save_report"},
           Below(m.incident, c.incident), Below(m.run, c.run), Below(m.report, c.report)
    PROVE  KeptAt(j, m, m, c)
  BY DEF KeptAt

LEMMA InStepIncidents ==
    ASSUME AgentTypeOK, NEW w \in Handler, KeptAt(work[w], mem, disk, count),
           Build(w) \/ KeepIncident(w)
    PROVE  KeptAt(work'[w], mem', disk', count')
  <1>0. /\ mem \in Objects /\ count.incident \in Nat /\ count.run \in Nat /\ count.report \in Nat
        /\ \A i \in DOMAIN mem.incident : i \in Nat
    BY TableNumbers
  <1>1. Below(mem.incident, count.incident) /\ Below(mem.run, count.run) /\ Below(mem.report, count.report)
    BY DEF KeptAt
  <1>2. CASE Build(w)
    <2>1. PICK j \in Keeping :
               /\ work' = [work EXCEPT ![w] = j] /\ work[w] = NoWork
               /\ j.next = count.incident + 1
               /\ count' = [count EXCEPT !.incident = @ + Len(j.groups)]
               /\ UNCHANGED <<mem, disk>>
      BY <1>2, BuildDoes
    <2>2. PICK n \in Nat : n = Len(j.groups)
      BY DEF Keeping
    <2>3. count'.incident = count.incident + n /\ count'.run = count.run /\ count'.report = count.report
      BY <2>1, <2>2, CountTypes
    <2>4. work'[w] = j /\ j.at = "keep"
      BY <2>1 DEF AgentTypeOK, Keeping
    <2>5. mem = disk
      BY <2>1 DEF KeptAt, NoWork
    <2>6. Below(mem.incident, count'.incident)
      BY <1>0, <1>1, <2>3, BelowMore
    <2>7. Below(mem.incident, j.next - 1) /\ j.next + Len(j.groups) - 1 <= count'.incident
      BY SMTT(30), <1>0, <1>1, <2>1, <2>2, <2>3
    <2> QED BY <1>1, <2>1, <2>3, <2>4, <2>5, <2>6, <2>7 DEF KeptAt
  <1>3. CASE KeepIncident(w)
    <2>1. PICK j \in Keeping, x \in Incident, next \in Work :
               /\ j = work[w] /\ work' = [work EXCEPT ![w] = next]
               /\ mem' = Put(mem, "incident", j.next, x) /\ disk' = Put(disk, "incident", j.next, x)
               /\ \/ next \in Keeping /\ next.next = j.next + 1 /\ Len(next.groups) = Len(j.groups) - 1
                  \/ next = NoWork
               /\ UNCHANGED count
      BY <1>3, KeepIncidentDoes
    <2>2. j.at = "keep" /\ j.next \in Nat /\ j.groups # << >> /\ Len(j.groups) \in Nat
      BY DEF Keeping
    <2>3. mem = disk /\ Below(mem.incident, j.next - 1) /\ j.next + Len(j.groups) - 1 <= count.incident
      BY <2>1, <2>2 DEF KeptAt
    <2>4. Len(j.groups) >= 1
      BY DEF Keeping
    <2>5. Below(mem.incident, j.next)
      BY <1>0, <2>2, <2>3, BelowMore
    <2>6. Below(With(mem.incident, j.next, x), j.next) /\ Below(With(mem.incident, j.next, x), count.incident)
      <3>1. j.next <= j.next /\ j.next <= count.incident
        BY <1>0, <2>2, <2>3, <2>4
      <3> QED BY <1>1, <2>5, <3>1, BelowWith
    <2>7. /\ mem'.incident = With(mem.incident, j.next, x) /\ mem'.run = mem.run /\ mem'.report = mem.report
      BY <1>0, <2>1, PutFields
    <2>8. work'[w] = next /\ mem' = disk'
      BY <2>1, <2>3 DEF AgentTypeOK
    <2>9. /\ Below(mem'.incident, count'.incident) /\ Below(mem'.run, count'.run) /\ Below(mem'.report, count'.report)
      BY <1>1, <2>1, <2>6, <2>7
    <2>10. CASE next = NoWork
      <3>1. next.at \notin {"keep", "evidence", "keep_run", "save_report"}
        BY <2>10 DEF NoWork
      <3> QED BY <2>8, <2>9, <3>1, KeptPlainly
    <2>11. CASE next \in Keeping /\ next.next = j.next + 1 /\ Len(next.groups) = Len(j.groups) - 1
      <3>1. next.at = "keep"
        BY <2>11 DEF Keeping
      <3>2. next.next - 1 = j.next /\ next.next + Len(next.groups) - 1 = j.next + Len(j.groups) - 1
        BY <2>2, <2>11
      <3>3. Below(mem'.incident, next.next - 1) /\ next.next + Len(next.groups) - 1 <= count'.incident
        BY <2>1, <2>3, <2>6, <2>7, <3>2
      <3> QED BY <2>8, <2>9, <3>1, <3>3 DEF KeptAt
    <2> QED BY <2>1, <2>10, <2>11
  <1> QED BY <1>2, <1>3

LEMMA InStepRuns ==
    ASSUME AgentTypeOK, NEW w \in Handler, KeptAt(work[w], mem, disk, count),
           StartRun(w) \/ CollectEvidence(w) \/ KeepRun(w) \/ SaveReport(w)
    PROVE  KeptAt(work'[w], mem', disk', count')
  <1>0. /\ mem \in Objects /\ disk \in Objects /\ count.incident \in Nat /\ count.run \in Nat /\ count.report \in Nat
        /\ \A i \in DOMAIN mem.run : i \in Nat
        /\ \A i \in DOMAIN mem.report : i \in Nat
    BY TableNumbers
  <1>1. Below(mem.incident, count.incident) /\ Below(mem.run, count.run) /\ Below(mem.report, count.report)
    BY DEF KeptAt
  <1>2. CASE StartRun(w) \/ CollectEvidence(w)
    <2>1. PICK j \in Running :
               /\ work[w].at # "save_report" /\ work' = [work EXCEPT ![w] = j]
               /\ count' = [count EXCEPT !.run = @ + 1, !.report = @ + 1]
               /\ UNCHANGED <<mem, disk>>
      <3>1. CASE StartRun(w)
        BY <3>1, StartRunDoes DEF NoWork
      <3>2. CASE CollectEvidence(w)
        BY <3>2, CollectEvidenceDoes
      <3> QED BY <1>2, <3>1, <3>2
    <2>2. count'.run = count.run + 1 /\ count'.report = count.report + 1 /\ count'.incident = count.incident
      <3>1. 0 \in Nat
        OBVIOUS
      <3> QED BY <2>1, <3>1, CountTypes
    <2>3. work'[w] = j /\ j.at \in {"evidence", "keep_run"}
      BY <2>1 DEF AgentTypeOK, Running
    <2>4. mem = disk
      BY <2>1 DEF KeptAt
    <2>5. /\ Below(mem.run, count'.run) /\ Below(mem.run, count'.run - 1)
          /\ Below(mem.report, count'.report) /\ Below(mem.report, count'.report - 1)
      BY <1>0, <1>1, <2>2, BelowMore
    <2> QED BY <1>1, <2>1, <2>2, <2>3, <2>4, <2>5 DEF KeptAt
  <1>3. CASE KeepRun(w)
    <2>1. PICK n \in Nat, m \in Nat, run \in RcaRun, report \in Report, j \in Saving :
               /\ work[w].at = "keep_run" /\ n = count.run /\ m = count.report
               /\ j = [at |-> "save_report", id |-> m, report |-> report, todo |-> {}]
               /\ work' = [work EXCEPT ![w] = j]
               /\ mem' = Put(Put(mem, "run", n, run), "report", m, report)
               /\ disk' = Put(disk, "run", n, run)
               /\ UNCHANGED count
      BY ONLY AgentTypeOK, w \in Handler, <1>3, KeepRunDoes
    <2>2. mem = disk /\ Below(mem.report, m - 1)
      BY <2>1 DEF KeptAt
    <2>3. work'[w] = j /\ mem' = Put(disk', "report", m, report)
      BY <2>1, <2>2 DEF AgentTypeOK
    <2>4. PICK p \in Objects : p = Put(mem, "run", n, run)
      BY <1>0, PutTypes
    <2>5. p.run = With(mem.run, n, run) /\ p.report = mem.report /\ p.incident = mem.incident
      BY <1>0, <2>4, PutFields
    <2>6. mem'.run = With(mem.run, n, run) /\ mem'.report = With(mem.report, m, report) /\ mem'.incident = mem.incident
      BY <2>1, <2>4, <2>5, PutFields
    <2>7. Below(mem'.run, count'.run) /\ Below(mem'.report, count'.report) /\ Below(mem'.incident, count'.incident)
      <3>1. n <= n /\ m <= m
        OBVIOUS
      <3> QED BY <1>1, <2>1, <2>6, <3>1, BelowWith
    <2>8. m \notin DOMAIN disk'.report
      <3>1. disk'.report = mem.report
        BY <2>1, <2>2, <2>4, <2>5
      <3> QED BY <1>0, <2>2, <3>1 DEF Below
    <2> QED BY <2>1, <2>3, <2>7, <2>8 DEF KeptAt
  <1>4. CASE SaveReport(w)
    <2>1. PICK j \in Saving, next \in Work :
               /\ j = work[w] /\ j.at = "save_report" /\ disk' = Put(disk, "report", j.id, j.report)
               /\ next = NoWork \/ next.at = "generate"
               /\ work' = [work EXCEPT ![w] = next]
               /\ UNCHANGED <<mem, count>>
      BY <1>4, SaveReportDoes
    <2>2. disk' = mem'
      BY <2>1 DEF KeptAt
    <2>3. work'[w] = next /\ next.at \notin {"keep", "evidence", "keep_run", "save_report"}
      BY <2>1 DEF AgentTypeOK, NoWork
    <2> QED BY <1>1, <2>1, <2>2, <2>3, KeptPlainly
  <1> QED BY <1>2, <1>3, <1>4

(* A report that is known is replaced, and its run.                        *)
LEMMA ReportReplaced ==
    ASSUME AgentTypeOK, NEW w \in Handler, KeptAt(work[w], mem, disk, count), work[w] = NoWork,
           NEW i \in Nat, NEW id \in DOMAIN mem.report, NEW run \in RcaRun, NEW report \in Report,
           NEW j, j.at = "save_report", j.id = id, j.report = report, work'[w] = j,
           i \in DOMAIN mem.run, report.incident = mem.report[id].incident,
           mem' = Put(Put(mem, "run", i, run), "report", id, report), disk' = Put(disk, "run", i, run),
           UNCHANGED count
    PROVE  KeptAt(work'[w], mem', disk', count')
  <1>0. mem \in Objects /\ id \in Nat
    BY TableNumbers
  <1>1. /\ Below(mem.incident, count.incident) /\ Below(mem.run, count.run) /\ Below(mem.report, count.report)
        /\ mem = disk
    BY DEF KeptAt, NoWork
  <1>2. PICK p \in Objects : p = Put(mem, "run", i, run)
    BY <1>0, PutTypes
  <1>3. p.run = With(mem.run, i, run) /\ p.report = mem.report /\ p.incident = mem.incident
    BY <1>0, <1>2, PutFields
  <1>4. mem'.run = With(mem.run, i, run) /\ mem'.report = With(mem.report, id, report) /\ mem'.incident = mem.incident
    BY <1>2, <1>3, PutFields
  <1>5. Below(mem'.run, count'.run) /\ Below(mem'.report, count'.report) /\ Below(mem'.incident, count'.incident)
    <2>1. i <= count.run /\ id <= count.report
      BY <1>1 DEF Below
    <2> QED BY <1>1, <1>4, <2>1, BelowWith
  <1>6. disk' = p /\ mem' = Put(disk', "report", id, report)
    BY <1>1, <1>2
  <1>7. disk'.report[id].incident = report.incident
    BY <1>3, <1>6
  <1> QED BY <1>5, <1>6, <1>7 DEF KeptAt

LEMMA InStepReviews ==
    ASSUME AgentTypeOK, NEW w \in Handler, KeptAt(work[w], mem, disk, count),
           ReviewReport(w) \/ ResumeWithMoreEvidence(w)
    PROVE  KeptAt(work'[w], mem', disk', count')
  <1>0. mem \in Objects /\ disk \in Objects
    BY TableNumbers
  <1>1. CASE ReviewReport(w)
    <2>1. PICK id \in DOMAIN mem.report, report \in Report, j \in Saving :
               /\ j = [at |-> "save_report", id |-> id, report |-> report, todo |-> j.todo]
               /\ work[w] = NoWork /\ work' = [work EXCEPT ![w] = j]
               /\ report.incident = mem.report[id].incident
               /\ \/ \E run \in RcaRun :
                         /\ report.run \in DOMAIN mem.run
                         /\ mem' = Put(Put(mem, "report", id, report), "run", report.run, run)
                         /\ disk' = Put(disk, "run", report.run, run)
                  \/ mem' = Put(mem, "report", id, report) /\ disk' = disk
               /\ UNCHANGED count
      BY <1>1, ReviewReportDoes
    <2>2. PICK i \in Nat : i = report.run
      BY DEF Report
    <2>3. id \in Nat /\ work'[w] = j
      BY <2>1, MemRows DEF AgentTypeOK
    <2>4. j.at = "save_report" /\ j.id = id /\ j.report = report
      BY <2>1
    <2>5. ASSUME NEW run \in RcaRun, i \in DOMAIN mem.run,
                 mem' = Put(Put(mem, "report", id, report), "run", i, run),
                 disk' = Put(disk, "run", i, run)
          PROVE  KeptAt(work'[w], mem', disk', count')
      <3>1. mem' = Put(Put(mem, "run", i, run), "report", id, report)
        BY <1>0, <2>3, <2>5, PutsCommute
      <3> QED BY <2>1, <2>3, <2>4, <2>5, <3>1, ReportReplaced
    <2>6. CASE mem' = Put(mem, "report", id, report) /\ disk' = disk
      <3>1. /\ Below(mem.incident, count.incident) /\ Below(mem.run, count.run) /\ Below(mem.report, count.report)
            /\ mem = disk
        BY <2>1 DEF KeptAt, NoWork
      <3>2. mem'.run = mem.run /\ mem'.report = With(mem.report, id, report) /\ mem'.incident = mem.incident
        BY <1>0, <2>6, PutFields
      <3>3. id <= count.report
        BY <3>1 DEF Below
      <3>4. Below(mem'.run, count'.run) /\ Below(mem'.report, count'.report) /\ Below(mem'.incident, count'.incident)
        BY <2>1, <3>1, <3>2, <3>3, BelowWith
      <3>5. mem' = Put(disk', "report", id, report) /\ disk'.report[id].incident = report.incident
        BY <2>1, <2>6, <3>1
      <3> QED BY <2>3, <2>4, <3>4, <3>5 DEF KeptAt
    <2> QED BY <2>1, <2>2, <2>5, <2>6
  <1>2. CASE ResumeWithMoreEvidence(w)
    <2>1. PICK i \in DOMAIN mem.run, run \in RcaRun, report \in Report, j \in Saving :
               /\ j = [at |-> "save_report", id |-> run.report, report |-> report, todo |-> {}]
               /\ work[w] = NoWork /\ work' = [work EXCEPT ![w] = j]
               /\ run.report \in DOMAIN mem.report
               /\ report.incident = mem.report[run.report].incident
               /\ mem' = Put(Put(mem, "run", i, run), "report", run.report, report)
               /\ disk' = Put(disk, "run", i, run)
               /\ UNCHANGED count
      BY <1>2, ResumeDoes
    <2>2. PICK id \in DOMAIN mem.report : id = run.report
      BY <2>1
    <2>3. i \in Nat /\ work'[w] = j
      BY <2>1, MemRows DEF AgentTypeOK
    <2>4. j.at = "save_report" /\ j.id = id /\ j.report = report
      BY <2>1, <2>2
    <2> QED BY <2>1, <2>2, <2>3, <2>4, ReportReplaced
  <1> QED BY <1>1, <1>2

LEMMA InStepCandidates ==
    ASSUME AgentTypeOK, Sqlite, NEW w \in Handler, KeptAt(work[w], mem, disk, count),
           \/ GenerateCandidate(w) \/ DecideCandidate(w) \/ KeepDecision(w)
           \/ ImportCandidate(w) \/ CallKnowledgeApi(w) \/ KeepImport(w)
           \/ PostSummary(w) \/ RecordWriteback(w)
    PROVE  KeptAt(work'[w], mem', disk', count')
  <1>0. mem \in Objects
    BY TableNumbers
  <1> DEFINE Settles(j) == /\ work' = [work EXCEPT ![w] = j] /\ work[w].at # "save_report"
                           /\ j.at \notin {"keep", "evidence", "keep_run", "save_report"}
             Writes == \E id, c : mem' = Put(mem, "candidate", id, c) /\ disk' = Put(disk, "candidate", id, c)
             Counts == count'.incident = count.incident /\ count'.run = count.run /\ count'.report = count.report
  <1>1. /\ Below(mem.incident, count.incident) /\ Below(mem.run, count.run) /\ Below(mem.report, count.report)
    BY DEF KeptAt
  <1>2. ASSUME NEW j \in Work, Settles(j), (mem' = mem /\ disk' = disk) \/ Writes, Counts
        PROVE  KeptAt(work'[w], mem', disk', count')
    <2>1. work'[w] = j
      BY <1>2 DEF AgentTypeOK
    <2>2. mem = disk
      BY <1>2 DEF KeptAt
    <2>3. mem' = disk' /\ mem'.incident = mem.incident /\ mem'.run = mem.run /\ mem'.report = mem.report
      BY <1>0, <1>2, <2>2, PutFields
    <2> QED BY <1>1, <1>2, <2>1, <2>3, KeptPlainly
  <1>3. NoWork \in Work /\ NoWork.at = "free"
    BY DEF Work, NoWork
  <1>4. \A j : j \in Holding \cup Recording =>
                  j \in Work /\ j.at \notin {"keep", "evidence", "keep_run", "save_report"}
    BY DEF Work, Holding, Recording
  <1>5. CASE GenerateCandidate(w)
    <2>1. PICK id \in Nat, c \in Candidate, next \in Work :
               /\ work[w].at = "generate" /\ count' = [count EXCEPT !.candidate = id]
               /\ mem' = Put(mem, "candidate", id, c) /\ SaveCandidate(id, c)
               /\ work' = [work EXCEPT ![w] = next]
               /\ next = NoWork \/ next.at = "generate"
      BY <1>5, GenerateCandidateDoes
    <2>2. Counts
      BY <2>1, CountTypes
    <2>3. Settles(next)
      BY <1>3, <2>1
    <2>4. Writes
      BY <2>1, SaveCandidateDoes
    <2> QED BY <1>2, <2>2, <2>3, <2>4
  <1>6. CASE DecideCandidate(w) \/ ImportCandidate(w)
    <2>1. PICK j \in Holding : work[w] = NoWork /\ work' = [work EXCEPT ![w] = j] /\ UNCHANGED <<mem, disk, count>>
      BY <1>6, DecideCandidateDoes, ImportCandidateDoes
    <2>2. j \in Work /\ Settles(j)
      BY <1>3, <1>4, <2>1
    <2> QED BY <1>2, <2>1, <2>2
  <1>7. CASE KeepDecision(w) \/ KeepImport(w)
    <2>1. PICK j \in Holding :
               /\ j = work[w] /\ work' = [work EXCEPT ![w] = NoWork]
               /\ mem' = Put(mem, "candidate", j.id, j.candidate) /\ SaveCandidate(j.id, j.candidate)
               /\ UNCHANGED count
      BY <1>7, KeepDecisionDoes, KeepImportDoes
    <2>2. Settles(NoWork)
      BY <1>3, <1>4, <2>1
    <2>3. Writes
      BY <2>1, SaveCandidateDoes
    <2> QED BY <1>2, <1>3, <2>1, <2>2, <2>3
  <1>8. CASE CallKnowledgeApi(w)
    <2>1. PICK j \in Holding, next \in Work :
               /\ j = work[w] /\ work' = [work EXCEPT ![w] = next]
               /\ next \in Holding \/ next = NoWork
               /\ UNCHANGED <<mem, disk, count>>
      BY <1>8, CallKnowledgeApiDoes
    <2>2. Settles(next)
      BY <1>3, <1>4, <2>1
    <2> QED BY <1>2, <2>1, <2>2
  <1>9. CASE PostSummary(w)
    <2>1. PICK j \in Recording : work[w] = NoWork /\ work' = [work EXCEPT ![w] = j] /\ UNCHANGED <<mem, disk, count>>
      BY <1>9, PostSummaryDoes
    <2>2. j \in Work /\ Settles(j)
      BY <1>3, <1>4, <2>1
    <2> QED BY <1>2, <2>1, <2>2
  <1>10. CASE RecordWriteback(w)
    <2>1. /\ work[w].at = "record" /\ work' = [work EXCEPT ![w] = NoWork] /\ UNCHANGED <<mem, disk, count>>
      BY <1>10, RecordWritebackDoes
    <2>2. Settles(NoWork)
      BY <1>3, <2>1
    <2> QED BY <1>2, <1>3, <2>1, <2>2
  <1> QED BY <1>5, <1>6, <1>7, <1>8, <1>9, <1>10

LEMMA InStepKept == AgentTypeOK /\ Threads /\ InStep /\ [AgentNext]_agentVars => InStep'
  <1>1. SUFFICES ASSUME AgentTypeOK, Threads, InStep, [AgentNext]_agentVars, OneHandler', Sqlite',
                        NEW v \in agent'.threads
                 PROVE  KeptAt(work'[v], mem', disk', count')
    BY DEF InStep
  <1>2. agent' = agent
    BY <1>1, HandlerSteps, RestartDoes DEF AgentNext, agentVars
  <1>3. OneHandler /\ Sqlite /\ v \in agent.threads /\ KeptAt(work[v], mem, disk, count)
    BY <1>1, <1>2 DEF OneHandler, Sqlite, InStep
  <1>4. agent.threads \subseteq Handler
    BY <1>1, AgentsAssumption DEF AgentTypeOK
  <1>5. CASE UNCHANGED agentVars
    BY <1>3, <1>5 DEF agentVars
  <1>6. CASE RestartAgent
    <2>1. /\ mem' = disk /\ disk' = disk /\ work'[v] = NoWork
          /\ Below(disk.incident, count'.incident) /\ Below(disk.run, count'.run)
          /\ Below(disk.report, count'.report)
      BY <1>1, <1>3, <1>4, <1>6, RestartDoes
    <2>2. NoWork.at \notin {"keep", "evidence", "keep_run", "save_report"}
      BY DEF NoWork
    <2> QED BY <2>1, <2>2, KeptPlainly
  <1>7. ASSUME NEW w \in Handler, w \in agent.threads,
               \/ Build(w) \/ KeepIncident(w)
               \/ StartRun(w) \/ CollectEvidence(w) \/ KeepRun(w) \/ SaveReport(w)
               \/ ReviewReport(w) \/ GenerateCandidate(w) \/ ResumeWithMoreEvidence(w)
               \/ DecideCandidate(w) \/ KeepDecision(w)
               \/ ImportCandidate(w) \/ CallKnowledgeApi(w) \/ KeepImport(w)
               \/ PostSummary(w) \/ RecordWriteback(w)
        PROVE  KeptAt(work'[v], mem', disk', count')
    <2>1. v = w
      <3>1. PICK T : T = agent.threads
        OBVIOUS
      <3>2. IsFiniteSet(T)
        BY <1>4, <3>1, HandlersAssumption, FS_Subset
      <3>3. \E x : T = {x}
        BY <1>3, <3>1, <3>2, FS_Singleton DEF OneHandler
      <3> QED BY <1>3, <1>7, <3>1, <3>3
    <2>2. KeptAt(work'[w], mem', disk', count')
      BY <1>1, <1>3, <1>7, <2>1, InStepIncidents, InStepRuns, InStepReviews, InStepCandidates
    <2> QED BY <2>1, <2>2
  <1> QED BY <1>1, <1>5, <1>6, <1>7, HandlerSteps DEF AgentNext

-----------------------------------------------------------------------------
(* Between two requests, memory is what a restart would read back.         *)
LEMMA AtRest == AgentTypeOK /\ Threads /\ InStep /\ Paired => DiskKeepsUp
  <1>1. SUFFICES ASSUME AgentTypeOK, Threads, InStep, Paired, Settled, OneHandler, Sqlite
                 PROVE  /\ mem = disk
                        /\ stops = 0 => \A id \in DOMAIN mem.report :
                                            Told(mem.run[mem.report[id].run].status, mem.report[id].review)
    BY DEF DiskKeepsUp
  <1>2. PICK w : w \in agent.threads
    <2>1. PICK T : T = agent.threads
      OBVIOUS
    <2>2. T # {}
      BY <1>1, <2>1, FS_EmptySet DEF OneHandler
    <2> QED BY <2>1, <2>2
  <1>3. w \in Handler
    BY <1>1, <1>2, AgentsAssumption DEF AgentTypeOK
  <1>4. mem = disk
    BY <1>1, <1>2, <1>3 DEF InStep, KeptAt, Settled, NoWork
  <1>5. stops = 0 => \A id \in DOMAIN mem.report : Told(mem.run[mem.report[id].run].status, mem.report[id].review)
    BY <1>1 DEF Paired
  <1> QED BY <1>4, <1>5

(* Who a row belongs to.                                                   *)
LEMMA Owners ==
    /\ \A x \in Incident : Owner(x) = x.alarms
    /\ \A x \in RcaRun \cup Report : Owner(x) = <<x.incident>>
  BY DEF Owner, Incident, RcaRun, Report

SameOwners(d, e) ==
    /\ \A k \in {"incident", "run", "report"} : \A id \in DOMAIN d[k] : Owner(e[k][id]) = Owner(d[k][id])
    /\ \A id \in DOMAIN d.candidate :
           /\ e.candidate[id].report = d.candidate[id].report
           /\ d.candidate[id].review # "pending" => e.candidate[id].review = d.candidate[id].review

LEMMA SameOwnersByKind ==
    ASSUME NEW d \in Objects, NEW e \in Objects,
           \A id \in DOMAIN d.incident : Owner(e.incident[id]) = Owner(d.incident[id]),
           \A id \in DOMAIN d.run : Owner(e.run[id]) = Owner(d.run[id]),
           \A id \in DOMAIN d.report : Owner(e.report[id]) = Owner(d.report[id]),
           \A id \in DOMAIN d.candidate :
               /\ e.candidate[id].report = d.candidate[id].report
               /\ d.candidate[id].review # "pending" => e.candidate[id].review = d.candidate[id].review
    PROVE  SameOwners(d, e)
  <1>1. \A o \in Objects : o["incident"] = o.incident /\ o["run"] = o.run /\ o["report"] = o.report
    OBVIOUS
  <1> QED BY <1>1 DEF SameOwners

LEMMA SameOwnersAlike == ASSUME NEW d PROVE SameOwners(d, d)
  BY DEF SameOwners

(* One row is written, which is new or goes on with its owner.             *)
LEMMA OneRowWritten ==
    ASSUME NEW d \in Objects, NEW id \in Nat
    PROVE  /\ \A x \in Incident : id \notin DOMAIN d.incident => SameOwners(d, Put(d, "incident", id, x))
           /\ \A x \in RcaRun : (id \in DOMAIN d.run => x.incident = d.run[id].incident)
                                    => SameOwners(d, Put(d, "run", id, x))
           /\ \A x \in Report : (id \in DOMAIN d.report => x.incident = d.report[id].incident)
                                    => SameOwners(d, Put(d, "report", id, x))
           /\ \A x \in Candidate :
                  (id \in DOMAIN d.candidate =>
                      /\ x.report = d.candidate[id].report
                      /\ d.candidate[id].review # "pending" => x.review = d.candidate[id].review)
                  => SameOwners(d, Put(d, "candidate", id, x))
  <1>0. /\ \A i \in DOMAIN d.run : d.run[i] \in RcaRun
        /\ \A i \in DOMAIN d.report : d.report[i] \in Report
    <2>1. d.run \in Table(RcaRun) /\ d.report \in Table(Report)
      BY ObjectFields
    <2> QED BY <2>1, TableFacts
  <1>1. ASSUME NEW x \in Incident, id \notin DOMAIN d.incident PROVE SameOwners(d, Put(d, "incident", id, x))
    <2>1. PICK e \in Objects : e = Put(d, "incident", id, x)
      BY PutTypes
    <2>2. e.incident = With(d.incident, id, x) /\ e.run = d.run /\ e.report = d.report /\ e.candidate = d.candidate
      BY <2>1, PutFields
    <2>3. \A i \in DOMAIN d.incident : Owner(e.incident[i]) = Owner(d.incident[i])
      BY <1>1, <2>2 DEF With
    <2> QED BY <2>1, <2>2, <2>3, SameOwnersByKind
  <1>2. ASSUME NEW x \in RcaRun, id \in DOMAIN d.run => x.incident = d.run[id].incident
        PROVE  SameOwners(d, Put(d, "run", id, x))
    <2>1. PICK e \in Objects : e = Put(d, "run", id, x)
      BY PutTypes
    <2>2. e.run = With(d.run, id, x) /\ e.incident = d.incident /\ e.report = d.report /\ e.candidate = d.candidate
      BY <2>1, PutFields
    <2>3. ASSUME NEW i \in DOMAIN d.run PROVE Owner(e.run[i]) = Owner(d.run[i])
      <3>1. CASE i # id
        BY <2>2, <3>1 DEF With
      <3>2. CASE i = id
        <4>1. e.run[i] = x /\ d.run[i] \in RcaRun /\ x.incident = d.run[i].incident
          BY <1>0, <1>2, <2>2, <3>2 DEF With
        <4>2. Owner(x) = <<x.incident>> /\ Owner(d.run[i]) = <<d.run[i].incident>>
          BY <1>2, <4>1, Owners
        <4> QED BY <4>1, <4>2
      <3> QED BY <3>1, <3>2
    <2> QED BY <2>1, <2>2, <2>3, SameOwnersByKind
  <1>3. ASSUME NEW x \in Report, id \in DOMAIN d.report => x.incident = d.report[id].incident
        PROVE  SameOwners(d, Put(d, "report", id, x))
    <2>1. PICK e \in Objects : e = Put(d, "report", id, x)
      BY PutTypes
    <2>2. e.report = With(d.report, id, x) /\ e.incident = d.incident /\ e.run = d.run /\ e.candidate = d.candidate
      BY <2>1, PutFields
    <2>3. ASSUME NEW i \in DOMAIN d.report PROVE Owner(e.report[i]) = Owner(d.report[i])
      <3>1. CASE i # id
        BY <2>2, <3>1 DEF With
      <3>2. CASE i = id
        <4>1. e.report[i] = x /\ d.report[i] \in Report /\ x.incident = d.report[i].incident
          BY <1>0, <1>3, <2>2, <3>2 DEF With
        <4>2. Owner(x) = <<x.incident>> /\ Owner(d.report[i]) = <<d.report[i].incident>>
          BY <1>3, <4>1, Owners
        <4> QED BY <4>1, <4>2
      <3> QED BY <3>1, <3>2
    <2> QED BY <2>1, <2>2, <2>3, SameOwnersByKind
  <1>4. ASSUME NEW x \in Candidate,
               id \in DOMAIN d.candidate =>
                      /\ x.report = d.candidate[id].report
                      /\ d.candidate[id].review # "pending" => x.review = d.candidate[id].review
        PROVE  SameOwners(d, Put(d, "candidate", id, x))
    <2>1. PICK e \in Objects : e = Put(d, "candidate", id, x)
      BY PutTypes
    <2>2. e.candidate = With(d.candidate, id, x) /\ e.incident = d.incident /\ e.run = d.run /\ e.report = d.report
      BY <2>1, PutFields
    <2>3. \A i \in DOMAIN d.candidate :
               /\ e.candidate[i].report = d.candidate[i].report
               /\ d.candidate[i].review # "pending" => e.candidate[i].review = d.candidate[i].review
      BY <1>4, <2>2 DEF With
    <2> QED BY <2>1, <2>2, <2>3, SameOwnersByKind
  <1> QED BY <1>1, <1>2, <1>3, <1>4

LEMMA OwnersStay ==
    ASSUME AgentTypeOK, Threads, Numbered, AsRead, InStep, [AgentNext]_agentVars, Sqlite, OneHandler
    PROVE  SameOwners(disk, disk')
  <1>0. /\ mem \in Objects /\ disk \in Objects /\ count.candidate \in Nat
        /\ \A i \in DOMAIN mem.incident : i \in Nat
        /\ \A i \in DOMAIN mem.run : i \in Nat
        /\ \A i \in DOMAIN mem.report : i \in Nat
        /\ \A i \in DOMAIN mem.candidate : i \in Nat
    BY TableNumbers
  <1>1. ASSUME disk' = disk PROVE SameOwners(disk, disk')
    BY <1>1, SameOwnersAlike
  <1>2. CASE UNCHANGED agentVars \/ RestartAgent
    BY <1>1, <1>2 DEF agentVars, RestartAgent
  <1>3. ASSUME NEW w \in Handler,
               \/ Build(w) \/ StartRun(w) \/ CollectEvidence(w) \/ DecideCandidate(w)
               \/ ImportCandidate(w) \/ CallKnowledgeApi(w) \/ PostSummary(w) \/ RecordWriteback(w)
        PROVE  SameOwners(disk, disk')
    <2>1. disk' = disk
      BY <1>3 DEF Build, StartRun, CollectEvidence, DecideCandidate, ImportCandidate, CallKnowledgeApi,
                  PostSummary, RecordWriteback
    <2> QED BY <1>1, <2>1
  <1>4. ASSUME NEW w \in Handler, w \in agent.threads, KeepIncident(w) PROVE SameOwners(disk, disk')
    <2>1. PICK j \in Keeping, x \in Incident : j = work[w] /\ disk' = Put(disk, "incident", j.next, x)
      BY <1>4, KeepIncidentDoes
    <2>2. j.at = "keep" /\ j.next \in Nat
      BY DEF Keeping
    <2>3. mem = disk /\ Below(mem.incident, j.next - 1)
      BY <1>4, <2>1, <2>2 DEF InStep, KeptAt
    <2>4. j.next \notin DOMAIN disk.incident
      BY <1>0, <2>2, <2>3 DEF Below
    <2> QED BY <1>0, <2>1, <2>2, <2>4, OneRowWritten
  <1>5. ASSUME NEW w \in Handler, w \in agent.threads, KeepRun(w) PROVE SameOwners(disk, disk')
    <2>1. PICK n \in Nat, run \in RcaRun :
              work[w].at = "keep_run" /\ n = count.run /\ disk' = Put(disk, "run", n, run)
      BY <1>5, KeepRunDoes
    <2>2. mem = disk /\ Below(mem.run, n - 1)
      BY <1>5, <2>1 DEF InStep, KeptAt
    <2>3. n \notin DOMAIN disk.run
      BY <1>0, <2>2 DEF Below
    <2> QED BY <1>0, <2>1, <2>3, OneRowWritten
  <1>6. ASSUME NEW w \in Handler, w \in agent.threads, SaveReport(w) PROVE SameOwners(disk, disk')
    <2>1. PICK j \in Saving : j = work[w] /\ j.at = "save_report" /\ disk' = Put(disk, "report", j.id, j.report)
      BY <1>6, SaveReportDoes
    <2>2. j.id \in Nat /\ j.report \in Report
      BY DEF Saving
    <2>3. j.id \in DOMAIN disk.report => j.report.incident = disk.report[j.id].incident
      BY <1>6, <2>1 DEF InStep, KeptAt
    <2> QED BY <1>0, <2>1, <2>2, <2>3, OneRowWritten
  <1>7. ASSUME NEW w \in Handler, w \in agent.threads, ReviewReport(w) PROVE SameOwners(disk, disk')
    <2>1. PICK report \in Report :
               /\ work[w] = NoWork
               /\ \/ \E run \in RcaRun :
                         /\ report.run \in DOMAIN mem.run
                         /\ run.incident = mem.run[report.run].incident
                         /\ disk' = Put(disk, "run", report.run, run)
                  \/ disk' = disk
      BY <1>7, ReviewReportDoes
    <2>2. mem = disk
      BY <1>7, <2>1 DEF InStep, KeptAt, NoWork
    <2>3. report.run \in Nat
      BY DEF Report
    <2>4. ASSUME NEW run \in RcaRun, run.incident = mem.run[report.run].incident,
                 disk' = Put(disk, "run", report.run, run)
          PROVE  SameOwners(disk, disk')
      BY <1>0, <2>2, <2>3, <2>4, OneRowWritten
    <2> QED BY <1>1, <2>1, <2>4
  <1>8. ASSUME NEW w \in Handler, w \in agent.threads, ResumeWithMoreEvidence(w) PROVE SameOwners(disk, disk')
    <2>1. PICK id \in DOMAIN mem.run, run \in RcaRun :
               /\ work[w] = NoWork /\ run.incident = mem.run[id].incident
               /\ disk' = Put(disk, "run", id, run)
      BY <1>8, ResumeDoes
    <2>2. mem = disk
      BY <1>8, <2>1 DEF InStep, KeptAt, NoWork
    <2> QED BY <1>0, <2>1, <2>2, OneRowWritten
  <1>9. ASSUME NEW w \in Handler, w \in agent.threads, GenerateCandidate(w) PROVE SameOwners(disk, disk')
    <2>1. PICK id \in Nat, c \in Candidate :
              work[w].at = "generate" /\ id = count.candidate + 1 /\ SaveCandidate(id, c)
      BY <1>9, GenerateCandidateDoes
    <2>2. mem = disk
      BY <1>9, <2>1 DEF InStep, KeptAt
    <2>3. id \notin DOMAIN disk.candidate
      BY <1>0, <2>1, <2>2 DEF Numbered, Below
    <2>4. disk' = Put(disk, "candidate", id, c)
      BY <2>1, SaveCandidateDoes
    <2> QED BY <1>0, <2>3, <2>4, OneRowWritten
  <1>10. ASSUME NEW w \in Handler, w \in agent.threads, KeepDecision(w) \/ KeepImport(w)
         PROVE  SameOwners(disk, disk')
    <2>1. PICK j \in Holding :
              j = work[w] /\ j.at \in {"decide", "imported"} /\ SaveCandidate(j.id, j.candidate)
      BY <1>10, KeepDecisionDoes, KeepImportDoes
    <2>2. j.id \in Nat /\ j.candidate \in Candidate
      BY DEF Holding
    <2>3. mem = disk
      BY <1>10, <2>1 DEF InStep, KeptAt
    <2>4. HeldAs(j, disk.candidate)
      BY <2>1, <2>3 DEF AsRead
    <2>5. /\ j.candidate.report = disk.candidate[j.id].report
          /\ disk.candidate[j.id].review # "pending" => j.candidate.review = disk.candidate[j.id].review
      BY <2>1, <2>4 DEF HeldAs, AtCandidate
    <2>6. disk' = Put(disk, "candidate", j.id, j.candidate)
      BY <2>1, SaveCandidateDoes
    <2> QED BY <1>0, <2>2, <2>5, <2>6, OneRowWritten
  <1> QED BY <1>2, <1>3, <1>4, <1>5, <1>6, <1>7, <1>8, <1>9, <1>10, HandlerSteps DEF AgentNext

LEMMA AgentInv ==
    AgentSpec => [](AgentTypeOK /\ Threads /\ Numbered /\ AsRead /\ InStep /\ Paired)
  <1> DEFINE Inv == AgentTypeOK /\ Threads /\ Numbered /\ AsRead /\ InStep /\ Paired
  <1>1. AgentInit => Inv
    <2>1. SUFFICES ASSUME AgentInit PROVE Inv
      OBVIOUS
    <2>2. /\ mem = Empty /\ disk = Empty /\ count = Zero
          /\ \A w \in Handler : work[w] = NoWork
      BY <2>1 DEF AgentInit
    <2>3. AgentTypeOK
      BY <2>1, AgentInitTypes
    <2>4. Threads /\ Numbered /\ AsRead
      BY <2>2 DEF Threads, Numbered, Below, AsRead, HeldAs, NoWork, AtCandidate, Empty
    <2>5. agent.threads \subseteq Handler
      BY <2>3, AgentsAssumption DEF AgentTypeOK
    <2>6. InStep
      BY <2>2, <2>5 DEF InStep, KeptAt, Below, NoWork, Empty
    <2>7. Paired
      BY <2>2 DEF Paired, Empty, Zero
    <2> QED BY <2>3, <2>4, <2>6, <2>7
  <1>2. Inv /\ [AgentNext]_agentVars => Inv'
    BY AgentTypesKept, ThreadsKept, NumberedKept, AsReadKept, InStepKept, PairedKept
  <1> QED BY <1>1, <1>2, PTL DEF AgentSpec

(* In turn and on SQLite, memory between two requests is what a restart      *)
(* reads back, and until a restart the run of a report tells its review      *)
(* (store.py, load; app.py, review_report).                                  *)
THEOREM MemoryIsOnDisk == AgentSpec => []DiskKeepsUp
  BY AgentInv, AtRest, PTL

(* In turn and on SQLite, no step gives the row of an incident, a run, a     *)
(* report or a candidate to another one, whatever is stopped                 *)
(* (store.py, _sync_counters).                                               *)
THEOREM RowsStayWithTheirOwner == AgentSpec => RowsKeepTheirOwner
  <1>1. AgentTypeOK /\ Threads /\ Numbered /\ AsRead /\ InStep /\ Paired /\ [AgentNext]_agentVars
           => [Sqlite /\ OneHandler =>
                 /\ \A k \in {"incident", "run", "report"} : \A id \in DOMAIN disk[k] :
                        Owner(disk'[k][id]) = Owner(disk[k][id])
                 /\ \A id \in DOMAIN disk.candidate :
                        /\ disk'.candidate[id].report = disk.candidate[id].report
                        /\ disk.candidate[id].review # "pending" =>
                               disk'.candidate[id].review = disk.candidate[id].review]_agentVars
    BY OwnersStay DEF SameOwners
  <1> QED BY <1>1, AgentInv, PTL DEF AgentSpec, RowsKeepTheirOwner
=============================================================================
