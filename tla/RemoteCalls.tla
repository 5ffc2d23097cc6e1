----------------------------- MODULE RemoteCalls -----------------------------
(***************************************************************************)
(* How the services call a remote model: the chat client of the            *)
(* llm-gateway and the embedding provider that knowledge-api and the       *)
(* ingestion-worker share.  Both repeat a failed request, and differ in    *)
(* what they repeat: the chat client repeats whatever raises, the          *)
(* provider only a timeout; a status is repeated by both if it is 429 or   *)
(* above 499.  A script is what the remote would answer to each attempt,   *)
(* as long as the attempts allowed; the waits between them are left out.   *)
(***************************************************************************)
EXTENDS Integers, Sequences, SequencesExt

(* 200, with a body that is JSON or not; 429; a status above 499; another   *)
(* status that is not 200; no answer in time; any other transport error.    *)
Replies == {"ok", "garbled", "throttled", "server", "client", "timeout", "network"}
Raised == {"timeout", "network"}
RetryableStatus == {"throttled", "server"}

-----------------------------------------------------------------------------
(* The attempts made: up to the first that is final, or all of them.        *)
Attempts(script, repeated) ==
    LET final == {i \in DOMAIN script : script[i] \notin repeated}
    IN  IF final = {} THEN Len(script) ELSE CHOOSE i \in final : \A j \in final : i <= j

(* The decorator returns a 200, raises a status with itself in it, and      *)
(* raises the last exception again as it is.                                *)
Retried(script) == script[Attempts(script, Raised \cup RetryableStatus)]

(* Only RetryExhaustedError tells the caller of chat a status.  A body that *)
(* is not JSON is an LlmClientError too.                                    *)
Chat(script) ==
    LET reply == Retried(script)
    IN  CASE reply = "ok" -> [raised |-> FALSE, status |-> "none"]
          [] reply \in Raised \cup {"garbled"} -> [raised |-> TRUE, status |-> "none"]
          [] OTHER -> [raised |-> TRUE, status |-> reply]

-----------------------------------------------------------------------------
(* One batch of texts: its vectors, or why the provider is unavailable.  A  *)
(* body that is not JSON escapes as the error of the parser.                *)
PostWithRetry(script) ==
    LET reply == script[Attempts(script, {"timeout"} \cup RetryableStatus)]
    IN  CASE reply = "ok" -> "vectors"
          [] reply = "garbled" -> "escaped"
          [] reply \in RetryableStatus -> "5xx"
          [] reply = "client" -> "4xx"
          [] OTHER -> reply

Batches(texts, maxBatch) ==
    [b \in 1 .. (Len(texts) + maxBatch - 1) \div maxBatch |->
        SubSeq(texts, (b - 1) * maxBatch + 1,
                      IF b * maxBatch < Len(texts) THEN b * maxBatch ELSE Len(texts))]

(* Batches go one after the other; the first that fails ends the call, and  *)
(* the vectors of those before it are lost.  Vector t is that of text t.    *)
EmbedBatches(texts, maxBatch, scripts) ==
    LET batches == Batches(texts, maxBatch)
        failed == {b \in DOMAIN batches : PostWithRetry(scripts[b]) # "vectors"}
        first == CHOOSE b \in failed : \A c \in failed : b <= c
    IN  IF failed = {} THEN [vectors |-> FlattenSeq(batches), cause |-> "none", posts |-> Len(batches)]
        ELSE [vectors |-> << >>, cause |-> PostWithRetry(scripts[first]), posts |-> first]

(* The provider a service starts with, and whether it is less than was      *)
(* asked for: without what the remote one needs it is the stub, whose       *)
(* dimension is not the remote one's.  A name nobody knows is the stub too, *)
(* but is not reported.                                                     *)
Needs(name) == CASE name \in {"qwen", "siliconflow"} -> {"key"}
                 [] name = "openai_compat" -> {"key", "url", "model"}
                 [] OTHER -> {}
BuildProvider(name, given) ==
    LET remote == Needs(name) # {} /\ Needs(name) \subseteq given
    IN  [kind |-> IF ~remote THEN "stub" ELSE IF name = "qwen" THEN "qwen" ELSE "openai_compat",
         degraded |-> Needs(name) # {} /\ ~remote]
=============================================================================
