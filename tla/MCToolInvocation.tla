--------------------------- MODULE MCToolInvocation ---------------------------
(* Values of the constants of ToolInvocation for TLC. *)
EXTENDS ToolInvocation

CONSTANTS echo, w1, w2

Deploy(service, threads, policy, registers, restarts, n) ==
    [service |-> service, threads |-> threads, policy |-> policy,
     registers |-> registers, restarts |-> restarts, calls |-> n]

Services ==
    {Deploy("tool-registry", {w1}, [max_retries |-> 0], TRUE, 1, 4),
     Deploy("tool-registry", {w1, w2}, [max_attempts |-> 2], FALSE, 0, 2),
     Deploy("tool-registry", {w1, w2}, [max_retries |-> 0], FALSE, 0, 3),
     Deploy("tool-registry", {w1, w2}, [max_retries |-> 1], TRUE, 0, 1),
     Deploy("mcp-gateway", {w1}, [max_attempts |-> 0], FALSE, 1, 4),
     Deploy("mcp-gateway", {w1, w2}, [max_retries |-> 1], FALSE, 0, 4)}
=============================================================================
