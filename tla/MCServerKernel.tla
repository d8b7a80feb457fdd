--------------------------- MODULE MCServerKernel ---------------------------
EXTENDS ServerKernel

(* Two workers where requests of one key must not overtake each other.      *)
MCPools == {"req", "resp", "main"}
MCSize == [p \in MCPools |-> IF p = "req" THEN 2 ELSE 1]
MCWorkerOf == [p \in MCPools |-> [k \in {1} |-> 0]]
MCCalls == {"c", "d"}

(* Two requests of one key, a message without one, a response to each call. *)
MCMaxPosts == [p \in MCPools |-> [k \in {0, 1} |->
    CASE p = "req" -> 2 * k
      [] p = "main" -> 1 - k
      [] OTHER -> 1 + k]]
=============================================================================
