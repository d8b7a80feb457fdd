---------------------------- MODULE MCRegistrar -----------------------------
EXTENDS Registrar

(* A process and the one that replaces it, with the same key.               *)
CONSTANTS a, b, u, k
MCKeyOf == [i \in {a, b} |-> k]
MCUpdates == [x \in {u} |-> a]
MCMaxLeases == [i \in {a, b} |-> IF i = a THEN 3 ELSE 1]
=============================================================================
