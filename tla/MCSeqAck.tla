------------------------------- MODULE MCSeqAck -------------------------------
(* Values for SeqAck: many messages and few requests, so that the numbers of *)
(* messages wrap; many requests, several of them on their way; and a client  *)
(* that comes back more than once.                                           *)
EXTENDS SeqAck

MCLoads == {
    [sent |-> 6, requests |-> 3, uplink |-> 1, sess |-> 2, time |-> 1],
    [sent |-> 1, requests |-> 6, uplink |-> 2, sess |-> 2, time |-> 0],
    [sent |-> 1, requests |-> 1, uplink |-> 1, sess |-> 3, time |-> 1]}
===============================================================================
