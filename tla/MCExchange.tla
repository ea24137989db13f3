---------------------------- MODULE MCExchange -----------------------------
(***************************************************************************)
(* An instance of Exchange for TLC: two records, each with a key and a     *)
(* mailbox of its own, the second with the post-quantum key.  A source may *)
(* hold the second alone, both, or none: both are answered with the second *)
(* one's key and the first one's mailbox.  The user clicks, and clicks     *)
(* again after a failure; each post is sent up to twice; there is a change *)
(* of the sources, or a restart.                                           *)
(***************************************************************************)
EXTENDS Exchange

CONSTANTS classic, pq, box1, box2

MCRecords == <<[key |-> classic, box |-> box1], [key |-> pq, box |-> box2]>>

MCListings == {<<>>, <<MCRecords[2]>>, MCRecords}
=============================================================================
