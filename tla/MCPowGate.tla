----------------------------- MODULE MCPowGate -----------------------------
(***************************************************************************)
(* Instances of PowGate for TLC.  A validity of 2 s makes a TTL of 4 s and *)
(* a sweep every 2 s; a clock of 7 s then covers the whole life of a token *)
(* stamped 2: issued, fresh, expired, remembered, evicted.  A Duration of  *)
(* the instance ends at 15.                                                *)
(***************************************************************************)
EXTENDS PowGate, TLC

CONSTANTS t1, t2, lookup, send

\* The server's two difficulties: 18 and 20 bits by default.
MCDifficulty == (lookup :> 18) @@ (send :> 20)

\* t2 was solved for a lookup and is too easy for a send.
MCBits == (t1 :> 21) @@ (t2 :> 18)

\* t2 is stamped further ahead than a Duration can tell: its difference to any
\* wall clock of the instance saturates.
MCStamp == (t1 :> 2) @@ (t2 :> 40)

\* With a validity of -14 the ttl wraps to 4: the server comes up.
MCValidities == {2, -14}

ClockSteps == {-1, 1}

Callers == Permutations(Requests)
=============================================================================
