----------------------------- MODULE MCClient ------------------------------
(***************************************************************************)
(* Instances of Client for TLC: two addresses; an empty and a written      *)
(* message; one file; up to two sends, at a time or one after the other.   *)
(***************************************************************************)
EXTENDS Client

CONSTANTS a1, a2

NoLink == {<<>>}

\* Opened plainly, or by a link that names one or both addresses.
Links == {<<>>, <<a1>>, <<a1, a2>>}
=============================================================================
