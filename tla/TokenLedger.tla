---------------------------- MODULE TokenLedger ----------------------------
(***************************************************************************)
(* What the proof-of-work gate promises to the rest of the service,        *)
(* without clocks, without a cache and without a sweeper: ARCHITECTURE.md  *)
(* section 7, "One solved PoW = one single-use token worth one accepted    *)
(* call", with the limit of section 7.4, "Restart loses the cache".        *)
(*                                                                         *)
(* PowGate is shown to implement it.                                       *)
(***************************************************************************)
CONSTANTS Requests,  \* the calls to /api/*
          Tokens     \* the tokens they may carry

VARIABLES used,      \* tokens consumed since the server last started
          verdict    \* what became of each call

ledgerVars == <<used, verdict>>

Verdicts == {"waiting", "served", "replayed", "refused", "lost"}

LedgerTypeOK == /\ used \subseteq Tokens
                /\ verdict \in [Requests -> Verdicts]

Init == /\ used = {}
        /\ verdict = [r \in Requests |-> "waiting"]

Give(r, v) == /\ verdict[r] = "waiting"
              /\ verdict' = [verdict EXCEPT ![r] = v]

\* A call is let through by a token nobody used, which it uses up.
Serve(r, t) == /\ t \notin used
               /\ used' = used \cup {t}
               /\ Give(r, "served")

\* A call is told "already used" only of a token that really was.
Replay(r, t) == /\ t \in used
                /\ Give(r, "replayed")
                /\ UNCHANGED used

\* A call whose token is missing, malformed, stale or too easy.
Refuse(r) == Give(r, "refused") /\ UNCHANGED used

\* A restart forgets what was used, and drops calls that were under way.
Restart == /\ used' = {}
           /\ verdict' \in [Requests -> Verdicts]
           /\ \A r \in Requests : \/ verdict'[r] = verdict[r]
                                  \/ verdict[r] = "waiting" /\ verdict'[r] = "lost"

Next == \/ \E r \in Requests, t \in Tokens : Serve(r, t) \/ Replay(r, t)
        \/ \E r \in Requests : Refuse(r)
        \/ Restart

Spec == Init /\ [][Next]_ledgerVars
=============================================================================
