------------------------------ MODULE Session ------------------------------
(***************************************************************************)
(* An honest page in front of the gate: the solver (web/src/pow.ts) with   *)
(* the difficulties the page was loaded with, the calls it makes, and a    *)
(* server that may be started again with another configuration (Config)    *)
(* under the same page.  The gate is PowGate, whole.                       *)
(*                                                                         *)
(* A call may reach the gate more than once: the browser sends a request   *)
(* again, token and all, when the connection it was to reuse turns out to  *)
(* be broken.  Copy i of call c is the request <<c, i>> of the gate, and   *)
(* Requests bounds how often a call is sent; the page hears the answer to  *)
(* the last copy, if any.                                                  *)
(*                                                                         *)
(* The page's clock is mono and the server's reads mono + offset, so that  *)
(* offset is the skew between them.  The unit of time is a fraction of a   *)
(* second, Second of them: a timestamp is a whole second, time.Since is    *)
(* not.  A token is <<ts, nonce>>; Hash gives the bytes of its SHA-256.    *)
(***************************************************************************)
EXTENDS PowGate, Config, SequencesExt

CONSTANTS
  Calls,     \* the calls of the page
  Hash,      \* the bytes of SHA-256(ts || nonce), each a sequence of bits
  Starts,    \* what randomNonceStart may return
  MaxNonce   \* bound: the solver is not followed beyond this nonce

Kinds == {"lookup", "send"}

-----------------------------------------------------------------------------
(* The hash.                                                               *)

IsZero(byte) == \A i \in DOMAIN byte : byte[i] = 0

\* (Wrong: a byte that is not zero does not end the count.)
ZerosOfAllBytes(hash) == FoldLeft(LAMBDA n, byte : n + IF IsZero(byte)
                           THEN Len(byte) ELSE SelectInSeq(byte, LAMBDA b : b = 1) - 1, 0, hash)

\* countLeadingZeroBits of the server: whole zero bytes, then the zeros at the
\* front of the first byte that has a one.
LeadingZeros(hash) ==
  LET first == SelectInSeq(hash, LAMBDA byte : ~IsZero(byte))
      count(n, byte) == n + Len(byte)
  IN  IF first = 0 THEN FoldLeft(count, 0, hash)
      ELSE FoldLeft(count, SelectInSeq(hash[first], LAMBDA b : b = 1) - 1,
                    SubSeq(hash, 1, first - 1))

\* The page's own count, the same loop written in TypeScript.
PageZeros(hash) == LeadingZeros(hash)

-----------------------------------------------------------------------------
\* The gate's tokens, routes, bits and difficulties are those of the page and
\* of the deployments.
ASSUME SessionAssumption ==
  /\ Requests \subseteq Calls \X (Nat \ {0}) /\ \A c \in Calls : <<c, 1>> \in Requests
  /\ MaxTime \in Nat /\ MaxNonce \in Nat /\ Starts \subseteq 0..MaxNonce
  /\ \A t \in 0..MaxTime, n \in 0..MaxNonce : <<(t \div Second) * Second, n>> \in Tokens
  /\ \A t \in Tokens : Stamp[t] = t[1] /\ Bits[t] = LeadingZeros(Hash[t])
  /\ \A d \in Deployments : Serves(d) => ValidityOf(d) \in Validities
  /\ \A d \in Deployments : Serves(d) =>
       \A kind \in Kinds : <<kind, d>> \in Routes /\ Difficulty[<<kind, d>>] = Demands(d)[kind]

VARIABLES
  started,   \* the deployment the server was last started with
  up,        \* whether it is serving
  page,      \* the deployment whose index.html the page is
  work       \* each call: its solver, and how far it has come

sessionVars == <<vars, started, up, page, work>>

\* What a call may be told: 200, or whatever the handler says, 401 and 429.
Answers == {"served", "refused", "replayed"}

WorkPhases == {"idle", "solving", "asked", "broken"} \cup Answers

-----------------------------------------------------------------------------
(* The solver.                                                             *)

\* (Wrong: Math.floor is missing.)
ExactTime == mono

\* Math.floor(Date.now() / 1000).
WholeSecond == (mono \div Second) * Second

\* solvePoW is called for a call of either kind; getDifficulty and
\* getSendDifficulty read the meta elements of the page as loaded.
Begin(c, kind, n) ==
  /\ work[c].phase = "idle"
  /\ work' = [work EXCEPT ![c] = [phase |-> "solving", kind |-> kind, ts |-> WholeSecond,
                                  nonce |-> n, asks |-> PageSays(page)[kind], began |-> mono,
                                  copies |-> 0]]
  /\ UNCHANGED <<vars, started, up, page>>

TokenOf(w) == <<w.ts, w.nonce>>

\* One turn of the loop.  ts stays what it was when the loop began.  A nonce that
\* is good enough ends it, and the request is on its way.
TryNonce(c) ==
  /\ work[c].phase = "solving"
  /\ IF PageZeros(Hash[TokenOf(work[c])]) >= work[c].asks
       THEN work' = [work EXCEPT ![c].phase = "asked", ![c].copies = 1]
       ELSE /\ work[c].nonce < MaxNonce
            /\ work' = [work EXCEPT ![c].nonce = @ + 1]
  /\ UNCHANGED <<vars, started, up, page>>

-----------------------------------------------------------------------------
(* The calls.                                                              *)

\* The browser sends the request again, and will not hear of the copies before.
Resend(c) ==
  /\ work[c].phase = "asked" /\ <<c, work[c].copies + 1>> \in Requests
  /\ work' = [work EXCEPT ![c].copies = @ + 1]
  /\ UNCHANGED <<vars, started, up, page>>

\* A copy arrives, and the server that is up now verifies its token.
Arrive(r) ==
  LET w == work[r[1]]
  IN  /\ r[2] <= w.copies /\ up
      /\ Check(r, TokenOf(w), <<w.kind, started>>)
      /\ UNCHANGED <<started, up, page, work>>

\* The answer to the last copy.
Hear(c) ==
  /\ work[c].phase = "asked" /\ pc[<<c, work[c].copies>>] \in Answers
  /\ work' = [work EXCEPT ![c].phase = pc[<<c, work[c].copies>>]]
  /\ UNCHANGED <<vars, started, up, page>>

\* fetch rejects: nobody listens, or the server died with the request.
Unreached(c) ==
  /\ work[c].phase = "asked"
  /\ ~up \/ pc[<<c, work[c].copies>>] = "lost"
  /\ work' = [work EXCEPT ![c].phase = "broken"]
  /\ UNCHANGED <<vars, started, up, page>>

\* (Wrong: no ticker looks at the validity before the server is up.)
RedeployAnyTTL(d) ==
  /\ Restart(IF Readable(d) THEN ValidityOf(d) ELSE validity)
  /\ started' = d
  /\ up' = Readable(d)
  /\ UNCHANGED <<page, work>>

\* The server dies and is started with deployment d: it serves, main exits
\* because the file cannot be read, or the ticker's panic ends the process.
Redeploy(d) ==
  /\ Restart(IF Serves(d) THEN ValidityOf(d) ELSE validity)
  /\ started' = d
  /\ up' = Serves(d)
  /\ UNCHANGED <<page, work>>

\* The user loads the page again.  Solvers under way end with the old page.
Reload ==
  /\ up /\ page # started
  /\ \A c \in Calls : work[c].phase \notin {"solving", "asked"}
  /\ page' = started
  /\ UNCHANGED <<vars, started, up, work>>

Gate == \/ \E r \in Requests : Add(r)
        \/ Sweep
        \/ Tick
        \/ Horizon

SessionInit ==
  /\ Init
  /\ started \in {d \in Deployments : Serves(d)}
  /\ validity = ValidityOf(started)
  /\ up = TRUE
  /\ page = started
  /\ work = [c \in Calls |-> [phase |-> "idle", kind |-> "lookup", ts |-> 0, nonce |-> 0,
                              asks |-> 0, began |-> 0, copies |-> 0]]

SessionNext ==
  \/ \E c \in Calls, kind \in Kinds, n \in Starts : Begin(c, kind, n)
  \/ \E c \in Calls : TryNonce(c) \/ Resend(c) \/ Hear(c) \/ Unreached(c)
  \/ \E r \in Requests : Arrive(r)
  \/ \E d \in Deployments : Redeploy(d)
  \/ Reload
  \/ Gate /\ UNCHANGED <<started, up, page, work>>

SessionSpec == SessionInit /\ [][SessionNext]_sessionVars

-----------------------------------------------------------------------------
\* A timestamp is a whole second, and a token one the hash is known of.
SessionTypeOK ==
  /\ started \in Deployments /\ page \in Deployments /\ up \in BOOLEAN
  /\ work \in [Calls -> [phase : WorkPhases, kind : Kinds, asks : Int, began : Nat,
                         ts : {t[1] : t \in Tokens}, nonce : 0..MaxNonce,
                         copies : Nat]]

\* Whatever the configuration said, a server that is up demands some work for
\* a mail, and it either remembers a token for twice as long as it takes it, or
\* takes none: its validity is then negative, and its cache alive because twice
\* that wraps.  Its validity is the number of seconds it was given, unless that
\* is more than a Duration can hold.
\* (config.go Load and PoWValidity, main.go 44-63, pow.go 41.)
ServingIsSound ==
  up => /\ SendDifficulty(started) >= 1
        /\ \/ validity > 0 /\ TTL = 2 * validity
           \/ validity < 0 /\ \A g \in grants : FarAhead(g)
        /\ validity = Configured(started) \/ Configured(started) \notin Durations

\* A request of the page is refused with 401 only when its solver and the way
\* to the server took the validity, less the second the timestamp may have
\* lost to rounding and the skew of the clocks, or when the server now demands
\* more than the one the page came from.  (pow.ts 59-77 against pow.go Verify.)
InTimeIsServed ==
  [][\A r \in Requests : pc[r] = "new" /\ pc'[r] = "refused" =>
       LET w == work[r[1]]
       IN  \/ w.asks < Demands(started)[w.kind]
           \/ mono - w.began + offset + (Second - 1) > validity
           \/ offset < -validity]_sessionVars

\* A page is told 429 only when another request with the same token has been let
\* through: an earlier copy of the same call, or a call whose solver began in
\* the same second and ran into the same nonce: "randomNonceStart ...
\* used so concurrent PoW solves within the same second don't all converge on
\* the same nonce".  (pow.ts 52-59, send.ts 136, recipients.ts 84.)
ReplayExplained ==
  \A c \in Calls : work[c].phase = "replayed" =>
    \E r \in Requests :
      /\ pc[r] = "served" /\ r # <<c, work[c].copies>>
      /\ work[r[1]].began \div Second = work[c].began \div Second
      /\ work[r[1]].nonce = work[c].nonce
=============================================================================
