--------------------------- MODULE SessionProofs ----------------------------
(***************************************************************************)
(* Proofs about the page in front of the gate, for any tokens and hashes,  *)
(* any number of calls and copies, and any deployments: a session is a     *)
(* behaviour of PowGate, so that every theorem about the gate holds of it; *)
(* and what an honest page is told is explained.                           *)
(***************************************************************************)
EXTENDS Session, PowGateProofs

Work == [phase : WorkPhases, kind : Kinds, asks : Int, began : Nat, ts : Int,
         nonce : 0..MaxNonce, copies : Nat]

\* A page comes from a server that was serving.
ServerInv == /\ started \in Deployments /\ page \in Deployments /\ up \in BOOLEAN
             /\ Serves(page)
             /\ up => Serves(started) /\ validity = ValidityOf(started)

\* A solver's timestamp is the second it began in, and what has been sent is
\* good enough for the page it was solved for.
SolverInv ==
  \A c \in Calls :
    /\ work[c].began <= mono
    /\ work[c].ts = (work[c].began \div Second) * Second
    /\ work[c].phase \in {"idle", "solving"} => work[c].copies = 0
    /\ work[c].phase \in {"asked"} \cup Answers => work[c].copies > 0
    /\ work[c].copies > 0 => /\ <<c, work[c].copies>> \in Requests
                             /\ Bits[TokenOf(work[c])] >= work[c].asks

\* A request the gate has seen was sent, and carries the token of its solver.
CallInv ==
  \A r \in Requests :
    /\ pc[r] # "new" => r[2] <= work[r[1]].copies
    /\ pc[r] \in {"verifying", "served", "replayed"} => token[r] = TokenOf(work[r[1]])

\* A call that is told 429 is told so of its last copy.
ToldInv == \A c \in Calls : work[c].phase = "replayed" => pc[<<c, work[c].copies>>] = "replayed"

\* What was granted was granted for the token the request still has.
OwnGrants == \A g \in grants : token[g.req] = g.tok

\* A request is told "already used" after another was served with its token.
Explained ==
  \A r \in Requests : pc[r] = "replayed" =>
    \E q \in Requests : pc[q] = "served" /\ token[q] = token[r]

SessInv == /\ mono \in 0..MaxTime
           /\ work \in [Calls -> Work]
           /\ ServerInv
           /\ SolverInv
           /\ CallInv
           /\ ToldInv
           /\ OwnGrants
           /\ Explained

-----------------------------------------------------------------------------
(* Seconds and durations.                                                  *)

\* Two seconds that start at the same time are the same.
LEMMA SameSecond ==
  ASSUME NEW i \in Int, NEW j \in Int, i * Second = j * Second
  PROVE  i = j
<1>1. Second \in Nat /\ Second > 0
  BY ConfigAssumption
<1>2. CASE i < j
  <2>1. i * Second + Second <= j * Second
    BY <1>1, <1>2, SMT
  <2> QED BY <1>1, <2>1
<1>3. CASE j < i
  <2>1. j * Second + Second <= i * Second
    BY <1>1, <1>3, SMT
  <2> QED BY <1>1, <2>1
<1> QED BY <1>2, <1>3

\* The start of a second is less than a second ago.
LEMMA SecondStart ==
  ASSUME NEW t \in Nat
  PROVE  /\ t \div Second \in Nat
         /\ (t \div Second) * Second \in Nat
         /\ (t \div Second) * Second <= t
         /\ t - (t \div Second) * Second <= Second - 1
BY ConfigAssumption, SMT

\* A product that a Duration can hold does not wrap.
LEMMA NoWrap ==
  ASSUME NEW n \in Int, n \in Durations
  PROVE  Wrapped(n) = n
<1> DEFINE half == MaxDuration + 1
<1>1. half \in Nat /\ half > 0 /\ n + half \in 0..(2 * half - 1)
  BY DurationAssumption DEF Durations
<1>2. (n + half) % (2 * half) = n + half
  BY <1>1, Remainders
<1> QED BY <1>1, <1>2 DEF Wrapped

\* A server that comes up gives its page what it demands.
LEMMA PageOfServer ==
  ASSUME NEW d \in Deployments, Serves(d)
  PROVE  /\ SendDifficulty(d) >= 1
         /\ \A kind \in Kinds : PageSays(d)[kind] = Demands(d)[kind]
         /\ \A kind \in Kinds : PageSays(d)[kind] \in Int
         /\ Configured(d) \in Int
<1>1. Readable(d)
  BY DEF Serves
<1>2. /\ Load(d).difficulty \in Int /\ Load(d).sendDifficulty \in Int
      /\ Load(d).validity \in Int
      /\ Second \in Nat /\ SendFallback \in Nat /\ SendFallback > 0
  BY <1>1, ConfigAssumption DEF Numbers
<1>3. Configured(d) \in Int
  BY <1>2 DEF Configured
<1> QED BY <1>2, <1>3 DEF SendDifficulty, PageSays, Demands, Kinds

-----------------------------------------------------------------------------
(* A session is a behaviour of the gate.                                   *)

LEMMA RequestsOfCalls ==
  ASSUME NEW r \in Requests
  PROVE  r[1] \in Calls /\ r[2] \in Nat /\ r[2] > 0 /\ r = <<r[1], r[2]>>
BY SessionAssumption

LEMMA TokensOfSolvers ==
  ASSUME SessInv, NEW c \in Calls
  PROVE  TokenOf(work[c]) \in Tokens /\ Stamp[TokenOf(work[c])] = work[c].ts
<1>1. work[c] \in Work /\ work[c].began \in 0..MaxTime /\ work[c].nonce \in 0..MaxNonce
  <2>1. work[c] \in Work /\ work[c].began <= mono /\ mono \in 0..MaxTime
    BY DEF SessInv, SolverInv
  <2>2. work[c].began \in Nat /\ work[c].nonce \in 0..MaxNonce
    BY <2>1 DEF Work
  <2> QED BY <2>1, <2>2, SessionAssumption
<1>2. TokenOf(work[c]) = <<(work[c].began \div Second) * Second, work[c].nonce>>
  BY DEF SessInv, SolverInv, TokenOf
<1>3. TokenOf(work[c]) \in Tokens
  BY <1>1, <1>2, SessionAssumption
<1> QED BY <1>3, SessionAssumption DEF TokenOf

LEMMA ArriveIsCheck ==
  ASSUME SessInv, NEW r \in Requests, Arrive(r)
  PROVE  \E t \in Tokens, route \in Routes : Check(r, t, route)
<1>1. r[1] \in Calls
  BY RequestsOfCalls
<1>2. TokenOf(work[r[1]]) \in Tokens
  BY <1>1, TokensOfSolvers
<1>3. <<work[r[1]].kind, started>> \in Routes
  BY <1>1, SessionAssumption DEF SessInv, ServerInv, Arrive, Work
<1> QED BY <1>2, <1>3 DEF Arrive

LEMMA RedeployIsRestart ==
  ASSUME IInv, NEW d \in Deployments, Redeploy(d)
  PROVE  \E v \in Validities : Restart(v)
<1>1. validity \in Validities /\ (Serves(d) => ValidityOf(d) \in Validities)
  BY SessionAssumption DEF IInv, TypeOK
<1> QED BY <1>1 DEF Redeploy

LEMMA SessionStepIsGateStep == SessInv /\ IInv /\ [SessionNext]_sessionVars => [Next]_vars
<1> SUFFICES ASSUME SessInv, IInv, [SessionNext]_sessionVars PROVE [Next]_vars
  OBVIOUS
<1>1. CASE \E c \in Calls, kind \in Kinds, n \in Starts : Begin(c, kind, n)
  BY <1>1 DEF Begin
<1>2. ASSUME NEW c \in Calls, TryNonce(c) \/ Resend(c) \/ Hear(c) \/ Unreached(c)
      PROVE  [Next]_vars
  BY <1>2 DEF TryNonce, Resend, Hear, Unreached
<1>3. ASSUME NEW r \in Requests, Arrive(r) PROVE [Next]_vars
  BY <1>3, ArriveIsCheck DEF Next
<1>4. CASE \E d \in Deployments : Redeploy(d)
  BY <1>4, RedeployIsRestart DEF Next
<1>5. CASE Reload
  BY <1>5 DEF Reload
<1>6. CASE Gate
  BY <1>6 DEF Gate, Next
<1>7. CASE UNCHANGED sessionVars
  BY <1>7 DEF sessionVars
<1> QED BY <1>1, <1>2, <1>3, <1>4, <1>5, <1>6, <1>7 DEF SessionNext

-----------------------------------------------------------------------------
(* The invariant.                                                          *)

LEMMA SessionInitInv == SessionInit => SessInv
<1> SUFFICES ASSUME SessionInit PROVE SessInv
  OBVIOUS
<1> USE DEF SessionInit, Init
<1>1. mono \in 0..MaxTime
  BY SessionAssumption
<1>2. work \in [Calls -> Work]
  BY SessionAssumption DEF Work, WorkPhases, Kinds
<1>3. ServerInv
  BY DEF ServerInv
<1>4. SolverInv
  <2>1. (0 \div Second) * Second = 0
    BY SecondStart
  <2> QED BY <2>1 DEF SolverInv, Answers
<1>5. CallInv /\ ToldInv /\ OwnGrants /\ Explained
  BY DEF CallInv, ToldInv, OwnGrants, Explained
<1> QED BY <1>1, <1>2, <1>3, <1>4, <1>5 DEF SessInv

\* What call c may become: it keeps what was sent, and hears what was said.
Fits(c, w) ==
  /\ w \in Work
  /\ w.began <= mono
  /\ w.ts = (w.began \div Second) * Second
  /\ w.phase \in {"idle", "solving"} => w.copies = 0
  /\ w.phase \in {"asked"} \cup Answers => w.copies > 0
  /\ w.copies > 0 => <<c, w.copies>> \in Requests /\ Bits[TokenOf(w)] >= w.asks
  /\ work[c].copies > 0 => TokenOf(w) = TokenOf(work[c]) /\ work[c].copies <= w.copies
  /\ w.phase = "replayed" => pc[<<c, w.copies>>] = "replayed"

\* A step of one solver leaves the gate and the server alone.
LEMMA SolverStepInv ==
  ASSUME SessInv, NEW c \in Calls, NEW w, Fits(c, w),
         work' = [work EXCEPT ![c] = w], UNCHANGED <<vars, started, up, page>>
  PROVE  SessInv'
<1> USE DEF Fits
<1>1. work \in [Calls -> Work] /\ work' \in [Calls -> Work]
  BY DEF SessInv
<1>2. \A e \in Calls : work'[e] = IF e = c THEN w ELSE work[e]
  BY <1>1
<1>3. mono' \in 0..MaxTime /\ ServerInv' /\ OwnGrants' /\ Explained'
  BY DEF SessInv, ServerInv, OwnGrants, Explained, vars
<1>4. SolverInv'
  BY <1>2 DEF SessInv, SolverInv, TokenOf, vars
<1>5. ToldInv'
  BY <1>2 DEF SessInv, ToldInv, vars
<1>6. CallInv'
  <2> SUFFICES ASSUME NEW r \in Requests
               PROVE  /\ pc[r] # "new" => r[2] <= work'[r[1]].copies
                      /\ pc[r] \in {"verifying", "served", "replayed"}
                           => token[r] = TokenOf(work'[r[1]])
    BY DEF CallInv, vars
  <2>1. /\ pc[r] # "new" => r[2] <= work[r[1]].copies
        /\ pc[r] \in {"verifying", "served", "replayed"} => token[r] = TokenOf(work[r[1]])
    BY DEF SessInv, CallInv
  <2>2. r[1] \in Calls /\ r[2] \in Nat /\ r[2] > 0
    BY RequestsOfCalls
  <2>3. CASE r[1] # c
    BY <1>2, <2>1, <2>2, <2>3
  <2>4. CASE r[1] = c /\ pc[r] # "new"
    <3>1. work[c].copies \in Nat /\ w.copies \in Nat /\ work'[r[1]] = w
      BY <1>1, <1>2, <2>2, <2>4 DEF Work
    <3>2. work[c].copies > 0
      BY <2>1, <2>2, <2>4, <3>1
    <3> QED BY <2>1, <2>2, <2>4, <3>1, <3>2
  <2> QED BY <2>3, <2>4
<1> QED BY <1>1, <1>3, <1>4, <1>5, <1>6 DEF SessInv

LEMMA BeginInv ==
  ASSUME SessInv, NEW c \in Calls, NEW kind \in Kinds, NEW n \in Starts, Begin(c, kind, n)
  PROVE  SessInv'
<1> DEFINE w == [phase |-> "solving", kind |-> kind, ts |-> WholeSecond,
                 nonce |-> n, asks |-> PageSays(page)[kind], began |-> mono, copies |-> 0]
<1>1. /\ work[c].phase = "idle" /\ work' = [work EXCEPT ![c] = w]
      /\ UNCHANGED <<vars, started, up, page>>
  BY DEF Begin
<1>2. mono \in Nat /\ w.ts = (mono \div Second) * Second /\ w.ts \in Int
  BY SecondStart, SessionAssumption DEF SessInv, WholeSecond
<1>3. w \in Work
  BY <1>2, PageOfServer, SessionAssumption DEF SessInv, ServerInv, Work, WorkPhases
<1>4. work[c].copies = 0
  BY <1>1 DEF SessInv, SolverInv
<1>5. Fits(c, w)
  BY <1>2, <1>3, <1>4 DEF Answers, Fits
<1> HIDE DEF w
<1> QED BY <1>1, <1>5, SolverStepInv

LEMMA TryNonceInv ==
  ASSUME SessInv, NEW c \in Calls, TryNonce(c)
  PROVE  SessInv'
<1>1. /\ UNCHANGED <<vars, started, up, page>> /\ work[c].phase = "solving"
      /\ work[c] \in Work /\ work[c].copies = 0 /\ work \in [Calls -> Work]
      /\ work[c].began <= mono /\ work[c].ts = (work[c].began \div Second) * Second
  BY DEF TryNonce, SessInv, SolverInv
<1>2. CASE /\ PageZeros(Hash[TokenOf(work[c])]) >= work[c].asks
           /\ work' = [work EXCEPT ![c].phase = "asked", ![c].copies = 1]
  <2> DEFINE w == [work[c] EXCEPT !.phase = "asked", !.copies = 1]
  <2>1. work' = [work EXCEPT ![c] = w]
    BY <1>1, <1>2
  <2>2. /\ w \in Work /\ w.phase = "asked" /\ w.copies = 1 /\ TokenOf(w) = TokenOf(work[c])
        /\ w.asks = work[c].asks /\ w.began = work[c].began /\ w.ts = work[c].ts
    BY <1>1 DEF Work, WorkPhases, TokenOf
  <2>3. Bits[TokenOf(w)] >= w.asks /\ <<c, 1>> \in Requests
    BY <1>2, <2>2, TokensOfSolvers, SessionAssumption DEF PageZeros
  <2> HIDE DEF w
  <2>4. Fits(c, w)
    BY <1>1, <2>2, <2>3 DEF Fits, Answers
  <2> QED BY <1>1, <2>1, <2>4, SolverStepInv
<1>3. CASE work[c].nonce < MaxNonce /\ work' = [work EXCEPT ![c].nonce = @ + 1]
  <2> DEFINE w == [work[c] EXCEPT !.nonce = @ + 1]
  <2>1. work' = [work EXCEPT ![c] = w]
    BY <1>1, <1>3
  <2>2. work[c].nonce + 1 \in 0..MaxNonce
    BY <1>1, <1>3, SessionAssumption DEF Work
  <2>3. /\ w \in Work /\ w.phase = "solving" /\ w.copies = 0
        /\ w.began = work[c].began /\ w.ts = work[c].ts
    BY <1>1, <2>2 DEF Work
  <2> HIDE DEF w
  <2>4. Fits(c, w)
    BY <1>1, <2>3 DEF Fits, Answers
  <2> QED BY <1>1, <2>1, <2>4, SolverStepInv
<1> QED BY <1>2, <1>3 DEF TryNonce

LEMMA CallStepInv ==
  ASSUME SessInv, NEW c \in Calls, Resend(c) \/ Hear(c) \/ Unreached(c)
  PROVE  SessInv'
<1>1. /\ UNCHANGED <<vars, started, up, page>> /\ work[c].phase = "asked"
      /\ work[c] \in Work /\ work \in [Calls -> Work]
      /\ work[c].began <= mono /\ work[c].ts = (work[c].began \div Second) * Second
      /\ work[c].copies > 0 /\ <<c, work[c].copies>> \in Requests
      /\ Bits[TokenOf(work[c])] >= work[c].asks
  BY DEF Resend, Hear, Unreached, SessInv, SolverInv
<1>2. CASE Resend(c)
  <2> DEFINE w == [work[c] EXCEPT !.copies = @ + 1]
  <2>1. work' = [work EXCEPT ![c] = w] /\ <<c, work[c].copies + 1>> \in Requests
    BY <1>1, <1>2 DEF Resend
  <2>2. /\ w \in Work /\ w.phase = "asked" /\ w.copies = work[c].copies + 1
        /\ TokenOf(w) = TokenOf(work[c]) /\ w.asks = work[c].asks
        /\ w.began = work[c].began /\ w.ts = work[c].ts
        /\ work[c].copies \in Nat
    BY <1>1 DEF Work, TokenOf
  <2>3. Bits[TokenOf(w)] >= w.asks /\ <<c, w.copies>> \in Requests
    BY <1>1, <2>1, <2>2
  <2> HIDE DEF w
  <2>4. Fits(c, w)
    BY <1>1, <2>2, <2>3 DEF Fits, Answers
  <2> QED BY <1>1, <2>1, <2>4, SolverStepInv
<1>3. ASSUME NEW p \in {"broken"} \cup Answers, work' = [work EXCEPT ![c].phase = p],
             p = "replayed" => pc[<<c, work[c].copies>>] = "replayed"
      PROVE  SessInv'
  <2> DEFINE w == [work[c] EXCEPT !.phase = p]
  <2>1. work' = [work EXCEPT ![c] = w]
    BY <1>1, <1>3
  <2>2. /\ w \in Work /\ w.phase = p /\ w.copies = work[c].copies
        /\ TokenOf(w) = TokenOf(work[c]) /\ w.asks = work[c].asks
        /\ w.began = work[c].began /\ w.ts = work[c].ts
        /\ work[c].copies \in Nat /\ w.phase \notin {"idle", "solving"}
    BY <1>1 DEF Work, WorkPhases, Answers, TokenOf
  <2>3. Bits[TokenOf(w)] >= w.asks /\ <<c, w.copies>> \in Requests
    BY <1>1, <2>2
  <2> HIDE DEF w
  <2>4. Fits(c, w)
    BY <1>1, <1>3, <2>2, <2>3 DEF Fits, Answers
  <2> QED BY <1>1, <2>1, <2>4, SolverStepInv
<1>4. CASE Hear(c)
  BY <1>3, <1>4 DEF Hear
<1>5. CASE Unreached(c)
  BY <1>3, <1>5 DEF Unreached
<1> QED BY <1>2, <1>4, <1>5

\* A step of the gate that leaves the solvers alone, and no request unseen or
\* with another token.
LEMMA GateStepInv ==
  ASSUME SessInv, NEW r \in Requests, UNCHANGED <<mono, validity, started, up, page, work>>,
         pc[r] # "replayed", r[2] <= work[r[1]].copies,
         \A q \in Requests \ {r} : pc'[q] = pc[q] /\ token'[q] = token[q],
         pc'[r] \in {"verifying", "served", "replayed"} => token'[r] = TokenOf(work[r[1]])
  PROVE  OwnGrants' /\ Explained' => SessInv'
<1>1. mono' \in 0..MaxTime /\ work' \in [Calls -> Work] /\ ServerInv' /\ SolverInv'
  BY DEF SessInv, ServerInv, SolverInv
<1>2. CallInv'
  BY DEF SessInv, CallInv
<1>3. ToldInv'
  <2> SUFFICES ASSUME NEW c \in Calls, work[c].phase = "replayed"
               PROVE  pc'[<<c, work[c].copies>>] = "replayed"
    BY DEF ToldInv
  <2>1. pc[<<c, work[c].copies>>] = "replayed" /\ <<c, work[c].copies>> \in Requests
    BY DEF SessInv, ToldInv, SolverInv, Answers
  <2> QED BY <2>1
<1> QED BY <1>1, <1>2, <1>3 DEF SessInv

LEMMA ArriveInv ==
  ASSUME SessInv, IInv, NEW r \in Requests, Arrive(r)
  PROVE  SessInv'
<1> DEFINE t == TokenOf(work[r[1]])
<1>1. /\ pc[r] = "new" /\ r[2] <= work[r[1]].copies
      /\ UNCHANGED <<mono, validity, grants, started, up, page, work>>
  BY DEF Arrive, Check
<1>2. \/ pc' = [pc EXCEPT ![r] = "verifying"] /\ token' = [token EXCEPT ![r] = t]
      \/ pc' = [pc EXCEPT ![r] = "refused"] /\ UNCHANGED token
  BY DEF Arrive, Check
<1>3. /\ pc \in [Requests -> Phases] /\ token \in [Requests -> Tokens \cup {NoToken}]
      /\ grants \subseteq Grants
  BY DEF IInv, TypeOK
<1>4. /\ \A q \in Requests \ {r} : pc'[q] = pc[q] /\ token'[q] = token[q]
      /\ pc'[r] \in {"refused", "verifying"}
      /\ pc'[r] = "verifying" => token'[r] = t
  BY <1>2, <1>3
<1>5. OwnGrants'
  <2>1. \A g \in grants : g.req \in Requests \ {r}
    BY <1>1, <1>3 DEF IInv, GrantsInv, Grants
  <2> QED BY <1>1, <1>4, <2>1 DEF SessInv, OwnGrants
<1>6. Explained'
  <2> SUFFICES ASSUME NEW s \in Requests, pc'[s] = "replayed"
               PROVE  \E q \in Requests : pc'[q] = "served" /\ token'[q] = token'[s]
    BY DEF Explained
  <2>1. s # r /\ pc[s] = "replayed"
    BY <1>4
  <2>2. PICK q \in Requests : pc[q] = "served" /\ token[q] = token[s]
    BY <2>1 DEF SessInv, Explained
  <2> QED BY <1>1, <1>4, <2>1, <2>2
<1> HIDE DEF t
<1> QED BY <1>1, <1>4, <1>5, <1>6, GateStepInv DEF t

\* What the gate does by itself leaves the solvers alone.
LEMMA AddInv ==
  ASSUME SessInv, IInv, NEW r \in Requests, Add(r), UNCHANGED <<started, up, page, work>>
  PROVE  SessInv'
<1>1. /\ pc[r] = "verifying" /\ UNCHANGED <<mono, validity, token>>
      /\ pc \in [Requests -> Phases] /\ token[r] \in Tokens
      /\ r[2] <= work[r[1]].copies /\ token[r] = TokenOf(work[r[1]])
  BY DEF Add, IInv, TypeOK, VerifyingInv, SessInv, CallInv
<1>2. CASE Seen(token[r])
  <2>1. pc' = [pc EXCEPT ![r] = "replayed"] /\ UNCHANGED grants
    BY <1>2 DEF Add
  <2>2. PICK g \in grants : g.tok = token[r]
    BY <1>2 DEF Seen, IInv, SeenInv
  <2>3. g.req \in Requests /\ pc[g.req] = "served" /\ token[g.req] = token[r]
    BY <2>2 DEF IInv, TypeOK, Grants, GrantsInv, SessInv, OwnGrants
  <2>4. Explained'
    BY <1>1, <2>1, <2>3 DEF SessInv, Explained
  <2>5. OwnGrants'
    BY <1>1, <2>1 DEF SessInv, OwnGrants
  <2> QED BY <1>1, <2>1, <2>4, <2>5, GateStepInv
<1>3. CASE ~Seen(token[r])
  <2>1. /\ pc' = [pc EXCEPT ![r] = "served"]
        /\ grants' = grants \cup
             {[req |-> r, tok |-> token[r], at |-> mono, clock |-> clock[r]]}
    BY <1>3 DEF Add
  <2>2. OwnGrants' /\ Explained'
    BY <1>1, <2>1 DEF SessInv, OwnGrants, Explained
  <2> QED BY <1>1, <2>1, <2>2, GateStepInv
<1> QED BY <1>2, <1>3

LEMMA ClockworkInv ==
  ASSUME SessInv, Sweep \/ Tick \/ Horizon, UNCHANGED <<started, up, page, work>>
  PROVE  SessInv'
<1>1. UNCHANGED <<validity, pc, token, grants>>
  BY DEF Sweep, Tick, Horizon, vars
<1>2. mono' \in 0..MaxTime /\ mono <= mono'
  BY SessionAssumption DEF SessInv, Sweep, Tick, Horizon, vars
<1>3. SolverInv'
  <2> SUFFICES ASSUME NEW c \in Calls PROVE work[c].began <= mono'
    BY DEF SessInv, SolverInv
  <2>1. work[c].began \in Nat /\ work[c].began <= mono
    BY DEF SessInv, SolverInv, Work
  <2> QED BY <1>2, <2>1, SessionAssumption DEF SessInv
<1> QED BY <1>1, <1>2, <1>3 DEF SessInv, ServerInv, CallInv, ToldInv, OwnGrants, Explained

LEMMA RedeployInv ==
  ASSUME SessInv, IInv, NEW d \in Deployments, Redeploy(d)
  PROVE  SessInv'
<1>1. /\ pc' = [r \in Requests |-> IF pc[r] = "verifying" THEN "lost" ELSE pc[r]]
      /\ UNCHANGED <<mono, token, page, work>> /\ grants' = {}
      /\ validity' = IF Serves(d) THEN ValidityOf(d) ELSE validity
      /\ started' = d /\ up' = Serves(d)
  BY DEF Redeploy, Restart
<1>2. ServerInv'
  BY <1>1 DEF SessInv, ServerInv, Serves, Readable
<1>3. CallInv' /\ Explained' /\ OwnGrants' /\ SolverInv'
  BY <1>1 DEF SessInv, CallInv, Explained, OwnGrants, SolverInv
<1>4. ToldInv'
  <2> SUFFICES ASSUME NEW c \in Calls, work[c].phase = "replayed"
               PROVE  pc'[<<c, work[c].copies>>] = "replayed"
    BY <1>1 DEF ToldInv
  <2>1. pc[<<c, work[c].copies>>] = "replayed" /\ <<c, work[c].copies>> \in Requests
    BY DEF SessInv, ToldInv, SolverInv, Answers
  <2> QED BY <1>1, <2>1
<1> QED BY <1>1, <1>2, <1>3, <1>4 DEF SessInv

LEMMA SessionStepInv ==
  SessInv /\ IInv /\ [SessionNext]_sessionVars => SessInv'
<1> SUFFICES ASSUME SessInv, IInv, [SessionNext]_sessionVars PROVE SessInv'
  OBVIOUS
<1>1. CASE \E c \in Calls, kind \in Kinds, n \in Starts : Begin(c, kind, n)
  BY <1>1, BeginInv
<1>2. CASE \E c \in Calls : TryNonce(c) \/ Resend(c) \/ Hear(c) \/ Unreached(c)
  BY <1>2, TryNonceInv, CallStepInv
<1>3. CASE \E r \in Requests : Arrive(r)
  BY <1>3, ArriveInv
<1>4. CASE \E d \in Deployments : Redeploy(d)
  BY <1>4, RedeployInv
<1>5. CASE Reload
  BY <1>5 DEF Reload, vars, SessInv, ServerInv, SolverInv, CallInv, ToldInv, OwnGrants, Explained
<1>6. CASE Gate /\ UNCHANGED <<started, up, page, work>>
  BY <1>6, AddInv, ClockworkInv DEF Gate
<1>7. CASE UNCHANGED sessionVars
  BY <1>7 DEF sessionVars, vars, SessInv, ServerInv, SolverInv, CallInv, ToldInv, OwnGrants,
              Explained
<1> QED BY <1>1, <1>2, <1>3, <1>4, <1>5, <1>6, <1>7 DEF SessionNext

LEMMA SessionInvariance == SessionSpec => [](SessInv /\ IInv)
<1>1. SessionInit => SessInv /\ IInv
  BY SessionInitInv, InitInv DEF SessionInit
<1>2. (SessInv /\ IInv) /\ [SessionNext]_sessionVars => (SessInv /\ IInv)'
  BY SessionStepInv, SessionStepIsGateStep, StepInv
<1> QED BY <1>1, <1>2, PTL DEF SessionSpec

-----------------------------------------------------------------------------
(* What follows.                                                           *)

\* The page, the copies of its requests and the deployments change nothing
\* about the gate: whatever PowGateProofs says of it, it says of every session.
THEOREM SessionIsAGate == SessionSpec => Spec
<1>1. SessionInit => Init
  BY DEF SessionInit
<1>2. SessInv /\ IInv /\ [SessionNext]_sessionVars => [Next]_vars
  BY SessionStepIsGateStep
<1> QED BY <1>1, <1>2, SessionInvariance, PTL DEF SessionSpec, Spec

\* The solvers keep their types: each timestamp is a whole second.
THEOREM SessionTypeCorrect == SessionSpec => []SessionTypeOK
<1>1. SessInv => SessionTypeOK
  <2> SUFFICES ASSUME SessInv PROVE SessionTypeOK
    OBVIOUS
  <2>1. \A c \in Calls : work[c].ts \in {t[1] : t \in Tokens}
    <3> SUFFICES ASSUME NEW c \in Calls PROVE \E t \in Tokens : t[1] = work[c].ts
      OBVIOUS
    <3>1. TokenOf(work[c]) \in Tokens /\ TokenOf(work[c])[1] = work[c].ts
      BY TokensOfSolvers DEF TokenOf
    <3> QED BY <3>1
  <2> QED BY <2>1 DEF SessInv, ServerInv, SessionTypeOK, Work
<1> QED BY <1>1, SessionInvariance, PTL

\* A server that comes up is sound, whatever the file and the environment said:
\* a validity that wrapped around to a negative one lets in nothing but stamps
\* far ahead.
THEOREM OnlySoundServersServe == SessionSpec => []ServingIsSound
<1>1. SessInv /\ IInv => ServingIsSound
  <2> SUFFICES ASSUME SessInv, IInv, up PROVE ServingIsSound
    BY DEF ServingIsSound
  <2>1. /\ started \in Deployments /\ Serves(started) /\ validity = ValidityOf(started)
        /\ validity \in Validities /\ validity \in Int /\ TTL \in Nat /\ TTL >= 2
        /\ validity >= 0 => TTL = 2 * validity
    BY TTLType DEF SessInv, ServerInv, IInv, TypeOK
  <2>2. SendDifficulty(started) >= 1 /\ Configured(started) \in Int
    BY <2>1, PageOfServer
  <2>3. ASSUME validity < 0, NEW g \in grants PROVE FarAhead(g)
    <3>1. Age(g) \in Int
      BY TokenAssumption DEF IInv, TypeOK, Grants, Age
    <3> QED BY <2>1, <2>3, <3>1 DEF IInv, GrantedInWindow
  <2>4. Configured(started) \in Durations => validity = Configured(started)
    BY <2>1, <2>2, NoWrap DEF ValidityOf
  <2> QED BY <2>1, <2>2, <2>3, <2>4 DEF ServingIsSound
<1> QED BY <1>1, SessionInvariance, PTL

\* "Already used" is said to an honest page only when an earlier copy of the
\* same request got through, or another solver began in the same second and
\* met this one at the same nonce.
THEOREM ReplaysAreExplained == SessionSpec => []ReplayExplained
<1>1. SessInv => ReplayExplained
  <2> SUFFICES ASSUME SessInv, NEW c \in Calls, work[c].phase = "replayed"
               PROVE  \E r \in Requests :
                        /\ pc[r] = "served" /\ r # <<c, work[c].copies>>
                        /\ work[r[1]].began \div Second = work[c].began \div Second
                        /\ work[r[1]].nonce = work[c].nonce
    BY DEF ReplayExplained
  <2> DEFINE s == <<c, work[c].copies>>
  <2>1. s \in Requests /\ pc[s] = "replayed" /\ s[1] = c
    BY DEF SessInv, ToldInv, SolverInv, Answers
  <2>2. PICK r \in Requests : pc[r] = "served" /\ token[r] = token[s]
    BY <2>1 DEF SessInv, Explained
  <2>3. r[1] \in Calls /\ TokenOf(work[r[1]]) = TokenOf(work[c])
    BY <2>1, <2>2, RequestsOfCalls DEF SessInv, CallInv
  <2>4. work[r[1]].nonce = work[c].nonce /\ work[r[1]].ts = work[c].ts
    BY <2>3 DEF TokenOf
  <2>5. work[r[1]].began \in Nat /\ work[c].began \in Nat
    BY <2>3 DEF SessInv, Work
  <2>6. work[r[1]].began \div Second = work[c].began \div Second
    <3> DEFINE i == work[r[1]].began \div Second
               j == work[c].began \div Second
    <3>1. i * Second = j * Second
      BY <2>3, <2>4 DEF SessInv, SolverInv
    <3>2. i \in Int /\ j \in Int
      BY <2>5, SecondStart
    <3> HIDE DEF i, j
    <3>3. i = j
      BY <3>1, <3>2, SameSecond
    <3> QED BY <3>3 DEF i, j
  <2> QED BY <2>1, <2>2, <2>4, <2>6
<1> QED BY <1>1, SessionInvariance, PTL

\* An honest page is refused only for being late, by more than the clocks and
\* the rounding explain, or for asking its solver for too little.
THEOREM RefusalsAreExplained == SessionSpec => InTimeIsServed
<1> DEFINE Reason(r) == LET w == work[r[1]]
                        IN  \/ w.asks < Demands(started)[w.kind]
                            \/ mono - w.began + offset + (Second - 1) > validity
                            \/ offset < -validity
<1>1. ASSUME SessInv, IInv, [SessionNext]_sessionVars,
             NEW r \in Requests, pc[r] = "new", pc'[r] = "refused"
      PROVE  Reason(r)
  <2> DEFINE w == work[r[1]]
             t == TokenOf(w)
             route == <<w.kind, started>>
  <2>1. Arrive(r)
    <3>1. pc \in [Requests -> Phases]
      BY <1>1 DEF IInv, TypeOK
    <3>2. ASSUME NEW q \in Requests, Arrive(q) PROVE q = r
      BY <1>1, <3>1, <3>2 DEF Arrive, Check
    <3>3. ASSUME NEW q \in Requests, Add(q) PROVE FALSE
      BY <1>1, <3>1, <3>3 DEF Add
    <3>4. pc' # pc
      BY <1>1
    <3> QED BY <1>1, <3>2, <3>3, <3>4
            DEF SessionNext, sessionVars, vars, Begin, TryNonce, Resend, Hear, Unreached,
                Redeploy, Restart, Reload, Gate, Sweep, Tick, Horizon
  <2>2. /\ r[1] \in Calls /\ w \in Work /\ w.copies > 0 /\ up
        /\ ~(Fresh(t) /\ HardEnough(t, route))
    <3>1. r[1] \in Calls /\ r[2] \in Nat /\ r[2] > 0 /\ w \in Work
      BY <1>1, RequestsOfCalls DEF SessInv
    <3>2. r[2] <= w.copies /\ up /\ ~(Fresh(t) /\ HardEnough(t, route))
      BY <1>1, <2>1 DEF Arrive, Check, IInv, TypeOK
    <3> QED BY <3>1, <3>2 DEF Work
  <2>3. /\ t \in Tokens /\ Stamp[t] = w.ts
        /\ w.began \in Nat /\ w.asks \in Int /\ w.began <= mono
        /\ w.ts = (w.began \div Second) * Second
        /\ mono \in Nat /\ offset \in Offsets /\ offset \in Int /\ w.ts \in Int
        /\ validity \in Validities /\ validity \in Int
    BY <1>1, <2>2, TokensOfSolvers, TimeAssumption, TTLType DEF SessInv, SolverInv, Work, IInv, TypeOK
  <2>4. CASE ~HardEnough(t, route)
    <3>1. route \in Routes /\ Difficulty[route] = Demands(started)[w.kind]
      BY <1>1, <2>2, SessionAssumption DEF SessInv, ServerInv, Work
    <3>2. Bits[t] >= w.asks
      BY <1>1, <2>2 DEF SessInv, SolverInv
    <3> QED BY <2>3, <2>4, <3>1, <3>2, TokenAssumption DEF HardEnough
  <2>5. CASE ~Fresh(t)
    <3>1. ~(-validity <= mono + offset - w.ts /\ mono + offset - w.ts <= validity)
      BY <2>3, <2>5, FreshMeansPassed DEF Passed, Wall
    <3>2. w.ts <= w.began /\ w.began - w.ts <= Second - 1
      BY <2>3, SecondStart
    <3> HIDE DEF w, t
    <3> QED BY <2>3, <3>1, <3>2, ConfigAssumption DEF w
  <2> QED BY <2>2, <2>4, <2>5
<1>2. /\ SessInv /\ IInv /\ [SessionNext]_sessionVars
      => [\A r \in Requests : pc[r] = "new" /\ pc'[r] = "refused" => Reason(r)]_sessionVars
  BY <1>1
<1> QED BY <1>2, SessionInvariance, PTL DEF SessionSpec, InTimeIsServed
=============================================================================
