----------------------------- MODULE MCSession -----------------------------
(***************************************************************************)
(* An instance of Session for TLC.  A second, which is the validity of     *)
(* every server that comes up soundly, is two ticks: a solver that takes   *)
(* its time makes a token that is stale.  Bytes have three bits.  Nonce 1  *)
(* is always good enough; nonce 0 for some difficulties in some seconds.   *)
(*                                                                         *)
(* A Duration ends at 31: 19 seconds are 38, which wraps to -26, and twice *)
(* that to 12, so that the server comes up with a negative validity.       *)
(***************************************************************************)
EXTENDS Session, TLC

CONSTANT LastStamp

MCDefault == [difficulty |-> 1, sendDifficulty |-> 3, validity |-> 1, backend |-> Unset]

Silent == [k \in Settings |-> Unset]

Given(file, env) == [file |-> file @@ Silent, env |-> env @@ Silent]

\* No work demanded for a mail: main demands SendFallback.  The file's text
\* stays although the environment has an empty one.
Lenient  == Given("difficulty" :> 0 @@ "backend" :> Cloudflare,
                  "sendDifficulty" :> 0 @@ "backend" :> Empty)
\* The variable is not a number: the file counts.
Strict   == Given("difficulty" :> 2 @@ "sendDifficulty" :> 1,
                  "sendDifficulty" :> Garbage @@ "validity" :> 2)
NoTime   == Given("validity" :> 2, "validity" :> 0)
Wrapping == Given("validity" :> 19, <<>>)
BadFile  == Given("validity" :> Garbage, "validity" :> 2)

MCDeployments == {Lenient, Strict, NoTime, Wrapping, BadFile}

MCValidities == {ValidityOf(d) : d \in {e \in MCDeployments : Serves(e)}}

CONSTANTS a, b

\* The first call may be sent twice.
MCRequests == {<<a, 1>>, <<a, 2>>, <<b, 1>>}

MCTokens == {s * Second : s \in 0..LastStamp} \X (0..MaxNonce)
MCStamp  == [t \in MCTokens |-> t[1]]

Bytes == << <<0, 0, 0>>, <<0, 0, 1>>, <<0, 1, 0>>, <<1, 0, 0>> >>

MCHash == [t \in MCTokens |->
             CASE t[2] = 1 -> <<Bytes[1], Bytes[3]>>
               [] OTHER    -> IF t[1] = 0 THEN <<Bytes[2], Bytes[4]>>
                              ELSE <<Bytes[4], Bytes[2]>>]

MCBits == [t \in MCTokens |-> LeadingZeros(MCHash[t])]

MCRoutes     == Kinds \X {d \in MCDeployments : Serves(d)}
MCDifficulty == [route \in MCRoutes |-> Demands(route[2])[route[1]]]

Skews == {-3, 1}
=============================================================================
