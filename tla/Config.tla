------------------------------- MODULE Config -------------------------------
(***************************************************************************)
(* The configuration (internal/config/config.go) and what main makes of it *)
(* before it serves (cmd/agemail/main.go): defaults, then the JSON file,   *)
(* then the environment; the lifetime of a token and of a cache entry, on  *)
(* 64-bit durations; the difficulties the routes demand and the values     *)
(* written into the page.                                                  *)
(*                                                                         *)
(* A deployment is what the operator gives: [file, env], each a value or   *)
(* Unset for every setting.  Four settings stand for all: three numbers    *)
(* and one text.  No file at all is a file that sets nothing.              *)
(***************************************************************************)
EXTENDS Durations

CONSTANTS
  Deployments,   \* what the server may be started with
  Unset,         \* a key the file lacks, a variable not in the environment
  Empty,         \* the empty text
  Garbage,       \* a text that is not a number, or one beyond an int
  Cloudflare,    \* the mail backend "cloudflare"
  Default,       \* defaults(): a value for each setting
  SendFallback,  \* main's difficulty for /api/send when none is demanded
  Second         \* time.Second, in the model's unit of time

Numbers  == {"difficulty", "sendDifficulty", "validity"}
Settings == Numbers \cup {"backend"}

-----------------------------------------------------------------------------
\* json.Unmarshal refuses a text where a number belongs, and main then exits.
Readable(d) == \A k \in Numbers : d.file[k] \notin {Empty, Garbage}

\* An empty text in the file is a value: it replaces the default.
FromFile(d, k) == IF d.file[k] = Unset THEN Default[k] ELSE d.file[k]

\* A number counts when Atoi reads it, a text when it is not empty; any other
\* variable is passed over without a word.
Counts(d, k) == d.env[k] \notin {Unset, Empty} /\ (k \in Numbers => d.env[k] # Garbage)

Load(d) == [k \in Settings |-> IF Counts(d, k) THEN d.env[k] ELSE FromFile(d, k)]

-----------------------------------------------------------------------------
\* Load looks at no number's size: the validity may be any int.
ASSUME ConfigAssumption ==
  /\ Second \in Nat \ {0} /\ SendFallback \in Nat \ {0}
  /\ \A d \in Deployments : Readable(d) => \A k \in Numbers : Load(d)[k] \in Int

\* time.Duration(seconds) * time.Second, before it is cut to 64 bits.
Configured(d) == Load(d).validity * Second

\* cfg.PoWValidity(), and pow.ValidityDuration of the middleware.
ValidityOf(d) == Wrapped(Configured(d))

TTLOf(d) == Wrapped(2 * ValidityOf(d))

\* time.NewTicker(rc.ttl / 2) panics unless its argument is positive.
Serves(d) == Readable(d) /\ TTLOf(d) \div 2 > 0

\* A difficulty for mails below 1 is none.
SendDifficulty(d) == IF Load(d).sendDifficulty < 1 THEN SendFallback
                     ELSE Load(d).sendDifficulty

\* What the two instances of PoWMiddleware demand.
Demands(d) == [lookup |-> Load(d).difficulty, send |-> SendDifficulty(d)]

\* injectRuntimeValues: the meta elements of index.html.
PageSays(d) == [lookup |-> Load(d).difficulty, send |-> SendDifficulty(d),
                maxSizeMB |-> IF Load(d).backend = Cloudflare THEN 5 ELSE 25]
=============================================================================
