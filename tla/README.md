# A verification of agemail in TLA+

agemail is a small web service for sending age-encrypted mail. A page in the
browser looks up the public keys of the recipients, encrypts the message to
each of them, and posts it to a Go server, which mails it on. The server keeps
no accounts: a call to its API is paid for with a proof of work.

This directory holds TLA+ models of the parts of agemail in which something
happens over time, the TLC configurations that check them on small instances,
and TLAPS proofs about seven of them. `PROJECT.json` ties every definition to the
lines it models, every property to a mutation of the code that breaks it, and
every hazard to the properties that watch it.

    tlc -workers 2 -config gate.cfg MCPowGate      # any run, see below
    tlapm ListLemmas.tla
    for m in PowGate Session Client Relay Exchange Lookup Records; do tlapm ${m}Proofs.tla; done

## 1. The system

### Components

**Replay gate** (`internal/pow/pow.go`, `PoWMiddleware` in
`internal/api/middleware.go`). Every call to `/api/lookup` and `/api/send`
carries a header `X-PoW: <ts>.<nonce>`. `Verify` checks, in this order, that the
header parses, that `|now - ts| <= VALIDITY`, that SHA-256 of the token has
enough leading zero bits for the route, and that the token was not used before.
*State*: `ReplayCache.seen`, a map from token to the time it was added, under a
mutex; the ticker of the sweeper, which deletes entries older than TTL every
TTL/2. `main` makes one cache with TTL = 2 * VALIDITY and shares it between the
routes. *Operations*: `Verify`, `Add`, the sweep, `Close`. *Hard*: a goroutine per call;
the check and the `Add` are separate steps; freshness is on the wall clock and
eviction on the monotonic clock; a restart forgets. *Correct when*: a token buys
one call, as far as clocks and scheduling allow; a forgotten token is an expired one;
"already used" is said only of used tokens; the cache stays bounded.

**Compose page** (`web/src/main.ts`, `recipients.ts`, `send.ts`, `deeplink.ts`).
*State*: `pendingAddresses` and the badges, the Map `resolved`, the debounce
timer, message and files, the send button, the trust warning. *Operations*: add
and remove a recipient, answers of lookups, edits, a send (encrypt, solve, post,
one recipient at a time), the record of what was sent, the reset of the form.
*Hard*: one thread, but every `await` lets the user and other answers in; lookups
are never cancelled; three pieces of state say who the recipients are. *Correct
when*: the button and the warning follow the state; a send goes to the listed
recipients once; what is recorded is what was sent; nothing hangs.

**Recipient lookup** (`internal/lookup`). *State*: none beyond a call. *Operations*:
`Lookup` asks the domain's well-known file over HTTPS and falls back to TXT
records; `matchRecords`, `collectKeys`, `selectKey`, `resolveDelivery`,
`malformedRelevantTo`. *Hard*: two sources, each of which fails or answers
anything, warnings that cross from one to the other. *Correct when*: the answer
comes from a line that names the recipient, the source is reported truthfully, a
post-quantum key is preferred, the user learns of malformed lines.

**Lookup handler** (`internal/api/lookup.go`), **send handler**
(`internal/api/send.go`). Stateless. The send handler resolves the recipient again,
builds the MIME message and calls a backend once per recipient. *Hard*: the record
may have changed since the browser encrypted; one recipient may fail after others
were sent to; a handler outlives its connection, and a browser repeats a post.
*Correct when*: mail goes only to an explicitly resolved mailbox, once, the page is
told "sent" only of what was mailed, and a failure is reported.

**Mail backends** (`internal/mail/smtp.go`, `cloudflare.go`). An SMTP dialogue, or one
API call. *Hard*: each step may fail, also after the mail was accepted.

**MIME assembly** (`mime.go`, `encode.go`). Pure functions. *Hard*: the payload and
the metadata of an attachment belong together only by the number in their names,
which each backend writes for itself; the ends of lines. *Correct when*: every file
of the request is in the mail, under its own number.

**PoW solver** (`web/src/pow.ts`). *State*: the timestamp fixed at the start, a nonce
counted up from a random start. *Hard*: the solution may be found after the token
expired; two solvers of one second; a difficulty read before a restart. *Correct
when*: a solution found in time is accepted.

**Encryption** (`web/src/encrypt.ts`) calls the age library.

**Configuration** (`internal/config`): environment over file over defaults. *Hard*: what
does not parse is passed over; values that make a duration wrap, or the ticker
panic. *Correct when*: a server that comes up can serve, and its page knows what it
demands.

**Server start** (`cmd/agemail/main.go`): wires the above. **CORS, CSP, health**:
stateless headers and a constant answer. **Markup and styles**: presentation.

### Interactions

    user --edits--> page --X-PoW, GET /api/lookup--> gate --> lookup handler --> Lookup --> HTTPS / DNS
                     |                                 |
                     |                            ReplayCache  (one, for both routes)
                     |                                 |
                     +-----X-PoW, POST /api/send-----> gate --> send handler --> Lookup (again)
                                                                        |
                                                                        +--> SMTP or Cloudflare

The page solves a proof of work before each call. Each lookup and each recipient
of a send is one call with a token of its own. Nothing is
persisted but the page's list of recent recipients.

## 2. The modules

| module | models | abstracts |
|---|---|---|
| `TokenLedger` | what the gate promises: a token is used up by the call it buys, until a restart | |
| `Durations` | `time.Duration`: products and negations that wrap, differences that saturate | nanoseconds to the model's unit of time |
| `PowGate` | the gate: calls, cache, sweeper, both clocks, restarts with another validity | SHA-256 to a number of zero bits |
| `Config` | what `Load` and `main` make of a deployment's file and environment | all settings to three numbers and a text |
| `Session` | an honest page in front of `PowGate`: solver, calls that the browser may repeat, redeployments with another `Config` | SHA-256 to any bytes |
| `Client` | the compose page and its asynchronous lookups and sends | texts, files and addresses to model values; the server to any answer |
| `Delivery` | what one call to `/api/send` promises | |
| `Relay` | one such call, through the handler and either mail backend | mails to their mailboxes, bodies to which part is damaged |
| `Envelope` | what a mail holds, by either backend | names to a tag and a number, contents to model values |
| `Lookup` | the resolution of one recipient | a line to a record, or malformed with an intended match |
| `Records` | the text below `Lookup`: files, TXT strings, escapes, lines, fields | |
| `Exchange` | one message from the lookup to the mailbox: page, browser, `TokenLedger`, handlers, sources that change | the lines of a source to the recipient's records, each a key and a mailbox |
| `Lists` | the loops that append some elements of a slice to another one, and the positions of a separator | |
| `ListLemmas` | facts about sequences that the proofs about `Lookup`, `Records` and `Envelope` share | |
| `...Proofs` | theorems about `PowGate`, `Session`, `Client`, `Relay` with `Envelope`, `Exchange`, `Lookup`, `Records` | |
| `MC...` | instances for TLC | |

`PowGate` and `Config` extend `Durations`, `Session` extends both, `Envelope` extends `Relay`, `Records`
extends `Lookup`. `Exchange` takes the gate as `TokenLedger`, which `PowGate` is shown to
implement, and both `Relay` and each copy of a post in `Exchange` are shown to implement `Delivery`.

### PowGate

| code | model |
|---|---|
| `time.Now()`, wall and monotonic reading | `mono + offset`, `mono` |
| `ReplayCache.seen` | `seen` |
| the sweeper's ticker | `due`, advanced by `Period` = TTL \div 2 |
| a goroutine in `PoWMiddleware` | `pc[r]`, `token[r]`, and the history variable `clock[r]`: what its check read |
| `2*cfg.PoWValidity()` | `TTL`, which wraps (`Lifetime`) |
| header missing or malformed, 401 | `RefuseHeader` |
| `Verify` up to the replay check | `Check`: one step, since only the clock is shared and it is read once |
| `cache.Add` and the answer | `Add`, atomic under the mutex |
| the sweep | `Sweep`, atomic under the mutex |
| `time.Since`, `delta = -delta` | `Since` (saturating) and `Negated` (wrapping), on `MaxDuration` |
| NTP, a restart | `StepClock`, `Restart`, which takes any validity a server comes up with |

`boot` and `grants` are history: the properties speak of what was let through, when,
and by what reading of the clock. Nothing bounds how long a call is held up between
that reading and `Add`, how the wall clock is set, how far ahead a timestamp is, or
how late the sweeper is: nothing in the code does. So the properties say what remains true, and
name the disturbance that a departure takes:
  - `SecondUseIsLate`: a server lets a token through twice only if the second call was held up
    for longer than the first, or the clock was set back between them (`Behind` is the distance from the
    reading to the `Add`, and shows both), or its stamp is 292 years ahead (`FarAhead`);
  - `EvictedIsExpired` names the same exceptions, `GrantedInWindow` only the last;
  - `LedgerSpec`: in a life of the server in which no later grant is further behind than an
    earlier one, and none far ahead, every step is one of the ledger. The exception is
    the predicate `Disturbed` on the history, not an assumption on the constants.

`TokenLedger` has no clock, cache or sweeper. `PowGate` implements it by
`used` <- the tokens granted since the last start and `verdict` <- the phase of the
call, with "waiting" for a call that has not ended.

### Session and Config

| code | model |
|---|---|
| `Load`: defaults, `loadFile`, `applyEnv` | `FromFile`, `Counts`, `Load`, on a deployment `[file, env]` |
| `json.Unmarshal` fails, the ticker panics | `Readable`, `Serves` |
| products of durations in an int64 | `Wrapped`; any int is a validity, and the product may be negative |
| `injectRuntimeValues` | `PageSays` |
| `solvePoW` up to its loop | `Begin`: whole second, random first nonce, difficulty of the page |
| a turn of the loop, `countLeadingZeroBits` | `TryNonce`, `PageZeros` |
| `fetch` with `X-PoW` | a copy of the call is sent, `Arrive` (the gate's `Check`), `Hear` (the answer to the last copy), `Unreached` |
| a browser that repeats a request on a new connection | `Resend` |
| a restart with another configuration | `Redeploy`: validity and TTL are the new deployment's |
| a fresh load of the page | `Reload` |

The page's clock is `mono`, the server's `mono + offset`. A tick is a fraction of a
second, as `time.Since` sees fractions and the timestamp does not. `Bits` of the gate
is `LeadingZeros` of `Hash`. The request `<<c, i>>` of the gate is the i-th copy of call c; the page counts by its own copy of the loop.

### Client

An action is a task between two awaits; `UpdateUI` is part of each action whose task
calls `updateUI`, and absent from the others (`ClickSend` disables the button by
itself, the refused lookup of the debounce timer leaves the page alone).

| code | model |
|---|---|
| `pendingAddresses`, the badge elements | `badge`: the address's status and the lookup that drives it |
| `resolved` | `resolved`: the trust, and, as history, whether the answer was to the lookup of the badge (`own`) |
| lookups under way | `lookups`: whose, and does it report to a badge |
| `debounceTimer` | `timer`, `TimerFires` |
| `addRecipientBadge`, the remove button | `AddBadge`, `Remove` |
| the ends of `lookupRecipient` | `LookupFound`, `LookupFailed` (not found, or an exception), `LookupRefused` (the early return on `!resp.ok`) |
| the click handler | `ClickSend` up to its first await |
| the loop over the live `files` array | `EncryptFile`, `StartPost` |
| the posts, one after another | `PostNext`, `PostLast`: the latter also makes the record and resets the form; an error may come from the server, from a lost answer or from the encryption, and the message may have been taken nevertheless |

`sends`, `posted` and `records` keep the history that the properties compare; a send
also remembers which badges were on the page (`listed`), and which addresses the Map held by
the answer to a lookup of no badge (`stray`). `updated` and `edited` note the sends during which `updateUI` has run,
and the form has changed. The order in which a send
takes its recipients is any order; the code's is that of the Map.

The user is not restricted: they edit, add and remove whenever the page lets them. What the page
does not keep them from is therefore part of the properties. `ListedOrStray` and `FoundOrStray` say that badges, Map and
send agree but for what a stray lookup answers; `OverlapIsUpdated` that two sends overlap only after
`updateUI` has run during the first; `RecordUnlessEdited` that a record is what was sent unless the form has changed.

### Lookup and Records

The two sources answer any list of lines, independently at each call, or fail.
`HTTPSAnswers` and `DNSAnswers` are `Lookup` from the return of `HTTPSLookup` and
`DNSLookup`. A name stands for all its spellings in upper and lower case, which the
code folds before it compares. `validated` is history: the AD bit of the DNS answer, which alone decides
between "dnssec" and "dns" (`Trust`). Which addresses the HTTP client refuses to dial is
summed up in "fails".

`Records` justifies "a line is a record or malformed": on sequences of bytes it has
`SplitN`, `TrimSpace` (space and line feed), `ParseRecord`, `ParseRecordsAndFailures`,
`unescapeTXT`, the joining of strings in `DNSLookup` and the limit of `HTTPSLookup`
(`Fields`, `IsRecord`, `RecordsIn`, `Unescape`, `Joined`, `Limited`), and beside them what is
outside the code: how lines are written to a file, cut into TXT strings and
escaped by the DNS library. `RecordsAssumption` says what can be published as a record at
all: a name, mailbox or key is what `ParseRecord` leaves of a field after `TrimSpace`, so it
is not empty, neither starts nor ends with a blank and has no line feed; the first two fields of a line
have no semicolon (the third may: `SplitN` stops there); a name that started with `#` would
make its line a comment; and a key starts with the prefix that `ParseRecord` asks for. An empty
delivery field is `NoMailbox`.

### Relay, Delivery and Envelope

| code | model |
|---|---|
| the loop over `req.Recipients`, `errors` | `at`, `errors` |
| decoding of body, message and attachments | `Decode`, all of it before any mail |
| `LookupService.Lookup(recipient)` | `LookUp`: any answer of module `Lookup`, to each recipient of its own |
| `sendRaw` up to the message | `Converse`: each of dial, STARTTLS, AUTH, MAIL, RCPT, DATA and write succeeds or fails; the two optional ones may count as succeeded where they do not apply |
| `wc.Close()` | `EndTaken` (the server takes the mail, its reply may be lost), `EndRefused` |
| `c.Quit()` as the result of `Send` | `Quit` |
| `CloudflareService.Send` | `Post` |
| 200, 500, 400 | `Answer` with "sent" or "failed", `Decode` with "rejected" |

`taken` is history: what the mail server or the API has accepted. Two calls share no
state, so one call is modelled. `Relay` implements `Delivery` (mails leave in the order of
the list, before the answer; a refusal follows none, "sent" follows all) by
`mailed` <- `taken` and `reply` <- `answer`.

`Envelope` has the numbering of the attachments in the handler (`Numbered`), the parts
of `AssembleMIME` and the list of the API call (`MIMEParts`, `APIAttachments`), each with its own naming of
an attachment's two files (`MIMEPair`, `APIPair`), and the
lines of `writeBase64` (`LinesOf`).

### Exchange

| code | model |
|---|---|
| `lookupRecipient` and its handler | `LookUp` (the well-known file), `LookUpZone` (the zone, a step later), `LookUpFails` |
| `collectKeys`, `selectKey`, `matched[0]` | `Answer`: the key is selected among all records of the source that answers, the mailbox is the first one's |
| `sendForOneRecipient` | `Click`: seals for the key shown, posts |
| its end | `Hear` (`Understood`: only an OK response is one), `Reject` (no response) |
| a browser that repeats a post on a new connection | `Resend` |
| `PoWMiddleware` | `Pass`, `TurnAway`, in terms of `TokenLedger` |
| `SendHandler.ServeHTTP` | `ReResolve` (one source, and in a later step the other), `MailTaken` (the backend has the mail), `Report` (`Send` returns, the handler answers) |
| `WriteTimeout`, a broken connection | `Reject` while the handler goes on |
| a restart | `Restart`: handlers and cache are gone, posts on their way are not |
| the domain's operator, outages | `Publish`, `Outage` |

What the zone holds (`published["zone"]`) is what the resolver says, so that a record kept in its cache for a
while is published until the cache drops it. A token is the call it was made for; the copies of a post share it. `mails`, `steady` and
`offered` are history: which mail went where, since when the sources are
unchanged, which mailboxes were published during a handler's life. Each copy implements
`Delivery` (`CallsDeliver`) by `asked` <- 1, `mailed` <- the copy's own mail and `reply` <- what it was
answered, the gate's refusals included: what `Relay` shows of the handler is what the
exchange has of it.

## 3. The runs

| run | shows |
|---|---|
| `gate` | with TTL = 2 * VALIDITY, as `main` has it, under stalls, a wall clock a second ahead or behind that is set from one to the other, a timestamp and a validity beyond the range of a Duration, a late sweeper and a restart: two uses of a token are more than TTL apart (`ReuseGap`), and there is a second one only for a call held up, a clock set back or a far stamp (`SecondUseIsLate`); but for these, what the cache forgets has expired (`EvictedIsExpired`), calls are let through within their token's window (`GrantedInWindow`), and the gate is a ledger of single-use tokens (`LedgerSpec`); entries are evicted in time (`EntryAge`), "already used" is true when said (`ReplayedWasGranted`) |
| `gate_stall_reuse` | *violation*: one second between check and `Add` is enough for a token to be used twice |
| `session` | an honest page on a clock that is ahead or behind, a browser that may repeat a request, and a server that may be redeployed: whatever the configuration said, a server that comes up is sound, or has a negative validity and lets nothing in but stamps far ahead (`ServingIsSound`); a request is refused with 401 only for being late, or after the difficulty was raised (`InTimeIsServed`); the page is told 429 only when an earlier copy of the request got through, or two of its solvers met at one nonce of one second (`ReplayExplained`) |
| `client` | with a user who does anything at any time, and deep links: the button is enabled only for a message that can be sent, and comes back when no send is under way (`ButtonTellsTruth`); sends and found badges depart from the page's badges only by stray lookups (`ListedOrStray`, `FoundOrStray`); no recipient found by plain DNS is sent to without the warning (`DnsWarned`); lookups end (`LoadingEnds`), and so do sends, unless a post is never answered or the files change for ever (`SendEnds`) |
| `client_twice` | with two sends and anything in between: they overlap only after `updateUI` has run (`OverlapIsUpdated`), and the record of each is what was sent unless the form changed (`RecordUnlessEdited`) |
| `client_ghost` | *violation*: a removed address is resolved again by its late lookup and written to |
| `client_relookup` | *violation*: the second lookup of a deep link's last address enables the button beside a badge that shows a cross |
| `lookup_all` | the answer comes from a line that names the recipient; its trust is https of the file, dnssec of a zone whose answer had the AD bit, dns of any other (`AnswerIsExplicit`); a post-quantum key is preferred and the reason is right (`PQPreferred`); malformed lines of both sources are reported when the file has a valid record (`WarnedOfBoth`); lines read the same however they are published (`PublishedIsRead`); a file cut at its limit loses its end and nothing else (`OnlyTheEndIsLost`) |
| `lookup_catchall` | *violation*: a recipient without a line of its own is not found beside a line for its domain |
| `lookup_warn` | *violation*: without a valid record, the file's malformed lines are not reported |
| `relay_all` | whatever step fails and whatever reply is lost, a call implements `Delivery` (`DeliverySpec`): the answer accounts for each recipient, and "sent" means all were mailed (`AccountedFor`); nobody is mailed twice (`DeliverySpec` again), or at a mailbox other than the one found for them (`MailedWhereFound`); a request with a damaged attachment mails nothing (`BadRequestMailsNothing`); by either backend the mail holds each file under its own number (`FilesAreTheRequest`), on lines that make up the text (`LinesAreTheText`) |
| `exchange` | with repeated posts, broken connections, and a change of the sources or a crash of the server at any step, also between the mail and the answer: what the page confirms was mailed (`ConfirmedIsMailed`), each start of the server mails a post once at most (`OneMailPerStart`), while nothing changes the mailbox is that of the answer whose key was used (`ShownIsUsed`), a mailbox withdrawn before the post was let in gets nothing (`WithdrawnGetsNothing`), and each copy of a post is a call that implements `Delivery` (`CallsDeliver`) |

### Bounds, and why they are enough

*Gate.* A validity of 2 s makes TTL 4 s and a sweep every 2 s. The clock runs for 7 s, which covers
the life of a token stamped 2: used as early as possible, held in the cache, expired,
evicted, tried again by a call that was held up or after the clock was set back. Three calls, interchangeable, let two
race while a third comes after an eviction. Two tokens on two routes: one hard enough for
both, the other for lookups only and stamped so far ahead that its age saturates. Two starts of the server; one in `gate_stall_reuse`,
which needs no restart. `MaxDuration` is 15, so that a validity of -14 wraps to a TTL of 4: the server
starts with either. Stalls are as long as the clock runs. The proofs lift all of these bounds.

*Session.* A second is two ticks, which is also the validity of every deployment that serves soundly; the clock runs for two
ticks, and the server's is three ticks behind the page's or one ahead: a token is stale on a clock
ahead, of the future on a clock behind, and the rounded timestamp matters.
Bytes have three bits. One nonce is always good enough; the other is for some
difficulties only, with the ones in the first or the second byte. Two calls,
starting at either of two nonces, can meet, and the first may be sent twice. Five deployments: a lenient one (no
difficulty for mails), a strict one, one without validity, one whose validity wraps to a negative one while its
TTL wraps to a positive one, one whose file does not parse. A redeployment may change the validity under a token.
The proofs lift all of these bounds.

*Page.* Two addresses, an empty and a written message, one file that may be attached
once at a time, two trust levels (the one with a warning and one without; in
`client_twice` one), two or three lookups, one or two sends. That is enough for a lookup to outlive its badge,
for an address to be looked up twice, for a file to be removed while a send reads
the list, and for a second click during a send. `MaxLookups` does not count the
debounce timer's lookup. Every bound stands in the guard of the action it limits.
For the safety properties the proofs lift them.

*Lookup.* A user, its bare domain and the same local part under a mistyped domain; two
classic keys and a post-quantum one; two lines in each of the two places. Two lines
give every order of two keys and of a good and a bad line. `lookup_all` starts from
each recipient and enumerates all pairs of contents. In `Records` the names, the mailbox
and the keys are spelled with what gives the escapes trouble: a backslash before
digits, quotes, a byte over 126. TXT strings have at most five bytes, so that they cut
every line, and the limit of a file is tried at each length.

*Relay.* Up to three recipients, two mailboxes, both backends, each part of the body
damaged or not. Three recipients let one fail between two that succeed; a shared
mailbox lets two entries of a list go to one place. Up to three attachments of two
contents; lines of three characters and texts of up to ten, which has a multiple of the
width, one more and one less.

*Exchange.* Two records with a key and a mailbox of their own, the second's key post-quantum; a source lists the
second, both, or nothing, so that one answer has the key of the second and the mailbox of the first. Two calls (the second after a failure), each post sent up to
twice; one event (`MaxEvents`): a change of the sources, or a restart. A copy can thus
arrive while the other is in hand, after it failed, after it mailed, and after the restart. The page looks up as often
as it likes until the last click. Two events, one of
each, are over ten million states and are left to the proofs, which lift all of these bounds.

### Fairness

The safety runs need none; `Session` and `Exchange` state safety only. `Client` assumes
weak fairness of the end of each lookup (`AnswerLookup`) and of the steps a send takes by itself
(`Encrypt`: a turn of the loop over the files, and its end), nothing else. For a lookup the code sees to it: the HTTPS client and the
DNS client have timeouts, and the handler answers. Encryption is a computation of the page.

A post is not fair: `smtp.Dial`, the dialogue and the API call
have no deadline, and the `WriteTimeout` of `cmd/agemail/main.go:146` does not end a handler
that waits. Nor does anything stop a user who attaches files faster than they are encrypted. `SendEnds` has both as alternatives:
a click is followed by results, or some send waits for a post for ever, or the files change infinitely often. What
it shows is that nothing else, in particular no change of the files under the loop, can hold a send up. The user is never
forced to act, nor is the debounce timer. `Relay` states no liveness.

`Horizon` in `PowGate`, `Returned` in `Lookup` and `Relay` and `Quiet` in `Exchange` are
stuttering steps that keep the end of the model's clock, and of a call, from being
reported as a deadlock. They are enabled only there.
`Client` needs none: the user can always edit the message, and after a send the page is as usable as before.

## 4. The proofs

### PowGateProofs

For every number of calls, tokens and routes, every difficulty, every validity with which a server comes up (wrapping
ones included), every timestamp, delay and reading of the clocks:

| theorem | says |
|---|---|
| `TypeCorrect` | `TypeOK` |
| `ReusesAreFarApart` | `ReuseGap` |
| `SecondUsesAreLate` | `SecondUseIsLate` |
| `EvictedTokensHaveExpired` | `EvictedIsExpired` |
| `GrantsAreInWindow` | `GrantedInWindow` |
| `EntriesAreEvicted` | `EntryAge` |
| `RefusalsAreTrue` | `ReplayedWasGranted` |
| `GateImplementsLedger` | `LedgerSpec` |

The assumptions are `DurationAssumption`, `TokenAssumption` and `TimeAssumption`: the
constants have their types, and a server comes up only if half its TTL is positive (`time.NewTicker`
panics otherwise). No theorem has a condition of its own.

*Argument.* `SecondUseIsLate` is not inductive: it does not say why `Add` finds an old
token. The invariant `IInv` adds
  - `VerifyingInv`: a call under way passed the freshness check by the reading it made;
  - `GrantsInv`: grants lie in the past, and the call that got one is over;
  - `CacheInv`: a token granted since the last start is in the cache, dated no earlier
    than the grant, or was granted more than TTL ago;
  - `SeenInv`: every entry stands for a grant since the last start;
  - `SweepInv`: the next tick is at most a period away, and an entry lies in the past, but not further back
    than the sweeper's last turn allows;
  - `ReuseGap` itself, which `CacheInv` makes inductive: `Add` grants only what is not in
    the cache, hence what was granted more than TTL ago;
  - `GrantedInWindow`, from `VerifyingInv`.

There is one lemma per action, and `Add` has two, for its two outcomes. `Lifetimes` does the arithmetic of
a TTL that may wrap: a validity of zero or more with which a server comes up is half its TTL.
`FreshMeansPassed` does that of `Since` and `Negated`: passing the check means being within the window on both sides, or far ahead.
From there, the readings of two checks that let one token through lie within a window of 2 * VALIDITY (`WindowIsTTL`), which
is TTL, while their grants are more than TTL apart: so the second grant is further behind its reading than the
first (`LaterIsBehind`). `main`'s TTL has no slack, which is why any delay of the second call counts.

### SessionProofs

For any hashes, clocks, calls, copies and deployments, from `ConfigAssumption` (the numbers of a configuration are
integers) and `SessionAssumption` (the gate's tokens, bits and difficulties are those of the page and the
deployments):

| theorem | says |
|---|---|
| `SessionIsAGate` | a session is a behaviour of `PowGate`: all of the above holds of it |
| `SessionTypeCorrect` | `SessionTypeOK` |
| `OnlySoundServersServe` | `ServingIsSound` |
| `ReplaysAreExplained` | `ReplayExplained` |
| `RefusalsAreExplained` | `InTimeIsServed` |

`SessInv` ties each request of the gate to its solver: the timestamp is the second the solver
began in, a solution is good for the page's difficulty (`SolverInv`), a request the gate has seen was sent and has the token of
its solver (`CallInv`), and a replayed one has a served one with its token (`Explained`), which
is where `SeenInv` of the gate comes in. `NoWrap` says that a number of seconds within a Duration is the validity;
where it is not, `Lifetimes` and `GrantedInWindow` of the gate show that a negative validity lets in nothing but stamps far ahead.

### ClientProofs

For any addresses, deep links, lookups, sends and files, from `ClientAssumption`:

| theorem | says |
|---|---|
| `PageTypeCorrect` | `TypeOK` |
| `TheButtonIsRight` | `ButtonTellsTruth` |
| `TheWarningIsRight` | `DnsWarned` |
| `SendsGoToTheListed` | `ListedOrStray` |
| `TheButtonAgreesWithTheBadges` | `FoundOrStray` |
| `SendsTakeTurns` | `OverlapIsUpdated` |
| `RecordsAreTrue` | `RecordUnlessEdited` |

All of them hold of every user and every link. `client_ghost` and `client_relookup` show that the exceptions of
`ListedOrStray` and `FoundOrStray` are needed. The invariant is `TypeInv` with
  - `Truthful`: the button and the warning are what `updateUI` would make of the present state, up to the tasks that do not call it;
  - `PairInv`: no lookup has a number that is still to come, a badge whose lookup is under way says so (`IdsInv`), and a badge shows success when the Map
    holds its own lookup's answer (`OwnInv`);
  - `SendInv`: `ListedOrStray` itself; the button of a page that is sending is disabled until `updateUI` runs (`OverlapInv`); a running send
    during which the form has not changed agrees with the form, and so does what it has posted (`Recorded`).

### RelayProofs

For lists of any length, any mailboxes and either backend, from `RelayAssumption` alone (the
constants are distinct and typed): `AccountedFor` (`AnswersAccountForAll`), `OneMailEach`
(`MailsAreSingle`), `MailedWhereFound` (`MailsAreAddressed`), `BadRequestMailsNothing`
(`BadRequestsAreHarmless`), `TypeOK`, and `DeliverySpec` (`RelayImplementsDelivery`). The
invariant follows the loop: every position behind `at` has a mail or an error (`Behind`),
nothing ahead of it has either (`Ahead`), and the position in hand has a mail exactly
while QUIT is outstanding (`InHand`); `Place` ties `at`, `found` and the answer to the
stage. All the ways to leave a position are one lemma, `PassInv`; the ways to
take a mail are `AcceptMail`. For the refinement, a mail taken is a step of `Mail`, since the
position in hand is beyond all that have one, the end of the call is `Close`, and the
rest stutters.

### ExchangeProofs

For any lists of records, calls, copies and events, from `ExchangeAssumption`: `TypeOK`
(`ExchangeTypeCorrect`), `OneMailPerStart` (`RepeatedPostMailsOnce`), `ConfirmedIsMailed`
(`ConfirmationIsTrue`), `ShownIsUsed` (`KeyAndMailboxAgree`) and `WithdrawnGetsNothing`
(`WithdrawalHolds`), and `CallsDeliver` (`CopiesImplementDelivery`). Beside `TypeOK` the invariant says that copies are sent in order, of calls that
were made (`InOrder`); that at most one copy of a call is in hand, its token is used up, and so is that of
every mail of this start (`OneAtATime`); that a copy that mailed, or was answered "sent", has its mail (`SentIsMailed`), and none before or when
it was turned away (`NoMailYet`); that a
mailbox in hand was published during the handler's life (`StillOffered`); and that, for a call whose
sources are steady, `Lookup` would answer what was sealed, were it called now (`StillShown`): each of its two steps looks at a source
that has not changed since the other.

### ListLemmas

What `FlattenSeq`, `Keep`, `Places` and pieces of a list yield for lists of every length needs induction. The
library's induction theorems take the predicate as an operator parameter, which the provers cannot
instantiate. `NatSetInduction` and `SeqSetInduction` take a set in its place, that of all numbers or sequences
with the property, and follow from the well-foundedness of strict inclusion among the subsets of
a finite set (`FS_StrictSubsetOrderingWellFounded`). This is why `Lists` tells what a loop keeps by a set of
positions, where `SelectSeq` would take an operator, and why `RecordsProofs` speaks of `Trimmed`, `Fields` and
`EscapedByte` as functions on texts (`Image` of a list by a function).

The facts come in two kinds: what is in a list (`KeepSet`, `KeepLists`, `FirstOnesOnce`, `PiecesAreWhole`), and
what becomes of two lists that are joined (`FlattenConcat`, `KeepConcat`, `ImageConcat`, `PlacesConcat`). The
second kind carries the proofs about texts.

### LookupProofs

For any names, domains, mailboxes and keys, any number of which are post-quantum, and lines of any
bounded number, from `LookupAssumption`: `TypeOK` (`LookupTypes`), `AnswerIsExplicit` (`AnswersAreExplicit`),
`PQPreferred` (`PostQuantumPreferred`) and `WarnedOfBoth` (`BothAreWarnedOf`). None of the properties is
inductive: each looks at an answer and asks for the lines it came from. The invariant says, for each stage,
what the result is made of: nothing before the file is read (`InvHttps`); after a file that did not
answer, the warnings that it leaves (`InvDns`); in the end, either the answer of the file's matching
records, or that of the zone's after a file that named the recipient nowhere (`InvDone`). From there the
properties are about the helpers: `MatchRecords`, `CollectKeys` (no key is lost, none is there twice), `SelectKey`
and `ResolveDelivery`.

### The contents of a mail (in RelayProofs)

`FilesAreTheRequest` (`MailHoldsRequest`) and `LinesAreTheText` (`LinesAreWhole`), for any contents, attachments,
line width and length of text. What a mail holds depends on the request and the backend alone, so both
hold in every state, and the step to the theorem of `Spec` is short; the work is in the list of files. Its
i-th pair stands at 2i - 1 and 2i (`PairsInOrder`), SMTP's parts but the notice are the API's attachments
(`SameFiles`), and so a name has one content (`FilesByName`).

### RecordsProofs

`PublishedIsRead` (`EveryWayIsRead`) and `OnlyTheEndIsLost` (`OnlyTheEndOfAFileIsLost`), for any spelling within
`RecordsAssumption`, any length of the strings of a TXT record and any bounded number of lines. These hold in
every state, too. The argument:
  - a separator divides what is split on either side of it (`SplitConcat`), so what is read of a text up to
    a line end and what is read of the rest do not depend on each other (`RecordsConcat`);
  - what is written for a line is one line, is no comment and survives trimming (`WrittenIsALine`), and is read
    back as the record that it is, or as a failure (`WholeLine`). By induction about the lines, a
    file is read as it was written (`FileIsRead`);
  - the start of a line is read as nothing, or, once both semicolons are there, as a record of the same match and
    mailbox whose key starts the key (`StartOfLine`). A file that is cut off is some whole lines and the start
    of one (`CutFileIsRead`, again by induction);
  - `Unescape` is defined by recursion from the end of its text, so the proof first shows that a function with its
    equations exists (`UnescapeExists`), then that one step takes off just what one byte was escaped to, whatever follows
    (`EscapeIsRead`; `DecimalDigits` is its arithmetic), and so undoes a text (`UnescapeIsInverse`);
  - strings are pieces of a text, each escaped; joined they are the text, escaped (`StringsAreRead`), wherever the
    code cuts, also within what stands for one line. The two ways to fill a zone then read as the file
    does (`BundleIsRead`), or line by line (`LinesAreRead`).

### Only model-checked

Both liveness properties of `Client` (`LoadingEnds`, `SendEnds`), which are out of the prover's reach, and the properties of
the five runs of section 5, which do not hold. Every invariant, action property and refinement that
a passing run checks is a theorem.

## 5. What was found

Five runs show a disagreement between the code and what its documents say; `PROJECT.json`
quotes both sides.

1. `gate_stall_reuse`, `internal/pow/pow.go:105`: TTL has no slack. A call that is held up for a second between check and
   `Add` is served a token that was used and evicted.
2. `client_ghost`, `web/src/main.ts:364`: lookups are not cancelled with their badge.
3. `client_relookup`, `web/src/deeplink.ts:41`: a deep link looks its last address up
   twice, and only one of the two lookups reports to the badge.
4. `lookup_warn`, `internal/lookup/lookup.go:47`: failures that come with an error are dropped.
5. `lookup_catchall`, `internal/lookup/lookup.go:133`: `ARCHITECTURE.md:139-141` and `:151` promise a fallback to the domain's
   default line, which `matchRecords`, deliberately by its comment, does not have.

Further facts that the models show and for which no run is kept:
  - `pow.go:91`: `-delta` of the smallest Duration is itself. A timestamp more than 292 years
    ahead is always fresh, where `ARCHITECTURE.md:273-274` accepts a token "iff" it is within the window; its token is still used once per TTL. This is
    `FarAhead` in the properties of the gate.
  - A validity beyond 292 years, or between minus 146 and minus 292, may wrap to a negative duration
    whose double wraps to a positive one: such a server comes up and refuses
    every call but those of such a timestamp. `ServingIsSound` has it as its second case.
  - `EvictedIsExpired` would fail without its exception when the wall clock is set back, also without any stall.
  - Any edit or lookup during a send enables the button again, a second click then sends the message again; and an edited form is
    what the record takes. `OverlapIsUpdated` and `RecordUnlessEdited` say that this takes such an edit or lookup.
  - A variable of the environment that does not parse is passed over without a word (`Counts`), and the server starts with the file's value or the default.
  - A request that the browser repeats after its first copy was let through is told 429, and the page says "failed".
  - `ARCHITECTURE.md:161-164` says that the client encrypts to all keys of a recipient, and leaves it open (OQ-1); the code
    selects one (`SelectKey`).
  - A recipient reported as failed may have been mailed: after a lost reply to the end of
    the message, a failed QUIT, an unreadable answer of the API, a response later than
    `WriteTimeout`, or a post the browser repeated. The page then keeps the
    form if nobody succeeded, and a user who tries again mails twice.
  - After a restart a copy of a post may be mailed a second time: the cache that would
    have stopped it is gone.
  - The key and the mailbox of a mail come from two lookups. When the sources change in
    between, or one of them does not answer, they may be of two answers.
  - With two records for one recipient, the key may be the second's (post-quantum
    preferred) and the mailbox the first's: `Answer` in `Exchange`, and an instance of it in the run.
  - The last key of a well-known file that is cut at 1 MiB is accepted although it
    is incomplete.
  - `ARCHITECTURE.md:325` and `README.md:51` speak of STARTTLS and encrypted transport; `smtp.go:40` uses it if the
    server offers it and goes on without it otherwise.

## 6. What is not modelled

Because there is nothing to check over time: logging, version, flags, static files, the health handler,
markup and styles, the formatting of MIME headers, progress bars, `Solve` (a test helper), and `Close`
of the cache, which `main` defers to an end that `os.Exit` never reaches. CORS and CSP are
functions of one request to the headers of its answer: no property of them takes
more than a step. The age library is not part of the repository.

Of the page, left out as conveniences whose state no other part reads: the list of recent recipients in local
storage, the size warning, the debug section and the link to copy.

The cache of the recursive resolver is part of what the zone holds in `Exchange`; how long it keeps a record is left open.

Of the lookup, summed up in "fails": the checks on the domain and on the addresses to dial,
redirects, timeouts, the choice of the resolver. That a truncated DNS answer is not
asked again over TCP shows in the model only as a zone that publishes less.

What remains to be done: liveness of `Session` (that a solver which goes on finds a token the
server takes) holds only of difficulties and hash rates about which the code says nothing.
