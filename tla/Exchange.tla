------------------------------ MODULE Exchange ------------------------------
(***************************************************************************)
(* One message to one recipient from end to end: the page looks the        *)
(* recipient up (recipients.ts, api/lookup.go), shows the record, seals    *)
(* for its key and posts (send.ts); the gate lets the post through once    *)
(* (TokenLedger stands for it), and the send handler looks the recipient   *)
(* up again and mails (api/send.go).                                       *)
(*                                                                         *)
(* Around them: the domain publishes other records, a source is out of     *)
(* reach, a connection breaks or a response comes after WriteTimeout, the  *)
(* browser sends a post again on a new connection, with the token it had,  *)
(* the server dies under its handlers, and the user who is told "failed"   *)
(* tries again.  A handler knows nothing of its connection: it goes on.    *)
(***************************************************************************)
EXTENDS Naturals, Sequences

CONSTANTS
  Listings,    \* what a source may hold for the recipient: records [key, box]
  PQKeys,      \* the keys that start with "age1pq1"
  Nothing,     \* no answer; or nothing shown
  MaxCalls,    \* bound on the clicks on Send
  MaxCopies,   \* bound on how often the browser sends one post
  MaxEvents    \* bound on what happens to the sources and to the server

\* selectKey and collectKeys: the first post-quantum key, or else the first key.
SelectedKey(records) ==
  LET safe == {i \in DOMAIN records : records[i].key \in PQKeys}
  IN  IF safe = {} THEN records[1].key
      ELSE records[CHOOSE i \in safe : \A j \in safe : i <= j].key

\* What Lookup answers for the records of one source: the key is selected among
\* all of them, the mailbox is the first one's.
Answer(records) == [key |-> SelectedKey(records), box |-> records[1].box]

Answers == {Answer(records) : records \in Listings \ {<<>>}}
Boxes   == {answer.box : answer \in Answers}

ASSUME ExchangeAssumption == /\ <<>> \in Listings
                             /\ Nothing \notin Answers \cup Boxes
                             /\ MaxCalls \in Nat /\ MaxCopies \in Nat \ {0}
                             /\ MaxEvents \in Nat

Sources == {"web", "zone"}
Calls   == 1..MaxCalls
Copies  == Calls \X (1..MaxCopies)

\* Of "steady", the numbers that are no call's.
ShownTag == 0
AskedTag == MaxCalls + 1

VARIABLES
  published,  \* what each source answers with: of the zone, that is what the
              \* resolver says, which may have kept it for a while
  reach,      \* the sources that answer
  changes,    \* how often those two have changed
  shown,      \* the page's resolved recipient: the answer
  asking,     \* where the page's lookup is: "idle", "zone", or "lost" with the server
  sealed,     \* what was shown when a call was made; its key sealed the message
  listening,  \* the copy whose response the page waits for; 0 once it does not
  outcome,    \* what the page says of each call
  used, verdict,  \* of TokenLedger: a call's token is the call
  handler,    \* where each copy is
  reply,      \* what the server answered it
  target,     \* the mailbox its handler found
  boot,       \* starts of the server
  mails,      \* history: the mails taken
  steady,     \* history: the calls since whose lookup the sources are what they
              \* were; ShownTag stands for what is shown, AskedTag for the
              \* lookup under way
  offered     \* history: the mailboxes published since a copy in hand was let in

sources == <<published, reach, changes>>
browser == <<shown, asking, sealed, listening, outcome>>
ledger  == <<used, verdict>>
server  == <<handler, reply, target, boot, mails>>
history == <<steady, offered>>
vars    == <<sources, browser, ledger, server, history>>

Gate == INSTANCE TokenLedger WITH Requests <- Copies, Tokens <- Calls

\* Of a copy, the call it belongs to.
CallOf(p) == p[1]

-----------------------------------------------------------------------------
(* The sources.                                                            *)

\* HTTPSLookup or DNSLookup returns records of the recipient.
Has(s) == s \in reach /\ published[s] # <<>>

Published == {Answer(published[s]).box : s \in {t \in Sources : published[t] # <<>>}}

\* (A first start of the server is no event.)
MoreToCome == changes + (boot - 1) < MaxEvents

Changing == MoreToCome /\ changes' = changes + 1 /\ steady' = {}

Publish(s, records) ==
  /\ Changing
  /\ records # published[s]
  /\ published' = [published EXCEPT ![s] = records]
  /\ offered' = [p \in Copies |-> IF handler[p] \in {"lookup", "zone"}
                                    THEN offered[p] \cup Published' ELSE offered[p]]
  /\ UNCHANGED <<reach, browser, ledger, server>>

\* A source stops to answer, or answers again.
Outage(s) ==
  /\ Changing
  /\ reach' = IF s \in reach THEN reach \ {s} ELSE reach \cup {s}
  /\ UNCHANGED <<published, browser, ledger, server, offered>>

-----------------------------------------------------------------------------
(* The page and its browser.                                               *)

Waiting == {c \in Calls : listening[c] # 0}
Made    == {c \in Calls : sealed[c] # Nothing}

\* (After the last click no lookup matters.)
MayLookUp == Waiting = {} /\ Made # Calls

\* lookupRecipient asks LookupHandler, and Lookup reads the well-known file; if
\* that names nobody, it goes on to the zone.
LookUp ==
  /\ asking = "idle" /\ MayLookUp
  /\ \/ /\ Has("web")
        /\ shown' = Answer(published["web"])
        /\ steady' = steady \cup {ShownTag}
        /\ UNCHANGED asking
     \/ /\ ~Has("web")
        /\ asking' = "zone"
        /\ steady' = steady \cup {AskedTag}
        /\ UNCHANGED shown
  /\ UNCHANGED <<sources, sealed, listening, outcome, ledger, server, offered>>

\* Lookup reads the zone, and the page shows what it answers.
LookUpZone ==
  /\ asking = "zone"
  /\ asking' = "idle"
  /\ shown' = IF Has("zone") THEN Answer(published["zone"]) ELSE Nothing
  /\ steady' = (steady \ {ShownTag, AskedTag})
                 \cup (IF AskedTag \in steady THEN {ShownTag} ELSE {})
  /\ UNCHANGED <<sources, sealed, listening, outcome, ledger, server, offered>>

\* fetch rejects: what was shown goes.  (A response that is not OK changes nothing.)
LookUpFails ==
  /\ MayLookUp
  /\ asking' = "idle"
  /\ shown' = Nothing
  /\ steady' = steady \ {ShownTag, AskedTag}
  /\ UNCHANGED <<sources, sealed, listening, outcome, ledger, server, offered>>

\* The user sends, for the first time or after a failure: the message is
\* sealed for the key shown, a fresh token is solved, the post goes out.  (That
\* a click may fall into a lookup is the business of module Client.)
Click(c) ==
  /\ shown # Nothing /\ asking = "idle" /\ Waiting = {}
  /\ Made = 1..(c - 1) /\ \A d \in Made : outcome[d] = "failed"
  /\ sealed' = [sealed EXCEPT ![c] = shown]
  /\ listening' = [listening EXCEPT ![c] = 1]
  /\ handler' = [handler EXCEPT ![<<c, 1>>] = "coming"]
  /\ steady' = IF ShownTag \in steady THEN steady \cup {c} ELSE steady
  /\ UNCHANGED <<sources, shown, asking, outcome, ledger, reply, target, boot, mails, offered>>

Tell(c, result) == /\ outcome' = [outcome EXCEPT ![c] = result]
                   /\ listening' = [listening EXCEPT ![c] = 0]

\* (Wrong: "token already used" is taken for "already sent".)
UsedIsSent(answer) == IF answer \in {"sent", "replayed"} THEN "ok" ELSE "failed"

\* sendForOneRecipient throws unless the response is OK.
Understood(answer) == IF answer = "sent" THEN "ok" ELSE "failed"

\* The response of the copy the page listens to arrives.
Hear(c) ==
  /\ listening[c] # 0 /\ reply[<<c, listening[c]>>] # "none"
  /\ Tell(c, Understood(reply[<<c, listening[c]>>]))
  /\ UNCHANGED <<sources, shown, asking, sealed, ledger, server, history>>

\* The connection breaks, or the response is later than WriteTimeout allows:
\* fetch rejects.
Reject(c) ==
  /\ listening[c] # 0
  /\ Tell(c, "failed")
  /\ UNCHANGED <<sources, shown, asking, sealed, ledger, server, history>>

\* It does so on a connection that was in use before: the browser opens
\* another one and sends the same post, token and all.
Resend(c) ==
  /\ listening[c] \in 1..(MaxCopies - 1)
  /\ listening' = [listening EXCEPT ![c] = @ + 1]
  /\ handler' = [handler EXCEPT ![<<c, listening[c] + 1>>] = "coming"]
  /\ UNCHANGED <<sources, shown, asking, sealed, outcome, ledger, reply, target, boot,
                 mails, history>>

-----------------------------------------------------------------------------
(* The server.                                                             *)

InHand == {p \in Copies : handler[p] \in {"lookup", "zone", "mail", "mailed"}}

\* (Wrong: the handler returns and has not answered.)
FinishSilently(p, answer) == /\ handler' = [handler EXCEPT ![p] = "done"]
                             /\ target' = [target EXCEPT ![p] = Nothing]
                             /\ offered' = [offered EXCEPT ![p] = {}]
                             /\ UNCHANGED <<reply, boot>>

Finish(p, answer) == /\ handler' = [handler EXCEPT ![p] = "done"]
                     /\ reply' = [reply EXCEPT ![p] = answer]
                     /\ target' = [target EXCEPT ![p] = Nothing]
                     /\ offered' = [offered EXCEPT ![p] = {}]
                     /\ UNCHANGED boot

\* (Wrong: the token is looked at and not used up, so that a failure costs none.)
PassUnmarked(p) == CallOf(p) \notin used /\ Gate!Give(p, "served") /\ UNCHANGED used

TakeToken(p) == Gate!Serve(p, CallOf(p))

\* The gate lets a copy through to the handler.
Pass(p) ==
  /\ handler[p] = "coming"
  /\ TakeToken(p)
  /\ handler' = [handler EXCEPT ![p] = "lookup"]
  /\ offered' = [offered EXCEPT ![p] = Published]
  /\ UNCHANGED <<sources, browser, reply, target, boot, mails, steady>>

\* Or it does not: 401 for a token that is out of its window by now, 429 for a
\* used one.
TurnAway(p) ==
  /\ handler[p] = "coming"
  /\ \/ Gate!Refuse(p) /\ Finish(p, "refused")
     \/ Gate!Replay(p, CallOf(p)) /\ Finish(p, "replayed")
  /\ UNCHANGED <<sources, browser, mails, steady>>

\* (Wrong: the send handler asks the zone first.  Wrong: it believes what the
\* page was told.)
ZoneFirst(place)  == IF place = "lookup" THEN "zone" ELSE "web"
BelievePage(p, s) == sealed[CallOf(p)].box

\* Service.Lookup, called again: the same sources in the same order.
SourceAt(place) == IF place = "lookup" THEN "web" ELSE "zone"

DeliveryFrom(p, s) == Answer(published[s]).box

\* The handler resolves the recipient again, from one source, or else from the
\* other; 500 if there is none.
ReResolve(p) ==
  /\ handler[p] \in {"lookup", "zone"}
  /\ LET s == SourceAt(handler[p])
     IN  \/ /\ Has(s)
            /\ handler' = [handler EXCEPT ![p] = "mail"]
            /\ target' = [target EXCEPT ![p] = DeliveryFrom(p, s)]
            /\ UNCHANGED <<reply, boot, offered>>
         \/ /\ ~Has(s) /\ handler[p] = "lookup"
            /\ handler' = [handler EXCEPT ![p] = "zone"]
            /\ UNCHANGED <<reply, target, boot, offered>>
         \/ ~Has(s) /\ handler[p] = "zone" /\ Finish(p, "failed")
  /\ UNCHANGED <<sources, browser, ledger, mails, steady>>

\* The backend has taken the mail; the handler does not know it yet.
MailTaken(p) ==
  /\ handler[p] = "mail"
  /\ mails' = mails \cup {[copy |-> p, box |-> target[p], boot |-> boot,
                           steady |-> CallOf(p) \in steady, due |-> target[p] \in offered[p]]}
  /\ handler' = [handler EXCEPT ![p] = "mailed"]
  /\ target' = [target EXCEPT ![p] = Nothing]
  /\ offered' = [offered EXCEPT ![p] = {}]
  /\ UNCHANGED <<sources, browser, ledger, reply, boot, steady>>

\* (Wrong: what Send returns is not looked at.)
SentAnyway(p) == {"sent"}

\* What Send may say by now: a failure, whether or not the mail was taken, or
\* that it was.
SendResults(p) == {"failed"} \cup (IF handler[p] = "mailed" THEN {"sent"} ELSE {})

\* Send returns, and the handler answers.
Report(p) ==
  /\ handler[p] \in {"mail", "mailed"}
  /\ \E result \in SendResults(p) : Finish(p, result)
  /\ UNCHANGED <<sources, browser, ledger, mails, steady>>

\* The process dies, its handlers and its cache with it, and starts again.
\* A copy still on its way reaches the next server; a lookup under way is lost.
Restart ==
  /\ MoreToCome
  /\ boot' = boot + 1
  /\ used' = {}
  /\ handler' = [p \in Copies |-> IF p \in InHand THEN "dead" ELSE handler[p]]
  /\ target' = [p \in Copies |-> Nothing]
  /\ offered' = [p \in Copies |-> {}]
  /\ asking' = IF asking = "zone" THEN "lost" ELSE asking
  /\ UNCHANGED <<sources, shown, sealed, listening, outcome, verdict, reply, mails, steady>>

-----------------------------------------------------------------------------
Init ==
  /\ published \in [Sources -> Listings]
  /\ reach = Sources /\ changes = 0
  /\ shown = Nothing /\ asking = "idle"
  /\ sealed = [c \in Calls |-> Nothing]
  /\ listening = [c \in Calls |-> 0]
  /\ outcome = [c \in Calls |-> "none"]
  /\ Gate!Init
  /\ handler = [p \in Copies |-> "unsent"]
  /\ reply = [p \in Copies |-> "none"]
  /\ target = [p \in Copies |-> Nothing]
  /\ boot = 1 /\ mails = {}
  /\ steady = {} /\ offered = [p \in Copies |-> {}]

\* Nothing is under way.
Quiet == /\ Waiting = {} /\ InHand = {}
         /\ UNCHANGED vars

Next ==
  \/ \E s \in Sources, records \in Listings : Publish(s, records)
  \/ \E s \in Sources : Outage(s)
  \/ LookUp \/ LookUpZone \/ LookUpFails
  \/ \E c \in Calls : Click(c) \/ Hear(c) \/ Reject(c) \/ Resend(c)
  \/ \E p \in Copies : Pass(p) \/ TurnAway(p) \/ ReResolve(p) \/ MailTaken(p) \/ Report(p)
  \/ Restart
  \/ Quiet

Spec == Init /\ [][Next]_vars

-----------------------------------------------------------------------------
Places == {"unsent", "coming", "lookup", "zone", "mail", "mailed", "done", "dead"}

Replies == {"none", "sent", "failed", "refused", "replayed"}

Mails == [copy : Copies, box : Boxes, boot : Nat, steady : BOOLEAN, due : BOOLEAN]

\* The page waits for one call at most, and a copy the server is done with has
\* been answered.
TypeOK ==
  /\ published \in [Sources -> Listings]
  /\ reach \subseteq Sources /\ changes \in Nat /\ boot \in Nat \ {0}
  /\ shown \in Answers \cup {Nothing} /\ asking \in {"idle", "zone", "lost"}
  /\ sealed \in [Calls -> Answers \cup {Nothing}]
  /\ listening \in [Calls -> 0..MaxCopies] /\ \A c, d \in Waiting : c = d
  /\ outcome \in [Calls -> {"none", "ok", "failed"}]
  /\ used \subseteq Calls /\ verdict \in [Copies -> Gate!Verdicts]
  /\ handler \in [Copies -> Places]
  /\ reply \in [Copies -> Replies]
  /\ \A p \in Copies : handler[p] = "done" <=> reply[p] # "none"
  /\ target \in [Copies -> Boxes \cup {Nothing}]
  /\ changes + (boot - 1) <= MaxEvents
  /\ mails \subseteq Mails
  /\ steady \subseteq Calls \cup {ShownTag, AskedTag}
  /\ offered \in [Copies -> SUBSET Boxes]

\* When the page says that the recipient was mailed, a mail of that call was
\* taken, whichever of its copies was answered and whatever became of the
\* others.  (send.ts 136-151 and 182, send.go 80-117, middleware.go 22-31.)
ConfirmedIsMailed ==
  \A c \in Calls : outcome[c] = "ok" => \E m \in mails : CallOf(m.copy) = c

\* A post that arrives more than once is mailed once by each start of the
\* server: the token that guards it against abuse guards it against repetition
\* too, also while the first copy is still in hand.  (After a restart it may be
\* mailed again: "Restart loses the cache".)
OneMailPerStart ==
  \A m, n \in mails : CallOf(m.copy) = CallOf(n.copy) /\ m.boot = n.boot => m = n

\* As long as nothing changes at the sources, what the user was shown is what
\* is used: the mail goes to the mailbox of the very answer whose key it is sealed
\* for, though the two come from two lookups of two sources each.  That the two are
\* of one record the code does not promise: the key is selected among all of the
\* recipient's records, the mailbox is the first one's.  (lookup.go 37-42 and
\* 58-63, recipients.ts 104-111, send.go 81-87.)
ShownIsUsed ==
  \A m \in mails : m.steady => m.box = sealed[CallOf(m.copy)].box

\* "re-resolve": no mail goes to a mailbox that the domain had withdrawn from
\* both sources by the time the post was let in, however long ago the page
\* looked it up and however late a copy of the post comes.
WithdrawnGetsNothing == \A m \in mails : m.due

Own(p) == {m \in mails : m.copy = p}

Mailed(p) == IF Own(p) = {} THEN <<>>
             ELSE <<[pos |-> 1, to |-> (CHOOSE m \in Own(p) : TRUE).box]>>

Answered(p) == IF reply[p] \in {"refused", "replayed"} THEN "rejected" ELSE reply[p]

Call(p) == INSTANCE Delivery
             WITH Mailboxes <- Boxes, asked <- 1, mailed <- Mailed(p), reply <- Answered(p)

\* Each copy of a post is a call that keeps the promise of Delivery, as the
\* calls of Relay do: its mail leaves once, before its answer, also when the
\* server dies in between; "sent" follows the mail; a copy the gate turned away
\* has mailed nothing.  (send.go 93-118, middleware.go 22-31.)
CallsDeliver == /\ \A p \in Copies : Call(p)!Init
                /\ [][\A p \in Copies : [Call(p)!Next]_(Call(p)!deliveryVars)]_vars
=============================================================================
