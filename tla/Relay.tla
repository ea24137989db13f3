------------------------------- MODULE Relay --------------------------------
(***************************************************************************)
(* One call to /api/send behind the gate: SendHandler (api/send.go) and    *)
(* the two backends that main chooses from, mail.Service (smtp.go) and     *)
(* mail.CloudflareService (cloudflare.go), all in internal/.               *)
(*                                                                         *)
(* The handler looks each recipient up again and hands one mail to the     *)
(* backend; every step of that may fail, and a mail that the other side    *)
(* has taken may still be answered with an error, or not at all.  Calls    *)
(* share nothing, so that one of them is all there is to model.  Nothing   *)
(* bounds the time a backend takes: a call need not end.                   *)
(*                                                                         *)
(* The lookup is that of module Lookup, here any of its answers.  What is  *)
(* in a mail is the business of module Envelope.                           *)
(***************************************************************************)
EXTENDS Naturals, Sequences

CONSTANTS
  Backends,      \* of {"smtp", "cloudflare"}: what the server may be set up for
  Mailboxes,     \* the delivery mailboxes that lookups may answer
  NotFound,      \* a lookup that fails or finds nothing
  NoMailbox,     \* a lookup that finds a key, but no mailbox
  MaxRecipients  \* bound on the recipients of a call

ASSUME RelayAssumption == /\ Backends \subseteq {"smtp", "cloudflare"}
                          /\ NotFound \notin Mailboxes
                          /\ NoMailbox \notin Mailboxes \cup {NotFound}
                          /\ MaxRecipients \in Nat

VARIABLES
  backend,   \* the backend of this server
  count,     \* how many recipients the request has
  damaged,   \* which part of its body cannot be decoded
  stage,     \* what the handler's goroutine does next
  at,        \* the position of the recipient it works on
  delivery,  \* the mailbox of that recipient
  errors,    \* the positions it will report, and what it will say
  answer,
  found,     \* history: what the lookup of each position answered
  taken      \* history: the mails the backend's other side has accepted

vars == <<backend, count, damaged, stage, at, delivery, errors, answer, found, taken>>

Parts == {"nothing", "json", "message", "attachment"}

\* The dialogue of sendRaw up to the message.  STARTTLS and AUTH are skipped
\* where they do not apply; each of these steps may fail.
After == [dial |-> "starttls", starttls |-> "auth", auth |-> "mail", mail |-> "rcpt",
          rcpt |-> "data", data |-> "write", write |-> "end"]

Init == /\ backend \in Backends
        /\ count \in 0..MaxRecipients
        /\ damaged \in Parts
        /\ stage = "decode" /\ at = 1 /\ delivery = NoMailbox
        /\ errors = {} /\ answer = "none"
        /\ found = <<>> /\ taken = <<>>

\* (Wrong: attachments are not looked at.)
DecodableBody == damaged \notin {"json", "message"} /\ count > 0

\* Everything is decoded before anything is sent.
Decodable == damaged = "nothing" /\ count > 0

Decode ==
  /\ stage = "decode"
  /\ IF Decodable THEN stage' = "lookup" /\ UNCHANGED answer
                  ELSE stage' = "done" /\ answer' = "rejected"
  /\ UNCHANGED <<backend, count, damaged, at, delivery, errors, found, taken>>

-----------------------------------------------------------------------------
(* The loop over the recipients.                                           *)

\* (Wrong: one recipient too many.)
NextOfTooMany ==
  /\ at' = at + 1
  /\ stage' = IF at <= count THEN "lookup" ELSE "answer"

NextRecipient ==
  /\ at' = at + 1
  /\ stage' = IF at < count THEN "lookup" ELSE "answer"

Note(why) == errors' = errors \cup {[pos |-> at, why |-> why]}

Fail(why) == Note(why) /\ NextRecipient

HandOver == stage' = (IF backend = "smtp" THEN "dial" ELSE "post") /\ UNCHANGED at

\* (Wrong: "continue" is missing, and the mailbox is the last recipient's.)
NotFoundGoesOn == Note("notfound") /\ HandOver /\ UNCHANGED delivery

RefuseNotFound == Fail("notfound") /\ UNCHANGED delivery

LookUp ==
  /\ stage = "lookup"
  /\ \E outcome \in Mailboxes \cup {NotFound, NoMailbox} :
       /\ found' = Append(found, outcome)
       /\ \/ outcome = NotFound /\ RefuseNotFound
          \/ outcome = NoMailbox /\ Fail("nodelivery") /\ UNCHANGED delivery
          \/ /\ outcome \in Mailboxes
             /\ delivery' = outcome
             /\ HandOver
             /\ UNCHANGED errors
  /\ UNCHANGED <<backend, count, damaged, answer, taken>>

-----------------------------------------------------------------------------
(* The backends.                                                           *)

Accept == taken' = Append(taken, [pos |-> at, to |-> delivery])

Sent == NextRecipient /\ UNCHANGED errors
SendFailed == Fail("unsent")

Sending == UNCHANGED <<backend, count, damaged, delivery, answer, found>>

\* A step of the dialogue before the end of the message.
Converse ==
  /\ stage \in DOMAIN After
  /\ \/ stage' = After[stage] /\ UNCHANGED <<at, errors>>
     \/ SendFailed
  /\ UNCHANGED taken
  /\ Sending

\* wc.Close(): the other side takes the mail; its reply may be lost.
EndTaken ==
  /\ stage = "end"
  /\ Accept
  /\ \/ stage' = "quit" /\ UNCHANGED <<at, errors>>
     \/ SendFailed
  /\ Sending

\* (Wrong: the error of wc.Close() is dropped.)
EndRefusedUnseen ==
  /\ stage = "end"
  /\ stage' = "quit"
  /\ UNCHANGED <<at, errors, taken>>
  /\ Sending

\* wc.Close(): it does not.
EndRefused ==
  /\ stage = "end"
  /\ SendFailed
  /\ UNCHANGED taken
  /\ Sending

\* (Wrong: a failed QUIT is taken for a failed dialogue, and all is retried.)
QuitOrRetry ==
  /\ stage = "quit"
  /\ Sent \/ (stage' = "dial" /\ UNCHANGED <<at, errors>>)
  /\ UNCHANGED taken
  /\ Sending

\* The result of QUIT is the result of Send, though the mail has been taken.
Quit ==
  /\ stage = "quit"
  /\ Sent \/ SendFailed
  /\ UNCHANGED taken
  /\ Sending

\* client.Do and what is read of the response: "success" is believed, anything
\* else is a failure, be it lost, cut short or not JSON.
Post ==
  /\ stage = "post"
  /\ \/ Accept /\ (Sent \/ SendFailed)
     \/ UNCHANGED taken /\ SendFailed
  /\ Sending

-----------------------------------------------------------------------------
Answer ==
  /\ stage = "answer"
  /\ stage' = "done"
  /\ answer' = IF errors = {} THEN "sent" ELSE "failed"
  /\ UNCHANGED <<backend, count, damaged, at, delivery, errors, found, taken>>

\* The call has been answered; whether the answer arrives is another matter.
Returned == stage = "done" /\ UNCHANGED vars

Next == Decode \/ LookUp \/ Converse \/ EndTaken \/ EndRefused \/ Quit \/ Post
          \/ Answer \/ Returned

Spec == Init /\ [][Next]_vars

-----------------------------------------------------------------------------
Positions == 1..count
Stages == DOMAIN After \cup {"decode", "lookup", "end", "quit", "post", "answer", "done"}
Reasons == {"notfound", "nodelivery", "unsent"}

TypeOK ==
  /\ backend \in Backends /\ count \in 0..MaxRecipients /\ damaged \in Parts
  /\ stage \in Stages
  /\ at \in 1..(MaxRecipients + 1) /\ at <= count + 1
  /\ delivery \in Mailboxes \cup {NoMailbox}
  /\ errors \subseteq [pos : Positions, why : Reasons]
  /\ answer \in {"none", "rejected", "sent", "failed"}
  /\ found \in Seq(Mailboxes \cup {NotFound, NoMailbox})
  /\ taken \in Seq([pos : Positions, to : Mailboxes])

\* The answer accounts for every recipient: its mail was taken, or it is among
\* the errors; "sent" means that the mail of each was taken.  (Not the other
\* way round: a mail may have been taken and its recipient be reported.)
AccountedFor ==
  answer \in {"sent", "failed"} =>
    \A p \in Positions : \/ \E i \in DOMAIN taken : taken[i].pos = p
                         \/ answer # "sent" /\ \E e \in errors : e.pos = p

\* "re-resolve the record to obtain the delivery mailbox, then deliver": a mail
\* goes where this call's lookup of its own recipient said, and nobody is mailed
\* who is reported as not found or without a mailbox.
MailedWhereFound ==
  \A i \in DOMAIN taken :
    /\ found[taken[i].pos] = taken[i].to
    /\ \A e \in errors : e.pos = taken[i].pos => e.why = "unsent"

\* A request any part of which cannot be decoded is refused before any mail
\* leaves, not after the first recipients have theirs.
BadRequestMailsNothing ==
  damaged # "nothing" \/ answer = "rejected" => taken = <<>>

\* The call keeps what Delivery promises: among it, that each entry of the list
\* is mailed once at most, in the order of the list, however the backend fails,
\* and that no mail leaves once the call has been answered, so that the answer
\* is never overtaken.
Promise == INSTANCE Delivery WITH asked <- count, mailed <- taken, reply <- answer

DeliverySpec == Promise!Spec
=============================================================================
