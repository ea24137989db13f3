------------------------------- MODULE Client -------------------------------
(***************************************************************************)
(* The compose page: web/src/main.ts, recipients.ts, send.ts, deeplink.ts. *)
(*                                                                         *)
(* The page runs on one thread; an action is one task between two awaits.  *)
(* Lookups and sends are asynchronous: the user keeps editing while they   *)
(* are under way, and their answers arrive in any order.                   *)
(*                                                                         *)
(* Three pieces of state say who the recipients are: the badges on the     *)
(* page (pendingAddresses), the Map of lookup results (resolved) and the   *)
(* array a send took from that Map when it was clicked.                    *)
(*                                                                         *)
(* Not modelled here: the subject (it is read with the body), proof of     *)
(* work, the recent-recipients list, wording.                              *)
(***************************************************************************)
EXTENDS Naturals, Sequences, FiniteSets, Functions

CONSTANTS
  Addresses,   \* addresses the user may enter
  NoAddress,
  Trusts,      \* trust levels a lookup may answer
  Texts,       \* message texts
  NoText,      \* the empty message
  Files,       \* files the user may attach
  DeepLinks,   \* #to= lists the page may be opened with (sequences; an
               \* address that a list repeats would get no second badge)
  MaxLookups,  \* bound on the lookups of a visit, but for the timer's
  MaxSends,    \* bound on the sends of a visit
  MaxFiles     \* bound on the files attached at one time

ASSUME ClientAssumption == /\ NoAddress \notin Addresses
                           /\ NoText \in Texts
                           /\ Trusts \subseteq {"https", "dnssec", "dns"}
                           /\ {MaxLookups, MaxSends, MaxFiles} \subseteq Nat
                           /\ \A link \in DeepLinks :
                                /\ link \in Seq(Addresses) /\ Len(link) <= MaxLookups
                                /\ IsInjective(link)

VARIABLES
  badge,        \* pendingAddresses: address |-> its badge on the page
  resolved,     \* Map of recipients.ts: address |-> trust of the answer; and,
                \* as history, whether the lookup was that of its badge
  lookups,      \* lookups under way: id |-> whose, and do they drive a badge
  nextId,
  timer,        \* the address debounceTimer will look up, or NoAddress
  body, files,  \* the form
  sendEnabled,  \* ~sendBtn.disabled
  warning,      \* ~trustWarning.hidden
  sends,        \* history and state of the sends, in the order of the clicks
  posted,       \* history: messages the server accepted
  records,      \* the "Download record" buttons: copies of what was sent
  updated,      \* history: the sends during which updateUI has run
  edited        \* history: the sends during which the form has changed

compose == <<badge, resolved, timer>>
form == <<body, files>>
marks == <<updated, edited>>
vars == <<compose, lookups, nextId, form, sendEnabled, warning, sends, posted, records,
          marks>>

LookupIds == 1..(MaxLookups + 1)

Running(i) == sends[i].phase # "done"
Sending == \E i \in DOMAIN sends : Running(i)

With(f, x, y) == [z \in DOMAIN f \cup {x} |-> IF z = x THEN y ELSE f[z]]
Without(f, x) == Restrict(f, DOMAIN f \ {x})

-----------------------------------------------------------------------------
(* updateUI: called at the end of every task that touches the page.  The   *)
(* sends under way are noted.                                              *)

Score == [https |-> 3, dnssec |-> 2, dns |-> 1]

TrustsOf(res) == {res[a].trust : a \in DOMAIN res}

\* (Wrong: the best level wins.)
BestTrust(res) == CHOOSE t \in TrustsOf(res) : \A u \in TrustsOf(res) : Score[u] <= Score[t]

WorstTrust(res) == CHOOSE t \in TrustsOf(res) : \A u \in TrustsOf(res) : Score[t] <= Score[u]

\* (Wrong: one recipient found is enough.)
AnyFound(b, res) == DOMAIN b \cap DOMAIN res # {}

AllFound(b, res) == DOMAIN b # {} /\ DOMAIN b \subseteq DOMAIN res

HasContent(txt, fs) == txt # NoText \/ fs # <<>>

UpdateUI ==
  /\ sendEnabled' = (AllFound(badge', resolved') /\ HasContent(body', files'))
  /\ warning' = (AllFound(badge', resolved') /\ WorstTrust(resolved') = "dns")
  /\ LET running == {i \in DOMAIN sends' : Running(i)'}
     IN  /\ updated' = updated \cup running
         /\ edited' = IF <<body', files'>> = form THEN edited ELSE edited \cup running

-----------------------------------------------------------------------------
\* lookupRecipient's first task: the lookup is under way.
StartLookup(id, a, drives) == lookups' = With(lookups, id, [addr |-> a, badge |-> drives])

\* Page load: applyDeepLink makes a badge for each address, whose lookup
\* starts at once, and (re)arms the one debounce timer for it.
Init ==
  /\ \E link \in DeepLinks :
       LET At(a) == CHOOSE i \in DOMAIN link : link[i] = a
       IN  /\ badge = [a \in Range(link) |-> [status |-> "loading", id |-> At(a)]]
           /\ lookups = [i \in DOMAIN link |-> [addr |-> link[i], badge |-> TRUE]]
           /\ nextId = Len(link) + 1
           /\ timer = IF link = <<>> THEN NoAddress ELSE link[Len(link)]
  /\ body \in Texts
  /\ resolved = <<>> /\ files = <<>>
  /\ sendEnabled = FALSE /\ warning = FALSE
  /\ sends = <<>> /\ posted = {} /\ records = {}
  /\ updated = {} /\ edited = {}

\* The user commits an address: addRecipientBadge.
AddBadge(a) ==
  /\ nextId <= MaxLookups
  /\ a \notin DOMAIN badge
  /\ badge' = With(badge, a, [status |-> "loading", id |-> nextId])
  /\ StartLookup(nextId, a, TRUE)
  /\ nextId' = nextId + 1
  /\ UNCHANGED <<resolved, timer, form, sends, posted, records>>
  /\ UpdateUI

\* The debounce timer's lookup has no badge to report to.
TimerFires ==
  /\ timer # NoAddress
  /\ StartLookup(nextId, timer, FALSE)
  /\ nextId' = nextId + 1
  /\ timer' = NoAddress
  /\ UNCHANGED <<badge, resolved, form, sendEnabled, warning, sends, posted, records, marks>>

\* The badge the lookup was started for is on the page: the timer's had none, and
\* the user may have removed it.
OfBadge(id) == LET a == lookups[id].addr
               IN  lookups[id].badge /\ a \in DOMAIN badge /\ badge[a].id = id

\* setStatus: writes to the badge the lookup was started for.
SetStatus(id, status) ==
  badge' = IF OfBadge(id) THEN [badge EXCEPT ![lookups[id].addr].status = status] ELSE badge

EndLookup(id) ==
  /\ lookups' = Without(lookups, id)
  /\ UNCHANGED <<nextId, timer, form, sends, posted, records>>

\* resolved.set.
Resolve(id, trust) ==
  resolved' = With(resolved, lookups[id].addr, [trust |-> trust, own |-> OfBadge(id)])

\* (Wrong: the badge's status is set to the trust level.)
LookupFoundAsTrust(id, trust) ==
  /\ Resolve(id, trust)
  /\ SetStatus(id, trust)
  /\ EndLookup(id)
  /\ UpdateUI

\* (Wrong: the page is not updated when the answer arrives.)
LookupFoundSilently(id, trust) ==
  /\ Resolve(id, trust)
  /\ SetStatus(id, "found")
  /\ EndLookup(id)
  /\ UNCHANGED <<sendEnabled, warning, marks>>

LookupFound(id, trust) ==
  /\ Resolve(id, trust)
  /\ SetStatus(id, "found")
  /\ EndLookup(id)
  /\ UpdateUI

\* "found: false", or fetch or solvePoW threw: the badge shows the same cross.
LookupFailed(id) ==
  /\ resolved' = Without(resolved, lookups[id].addr)
  /\ SetStatus(id, "error")
  /\ EndLookup(id)
  /\ UpdateUI

\* (Wrong: the early return forgets the badge.)
LookupRefusedSilently(id) ==
  /\ UNCHANGED <<badge, resolved, sendEnabled, warning, marks>>
  /\ EndLookup(id)

\* !resp.ok returns early: the Map keeps what an earlier answer put there, and
\* without a badge the page is not updated either.
LookupRefused(id) ==
  /\ SetStatus(id, "error")
  /\ UNCHANGED resolved
  /\ EndLookup(id)
  /\ IF lookups[id].badge THEN UpdateUI ELSE UNCHANGED <<sendEnabled, warning, marks>>

\* (Wrong: the badge goes, the result stays.)
RemoveBadgeOnly(a) ==
  /\ a \in DOMAIN badge
  /\ badge' = Without(badge, a)
  /\ UNCHANGED <<resolved, lookups, nextId, timer, form, sends, posted, records>>
  /\ UpdateUI

\* The remove button, or Backspace: the lookup is not cancelled.
Remove(a) ==
  /\ a \in DOMAIN badge
  /\ badge' = Without(badge, a)
  /\ resolved' = Without(resolved, a)
  /\ UNCHANGED <<lookups, nextId, timer, form, sends, posted, records>>
  /\ UpdateUI

-----------------------------------------------------------------------------
(* The form.                                                               *)

\* The user edits the message or the list of files: nothing on the page keeps
\* them from doing so during a send.
Edit == UNCHANGED <<compose, lookups, nextId, sends, posted, records>> /\ UpdateUI

EditBody(txt) == body' = txt /\ UNCHANGED files /\ Edit

AddFile(f) == /\ Len(files) < MaxFiles
              /\ files' = Append(files, f)
              /\ UNCHANGED body
              /\ Edit

RemoveFile(i) == /\ files' = [j \in 1..(Len(files) - 1) |->
                                IF j < i THEN files[j] ELSE files[j + 1]]
                 /\ UNCHANGED body
                 /\ Edit

-----------------------------------------------------------------------------
(* Sending: one recipient at a time, with what the array and the text were *)
(* at the click, but with the files as they are when each is reached.      *)

\* (Wrong: the button stays as it is.)
LeaveButton == UNCHANGED sendEnabled

DisableButton == sendEnabled' = FALSE

\* The click handler up to its first await.  "listed" is history: the badges
\* on the page at the click; so is "stray": the addresses of which the Map holds
\* an answer that was not to the lookup of their badge.
ClickSend ==
  /\ sendEnabled
  /\ Len(sends) < MaxSends
  /\ DisableButton
  /\ \E first \in DOMAIN resolved :
       sends' = Append(sends, [phase   |-> "encrypting",
                               to      |-> DOMAIN resolved,
                               todo    |-> DOMAIN resolved \ {first},
                               current |-> first,
                               body    |-> body,
                               atts    |-> <<>>,
                               ok      |-> {},
                               listed  |-> DOMAIN badge,
                               stray   |-> {a \in DOMAIN resolved : ~resolved[a].own}])
  /\ UNCHANGED <<compose, lookups, nextId, form, warning, posted, records, marks>>

OnlySends == UNCHANGED <<compose, lookups, nextId, form, sendEnabled, warning,
                         posted, records, marks>>

\* One turn of the loop over the live files array.
EncryptFile(i) ==
  /\ sends[i].phase = "encrypting"
  /\ Len(sends[i].atts) < Len(files)
  /\ sends' = [sends EXCEPT ![i].atts = Append(@, files[Len(@) + 1])]
  /\ OnlySends

\* (Wrong: the loop ends only where it meets the length exactly.)
StartPostAtLength(i) ==
  /\ sends[i].phase = "encrypting"
  /\ Len(sends[i].atts) = Len(files)
  /\ sends' = [sends EXCEPT ![i].phase = "posting"]
  /\ OnlySends

\* The loop has reached the end of the array; solve, then POST.
StartPost(i) ==
  /\ sends[i].phase = "encrypting"
  /\ Len(sends[i].atts) >= Len(files)
  /\ sends' = [sends EXCEPT ![i].phase = "posting"]
  /\ OnlySends

\* The server's answer for the current recipient, or the error that took its
\* place, noted in results and in the history.
Answered(i, ok) == IF ok THEN sends[i].ok \cup {sends[i].current} ELSE sends[i].ok

\* An error may also hide that the server took the message: the answer was
\* lost, or the backend failed after it had accepted the mail.
Deliver(i, ok) ==
  \/ posted' = posted \cup {[send |-> i, to |-> sends[i].current,
                             body |-> sends[i].body, atts |-> sends[i].atts]}
  \/ ~ok /\ UNCHANGED posted

\* There are more recipients: the loop goes on, with a fresh list of attachments.
PostNext(i, ok) ==
  /\ sends[i].phase = "posting"
  /\ \E next \in sends[i].todo :
       sends' = [sends EXCEPT ![i].phase = "encrypting",
                              ![i].current = next,
                              ![i].todo = @ \ {next},
                              ![i].atts = <<>>,
                              ![i].ok = Answered(i, ok)]
  /\ Deliver(i, ok)
  /\ UNCHANGED <<compose, lookups, nextId, form, sendEnabled, warning, records, marks>>

\* The handler's end.  If anything was accepted, the form and all recipients
\* are cleared.
ResetIf(anyOk) ==
  /\ IF anyOk THEN badge' = <<>> /\ resolved' = <<>> /\ body' = NoText /\ files' = <<>>
              ELSE UNCHANGED <<badge, resolved, form>>
  /\ UpdateUI

\* (Wrong: the record is made after the reset.)
RecordOfResetForm(i) == [send |-> i, body |-> NoText, files |-> <<>>]

Record(i) == [send |-> i, body |-> body, files |-> files]

\* The last recipient's answer: results are rendered, the record is made from
\* the form as it is NOW, and the form reset.
PostLast(i, ok) ==
  /\ sends[i].phase = "posting"
  /\ sends[i].todo = {}
  /\ sends' = [sends EXCEPT ![i].phase = "done", ![i].ok = Answered(i, ok)]
  /\ Deliver(i, ok)
  /\ records' = IF Answered(i, ok) = {} THEN records
                ELSE records \cup {Record(i)}
  /\ ResetIf(Answered(i, ok) # {})
  /\ UNCHANGED <<lookups, nextId, timer>>

-----------------------------------------------------------------------------
AnswerLookup(id) == \/ \E trust \in Trusts : LookupFound(id, trust)
                    \/ LookupFailed(id)
                    \/ LookupRefused(id)

\* What the page does for a send by itself, and what it waits for.
Encrypt(i) == EncryptFile(i) \/ StartPost(i)

Answer(i) == \E ok \in BOOLEAN : PostNext(i, ok) \/ PostLast(i, ok)

RunSend(i) == Encrypt(i) \/ Answer(i)

User == \/ \E a \in Addresses : AddBadge(a) \/ Remove(a)
        \/ \E txt \in Texts : EditBody(txt)
        \/ \E f \in Files : AddFile(f)
        \/ \E i \in DOMAIN files : RemoveFile(i)
        \/ ClickSend

Next == \/ User
        \/ TimerFires
        \/ \E id \in DOMAIN lookups : AnswerLookup(id)
        \/ \E i \in DOMAIN sends : RunSend(i)

\* Nothing makes the user act, and nothing makes a mail server answer: neither
\* the page's fetch nor the relay's dialogue has a deadline.  Lookups end by the
\* timeouts of their two sources, and encryption goes on by itself.
Fairness == /\ \A id \in LookupIds :
                 WF_vars(id \in DOMAIN lookups /\ AnswerLookup(id))
            /\ \A i \in 1..MaxSends : WF_vars(i \in DOMAIN sends /\ Encrypt(i))

Spec == Init /\ [][Next]_vars /\ Fairness

-----------------------------------------------------------------------------
Statuses == {"loading", "found", "error"}

TypeOK ==
  /\ DOMAIN badge \subseteq Addresses
  /\ \A a \in DOMAIN badge : badge[a].status \in Statuses /\ badge[a].id \in LookupIds
  /\ DOMAIN resolved \subseteq Addresses
  /\ \A a \in DOMAIN resolved : resolved[a].trust \in Trusts /\ resolved[a].own \in BOOLEAN
  /\ DOMAIN lookups \subseteq LookupIds
  /\ nextId \in 1..(MaxLookups + 2)
  /\ timer \in Addresses \cup {NoAddress}
  /\ body \in Texts /\ files \in Seq(Files)
  /\ sendEnabled \in BOOLEAN /\ warning \in BOOLEAN
  /\ Len(sends) <= MaxSends
  /\ \A i \in DOMAIN sends : /\ sends[i].phase \in {"encrypting", "posting", "done"}
                             /\ sends[i].ok \subseteq sends[i].to
                             /\ sends[i].todo \subseteq sends[i].to
  /\ updated \subseteq DOMAIN sends /\ edited \subseteq updated

\* "Send requires: all recipients found AND (message or attachments present)",
\* whoever touched the page last, so that sendMessage is never entered with
\* nothing to send or nobody to send to; and once no send is under way, a page
\* that could be sent has its button back.
ButtonTellsTruth ==
  LET sendable == AllFound(badge, resolved) /\ HasContent(body, files)
  IN  (sendEnabled => sendable) /\ (~Sending /\ sendable => sendEnabled)

\* "agemail surfaces the worst trust level": no send takes a recipient found by
\* plain DNS unless the warning is on the page at the click.
DnsWarned == [][\A i \in DOMAIN sends' \ DOMAIN sends :
                  "dns" \in TrustsOf(resolved) => warning]_vars

\* A badge does not say "Looking up..." for ever, however its lookup ends.
LoadingEnds == \A a \in Addresses :
                 (a \in DOMAIN badge /\ badge[a].status = "loading")
                   ~> (a \notin DOMAIN badge \/ badge[a].status # "loading")

\* Every click is followed by results, with files coming and going meanwhile,
\* unless a post is never answered, or the user changes the files for ever.
SendEnds ==
  \A i \in 1..MaxSends :
    \/ i \in DOMAIN sends ~> (i \in DOMAIN sends /\ ~Running(i))
    \/ <>[](i \in DOMAIN sends /\ sends[i].phase = "posting")
    \/ []<><<files' # files>>_vars

\* A send goes to the addresses whose badges were on the page, and to all of
\* them: an address the user has removed is not written to.
SendOnlyListed == \A i \in DOMAIN sends : sends[i].to = sends[i].listed

\* A send leaves out no badge of the page, and adds an address only when a lookup
\* that no badge waited for has answered for it.
ListedOrStray ==
  \A i \in DOMAIN sends : /\ sends[i].listed \subseteq sends[i].to
                          /\ sends[i].to \ sends[i].listed \subseteq sends[i].stray

\* "On Send (all recipients must be ok)": with the button enabled, every badge
\* shows a successful lookup.
EnabledMeansFound == sendEnabled => \A a \in DOMAIN badge : badge[a].status = "found"

\* A badge beside the enabled button shows a successful lookup, unless the answer
\* that counts for it is to a lookup that was not its own.
FoundOrStray ==
  sendEnabled => \A a \in DOMAIN badge : \/ badge[a].status = "found"
                                        \/ (a \in DOMAIN resolved /\ ~resolved[a].own)

\* The handler disables the button, so that a message is not sent twice: a send
\* begins while another is under way only if updateUI has run since, for an edit,
\* a lookup or a send that ended.
OverlapIsUpdated ==
  \A i, j \in DOMAIN sends : i < j /\ Running(i) /\ Running(j) => i \in updated

\* "Want a local copy of what you sent?": the record holds the text and the
\* files that each recipient of the send got, unless the form has changed since
\* the click.
RecordUnlessEdited ==
  \A rec \in records, p \in posted :
    p.send = rec.send /\ rec.send \notin edited => p.body = rec.body /\ p.atts = rec.files
=============================================================================
