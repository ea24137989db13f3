------------------------------ MODULE Delivery ------------------------------
(***************************************************************************)
(* What one call to /api/send promises, whatever happens behind it:        *)
(* without stages, backends, lookups or errors.                            *)
(*                                                                         *)
(* Relay is shown to implement it, and so is each copy of a post in        *)
(* Exchange.                                                               *)
(***************************************************************************)
EXTENDS Naturals, Sequences

CONSTANT Mailboxes

VARIABLES asked,   \* how many recipients the request names
          mailed,  \* the mails that left, each for a position of the request
          reply    \* what the call was answered

deliveryVars == <<asked, mailed, reply>>

Init == asked \in Nat /\ mailed = <<>> /\ reply = "none"

\* A mail leaves for a recipient further down the list than any that has one,
\* while the call is unanswered.
Mail(p, box) == /\ reply = "none"
                /\ \A i \in DOMAIN mailed : mailed[i].pos < p
                /\ mailed' = Append(mailed, [pos |-> p, to |-> box])
                /\ UNCHANGED <<asked, reply>>

\* The answer comes last.  A refusal follows no mail, and "sent" follows all.
Close(answer) == /\ reply = "none"
                 /\ answer = "rejected" => mailed = <<>>
                 /\ answer = "sent" => \A p \in 1..asked :
                                         \E i \in DOMAIN mailed : mailed[i].pos = p
                 /\ reply' = answer
                 /\ UNCHANGED <<asked, mailed>>

Next == \/ \E p \in 1..asked, box \in Mailboxes : Mail(p, box)
        \/ \E answer \in {"rejected", "sent", "failed"} : Close(answer)

Spec == Init /\ [][Next]_deliveryVars
=============================================================================
