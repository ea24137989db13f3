----------------------------- MODULE MCLookup ------------------------------
(***************************************************************************)
(* Instances of Lookup and Records for TLC: a user and its bare domain,    *)
(* the same user under a mistyped domain, a classic and a post-quantum     *)
(* key.  The mistyped address and the mailbox are spelled with the bytes   *)
(* that give escapes trouble: backslash, quote, digits, a byte over 126.   *)
(***************************************************************************)
EXTENDS Records, TLC

CONSTANTS user, typo, domain, box, classic, old, pq

MCLocal == (user :> "user") @@ (typo :> "user")
MCDomain == (user :> domain) @@ (typo :> typo) @@ (domain :> domain)

\* The prefix of a key is the letter a, to keep the texts short.
MCPrefix == <<97>>
MCSpelling ==
  (user :> <<117>>) @@ (typo :> <<Backslash, 48, 49, 48>>) @@ (domain :> <<195, 49>>)
    @@ (box :> <<97, Quote, Backslash, Quote>>) @@ (NoMailbox :> <<>>)
    @@ (classic :> <<97, 49, 50>>) @@ (old :> <<97, 51>>) @@ (pq :> <<97, 52, 52, 52>>)
=============================================================================
