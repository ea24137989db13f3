------------------------------- MODULE Lookup -------------------------------
(***************************************************************************)
(* The resolution of one recipient: lookup.Service.Lookup and what it      *)
(* calls in internal/lookup (HTTPSLookup, DNSLookup, ParseRecords...).     *)
(* Both /api/lookup and /api/send resolve by this function.                *)
(*                                                                         *)
(* What the well-known file and the zone hold is up to the domain, and may *)
(* differ from one call to the next: the environment answers any lines.    *)
(* A line is a record, or malformed with an intended match; comments and   *)
(* blank lines are gone.  Names are compared up to case by the code, so a  *)
(* name stands for all its spellings.  Malformed lines that intend nobody  *)
(* are left out: no warning is about them.                                 *)
(***************************************************************************)
EXTENDS Lists

CONSTANTS
  Names,        \* what a match may say: addresses and bare domains
  FullNames,    \* those of them that contain an "@"
  LocalPart,    \* of a full name, what stands before the last "@"
  DomainName,   \* of a name, its domain
  Mailboxes,    \* what a delivery field may say
  NoMailbox,    \* an empty delivery field
  Keys, PQKeys, \* age keys, and those that start with "age1pq1"
  MaxLines      \* bound on the lines published in one place

ASSUME LookupAssumption == /\ FullNames \subseteq Names
                           /\ LocalPart \in [FullNames -> STRING]
                           /\ DomainName \in [Names -> Names]
                           /\ NoMailbox \notin Mailboxes \cup Names
                           /\ PQKeys \subseteq Keys
                           /\ MaxLines \in Nat

Records == [kind : {"record"}, match : Names, delivery : Mailboxes \cup {NoMailbox},
            key : Keys]
Malformed == [kind : {"malformed"}, intended : Names]
Lines == Records \cup Malformed
Published == UNION {[1..n -> Lines] : n \in 0..MaxLines}

-----------------------------------------------------------------------------
(* The functions of record.go and lookup.go.                               *)

\* ParseRecordsAndFailures.
Valid(lines) == Keep(lines, {i \in DOMAIN lines : lines[i].kind = "record"})
Failures(lines) == Keep(lines, {i \in DOMAIN lines : lines[i].kind = "malformed"})

MatchRecords(records, r) == Keep(records, {i \in DOMAIN records : records[i].match = r})

\* collectKeys: each key once, in the order of the records.
CollectKeys(records) ==
  LET all == [i \in DOMAIN records |-> records[i].key] IN Keep(all, FirstOnes(all))

\* (Wrong: the first key wins.)
FirstKey(keys) == [key |-> keys[1], reason |-> "single"]

\* selectKey: the first PQ key of several, or else the first key.
SelectKey(keys) ==
  LET safe == Keep(keys, {i \in DOMAIN keys : keys[i] \in PQKeys})
  IN  IF Len(keys) = 1 THEN [key |-> keys[1], reason |-> "single"]
      ELSE IF safe # <<>> THEN [key |-> safe[1], reason |-> "pq-preferred"]
      ELSE [key |-> keys[1], reason |-> "pq-unavailable"]

\* (Wrong: a bare domain is taken for a mailbox.)
DeliverToMatch(rec, r) == IF rec.delivery # NoMailbox THEN rec.delivery ELSE rec.match

\* resolveDelivery: the delivery field, or the match, or the recipient, if it
\* is an address.
ResolveDelivery(rec, r) ==
  IF rec.delivery # NoMailbox THEN rec.delivery
  ELSE IF rec.match \in FullNames THEN rec.match
  ELSE IF r \in FullNames THEN r ELSE NoMailbox

\* malformedRelevantTo: meant for the recipient, or for the same local part
\* under another (mistyped) domain.
Relevant(line, r) ==
  \/ line.intended = r
  \/ /\ {line.intended, r} \subseteq FullNames
     /\ LocalPart[line.intended] = LocalPart[r]

WarningsFor(lines, r) ==
  LET failed == Failures(lines)
  IN  Keep(failed, {i \in DOMAIN failed : Relevant(failed[i], r)})

-----------------------------------------------------------------------------
VARIABLES
  recipient,  \* whom the call asks for
  stage,      \* "https", "dns", "done"
  result,     \* lookup.Result
  webLines,   \* history: the lines HTTPS answered, <<>> if it failed
  zoneLines,  \* history: the lines DNS answered
  validated   \* history: the AD bit of that answer

vars == <<recipient, stage, result, webLines, zoneLines, validated>>

NotFound == [found |-> FALSE, trust |-> "none", keys |-> <<>>, selected |-> "none",
             reason |-> "none", delivery |-> NoMailbox, warnings |-> <<>>]

Init == /\ recipient \in Names
        /\ stage = "https"
        /\ result = NotFound
        /\ webLines = <<>> /\ zoneLines = <<>> /\ validated = FALSE

\* The Result of records found in one place.
Found(matched, trust, warnings) ==
  LET keys == CollectKeys(matched)
      sel  == SelectKey(keys)
  IN  [found |-> TRUE, trust |-> trust, keys |-> keys,
       selected |-> sel.key, reason |-> sel.reason,
       delivery |-> ResolveDelivery(matched[1], recipient), warnings |-> warnings]

\* HTTPSLookup returns an error: no connection, no TLS, not 200, timeout.
HTTPSFails ==
  /\ stage = "https"
  /\ stage' = "dns"
  /\ UNCHANGED <<recipient, result, webLines, zoneLines, validated>>

\* HTTPSLookup has read the file.  Without one valid record it returns an
\* error, and Lookup passes over the failures that came with it.
HTTPSAnswers(lines) ==
  LET matched  == MatchRecords(Valid(lines), recipient)
      warnings == WarningsFor(lines, recipient)
  IN  /\ stage = "https"
      /\ webLines' = lines
      /\ \/ /\ matched # <<>>
            /\ result' = Found(matched, "https", warnings)
            /\ stage' = "done"
         \/ /\ matched = <<>>
            /\ result' = IF Valid(lines) # <<>> THEN [result EXCEPT !.warnings = warnings]
                                                ELSE result
            /\ stage' = "dns"
      /\ UNCHANGED <<recipient, zoneLines, validated>>

\* DNSLookup returns an error: what HTTPS left is the answer.
DNSFails ==
  /\ stage = "dns"
  /\ stage' = "done"
  /\ UNCHANGED <<recipient, result, webLines, zoneLines, validated>>

\* (Wrong: the warnings of HTTPS are lost.)
OnlyNew(old, new) == new

\* append(result.Warnings, ...).
Merge(old, new) == old \o new

\* (Wrong: the resolver was asked to validate, so it did.)
TrustOfQuestion(ad) == "dnssec"

\* The AD bit of the answer tells the trust.
Trust(ad) == IF ad THEN "dnssec" ELSE "dns"

\* DNSLookup returns.
DNSAnswers(lines, ad) ==
  LET matched  == MatchRecords(Valid(lines), recipient)
      warnings == Merge(result.warnings, WarningsFor(lines, recipient))
  IN  /\ stage = "dns"
      /\ stage' = "done"
      /\ zoneLines' = lines /\ validated' = ad
      /\ result' = IF matched # <<>> THEN Found(matched, Trust(ad), warnings)
                                     ELSE [result EXCEPT !.warnings = warnings]
      /\ UNCHANGED <<recipient, webLines>>

\* The call has returned.
Returned == stage = "done" /\ UNCHANGED vars

Next == \/ HTTPSFails
        \/ \E lines \in Published : HTTPSAnswers(lines)
        \/ DNSFails
        \/ \E lines \in Published, ad \in BOOLEAN : DNSAnswers(lines, ad)
        \/ Returned

Spec == Init /\ [][Next]_vars

-----------------------------------------------------------------------------
RecordsFor(lines, r) == {rec \in ToSet(lines) : rec.kind = "record" /\ rec.match = r}
Done == stage = "done"

TypeOK ==
  /\ recipient \in Names
  /\ stage \in {"https", "dns", "done"}
  /\ result.trust \in {"none", "https", "dnssec", "dns"}
  /\ ToSet(result.keys) \subseteq Keys
  /\ result.delivery \in Mailboxes \cup FullNames \cup {NoMailbox}
  /\ \A l \in ToSet(result.warnings) : l \in Malformed

\* "Lookups must be explicit": key and delivery come from lines that name the
\* recipient, and from the zone only if the well-known file named it nowhere; the
\* trust is that of the place they come from, "dnssec" of the zone only where the
\* resolver says that it validated this answer.  An answer of "not found" means
\* that neither place names the recipient.
AnswerIsExplicit ==
  LET web  == RecordsFor(webLines, recipient)
      zone == RecordsFor(zoneLines, recipient)
      own  == IF web # {} THEN web ELSE zone
  IN  Done => /\ result.found <=> own # {}
              /\ result.found => /\ result.trust = IF web # {} THEN "https"
                                                   ELSE IF validated THEN "dnssec" ELSE "dns"
                                 /\ result.selected \in {rec.key : rec \in own}
                                 /\ result.delivery \in
                                      {ResolveDelivery(rec, recipient) : rec \in own}

\* A post-quantum key is selected whenever the place that answers has one, and
\* the reason tells the user exactly when there was a choice.
PQPreferred ==
  Done /\ result.found =>
    LET own == {rec.key : rec \in RecordsFor(webLines, recipient)}
        all == IF own # {} THEN own
               ELSE {rec.key : rec \in RecordsFor(zoneLines, recipient)}
    IN  /\ all \cap PQKeys # {} => result.selected \in PQKeys
        /\ (result.reason = "pq-preferred") <=> (all \cap PQKeys # {} /\ all # {result.selected})

\* What the user is warned of: every malformed line that was meant for the
\* recipient, in the file (if it was consulted beyond its errors) and the zone.
ReadFailures(lines) == {l \in ToSet(lines) : l.kind = "malformed" /\ Relevant(l, recipient)}

WarnedOfBoth ==
  Done /\ Valid(webLines) # <<>> =>
    ToSet(result.warnings) = ReadFailures(webLines) \cup ReadFailures(zoneLines)

\* "It also returns parse failures so callers can warn about malformed
\* records": the caller does, also when the file has no valid record.
WarnedOfMalformedFile == Done => ReadFailures(webLines) \subseteq ToSet(result.warnings)

\* "Look up the exact line first; if none exists, fall back to the domain's
\* default line": nobody is left unfound for whose domain a line is published.
CatchAll ==
  LET default == DomainName[recipient]
  IN  Done /\ ~result.found => /\ RecordsFor(webLines, default) = {}
                              /\ RecordsFor(zoneLines, default) = {}
=============================================================================
