---------------------------- MODULE LookupProofs ----------------------------
(***************************************************************************)
(* Theorems of module Lookup, for any names, keys and lines, and their     *)
(* proofs.  The invariant says of each stage what the result is made of:   *)
(* the lines that were read, and whether they named the recipient.         *)
(***************************************************************************)
EXTENDS Lookup, ListLemmas

\* The records of some lines that name r, in their order.
Matched(lines, r) == MatchRecords(Valid(lines), r)

\* The warnings that the file leaves behind when it does not answer.
WebWarnings == IF Valid(webLines) # <<>> THEN WarningsFor(webLines, recipient) ELSE <<>>

\* The answer of the zone, after a file that did not name the recipient.
ZoneResult ==
  LET warnings == WebWarnings \o WarningsFor(zoneLines, recipient)
  IN  IF Matched(zoneLines, recipient) # <<>>
        THEN Found(Matched(zoneLines, recipient), Trust(validated), warnings)
        ELSE [NotFound EXCEPT !.warnings = warnings]

InvHttps == stage = "https" => result = NotFound /\ webLines = <<>> /\ zoneLines = <<>>

InvDns == stage = "dns" => /\ Matched(webLines, recipient) = <<>> /\ zoneLines = <<>>
                           /\ result = [NotFound EXCEPT !.warnings = WebWarnings]

InvDone ==
  stage = "done" =>
    \/ /\ Matched(webLines, recipient) # <<>> /\ zoneLines = <<>>
       /\ result = Found(Matched(webLines, recipient), "https",
                         WarningsFor(webLines, recipient))
    \/ /\ Matched(webLines, recipient) = <<>>
       /\ result = ZoneResult

Inv == /\ recipient \in Names /\ stage \in {"https", "dns", "done"}
       /\ webLines \in Seq(Lines) /\ zoneLines \in Seq(Lines) /\ validated \in BOOLEAN
       /\ InvHttps /\ InvDns /\ InvDone

-----------------------------------------------------------------------------
(* The lines that are kept.                                                *)

LEMMA PublishedLines == ASSUME NEW lines \in Published PROVE lines \in Seq(Lines)
BY LookupAssumption DEF Published

LEMMA ValidType ==
  ASSUME NEW lines \in Seq(Lines)
  PROVE  Valid(lines) \in Seq(Lines) /\ Failures(lines) \in Seq(Lines)
BY KeepType DEF Valid, Failures

LEMMA ValidSet ==
  ASSUME NEW lines \in Seq(Lines)
  PROVE  /\ ToSet(Valid(lines)) = {l \in ToSet(lines) : l.kind = "record"}
         /\ ToSet(Failures(lines)) = {l \in ToSet(lines) : l.kind = "malformed"}
<1> DEFINE good == {i \in DOMAIN lines : lines[i].kind = "record"}
           bad  == {i \in DOMAIN lines : lines[i].kind = "malformed"}
<1>1. ToSet(Valid(lines)) = {lines[i] : i \in good \cap DOMAIN lines}
  BY KeepSet DEF Valid
<1>2. ToSet(Failures(lines)) = {lines[i] : i \in bad \cap DOMAIN lines}
  BY KeepSet DEF Failures
<1> QED BY <1>1, <1>2 DEF ToSet

LEMMA MatchedSet ==
  ASSUME NEW lines \in Seq(Lines), NEW r
  PROVE  /\ Matched(lines, r) \in Seq(Lines)
         /\ ToSet(Matched(lines, r)) = RecordsFor(lines, r)
<1> DEFINE valid == Valid(lines)
           own == {i \in DOMAIN valid : valid[i].match = r}
<1>1. valid \in Seq(Lines)
  BY ValidType
<1>2. Matched(lines, r) = Keep(valid, own)
  BY DEF Matched, MatchRecords
<1>3. ToSet(valid) = {l \in ToSet(lines) : l.kind = "record"}
  BY ValidSet
<1> HIDE DEF valid
<1>4. ToSet(Keep(valid, own)) = {valid[i] : i \in own \cap DOMAIN valid}
  BY <1>1, KeepSet
<1>5. ToSet(Keep(valid, own)) = {l \in ToSet(valid) : l.match = r}
  BY <1>4 DEF ToSet
<1>6. {l \in ToSet(valid) : l.match = r} = RecordsFor(lines, r)
  BY <1>3 DEF RecordsFor
<1>7. Keep(valid, own) \in Seq(Lines)
  BY <1>1, KeepType
<1> QED BY <1>2, <1>5, <1>6, <1>7

LEMMA WarningsSet ==
  ASSUME NEW lines \in Seq(Lines), NEW r
  PROVE  /\ WarningsFor(lines, r) \in Seq(Lines)
         /\ ToSet(WarningsFor(lines, r)) =
              {l \in ToSet(lines) : l.kind = "malformed" /\ Relevant(l, r)}
<1> DEFINE failed == Failures(lines)
           own == {i \in DOMAIN failed : Relevant(failed[i], r)}
<1>1. failed \in Seq(Lines)
  BY ValidType
<1>2. WarningsFor(lines, r) = Keep(failed, own)
  BY DEF WarningsFor
<1>3. ToSet(failed) = {l \in ToSet(lines) : l.kind = "malformed"}
  BY ValidSet
<1> HIDE DEF failed
<1>4. ToSet(Keep(failed, own)) = {failed[i] : i \in own \cap DOMAIN failed}
  BY <1>1, KeepSet
<1>5. ToSet(Keep(failed, own)) = {l \in ToSet(failed) : Relevant(l, r)}
  BY <1>4 DEF ToSet
<1>6. Keep(failed, own) \in Seq(Lines)
  BY <1>1, KeepType
<1> QED BY <1>2, <1>3, <1>5, <1>6

LEMMA MatchedType ==
  ASSUME NEW lines \in Seq(Lines), NEW r
  PROVE  Matched(lines, r) \in Seq(Records)
<1>1. \A l \in Lines : l.kind = "record" => l \in Records
  BY DEF Lines, Malformed
<1>2. RecordsFor(lines, r) \subseteq Records
  BY <1>1, NothingIn DEF RecordsFor
<1> QED BY <1>2, MatchedSet, SeqOfItsSet

-----------------------------------------------------------------------------
(* The keys.                                                               *)

\* collectKeys loses no key, and returns none twice.
LEMMA KeysOfRecords ==
  ASSUME NEW records \in Seq(Records)
  PROVE  LET keys == CollectKeys(records)
         IN  /\ keys \in Seq(Keys)
             /\ ToSet(keys) = {rec.key : rec \in ToSet(records)}
             /\ \A j, k \in 1..Len(keys) : keys[j] = keys[k] => j = k
<1> DEFINE all == [i \in DOMAIN records |-> records[i].key]
<1>1. /\ DOMAIN records = 1..Len(records) /\ Len(records) \in Nat
      /\ \A i \in 1..Len(records) : records[i] \in Records
  BY LenProperties
<1>2. all \in Seq(Keys) /\ DOMAIN all = DOMAIN records
      /\ \A i \in DOMAIN records : all[i] = records[i].key
  BY <1>1 DEF Records
<1>3. CollectKeys(records) = Keep(all, FirstOnes(all))
  BY DEF CollectKeys
<1>4. ToSet(all) = {rec.key : rec \in ToSet(records)}
  BY <1>2 DEF ToSet
<1> HIDE DEF all
<1>5. Keep(all, FirstOnes(all)) \in Seq(Keys)
  BY <1>2, KeepType
<1>6. ToSet(Keep(all, FirstOnes(all))) = ToSet(all)
  BY <1>2, FirstOnesSet
<1> QED BY <1>2, <1>3, <1>4, <1>5, <1>6, FirstOnesOnce

\* selectKey selects a post-quantum key if there is one, and says
\* "pq-preferred" if, besides, there was a choice.
LEMMA KeySelected ==
  ASSUME NEW keys \in Seq(Keys), keys # <<>>,
         \A j, k \in 1..Len(keys) : keys[j] = keys[k] => j = k
  PROVE  LET sel == SelectKey(keys)
             all == ToSet(keys)
         IN  /\ sel.key \in all
             /\ all \cap PQKeys # {} => sel.key \in PQKeys
             /\ (sel.reason = "pq-preferred") <=> (all \cap PQKeys # {} /\ all # {sel.key})
<1> DEFINE pq == {i \in DOMAIN keys : keys[i] \in PQKeys}
           safe == Keep(keys, pq)
           all == ToSet(keys)
           sel == SelectKey(keys)
<1>1. Len(keys) \in Nat \ {0} /\ all = {keys[i] : i \in 1..Len(keys)}
      /\ DOMAIN keys = 1..Len(keys)
  BY EmptySeq, SetOf, LenProperties
<1>2. ToSet(safe) = all \cap PQKeys
  <2>1. ToSet(safe) = {keys[i] : i \in pq \cap DOMAIN keys}
    BY KeepSet
  <2> QED BY <2>1, <1>1
<1>3. /\ safe # <<>> => safe[1] \in all \cap PQKeys
      /\ safe = <<>> <=> all \cap PQKeys = {}
  <2>1. safe \in Seq(Keys)
    BY KeepType
  <2> HIDE DEF safe, all
  <2> QED BY <2>1, <1>2, NothingIn
<1>4. sel = IF Len(keys) = 1 THEN [key |-> keys[1], reason |-> "single"]
            ELSE IF safe # <<>> THEN [key |-> safe[1], reason |-> "pq-preferred"]
            ELSE [key |-> keys[1], reason |-> "pq-unavailable"]
  BY DEF SelectKey
<1>5. keys[1] \in all
  BY <1>1
<1>6. CASE Len(keys) = 1
  <2>1. all = {keys[1]}
    BY <1>1, <1>6
  <2>2. sel.key = keys[1] /\ sel.reason = "single"
    BY <1>4, <1>6
  <2> QED BY <2>1, <2>2
<1>7. CASE Len(keys) # 1 /\ safe # <<>>
  <2>1. sel.key = safe[1] /\ sel.reason = "pq-preferred"
    BY <1>4, <1>7
  <2>2. keys[1] \in all /\ keys[2] \in all /\ keys[1] # keys[2]
    <3>1. 1 \in 1..Len(keys) /\ 2 \in 1..Len(keys)
      BY <1>1, <1>7
    <3> QED BY <3>1, <1>1
  <2> HIDE DEF sel, all, safe
  <2>3. sel.key \in all /\ all \cap PQKeys # {} /\ sel.key \in PQKeys /\ all # {sel.key}
    BY <2>1, <2>2, <1>3, <1>7
  <2> QED BY <2>1, <2>3 DEF sel, all
<1>8. CASE Len(keys) # 1 /\ safe = <<>>
  <2>1. sel.key = keys[1] /\ sel.reason = "pq-unavailable"
    BY <1>4, <1>8
  <2> QED BY <2>1, <1>3, <1>5, <1>8
<1> QED BY <1>6, <1>7, <1>8

\* resolveDelivery returns a mailbox, an address or nothing.
LEMMA DeliveryResolved ==
  ASSUME NEW rec \in Records, NEW r
  PROVE  ResolveDelivery(rec, r) \in Mailboxes \cup FullNames \cup {NoMailbox}
BY DEF ResolveDelivery, Records

\* An answer with the key to select of some keys.
Chosen(answer, all) ==
  /\ all \cap PQKeys # {} => answer.selected \in PQKeys
  /\ (answer.reason = "pq-preferred") <=> (all \cap PQKeys # {} /\ all # {answer.selected})

KeysIn(own) == {rec.key : rec \in own}

\* What the answer of one place holds.
LEMMA FoundAnswer ==
  ASSUME NEW lines \in Seq(Lines), NEW trust, NEW warnings,
         Matched(lines, recipient) # <<>>
  PROVE  LET answer == Found(Matched(lines, recipient), trust, warnings)
             own == RecordsFor(lines, recipient)
         IN  /\ own # {} /\ answer.found /\ answer.trust = trust
             /\ answer.warnings = warnings
             /\ ToSet(answer.keys) \subseteq Keys
             /\ answer.delivery \in Mailboxes \cup FullNames \cup {NoMailbox}
             /\ answer.delivery \in {ResolveDelivery(rec, recipient) : rec \in own}
             /\ answer.selected \in KeysIn(own)
             /\ Chosen(answer, KeysIn(own))
<1> DEFINE matched == Matched(lines, recipient)
           own == RecordsFor(lines, recipient)
           all == KeysIn(own)
           keys == CollectKeys(matched)
           sel == SelectKey(keys)
           answer == Found(matched, trust, warnings)
<1>1. matched \in Seq(Records) /\ ToSet(matched) = own
  BY MatchedSet, MatchedType
<1>2. answer = [found |-> TRUE, trust |-> trust, keys |-> keys, selected |-> sel.key,
                reason |-> sel.reason, delivery |-> ResolveDelivery(matched[1], recipient),
                warnings |-> warnings]
  BY DEF Found
<1>3. own # {} /\ matched[1] \in own /\ own \subseteq Records
  <2>1. matched # <<>>
    OBVIOUS
  <2> HIDE DEF matched, own
  <2> QED BY <2>1, <1>1, NothingIn
<1>4. /\ keys \in Seq(Keys) /\ ToSet(keys) = all
      /\ \A j, k \in 1..Len(keys) : keys[j] = keys[k] => j = k
  <2> HIDE DEF matched
  <2> QED BY <1>1, KeysOfRecords DEF KeysIn
<1>5. keys # <<>> /\ all \subseteq Keys
  <2>1. all # {}
    BY <1>3 DEF KeysIn
  <2>2. all \subseteq Keys
    BY <1>3 DEF KeysIn, Records
  <2> HIDE DEF keys, all
  <2> QED BY <2>1, <2>2, <1>4, NothingIn
<1>6. /\ sel.key \in all
      /\ all \cap PQKeys # {} => sel.key \in PQKeys
      /\ (sel.reason = "pq-preferred") <=> (all \cap PQKeys # {} /\ all # {sel.key})
  <2> HIDE DEF keys, all
  <2> QED BY <1>4, <1>5, KeySelected
<1>7. ResolveDelivery(matched[1], recipient) \in Mailboxes \cup FullNames \cup {NoMailbox}
  BY <1>3, DeliveryResolved
<1>8. /\ answer.found /\ answer.trust = trust /\ answer.warnings = warnings
      /\ answer.keys = keys /\ answer.selected = sel.key /\ answer.reason = sel.reason
      /\ answer.delivery = ResolveDelivery(matched[1], recipient)
  BY <1>2
<1> HIDE DEF answer, sel, keys, matched
<1>9. answer.delivery \in {ResolveDelivery(rec, recipient) : rec \in own}
  BY <1>3, <1>8
<1>10. answer.selected \in all /\ Chosen(answer, all)
  <2> HIDE DEF all
  <2> QED BY <1>6, <1>8 DEF Chosen
<1>11. ToSet(answer.keys) \subseteq Keys
  BY <1>4, <1>5, <1>8
<1> QED BY <1>3, <1>7, <1>8, <1>9, <1>10, <1>11 DEF answer, matched

-----------------------------------------------------------------------------
(* The invariant.                                                          *)

LEMMA NotFoundUnwarned == [NotFound EXCEPT !.warnings = <<>>] = NotFound
<1>1. NotFound = [x \in DOMAIN NotFound |-> NotFound[x]]
  BY DEF NotFound
<1>2. NotFound["warnings"] = <<>>
  BY DEF NotFound
<1> QED BY <1>1, <1>2

LEMMA InitInv == Init => Inv
BY EmptySeq DEF Init, Inv, InvHttps, InvDns, InvDone

LEMMA NextInv == Inv /\ [Next]_vars => Inv'
<1> SUFFICES ASSUME Inv, [Next]_vars PROVE Inv'
  OBVIOUS
<1> USE DEF Inv
<1>1. CASE HTTPSFails
  <2>1. Valid(<<>>) = <<>> /\ Matched(<<>>, recipient) = <<>>
    BY KeepEmpty DEF Valid, Matched, MatchRecords
  <2>2. [NotFound EXCEPT !.warnings = <<>>] = NotFound
    BY NotFoundUnwarned
  <2> QED BY <1>1, <2>1, <2>2 DEF HTTPSFails, InvHttps, InvDns, InvDone, WebWarnings
<1>2. ASSUME NEW lines \in Published, HTTPSAnswers(lines) PROVE Inv'
  <2>1. lines \in Seq(Lines)
    BY PublishedLines
  <2>2. /\ stage = "https" /\ result = NotFound /\ zoneLines = <<>>
        /\ webLines' = lines /\ UNCHANGED <<zoneLines, validated, recipient>>
    BY <1>2 DEF HTTPSAnswers, InvHttps
  <2>3. CASE Matched(lines, recipient) # <<>>
    <3>1. stage' = "done" /\ result' = Found(Matched(lines, recipient), "https",
                                              WarningsFor(lines, recipient))
      BY <1>2, <2>3 DEF HTTPSAnswers, Matched
    <3>2. InvDone'
      BY <2>2, <2>3, <3>1 DEF InvDone, Found
    <3> QED BY <2>1, <2>2, <3>1, <3>2 DEF InvHttps, InvDns
  <2>4. CASE Matched(lines, recipient) = <<>>
    <3>1. /\ stage' = "dns"
          /\ result' = IF Valid(lines) # <<>>
                         THEN [result EXCEPT !.warnings = WarningsFor(lines, recipient)]
                         ELSE result
      BY <1>2, <2>4 DEF HTTPSAnswers, Matched
    <3>2. result' = [NotFound EXCEPT !.warnings = WebWarnings']
      <4>1. [NotFound EXCEPT !.warnings = <<>>] = NotFound
        BY NotFoundUnwarned
      <4> QED BY <2>2, <3>1, <4>1 DEF WebWarnings
    <3> QED BY <2>1, <2>2, <2>4, <3>1, <3>2 DEF InvHttps, InvDns, InvDone
  <2> QED BY <2>3, <2>4
<1>3. CASE DNSFails
  <2>1. /\ stage = "dns" /\ stage' = "done" /\ Matched(webLines, recipient) = <<>>
        /\ zoneLines = <<>> /\ result = [NotFound EXCEPT !.warnings = WebWarnings]
        /\ UNCHANGED <<recipient, result, webLines, zoneLines, validated>>
    BY <1>3 DEF DNSFails, InvDns
  <2>2. Matched(<<>>, recipient) = <<>> /\ WarningsFor(<<>>, recipient) = <<>>
    BY KeepEmpty DEF Valid, Failures, Matched, MatchRecords, WarningsFor
  <2>3. WebWarnings \o <<>> = WebWarnings
    BY WarningsSet, EmptySeq, ConcatEmptySeq DEF WebWarnings
  <2>4. result = ZoneResult
    BY <2>1, <2>2, <2>3 DEF ZoneResult
  <2>5. ZoneResult' = ZoneResult
    BY <2>1 DEF ZoneResult, WebWarnings, Found
  <2>6. InvDone'
    BY <2>1, <2>4, <2>5 DEF InvDone
  <2> QED BY <2>1, <2>6 DEF InvHttps, InvDns
<1>4. ASSUME NEW lines \in Published, NEW ad \in BOOLEAN, DNSAnswers(lines, ad) PROVE Inv'
  <2>1. lines \in Seq(Lines)
    BY PublishedLines
  <2>2. /\ stage = "dns" /\ Matched(webLines, recipient) = <<>>
        /\ result = [NotFound EXCEPT !.warnings = WebWarnings]
        /\ stage' = "done" /\ zoneLines' = lines /\ validated' = ad
        /\ webLines' = webLines /\ recipient' = recipient
    BY <1>4 DEF DNSAnswers, InvDns
  <2>3. result.warnings = WebWarnings
    BY <2>2 DEF NotFound
  <2>4. [result EXCEPT !.warnings = WebWarnings \o WarningsFor(lines, recipient)] =
          [NotFound EXCEPT !.warnings = WebWarnings \o WarningsFor(lines, recipient)]
    BY <2>2 DEF NotFound
  <2>5. WebWarnings' = WebWarnings
    BY <2>2 DEF WebWarnings
  <2>6. result' = ZoneResult'
    <3>1. result' = IF Matched(lines, recipient) # <<>>
                     THEN Found(Matched(lines, recipient), Trust(ad),
                                WebWarnings \o WarningsFor(lines, recipient))
                     ELSE [NotFound EXCEPT !.warnings =
                             WebWarnings \o WarningsFor(lines, recipient)]
      BY <1>4, <2>3, <2>4 DEF DNSAnswers, Merge, Matched
    <3> QED BY <3>1, <2>2, <2>5 DEF ZoneResult, Found, Trust
  <2>7. InvDone'
    <3>1. Matched(webLines, recipient)' = <<>>
      BY <2>2
    <3> QED BY <2>6, <3>1 DEF InvDone
  <2> QED BY <2>1, <2>2, <2>7 DEF InvHttps, InvDns
<1>5. CASE Returned
  BY <1>5 DEF Returned, vars, InvHttps, InvDns, InvDone, ZoneResult, WebWarnings, Found
<1>6. CASE UNCHANGED vars
  BY <1>6 DEF vars, InvHttps, InvDns, InvDone, ZoneResult, WebWarnings, Found
<1> QED BY <1>1, <1>2, <1>3, <1>4, <1>5, <1>6 DEF Next

LEMMA SpecInv == Spec => []Inv
BY InitInv, NextInv, PTL DEF Spec

-----------------------------------------------------------------------------
(* The theorems.                                                           *)

\* What the invariant says of a call that has returned.
LEMMA DoneCases ==
  ASSUME Inv, Done
  PROVE  LET web  == RecordsFor(webLines, recipient)
             zone == RecordsFor(zoneLines, recipient)
         IN  \/ /\ web # {} /\ zoneLines = <<>>
                /\ Matched(webLines, recipient) # <<>>
                /\ result = Found(Matched(webLines, recipient), "https",
                                  WarningsFor(webLines, recipient))
             \/ /\ web = {} /\ zone # {}
                /\ Matched(zoneLines, recipient) # <<>>
                /\ result = Found(Matched(zoneLines, recipient), Trust(validated),
                                  WebWarnings \o WarningsFor(zoneLines, recipient))
             \/ /\ web = {} /\ zone = {}
                /\ result = [NotFound EXCEPT !.warnings =
                               WebWarnings \o WarningsFor(zoneLines, recipient)]
<1>1. ASSUME NEW lines \in Seq(Lines)
      PROVE  Matched(lines, recipient) = <<>> <=> RecordsFor(lines, recipient) = {}
  <2>1. Matched(lines, recipient) \in Seq(Lines)
    BY MatchedSet
  <2>2. Matched(lines, recipient) = <<>> <=> ToSet(Matched(lines, recipient)) = {}
    BY <2>1, NothingIn
  <2> QED BY <2>2, MatchedSet
<1> QED BY <1>1 DEF Inv, InvDone, Done, ZoneResult

\* What a call can warn of: every malformed line of the zone meant for the
\* recipient, and those of the file if the file had a valid record.
LEMMA WarningsOfBoth ==
  ASSUME Inv
  PROVE  /\ WebWarnings \o WarningsFor(zoneLines, recipient) \in Seq(Lines)
         /\ ToSet(WebWarnings \o WarningsFor(zoneLines, recipient)) =
              (IF Valid(webLines) # <<>> THEN ReadFailures(webLines) ELSE {})
                \cup ReadFailures(zoneLines)
<1>1. webLines \in Seq(Lines) /\ zoneLines \in Seq(Lines)
  BY DEF Inv
<1>2. /\ WarningsFor(zoneLines, recipient) \in Seq(Lines)
      /\ ToSet(WarningsFor(zoneLines, recipient)) = ReadFailures(zoneLines)
  BY <1>1, WarningsSet DEF ReadFailures
<1>3. /\ WarningsFor(webLines, recipient) \in Seq(Lines)
      /\ ToSet(WarningsFor(webLines, recipient)) = ReadFailures(webLines)
  BY <1>1, WarningsSet DEF ReadFailures
<1>4. <<>> \in Seq(Lines) /\ ToSet(<<>>) = {}
  BY NothingIn, EmptySeq
<1>5. /\ WebWarnings \in Seq(Lines)
      /\ ToSet(WebWarnings) = IF Valid(webLines) # <<>> THEN ReadFailures(webLines) ELSE {}
  BY <1>3, <1>4 DEF WebWarnings
<1> QED BY <1>2, <1>5, ConcatSet, ConcatProperties

LEMMA MalformedOnly ==
  ASSUME NEW lines \in Seq(Lines)
  PROVE  ReadFailures(lines) \subseteq Malformed
<1>1. \A l \in Lines : l.kind = "malformed" => l \in Malformed
  BY DEF Lines, Records
<1> QED BY <1>1, NothingIn DEF ReadFailures

LEMMA InvTypeOK == Inv => TypeOK
<1> SUFFICES ASSUME Inv PROVE TypeOK
  OBVIOUS
<1>1. recipient \in Names /\ stage \in {"https", "dns", "done"}
      /\ webLines \in Seq(Lines) /\ zoneLines \in Seq(Lines)
  BY DEF Inv
<1>2. ToSet(<<>>) = {}
  BY NothingIn, EmptySeq
<1> DEFINE Typed(answer) == /\ answer.trust \in {"none", "https", "dnssec", "dns"}
                            /\ ToSet(answer.keys) \subseteq Keys
                            /\ answer.delivery \in Mailboxes \cup FullNames \cup {NoMailbox}
                            /\ ToSet(answer.warnings) \subseteq Malformed
<1>3. Typed(NotFound)
  BY <1>2 DEF NotFound
<1>4. ASSUME NEW warnings, ToSet(warnings) \subseteq Malformed
      PROVE  Typed([NotFound EXCEPT !.warnings = warnings])
  BY <1>2, <1>4 DEF NotFound
<1>5. ASSUME NEW lines \in Seq(Lines), Matched(lines, recipient) # <<>>,
             NEW trust \in {"none", "https", "dnssec", "dns"},
             NEW warnings, ToSet(warnings) \subseteq Malformed
      PROVE  Typed(Found(Matched(lines, recipient), trust, warnings))
  BY <1>5, FoundAnswer
<1>6. ReadFailures(webLines) \subseteq Malformed /\ ReadFailures(zoneLines) \subseteq Malformed
  BY <1>1, MalformedOnly
<1>7. ToSet(WebWarnings \o WarningsFor(zoneLines, recipient)) \subseteq Malformed
  BY <1>6, WarningsOfBoth
<1>8. ToSet(WarningsFor(webLines, recipient)) \subseteq Malformed
  BY <1>1, <1>6, WarningsSet DEF ReadFailures
<1>9. ToSet(WebWarnings) \subseteq Malformed
  BY <1>2, <1>8 DEF WebWarnings
<1>10. Typed(result)
  <2> HIDE DEF Typed
  <2>1. CASE stage = "https"
    BY <2>1, <1>3 DEF Inv, InvHttps
  <2>2. CASE stage = "dns"
    BY <2>2, <1>4, <1>9 DEF Inv, InvDns
  <2>3. CASE stage = "done"
    <3>1. Trust(validated) \in {"none", "https", "dnssec", "dns"}
      BY DEF Trust
    <3> QED BY <2>3, <1>1, <1>4, <1>5, <1>7, <1>8, <3>1, DoneCases DEF Done
  <2> QED BY <1>1, <2>1, <2>2, <2>3
<1> QED BY <1>1, <1>10 DEF TypeOK

LEMMA InvAnswer == Inv => AnswerIsExplicit
<1> SUFFICES ASSUME Inv, Done PROVE AnswerIsExplicit
  BY DEF AnswerIsExplicit
<1> DEFINE web  == RecordsFor(webLines, recipient)
           zone == RecordsFor(zoneLines, recipient)
<1>1. webLines \in Seq(Lines) /\ zoneLines \in Seq(Lines)
  BY DEF Inv
<1>2. CASE /\ web # {} /\ Matched(webLines, recipient) # <<>>
           /\ result = Found(Matched(webLines, recipient), "https",
                             WarningsFor(webLines, recipient))
  <2>1. /\ result.found /\ result.trust = "https" /\ result.selected \in KeysIn(web)
        /\ result.delivery \in {ResolveDelivery(rec, recipient) : rec \in web}
    BY <1>1, <1>2, FoundAnswer
  <2> QED BY <1>2, <2>1 DEF AnswerIsExplicit, KeysIn
<1>3. ASSUME web = {}, zone # {}, Matched(zoneLines, recipient) # <<>>,
             result = Found(Matched(zoneLines, recipient), Trust(validated),
                            WebWarnings \o WarningsFor(zoneLines, recipient))
      PROVE  AnswerIsExplicit
  <2>1. /\ result.found /\ result.trust = Trust(validated) /\ result.selected \in KeysIn(zone)
        /\ result.delivery \in {ResolveDelivery(rec, recipient) : rec \in zone}
    BY <1>1, <1>3, FoundAnswer
  <2> QED BY <1>3, <2>1 DEF AnswerIsExplicit, KeysIn, Trust
<1>4. CASE /\ web = {} /\ zone = {}
           /\ result = [NotFound EXCEPT !.warnings =
                          WebWarnings \o WarningsFor(zoneLines, recipient)]
  <2>1. ~ result.found
    BY <1>4 DEF NotFound
  <2> QED BY <1>4, <2>1 DEF AnswerIsExplicit
<1> QED BY <1>2, <1>3, <1>4, DoneCases

LEMMA InvPreferred == Inv => PQPreferred
<1> SUFFICES ASSUME Inv, Done, result.found PROVE PQPreferred
  BY DEF PQPreferred
<1> DEFINE web  == RecordsFor(webLines, recipient)
           zone == RecordsFor(zoneLines, recipient)
<1>1. webLines \in Seq(Lines) /\ zoneLines \in Seq(Lines)
  BY DEF Inv
<1>2. KeysIn(web) = {} <=> web = {}
  BY DEF KeysIn
<1>3. Chosen(result, IF KeysIn(web) # {} THEN KeysIn(web) ELSE KeysIn(zone)) => PQPreferred
  BY DEF PQPreferred, Chosen, KeysIn
<1>4. CASE /\ web # {} /\ Matched(webLines, recipient) # <<>>
           /\ result = Found(Matched(webLines, recipient), "https",
                             WarningsFor(webLines, recipient))
  <2>1. Chosen(result, KeysIn(web))
    BY <1>1, <1>4, FoundAnswer
  <2> QED BY <1>2, <1>4, <1>3, <2>1
<1>5. ASSUME web = {}, zone # {}, Matched(zoneLines, recipient) # <<>>,
             result = Found(Matched(zoneLines, recipient), Trust(validated),
                            WebWarnings \o WarningsFor(zoneLines, recipient))
      PROVE  PQPreferred
  <2>1. Chosen(result, KeysIn(zone))
    BY <1>1, <1>5, FoundAnswer
  <2> QED BY <1>2, <1>5, <1>3, <2>1
<1>6. CASE /\ web = {} /\ zone = {}
           /\ result = [NotFound EXCEPT !.warnings =
                          WebWarnings \o WarningsFor(zoneLines, recipient)]
  <2>1. ~ result.found
    BY <1>6 DEF NotFound
  <2> QED BY <2>1
<1> QED BY <1>4, <1>5, <1>6, DoneCases

LEMMA InvWarned == Inv => WarnedOfBoth
<1> SUFFICES ASSUME Inv, Done, Valid(webLines) # <<>>
             PROVE  ToSet(result.warnings) = ReadFailures(webLines) \cup ReadFailures(zoneLines)
  BY DEF WarnedOfBoth
<1>1. webLines \in Seq(Lines) /\ zoneLines \in Seq(Lines)
  BY DEF Inv
<1> DEFINE both == WebWarnings \o WarningsFor(zoneLines, recipient)
<1>2. ToSet(both) = ReadFailures(webLines) \cup ReadFailures(zoneLines)
  BY WarningsOfBoth
<1>3. ASSUME zoneLines = <<>>, Matched(webLines, recipient) # <<>>,
             result = Found(Matched(webLines, recipient), "https",
                            WarningsFor(webLines, recipient))
      PROVE  ToSet(result.warnings) = ReadFailures(webLines) \cup ReadFailures(zoneLines)
  <2>1. ReadFailures(zoneLines) = {}
    BY <1>3, NothingIn, EmptySeq DEF ReadFailures
  <2>2. result.warnings = WarningsFor(webLines, recipient)
    BY <1>3 DEF Found
  <2>3. ToSet(WarningsFor(webLines, recipient)) = ReadFailures(webLines)
    BY <1>1, WarningsSet DEF ReadFailures
  <2> QED BY <2>1, <2>2, <2>3
<1> HIDE DEF both
<1>4. ASSUME NEW matched, NEW trust, result = Found(matched, trust, both)
      PROVE  result.warnings = both
  BY <1>4 DEF Found
<1>5. ASSUME result = [NotFound EXCEPT !.warnings = both] PROVE result.warnings = both
  BY <1>5 DEF NotFound
<1> QED BY <1>2, <1>3, <1>4, <1>5, DoneCases DEF both

\* Type correctness: keys are keys, a delivery is a mailbox, an address or
\* nothing, and warnings are malformed lines.
THEOREM LookupTypes == Spec => []TypeOK
BY SpecInv, InvTypeOK, PTL

\* Lookup answers with a key and a mailbox of lines that name the recipient, and of
\* the zone only if the file named it nowhere; with the trust of the place, and
\* with "dnssec" only if the answer of the zone was validated (lookup.go:34-70,
\* dns.go:82-85).
THEOREM AnswersAreExplicit == Spec => []AnswerIsExplicit
BY SpecInv, InvAnswer, PTL

\* selectKey takes a post-quantum key whenever there is one, and tells of the
\* choice (lookup.go:72-101).
THEOREM PostQuantumPreferred == Spec => []PQPreferred
BY SpecInv, InvPreferred, PTL

\* Whatever the file and the zone hold, no malformed line meant for the
\* recipient goes without a warning, and nothing else is warned of.
THEOREM BothAreWarnedOf == Spec => []WarnedOfBoth
BY SpecInv, InvWarned, PTL
=============================================================================
