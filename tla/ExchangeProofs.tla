--------------------------- MODULE ExchangeProofs ---------------------------
(***************************************************************************)
(* Proofs about Exchange, for any number of calls, copies, changes and     *)
(* starts of the server, and any records.                                  *)
(***************************************************************************)
EXTENDS Exchange, TLAPS

LEMMA Bounds == MaxCalls \in Nat /\ MaxCopies \in Nat \ {0} /\ MaxEvents \in Nat
BY ExchangeAssumption

LEMMA CopyParts ==
  ASSUME NEW p \in Copies
  PROVE  CallOf(p) \in Calls /\ p[2] \in 1..MaxCopies /\ p = <<CallOf(p), p[2]>>
BY DEF Copies, CallOf

\* What a source answers, and where its mailbox is published.
LEMMA AnswerType ==
  ASSUME TypeOK, NEW s \in Sources, published[s] # <<>>
  PROVE  /\ Answer(published[s]) \in Answers
         /\ Answer(published[s]).box \in Published
         /\ Answer(published[s]) # Nothing
<1>1. published[s] \in Listings \ {<<>>}
  BY DEF TypeOK
<1>2. Answer(published[s]) \in Answers
  BY <1>1 DEF Answers
<1>3. Answer(published[s]).box \in Published
  BY DEF Published
<1> QED BY <1>2, <1>3, ExchangeAssumption

LEMMA TwoSources == "web" \in Sources /\ "zone" \in Sources
BY DEF Sources

\* The three ways that a step of the second lookup ends.
LEMMA ReResolveCases ==
  ASSUME TypeOK, NEW p \in Copies, ReResolve(p)
  PROVE  \E s \in Sources :
           /\ handler[p] \in {"lookup", "zone"} /\ s = SourceAt(handler[p])
           /\ UNCHANGED <<sources, browser, ledger, mails, steady>>
           /\ \/ /\ Has(s) /\ published[s] # <<>>
                 /\ handler' = [handler EXCEPT ![p] = "mail"]
                 /\ target' = [target EXCEPT ![p] = Answer(published[s]).box]
                 /\ UNCHANGED <<reply, boot, offered>>
              \/ /\ ~Has(s) /\ handler[p] = "lookup"
                 /\ handler' = [handler EXCEPT ![p] = "zone"]
                 /\ UNCHANGED <<reply, target, boot, offered>>
              \/ ~Has(s) /\ handler[p] = "zone" /\ Finish(p, "failed")
<1>1. SourceAt(handler[p]) \in Sources
  BY DEF SourceAt, Sources
<1> QED BY <1>1 DEF ReResolve, DeliveryFrom, Has

-----------------------------------------------------------------------------
(* Types.                                                                  *)

LEMMA PublishedType ==
  ASSUME TypeOK
  PROVE  Published \subseteq Boxes
BY AnswerType DEF Published, Boxes

LEMMA TypeInit == Init => TypeOK
<1> SUFFICES ASSUME Init PROVE TypeOK
  OBVIOUS
<1>1. used \subseteq Calls /\ verdict \in [Copies -> Gate!Verdicts]
  BY DEF Init, Gate!Init, Gate!Verdicts
<1> QED BY <1>1, ExchangeAssumption DEF Init, TypeOK, Waiting, Places, Replies, Sources

\* What the handler's last step does to the types.
LEMMA FinishType ==
  ASSUME TypeOK, NEW p \in Copies, NEW answer \in Replies \ {"none"}, Finish(p, answer)
  PROVE  /\ handler' \in [Copies -> Places]
         /\ reply' \in [Copies -> Replies]
         /\ target' \in [Copies -> Boxes \cup {Nothing}]
         /\ offered' \in [Copies -> SUBSET Boxes]
         /\ boot' = boot
         /\ \A q \in Copies : handler'[q] = "done" <=> reply'[q] # "none"
BY DEF TypeOK, Finish, Places, Replies

\* Copies are sent in order, and only of calls that were made.
InOrder ==
  /\ \A p \in Copies : handler[p] # "unsent" => sealed[CallOf(p)] # Nothing
  /\ \A m \in mails : sealed[CallOf(m.copy)] # Nothing
  /\ \A c \in Calls : listening[c] # 0 =>
       /\ sealed[c] # Nothing
       /\ \A i \in 1..MaxCopies : i > listening[c] => handler[<<c, i>>] = "unsent"

\* A call that is not made has sent no copy.
LEMMA UnmadeUnsent ==
  ASSUME TypeOK, InOrder, NEW c \in Calls, Click(c)
  PROVE  /\ sealed[c] = Nothing /\ listening[c] = 0
         /\ \A i \in 1..MaxCopies : handler[<<c, i>>] = "unsent"
         /\ \A m \in mails : CallOf(m.copy) # c
<1>1. c \notin Made
  BY DEF Click, Calls
<1>2. \A i \in 1..MaxCopies : <<c, i>> \in Copies /\ CallOf(<<c, i>>) = c
  BY DEF Copies, CallOf
<1> QED BY <1>1, <1>2 DEF Made, InOrder, Click, Waiting

LEMMA NextUnsent ==
  ASSUME TypeOK, InOrder, NEW c \in Calls, Resend(c)
  PROVE  /\ <<c, listening[c] + 1>> \in Copies
         /\ CallOf(<<c, listening[c] + 1>>) = c
         /\ handler[<<c, listening[c] + 1>>] = "unsent"
         /\ sealed[c] # Nothing
<1>1. listening[c] + 1 \in 1..MaxCopies
  BY Bounds DEF TypeOK, Resend
<1> QED BY <1>1, Bounds DEF InOrder, Resend, TypeOK, Copies, CallOf

\* The handler of a copy in hand has a mailbox by the time it mails.
HasTarget == \A p \in Copies : handler[p] = "mail" => target[p] \in offered[p]

LEMMA MailType ==
  ASSUME NEW p \in Copies, NEW b \in Boxes, NEW n \in Nat,
         NEW s \in BOOLEAN, NEW d \in BOOLEAN
  PROVE  [copy |-> p, box |-> b, boot |-> n, steady |-> s, due |-> d] \in Mails
BY DEF Mails

\* What MailTaken adds to the mails.
LEMMA MailAdded ==
  ASSUME NEW p \in Copies, MailTaken(p)
  PROVE  \E m : /\ mails' = mails \cup {m}
                /\ m.copy = p /\ m.box = target[p] /\ m.boot = boot
                /\ m.steady <=> CallOf(p) \in steady
                /\ m.due <=> target[p] \in offered[p]
<1> DEFINE s == CallOf(p) \in steady
           d == target[p] \in offered[p]
           m == [copy |-> p, box |-> target[p], boot |-> boot, steady |-> s, due |-> d]
<1>1. mails' = mails \cup {m}
  BY DEF MailTaken
<1>2. (s <=> CallOf(p) \in steady) /\ (d <=> target[p] \in offered[p])
  OBVIOUS
<1> HIDE DEF s, d
<1>3. m.copy = p /\ m.box = target[p] /\ m.boot = boot /\ m.steady = s /\ m.due = d
  BY Zenon
<1> HIDE DEF m
<1> QED BY <1>1, <1>2, <1>3, Zenon

\* Every step keeps the types.
LEMMA TypeStep == TypeOK /\ InOrder /\ HasTarget /\ [Next]_vars => TypeOK'
<1> SUFFICES ASSUME TypeOK, InOrder, HasTarget, [Next]_vars PROVE TypeOK'
  OBVIOUS
<1> USE ExchangeAssumption
<1>1. ASSUME NEW s \in Sources, NEW records \in Listings, Publish(s, records)
      PROVE  TypeOK'
  <2>1. published' \in [Sources -> Listings]
    BY <1>1 DEF TypeOK, Publish
  <2>2. Published' \subseteq Boxes
    <3>1. \A t \in Sources : published'[t] # <<>> => Answer(published'[t]) \in Answers
      BY <2>1 DEF Answers
    <3> QED BY <3>1 DEF Published, Boxes
  <2>3. offered' \in [Copies -> SUBSET Boxes]
    BY <1>1, <2>2 DEF TypeOK, Publish
  <2>4. /\ changes' \in Nat /\ changes' + (boot - 1) <= MaxEvents
        /\ steady' = {}
    BY <1>1 DEF TypeOK, Publish, Changing, MoreToCome
  <2> QED BY <1>1, <2>1, <2>3, <2>4
          DEF TypeOK, Publish, browser, ledger, server, Waiting
<1>2. ASSUME NEW s \in Sources, Outage(s)
      PROVE  TypeOK'
  BY <1>2 DEF TypeOK, Outage, Changing, MoreToCome, browser, ledger, server, Waiting
<1>3. CASE LookUp \/ LookUpZone \/ LookUpFails
  <2>1. shown' \in Answers \cup {Nothing} /\ asking' \in {"idle", "zone", "lost"}
    BY <1>3, AnswerType, TwoSources DEF TypeOK, LookUp, LookUpZone, LookUpFails, Has
  <2>2. steady' \subseteq Calls \cup {ShownTag, AskedTag}
    BY <1>3 DEF TypeOK, LookUp, LookUpZone, LookUpFails
  <2>3. UNCHANGED <<sources, sealed, listening, outcome, ledger, server, offered>>
    BY <1>3 DEF LookUp, LookUpZone, LookUpFails
  <2> QED BY <2>1, <2>2, <2>3 DEF TypeOK, sources, ledger, server, Waiting
<1>4. ASSUME NEW c \in Calls, Click(c)
      PROVE  TypeOK'
  <2>1. <<c, 1>> \in Copies
    BY DEF Copies
  <2>2. handler[<<c, 1>>] = "unsent"
    BY <1>4, UnmadeUnsent
  <2> QED BY <1>4, <2>1, <2>2 DEF TypeOK, Click, sources, ledger, Waiting, Places
<1>5. ASSUME NEW c \in Calls, Hear(c)
      PROVE  TypeOK'
  BY <1>5 DEF TypeOK, Hear, Tell, Understood, sources, ledger, server, history, Waiting
<1>6. ASSUME NEW c \in Calls, Reject(c)
      PROVE  TypeOK'
  BY <1>6 DEF TypeOK, Reject, Tell, sources, ledger, server, history, Waiting
<1>7. ASSUME NEW c \in Calls, Resend(c)
      PROVE  TypeOK'
  <2>1. <<c, listening[c] + 1>> \in Copies /\ handler[<<c, listening[c] + 1>>] = "unsent"
    BY <1>7, NextUnsent
  <2>2. listening' \in [Calls -> 0..MaxCopies] /\ \A d, e \in Waiting' : d = e
    BY <1>7 DEF TypeOK, Resend, Waiting
  <2> QED BY <1>7, <2>1, <2>2 DEF TypeOK, Resend, sources, ledger, history, Places
<1>8. ASSUME NEW p \in Copies, Pass(p)
      PROVE  TypeOK'
  <2>1. used' \subseteq Calls /\ verdict' \in [Copies -> Gate!Verdicts]
    BY <1>8, CopyParts DEF TypeOK, Pass, TakeToken, Gate!Serve, Gate!Give, Gate!Verdicts
  <2>2. offered' \in [Copies -> SUBSET Boxes]
    BY <1>8, PublishedType DEF TypeOK, Pass
  <2> QED BY <1>8, <2>1, <2>2 DEF TypeOK, Pass, sources, browser, Places, Waiting
<1>9. ASSUME NEW p \in Copies, TurnAway(p)
      PROVE  TypeOK'
  <2>1. PICK answer \in Replies \ {"none"} : Finish(p, answer)
    BY <1>9 DEF TurnAway, Replies
  <2>2. used' \subseteq Calls /\ verdict' \in [Copies -> Gate!Verdicts]
    BY <1>9 DEF TypeOK, TurnAway, Gate!Refuse, Gate!Replay, Gate!Give, Gate!Verdicts
  <2> QED BY <1>9, <2>1, <2>2, FinishType DEF TypeOK, TurnAway, sources, browser, Waiting
<1>10. ASSUME NEW p \in Copies, ReResolve(p)
       PROVE  TypeOK'
  <2>1. PICK s \in Sources :
          /\ handler[p] \in {"lookup", "zone"}
          /\ UNCHANGED <<sources, browser, ledger, mails, steady>>
          /\ \/ /\ published[s] # <<>>
                /\ handler' = [handler EXCEPT ![p] = "mail"]
                /\ target' = [target EXCEPT ![p] = Answer(published[s]).box]
                /\ UNCHANGED <<reply, boot, offered>>
             \/ /\ handler' = [handler EXCEPT ![p] = "zone"]
                /\ UNCHANGED <<reply, target, boot, offered>>
             \/ Finish(p, "failed")
    BY <1>10, ReResolveCases
  <2>2. CASE Finish(p, "failed")
    BY <2>1, <2>2, FinishType DEF TypeOK, sources, browser, ledger, Waiting, Replies
  <2>3. ASSUME NEW at \in {"mail", "zone"}, handler' = [handler EXCEPT ![p] = at],
               target' \in [Copies -> Boxes \cup {Nothing}], UNCHANGED <<reply, boot, offered>>
        PROVE  TypeOK'
    BY <2>1, <2>3 DEF TypeOK, sources, browser, ledger, Waiting, Places
  <2>4. published[s] # <<>> => Answer(published[s]).box \in Boxes
    BY AnswerType, PublishedType
  <2> QED BY <2>1, <2>2, <2>3, <2>4 DEF TypeOK
<1>11. ASSUME NEW p \in Copies, MailTaken(p)
       PROVE  TypeOK'
  <2>1. /\ handler[p] = "mail" /\ handler' = [handler EXCEPT ![p] = "mailed"]
        /\ target' = [target EXCEPT ![p] = Nothing]
        /\ offered' = [offered EXCEPT ![p] = {}]
        /\ UNCHANGED <<sources, browser, ledger, reply, boot, steady>>
    BY <1>11 DEF MailTaken
  <2>2. target[p] \in Boxes
    BY <2>1 DEF HasTarget, TypeOK
  <2>3. mails' \subseteq Mails
    <3>1. boot \in Nat /\ mails \subseteq Mails
      BY DEF TypeOK
    <3>2. [copy |-> p, box |-> target[p], boot |-> boot, steady |-> CallOf(p) \in steady,
           due |-> target[p] \in offered[p]] \in Mails
      <4> DEFINE s == CallOf(p) \in steady
                 d == target[p] \in offered[p]
      <4>1. s \in BOOLEAN /\ d \in BOOLEAN
        OBVIOUS
      <4> HIDE DEF s, d
      <4>2. [copy |-> p, box |-> target[p], boot |-> boot, steady |-> s, due |-> d] \in Mails
        BY <2>2, <3>1, <4>1, MailType, Zenon
      <4> QED BY <4>2, Zenon DEF s, d
    <3> QED BY <1>11, <3>1, <3>2, Zenon DEF MailTaken
  <2>4. /\ handler' \in [Copies -> Places]
        /\ target' \in [Copies -> Boxes \cup {Nothing}]
        /\ offered' \in [Copies -> SUBSET Boxes]
        /\ \A q \in Copies : handler'[q] = "done" <=> reply'[q] # "none"
    BY <2>1 DEF TypeOK, Places
  <2> QED BY <2>1, <2>3, <2>4 DEF TypeOK, sources, browser, ledger, Waiting
<1>12. ASSUME NEW p \in Copies, Report(p)
       PROVE  TypeOK'
  <2>1. PICK answer \in Replies \ {"none"} : Finish(p, answer)
    BY <1>12 DEF Report, SendResults, Replies
  <2> QED BY <1>12, <2>1, FinishType DEF TypeOK, Report, sources, browser, ledger, Waiting
<1>13. CASE Restart
  <2>1. boot' \in Nat \ {0} /\ changes + (boot' - 1) <= MaxEvents
    BY <1>13 DEF Restart, MoreToCome, TypeOK
  <2>2. /\ handler' \in [Copies -> Places]
        /\ target' \in [Copies -> Boxes \cup {Nothing}]
        /\ offered' \in [Copies -> SUBSET Boxes]
        /\ \A q \in Copies : handler'[q] = "done" <=> reply'[q] # "none"
    BY <1>13 DEF Restart, TypeOK, Places, InHand
  <2> QED BY <1>13, <2>1, <2>2 DEF TypeOK, Restart, sources, browser, Waiting
<1>14. CASE UNCHANGED vars
  BY <1>14 DEF TypeOK, vars, sources, browser, ledger, server, history, Waiting
<1> QED BY <1>1, <1>2, <1>3, <1>4, <1>5, <1>6, <1>7, <1>8, <1>9, <1>10, <1>11, <1>12,
           <1>13, <1>14 DEF Next, Quiet

-----------------------------------------------------------------------------
(* The page and the copies.                                                *)

LEMMA InOrderStep == TypeOK /\ InOrder /\ [Next]_vars => InOrder'
<1> SUFFICES ASSUME TypeOK, InOrder, [Next]_vars PROVE InOrder'
  OBVIOUS
<1>1. ASSUME UNCHANGED <<sealed, listening, mails>>,
             \A p \in Copies : handler'[p] # "unsent" <=> handler[p] # "unsent"
      PROVE  InOrder'
  BY <1>1 DEF InOrder, Copies
<1>2. ASSUME NEW p \in Copies, handler[p] # "unsent",
             UNCHANGED <<sealed, listening, mails>>, NEW at \in Places \ {"unsent"},
             handler' = [handler EXCEPT ![p] = at]
      PROVE  InOrder'
  BY <1>1, <1>2 DEF TypeOK
<1>3. ASSUME NEW c \in Calls, Click(c)
      PROVE  InOrder'
  <2>1. /\ sealed[c] = Nothing /\ listening[c] = 0 /\ shown # Nothing
        /\ \A i \in 1..MaxCopies : handler[<<c, i>>] = "unsent"
        /\ \A m \in mails : CallOf(m.copy) # c
    BY <1>3, UnmadeUnsent DEF Click
  <2>2. /\ sealed' = [sealed EXCEPT ![c] = shown]
        /\ listening' = [listening EXCEPT ![c] = 1]
        /\ handler' = [handler EXCEPT ![<<c, 1>>] = "coming"]
        /\ mails' = mails
    BY <1>3 DEF Click
  <2>3. <<c, 1>> \in Copies /\ CallOf(<<c, 1>>) = c
    BY ExchangeAssumption DEF Copies, CallOf
  <2>4. \A p \in Copies : handler'[p] # "unsent" => sealed'[CallOf(p)] # Nothing
    BY <2>1, <2>2, <2>3, CopyParts DEF InOrder, TypeOK
  <2>5. \A m \in mails' : sealed'[CallOf(m.copy)] # Nothing
    BY <2>1, <2>2, CopyParts DEF InOrder, TypeOK, Mails
  <2>6. ASSUME NEW d \in Calls, listening'[d] # 0
        PROVE  /\ sealed'[d] # Nothing
               /\ \A i \in 1..MaxCopies : i > listening'[d] => handler'[<<d, i>>] = "unsent"
    <3>1. CASE d = c
      BY <2>1, <2>2, <3>1, ExchangeAssumption DEF TypeOK, Copies
    <3>2. CASE d # c
      BY <2>2, <2>6, <3>2 DEF InOrder, TypeOK, Copies
    <3> QED BY <3>1, <3>2
  <2> QED BY <2>4, <2>5, <2>6 DEF InOrder
<1>4. ASSUME NEW c \in Calls, NEW result, Tell(c, result), UNCHANGED <<sealed, handler, mails>>
      PROVE  InOrder'
  BY <1>4 DEF InOrder, Tell, TypeOK
<1>5. ASSUME NEW c \in Calls, Resend(c)
      PROVE  InOrder'
  <2>1. /\ <<c, listening[c] + 1>> \in Copies /\ CallOf(<<c, listening[c] + 1>>) = c
        /\ handler[<<c, listening[c] + 1>>] = "unsent" /\ sealed[c] # Nothing
    BY <1>5, NextUnsent
  <2>2. /\ listening' = [listening EXCEPT ![c] = @ + 1]
        /\ handler' = [handler EXCEPT ![<<c, listening[c] + 1>>] = "coming"]
        /\ UNCHANGED <<sealed, mails>>
    BY <1>5 DEF Resend
  <2>3. \A p \in Copies : handler'[p] # "unsent" => sealed'[CallOf(p)] # Nothing
    BY <2>1, <2>2 DEF InOrder, TypeOK
  <2>4. ASSUME NEW d \in Calls, listening'[d] # 0
        PROVE  /\ sealed'[d] # Nothing
               /\ \A i \in 1..MaxCopies : i > listening'[d] => handler'[<<d, i>>] = "unsent"
    <3>1. CASE d = c
      <4>1. listening[c] \in 1..(MaxCopies - 1) /\ listening'[c] = listening[c] + 1
        BY <1>5, <2>2 DEF Resend, TypeOK
      <4> QED BY <2>1, <2>2, <3>1, <4>1, Bounds DEF InOrder, TypeOK, Copies
    <3>2. CASE d # c
      BY <2>2, <2>4, <3>2 DEF InOrder, TypeOK, Copies
    <3> QED BY <3>1, <3>2
  <2> QED BY <2>2, <2>3, <2>4 DEF InOrder
<1>6. ASSUME NEW p \in Copies, MailTaken(p)
      PROVE  InOrder'
  <2>1. handler[p] = "mail" /\ handler' = [handler EXCEPT ![p] = "mailed"]
    BY <1>6 DEF MailTaken
  <2>2. UNCHANGED <<sealed, listening>>
    BY <1>6 DEF MailTaken, browser
  <2>3. \A m \in mails' : m \in mails \/ m.copy = p
    BY <1>6 DEF MailTaken
  <2> QED BY <2>1, <2>2, <2>3 DEF InOrder, TypeOK, Copies
<1>7. CASE \/ \E s \in Sources, records \in Listings : Publish(s, records)
           \/ \E s \in Sources : Outage(s)
           \/ LookUp \/ LookUpZone \/ LookUpFails
           \/ UNCHANGED vars
  BY <1>1, <1>7 DEF Publish, Outage, LookUp, LookUpZone, LookUpFails, browser, server, vars
<1>8. ASSUME NEW c \in Calls, Hear(c) \/ Reject(c)
      PROVE  InOrder'
  BY <1>4, <1>8 DEF Hear, Reject, server
<1>9. ASSUME NEW p \in Copies, Pass(p) \/ TurnAway(p) \/ ReResolve(p) \/ Report(p)
      PROVE  InOrder'
  BY <1>2, <1>9 DEF Pass, TurnAway, ReResolve, Report, Finish, browser, Places
<1>10. CASE Restart
  BY <1>1, <1>10 DEF Restart, InHand, browser, TypeOK
<1> QED BY <1>3, <1>5, <1>6, <1>7, <1>8, <1>9, <1>10 DEF Next, Quiet

-----------------------------------------------------------------------------
(* Tokens: one copy of a call at a time, and none after its mail.          *)

\* The copies in hand whose mail has not been taken.
Unmailed == {p \in Copies : handler[p] \in {"lookup", "zone", "mail"}}

OneAtATime ==
  /\ \A p \in InHand : CallOf(p) \in used
  /\ \A p, q \in InHand : CallOf(p) = CallOf(q) => p = q
  /\ \A m \in mails : m.boot <= boot
  /\ \A m \in mails : m.boot = boot => CallOf(m.copy) \in used
  /\ \A m \in mails, p \in Unmailed : m.boot = boot => CallOf(m.copy) # CallOf(p)
  /\ OneMailPerStart

LEMMA OneAtATimeStep == TypeOK /\ InOrder /\ OneAtATime /\ [Next]_vars => OneAtATime'
<1> SUFFICES ASSUME TypeOK, InOrder, OneAtATime, [Next]_vars PROVE OneAtATime'
  OBVIOUS
<1>1. ASSUME UNCHANGED <<used, boot, mails>>, InHand' \subseteq InHand,
             Unmailed' \subseteq Unmailed
      PROVE  OneAtATime'
  BY <1>1 DEF OneAtATime, OneMailPerStart
<1>2. ASSUME NEW p \in Copies, NEW answer, Finish(p, answer), UNCHANGED <<used, mails>>
      PROVE  OneAtATime'
  BY <1>1, <1>2 DEF Finish, InHand, Unmailed, TypeOK
<1>3. CASE \/ \E s \in Sources, records \in Listings : Publish(s, records)
           \/ \E s \in Sources : Outage(s)
           \/ LookUp \/ LookUpZone \/ LookUpFails
           \/ \E c \in Calls : Hear(c) \/ Reject(c)
           \/ UNCHANGED vars
  BY <1>1, <1>3 DEF Publish, Outage, LookUp, LookUpZone, LookUpFails, Hear, Reject, server, ledger, vars, InHand, Unmailed
<1>4. ASSUME NEW c \in Calls, Click(c) \/ Resend(c)
      PROVE  OneAtATime'
  BY <1>1, <1>4 DEF Click, Resend, ledger, InHand, Unmailed, TypeOK
<1>5. ASSUME NEW p \in Copies, Pass(p)
      PROVE  OneAtATime'
  <2>1. /\ CallOf(p) \notin used /\ used' = used \cup {CallOf(p)}
        /\ InHand' \subseteq InHand \cup {p} /\ Unmailed' \subseteq Unmailed \cup {p}
        /\ UNCHANGED <<boot, mails>>
    BY <1>5 DEF Pass, TakeToken, Gate!Serve, InHand, Unmailed, TypeOK
  <2> QED BY <2>1 DEF OneAtATime, OneMailPerStart
<1>6. ASSUME NEW p \in Copies, TurnAway(p) \/ Report(p)
      PROVE  OneAtATime'
  BY <1>2, <1>6 DEF TurnAway, Report, Gate!Refuse, Gate!Replay, ledger
<1>7. ASSUME NEW p \in Copies, ReResolve(p)
      PROVE  OneAtATime'
  BY <1>1, <1>2, <1>7 DEF ReResolve, ledger, InHand, Unmailed, TypeOK
<1>8. ASSUME NEW p \in Copies, MailTaken(p)
      PROVE  OneAtATime'
  <2>1. /\ p \in Unmailed /\ InHand' \subseteq InHand /\ Unmailed' \subseteq Unmailed \ {p}
        /\ UNCHANGED <<used, boot>>
    BY <1>8 DEF MailTaken, InHand, Unmailed, ledger, TypeOK
  <2>2. Unmailed \subseteq InHand
    BY DEF InHand, Unmailed
  <2>3. PICK m : m.copy = p /\ m.boot = boot /\ mails' = mails \cup {m}
    BY <1>8 DEF MailTaken
  <2> QED BY <2>1, <2>2, <2>3 DEF OneAtATime, OneMailPerStart, TypeOK
<1>9. CASE Restart
  <2>1. InHand' = {} /\ Unmailed' = {} /\ boot' = boot + 1 /\ mails' = mails
    BY <1>9 DEF Restart, InHand, Unmailed, TypeOK
  <2> QED BY <2>1 DEF OneAtATime, OneMailPerStart, TypeOK, Mails
<1> QED BY <1>3, <1>4, <1>5, <1>6, <1>7, <1>8, <1>9 DEF Next, Quiet

-----------------------------------------------------------------------------
(* What is confirmed has been mailed.                                      *)

SentIsMailed ==
  /\ \A p \in Copies : handler[p] = "mailed" \/ reply[p] = "sent" =>
                          \E m \in mails : m.copy = p
  /\ ConfirmedIsMailed

LEMMA SentIsMailedStep == TypeOK /\ SentIsMailed /\ [Next]_vars => SentIsMailed'
<1> SUFFICES ASSUME TypeOK, SentIsMailed, [Next]_vars PROVE SentIsMailed'
  OBVIOUS
<1>1. ASSUME UNCHANGED <<outcome, reply>>, mails \subseteq mails',
             \A p \in Copies : handler'[p] = "mailed" =>
                               handler[p] = "mailed" \/ \E m \in mails' : m.copy = p
      PROVE  SentIsMailed'
  BY <1>1 DEF SentIsMailed, ConfirmedIsMailed
<1>2. ASSUME NEW p \in Copies, NEW answer, Finish(p, answer), UNCHANGED outcome,
             mails \subseteq mails', answer = "sent" => \E m \in mails' : m.copy = p
      PROVE  SentIsMailed'
  BY <1>2 DEF SentIsMailed, ConfirmedIsMailed, Finish, TypeOK
<1>3. CASE \/ \E s \in Sources, records \in Listings : Publish(s, records)
           \/ \E s \in Sources : Outage(s)
           \/ LookUp \/ LookUpZone \/ LookUpFails
           \/ \E c \in Calls : Click(c) \/ Resend(c)
           \/ \E p \in Copies : Pass(p)
           \/ Restart
           \/ UNCHANGED vars
  <2>1. UNCHANGED <<outcome, reply, mails>>
    BY <1>3 DEF Publish, Outage, LookUp, LookUpZone, LookUpFails, Click, Resend, Pass, Restart, vars, browser, server
  <2>2. \A p \in Copies : handler'[p] = "mailed" => handler[p] = "mailed"
    BY <1>3 DEF Publish, Outage, LookUp, LookUpZone, LookUpFails, Click, Resend, Pass, Restart, vars, server, TypeOK
  <2> QED BY <1>1, <2>1, <2>2
<1>4. ASSUME NEW c \in Calls, Hear(c)
      PROVE  SentIsMailed'
  <2>1. <<c, listening[c]>> \in Copies /\ CallOf(<<c, listening[c]>>) = c
    BY <1>4 DEF Hear, TypeOK, Copies, CallOf
  <2>2. /\ outcome' = [outcome EXCEPT ![c] = Understood(reply[<<c, listening[c]>>])]
        /\ UNCHANGED <<handler, reply, mails>>
    BY <1>4 DEF Hear, Tell, server
  <2>3. outcome'[c] = "ok" => \E m \in mails : CallOf(m.copy) = c
    BY <2>1, <2>2 DEF Understood, SentIsMailed, TypeOK
  <2> QED BY <2>2, <2>3 DEF SentIsMailed, ConfirmedIsMailed, TypeOK
<1>5. ASSUME NEW c \in Calls, Reject(c)
      PROVE  SentIsMailed'
  BY <1>5 DEF Reject, Tell, server, SentIsMailed, ConfirmedIsMailed, TypeOK
<1>6. ASSUME NEW p \in Copies, TurnAway(p) \/ Report(p)
      PROVE  SentIsMailed'
  <2>1. PICK answer : Finish(p, answer) /\ (answer = "sent" => handler[p] = "mailed")
    BY <1>6 DEF TurnAway, Report, SendResults
  <2>2. UNCHANGED <<outcome, mails>>
    BY <1>6 DEF TurnAway, Report, browser
  <2>3. answer = "sent" => \E m \in mails' : m.copy = p
    BY <2>1, <2>2 DEF SentIsMailed
  <2> QED BY <1>2, <2>1, <2>2, <2>3
<1>7. ASSUME NEW p \in Copies, ReResolve(p)
      PROVE  SentIsMailed'
  BY <1>1, <1>2, <1>7 DEF ReResolve, browser, TypeOK
<1>8. ASSUME NEW p \in Copies, MailTaken(p)
      PROVE  SentIsMailed'
  <2>1. mails \subseteq mails' /\ \E m \in mails' : m.copy = p
    BY <1>8, MailAdded, Zenon
  <2>2. handler' = [handler EXCEPT ![p] = "mailed"] /\ UNCHANGED <<outcome, reply>>
    BY <1>8 DEF MailTaken, browser
  <2> QED BY <1>1, <2>1, <2>2 DEF TypeOK
<1> QED BY <1>3, <1>4, <1>5, <1>6, <1>7, <1>8 DEF Next, Quiet

-----------------------------------------------------------------------------
(* Withdrawn mailboxes.                                                    *)

StillOffered ==
  /\ \A p \in Copies : handler[p] \in {"lookup", "zone"} => Published \subseteq offered[p]
  /\ HasTarget
  /\ WithdrawnGetsNothing

LEMMA StillOfferedStep == TypeOK /\ InOrder /\ StillOffered /\ [Next]_vars => StillOffered'
<1> SUFFICES ASSUME TypeOK, InOrder, StillOffered, [Next]_vars PROVE StillOffered'
  OBVIOUS
<1>1. ASSUME UNCHANGED <<published, handler, target, offered, mails>>
      PROVE  StillOffered'
  BY <1>1 DEF StillOffered, HasTarget, WithdrawnGetsNothing, Published
<1>2. ASSUME NEW p \in Copies, NEW answer, Finish(p, answer),
             UNCHANGED published, \A m \in mails' : m \in mails \/ m.due
      PROVE  StillOffered'
  <2>1. Published' = Published
    BY <1>2 DEF Published
  <2> QED BY <1>2, <2>1 DEF StillOffered, HasTarget, WithdrawnGetsNothing, Finish, TypeOK
<1>3. CASE \/ \E s \in Sources : Outage(s)
           \/ LookUp \/ LookUpZone \/ LookUpFails
           \/ \E c \in Calls : Hear(c) \/ Reject(c)
           \/ UNCHANGED vars
  BY <1>1, <1>3 DEF Outage, LookUp, LookUpZone, LookUpFails, Hear, Reject, sources, server, history, vars
<1>4. ASSUME NEW s \in Sources, NEW records \in Listings, Publish(s, records)
      PROVE  StillOffered'
  <2>1. /\ offered' = [p \in Copies |-> IF handler[p] \in {"lookup", "zone"}
                                          THEN offered[p] \cup Published' ELSE offered[p]]
        /\ UNCHANGED <<handler, target, mails>>
    BY <1>4 DEF Publish, server
  <2> QED BY <2>1 DEF StillOffered, HasTarget, WithdrawnGetsNothing
<1>5. ASSUME NEW p \in Copies, handler' = [handler EXCEPT ![p] = "coming"],
             UNCHANGED <<published, target, offered, mails>>
      PROVE  StillOffered'
  <2>1. Published' = Published
    BY <1>5 DEF Published
  <2> QED BY <1>5, <2>1 DEF StillOffered, HasTarget, WithdrawnGetsNothing, TypeOK
<1>6. ASSUME NEW c \in Calls, Click(c)
      PROVE  StillOffered'
  <2>1. <<c, 1>> \in Copies
    BY ExchangeAssumption DEF Copies
  <2> QED BY <1>5, <1>6, <2>1 DEF Click, sources
<1>7. ASSUME NEW c \in Calls, Resend(c)
      PROVE  StillOffered'
  <2>1. <<c, listening[c] + 1>> \in Copies
    BY <1>7, NextUnsent
  <2> QED BY <1>5, <1>7, <2>1 DEF Resend, sources, history
<1>8. ASSUME NEW p \in Copies, Pass(p)
      PROVE  StillOffered'
  <2>1. Published' = Published
    BY <1>8 DEF Pass, Published, sources
  <2> QED BY <1>8, <2>1 DEF Pass, StillOffered, HasTarget, WithdrawnGetsNothing, TypeOK
<1>9. ASSUME NEW p \in Copies, TurnAway(p) \/ Report(p)
      PROVE  StillOffered'
  BY <1>2, <1>9 DEF TurnAway, Report, sources
<1>10. ASSUME NEW p \in Copies, ReResolve(p)
       PROVE  StillOffered'
  <2>1. PICK s \in Sources :
          /\ handler[p] \in {"lookup", "zone"}
          /\ UNCHANGED <<published, mails>>
          /\ \/ /\ published[s] # <<>>
                /\ handler' = [handler EXCEPT ![p] = "mail"]
                /\ target' = [target EXCEPT ![p] = Answer(published[s]).box]
                /\ offered' = offered
             \/ handler' = [handler EXCEPT ![p] = "zone"] /\ UNCHANGED <<target, offered>>
             \/ Finish(p, "failed")
    BY <1>10, ReResolveCases DEF sources
  <2>2. CASE Finish(p, "failed")
    BY <1>2, <2>1, <2>2
  <2>3. Published' = Published
    BY <2>1 DEF Published
  <2>4. published[s] # <<>> => Answer(published[s]).box \in offered[p]
    BY <2>1, AnswerType DEF StillOffered
  <2> QED BY <2>1, <2>2, <2>3, <2>4 DEF StillOffered, HasTarget, WithdrawnGetsNothing, TypeOK
<1>11. ASSUME NEW p \in Copies, MailTaken(p)
       PROVE  StillOffered'
  <2>1. target[p] \in offered[p]
    BY <1>11 DEF MailTaken, StillOffered, HasTarget
  <2>2. \A m \in mails' : m \in mails \/ m.due
    <3>1. PICK m : mails' = mails \cup {m} /\ (m.due <=> target[p] \in offered[p])
      BY <1>11, MailAdded, Zenon
    <3>2. m.due
      BY <2>1, <3>1, Zenon
    <3>3. \A n \in mails' : n \in mails \/ n = m
      BY <3>1
    <3> QED BY <3>2, <3>3, Zenon
  <2>3. /\ handler' = [handler EXCEPT ![p] = "mailed"]
        /\ target' = [target EXCEPT ![p] = Nothing]
        /\ offered' = [offered EXCEPT ![p] = {}]
        /\ UNCHANGED published
    BY <1>11 DEF MailTaken, sources
  <2>4. Published' = Published
    BY <2>3 DEF Published
  <2> QED BY <2>2, <2>3, <2>4 DEF StillOffered, HasTarget, WithdrawnGetsNothing, TypeOK
<1>12. CASE Restart
  <2>1. /\ UNCHANGED mails
        /\ \A p \in Copies : handler'[p] \notin {"lookup", "zone", "mail"}
    BY <1>12 DEF Restart, InHand
  <2> QED BY <2>1 DEF StillOffered, HasTarget, WithdrawnGetsNothing
<1> QED BY <1>3, <1>4, <1>6, <1>7, <1>8, <1>9, <1>10, <1>11, <1>12 DEF Next, Quiet

-----------------------------------------------------------------------------
(* What is shown.                                                          *)

\* What Lookup would answer, were it to read both sources now.
Current == IF Has("web") THEN Answer(published["web"])
           ELSE IF Has("zone") THEN Answer(published["zone"]) ELSE Nothing

StillShown ==
  /\ ShownTag \in steady /\ shown # Nothing => Current = shown
  /\ AskedTag \in steady => ~Has("web")
  /\ \A c \in Calls : c \in steady => sealed[c] # Nothing /\ Current = sealed[c]
  /\ \A p \in Copies : CallOf(p) \in steady =>
       /\ handler[p] = "zone" => ~Has("web")
       /\ handler[p] = "mail" => target[p] = sealed[CallOf(p)].box
  /\ ShownIsUsed

LEMMA SameSources == ASSUME UNCHANGED <<published, reach>>
                     PROVE  /\ Current' = Current
                            /\ \A s \in Sources : Has(s)' <=> Has(s)
BY DEF Current, Has, Sources

LEMMA TagsAreNoCalls == ShownTag \notin Calls /\ AskedTag \notin Calls /\ ShownTag # AskedTag
BY ExchangeAssumption DEF ShownTag, AskedTag, Calls

LEMMA StillShownStep == TypeOK /\ InOrder /\ StillShown /\ [Next]_vars => StillShown'
<1> SUFFICES ASSUME TypeOK, InOrder, StillShown, [Next]_vars PROVE StillShown'
  OBVIOUS
<1>1. ASSUME UNCHANGED <<published, reach, shown, sealed, steady, mails>>,
             \A p \in Copies : /\ handler'[p] = "zone" => handler[p] = "zone"
                               /\ handler'[p] = "mail" => handler[p] = "mail" /\ target'[p] = target[p]
      PROVE  StillShown'
  <2>1. Current' = Current /\ (Has("web")' <=> Has("web"))
    BY <1>1, SameSources, TwoSources
  <2> QED BY <1>1, <2>1 DEF StillShown, ShownIsUsed
<1>2. ASSUME NEW p \in Copies, NEW answer, Finish(p, answer),
             UNCHANGED <<sources, browser, mails, steady>>
      PROVE  StillShown'
  BY <1>1, <1>2 DEF Finish, sources, browser, TypeOK
<1>3. ASSUME steady' = {}, UNCHANGED <<sealed, mails>>
      PROVE  StillShown'
  BY <1>3 DEF StillShown, ShownIsUsed
<1>4. CASE \/ \E s \in Sources, records \in Listings : Publish(s, records)
           \/ \E s \in Sources : Outage(s)
  BY <1>3, <1>4 DEF Publish, Outage, Changing, browser, server
<1>5. CASE \/ \E c \in Calls : Hear(c) \/ Reject(c)
           \/ Restart
           \/ UNCHANGED vars
  <2>1. CASE Restart
    <3>1. UNCHANGED <<published, reach, shown, sealed, steady, mails>>
      BY <2>1 DEF Restart, sources, browser
    <3>2. \A p \in Copies : handler'[p] \notin {"zone", "mail"}
      BY <2>1 DEF Restart, InHand
    <3> QED BY <1>1, <3>1, <3>2
  <2>2. CASE \/ \E c \in Calls : Hear(c) \/ Reject(c)
             \/ UNCHANGED vars
    BY <1>1, <2>2 DEF Hear, Reject, sources, browser, server, history, vars
  <2> QED BY <1>5, <2>1, <2>2
<1>6. CASE LookUp \/ LookUpZone \/ LookUpFails
  <2>1. UNCHANGED <<published, reach, sealed, handler, target, mails>>
    BY <1>6 DEF LookUp, LookUpZone, LookUpFails, sources, server
  <2>2. Current' = Current /\ (Has("web")' <=> Has("web"))
    BY <2>1, SameSources, TwoSources
  <2>3. \A c \in Calls : c \in steady' <=> c \in steady
    BY <1>6, TagsAreNoCalls DEF LookUp, LookUpZone, LookUpFails
  <2>4. AskedTag \in steady' => ~Has("web")
    BY <1>6, TagsAreNoCalls DEF LookUp, LookUpZone, LookUpFails, StillShown
  <2>5. ShownTag \in steady' /\ shown' # Nothing => Current = shown'
    <3>1. CASE LookUp
      BY <3>1, TagsAreNoCalls DEF LookUp, StillShown, Current
    <3>2. CASE LookUpZone
      BY <3>2, TagsAreNoCalls DEF LookUpZone, StillShown, Current
    <3>3. CASE LookUpFails
      BY <3>3 DEF LookUpFails
    <3> QED BY <1>6, <3>1, <3>2, <3>3
  <2> QED BY <2>1, <2>2, <2>3, <2>4, <2>5, CopyParts DEF StillShown, ShownIsUsed
<1>7. ASSUME NEW c \in Calls, Click(c)
      PROVE  StillShown'
  <2>1. /\ sealed' = [sealed EXCEPT ![c] = shown] /\ shown # Nothing
        /\ steady' = IF ShownTag \in steady THEN steady \cup {c} ELSE steady
        /\ handler' = [handler EXCEPT ![<<c, 1>>] = "coming"]
        /\ UNCHANGED <<published, reach, shown, target, mails>>
    BY <1>7 DEF Click, sources
  <2>2. /\ sealed[c] = Nothing
        /\ \A m \in mails : CallOf(m.copy) # c
    BY <1>7, UnmadeUnsent
  <2>3. Current' = Current /\ (Has("web")' <=> Has("web"))
    BY <2>1, SameSources, TwoSources
  <2>4. /\ ShownTag \in steady' /\ shown' # Nothing => Current' = shown'
        /\ AskedTag \in steady' => ~Has("web")'
    BY <2>1, <2>3, TagsAreNoCalls DEF StillShown
  <2>5. \A d \in Calls : d \in steady' => sealed'[d] # Nothing /\ Current' = sealed'[d]
    BY <2>1, <2>2, <2>3 DEF StillShown, TypeOK
  <2>6. ASSUME NEW p \in Copies, handler'[p] \in {"zone", "mail"}, CallOf(p) \in steady'
        PROVE  /\ handler'[p] = "zone" => ~Has("web")'
               /\ handler'[p] = "mail" => target'[p] = sealed'[CallOf(p)].box
    <3>1. handler'[p] = handler[p] /\ CallOf(p) \in Calls
      BY <2>1, <2>6, CopyParts DEF TypeOK
    <3>2. CallOf(p) # c
      BY <2>2, <2>6, <3>1 DEF InOrder
    <3> QED BY <2>1, <2>3, <2>6, <3>1, <3>2 DEF StillShown, TypeOK
  <2>7. ShownIsUsed'
    BY <2>1, <2>2, CopyParts DEF StillShown, ShownIsUsed, TypeOK, Mails
  <2> QED BY <2>4, <2>5, <2>6, <2>7 DEF StillShown
<1>8. ASSUME NEW c \in Calls, Resend(c)
      PROVE  StillShown'
  BY <1>1, <1>8 DEF Resend, sources, history, TypeOK
<1>9. ASSUME NEW p \in Copies, Pass(p)
      PROVE  StillShown'
  BY <1>1, <1>9 DEF Pass, sources, browser, TypeOK
<1>10. ASSUME NEW p \in Copies, TurnAway(p) \/ Report(p)
       PROVE  StillShown'
  BY <1>2, <1>10 DEF TurnAway, Report
<1>11. ASSUME NEW p \in Copies, ReResolve(p)
       PROVE  StillShown'
  <2>1. UNCHANGED <<sources, browser, mails, steady>>
    BY <1>11 DEF ReResolve
  <2>2. PICK s \in Sources :
          /\ handler[p] \in {"lookup", "zone"} /\ s = SourceAt(handler[p])
          /\ \/ /\ Has(s)
                /\ handler' = [handler EXCEPT ![p] = "mail"]
                /\ target' = [target EXCEPT ![p] = Answer(published[s]).box]
             \/ /\ ~Has(s) /\ handler[p] = "lookup"
                /\ handler' = [handler EXCEPT ![p] = "zone"] /\ UNCHANGED target
             \/ Finish(p, "failed")
    BY <1>11, ReResolveCases
  <2>3. CASE Finish(p, "failed")
    BY <1>2, <2>1, <2>3
  <2>4. Current' = Current /\ (Has("web")' <=> Has("web"))
    BY <2>1, SameSources, TwoSources DEF sources
  <2>5. CallOf(p) \in steady /\ Has(s) => Current = Answer(published[s])
    BY <2>2 DEF StillShown, SourceAt, Current
  <2>6. \A q \in Copies : CallOf(q) \in Calls
    BY CopyParts
  <2>7. CASE ~Finish(p, "failed")
    BY <2>1, <2>2, <2>4, <2>5, <2>6, <2>7
       DEF StillShown, ShownIsUsed, TypeOK, browser, SourceAt
  <2> QED BY <2>3, <2>7
<1>12. ASSUME NEW p \in Copies, MailTaken(p)
       PROVE  StillShown'
  <2>1. PICK m : /\ mails' = mails \cup {m}
                 /\ m.copy = p /\ m.box = target[p]
                 /\ m.steady <=> CallOf(p) \in steady
    BY <1>12, MailAdded, Zenon
  <2>2. handler[p] = "mail" /\ UNCHANGED <<published, reach, shown, sealed, steady>>
    BY <1>12 DEF MailTaken, sources, browser
  <2>3. Current' = Current /\ (Has("web")' <=> Has("web"))
    BY <2>2, SameSources, TwoSources
  <2>4. \A q \in Copies : /\ handler'[q] = "zone" => handler[q] = "zone"
                          /\ handler'[q] = "mail" => handler[q] = "mail" /\ target'[q] = target[q]
    BY <1>12 DEF MailTaken, TypeOK
  <2>5. m.steady => m.box = sealed[CallOf(m.copy)].box
    <3>1. CallOf(p) \in steady => target[p] = sealed[CallOf(p)].box
      BY <2>2 DEF StillShown
    <3> QED BY <2>1, <3>1, Zenon
  <2>6. ShownIsUsed'
    <3>1. \A n \in mails' : n \in mails \/ n = m
      BY <2>1
    <3>2. \A n \in mails : n.steady => n.box = sealed[CallOf(n.copy)].box
      BY DEF StillShown, ShownIsUsed
    <3> QED BY <2>2, <2>5, <3>1, <3>2, Zenon DEF ShownIsUsed, CallOf
  <2> QED BY <2>2, <2>3, <2>4, <2>6 DEF StillShown
<1> QED BY <1>4, <1>5, <1>6, <1>7, <1>8, <1>9, <1>10, <1>11, <1>12 DEF Next, Quiet

-----------------------------------------------------------------------------
(* Every copy is a call that implements Delivery.                          *)

\* A copy has no mail before its handler has mailed, nor when it was turned away.
NoMailYet ==
  \A p \in Copies : \/ handler[p] \in {"unsent", "coming", "lookup", "zone", "mail"}
                    \/ reply[p] \in {"refused", "replayed"}
                    => Own(p) = {}

LEMMA NoMailYetStep == TypeOK /\ InOrder /\ NoMailYet /\ [Next]_vars => NoMailYet'
<1> SUFFICES ASSUME TypeOK, InOrder, NoMailYet, [Next]_vars PROVE NoMailYet'
  OBVIOUS
<1> DEFINE Early == {"unsent", "coming", "lookup", "zone", "mail"}
           Away  == {"refused", "replayed"}
<1>1. ASSUME UNCHANGED <<reply, mails>>,
             \A p \in Copies : handler'[p] \in Early => handler[p] \in Early
      PROVE  NoMailYet'
  BY <1>1 DEF NoMailYet, Own
<1>2. ASSUME NEW p \in Copies, NEW answer, Finish(p, answer), UNCHANGED mails,
             handler[p] \in Early \/ answer \notin Away
      PROVE  NoMailYet'
  BY <1>2 DEF NoMailYet, Own, Finish, TypeOK
<1>3. CASE \/ \E s \in Sources, records \in Listings : Publish(s, records)
           \/ \E s \in Sources : Outage(s)
           \/ LookUp \/ LookUpZone \/ LookUpFails
           \/ \E c \in Calls : Hear(c) \/ Reject(c)
           \/ \E p \in Copies : Pass(p)
           \/ Restart
           \/ UNCHANGED vars
  <2>1. UNCHANGED <<reply, mails>>
    BY <1>3 DEF Publish, Outage, LookUp, LookUpZone, LookUpFails, Hear, Reject, Pass, Restart, vars, server
  <2>2. \A p \in Copies : handler'[p] \in Early => handler[p] \in Early
    BY <1>3 DEF Publish, Outage, LookUp, LookUpZone, LookUpFails, Hear, Reject, Pass, Restart, vars, server, TypeOK
  <2> QED BY <1>1, <2>1, <2>2
<1>4. ASSUME NEW p \in Copies, handler[p] = "unsent",
             handler' = [handler EXCEPT ![p] = "coming"], UNCHANGED <<reply, mails>>
      PROVE  NoMailYet'
  BY <1>1, <1>4 DEF TypeOK
<1>5. ASSUME NEW c \in Calls, Click(c)
      PROVE  NoMailYet'
  <2>1. <<c, 1>> \in Copies /\ handler[<<c, 1>>] = "unsent"
    BY <1>5, UnmadeUnsent, ExchangeAssumption DEF Copies
  <2> QED BY <1>4, <1>5, <2>1 DEF Click
<1>6. ASSUME NEW c \in Calls, Resend(c)
      PROVE  NoMailYet'
  BY <1>4, <1>6, NextUnsent DEF Resend
<1>7. ASSUME NEW p \in Copies, TurnAway(p) \/ Report(p)
      PROVE  NoMailYet'
  <2>1. PICK answer : Finish(p, answer) /\ (handler[p] \in Early \/ answer \notin Away)
    BY <1>7 DEF TurnAway, Report, SendResults
  <2> QED BY <1>2, <1>7, <2>1 DEF TurnAway, Report
<1>8. ASSUME NEW p \in Copies, ReResolve(p)
      PROVE  NoMailYet'
  BY <1>1, <1>2, <1>8 DEF ReResolve, TypeOK
<1>9. ASSUME NEW p \in Copies, MailTaken(p)
      PROVE  NoMailYet'
  <2>1. /\ handler[p] = "mail" /\ handler' = [handler EXCEPT ![p] = "mailed"]
        /\ reply' = reply
    BY <1>9 DEF MailTaken
  <2>2. \A q \in Copies \ {p} : Own(q)' = Own(q)
    BY <1>9 DEF MailTaken, Own
  <2>3. reply[p] = "none"
    BY <2>1 DEF TypeOK
  <2> QED BY <2>1, <2>2, <2>3 DEF NoMailYet, TypeOK
<1> QED BY <1>3, <1>5, <1>6, <1>7, <1>8, <1>9 DEF Next, Quiet

\* What a copy's handler says last is an answer that Delivery allows.
LEMMA FinishIsClose ==
  ASSUME NEW p \in Copies, NEW answer \in Replies \ {"none"}, Finish(p, answer),
         reply \in [Copies -> Replies], reply[p] = "none", UNCHANGED mails,
         answer \in {"refused", "replayed"} => Own(p) = {},
         answer = "sent" => Own(p) # {}
  PROVE  Call(p)!Next
<1>1. Answered(p) = "none"
  BY DEF Answered
<1>2. /\ Answered(p)' \in {"rejected", "sent", "failed"}
      /\ Answered(p)' = "rejected" => answer \in {"refused", "replayed"}
      /\ Answered(p)' = "sent" => answer = "sent"
  BY DEF Answered, Finish, Replies
<1>3. Mailed(p)' = Mailed(p)
  BY DEF Mailed, Own
<1>4. Answered(p)' = "rejected" => Mailed(p) = <<>>
  BY <1>2 DEF Mailed
<1>5. Answered(p)' = "sent" =>
        \A i \in 1..1 : \E j \in DOMAIN Mailed(p) : Mailed(p)[j].pos = i
  BY <1>2 DEF Mailed
<1>6. Call(p)!Close(Answered(p)')
  BY <1>1, <1>3, <1>4, <1>5 DEF Call!Close
<1> QED BY <1>2, <1>6 DEF Call!Next

\* The mail that is taken is one that Delivery allows.
LEMMA TakenIsMail ==
  ASSUME NEW p \in Copies, MailTaken(p), target[p] \in Boxes, reply[p] = "none", Own(p) = {}
  PROVE  Call(p)!Next
<1>1. Answered(p) = "none" /\ Answered(p)' = "none" /\ Mailed(p) = <<>>
  BY DEF MailTaken, Answered, Mailed
<1>2. PICK m : mails' = mails \cup {m} /\ m.copy = p /\ m.box = target[p]
  BY MailAdded, Zenon
<1>3. Own(p)' = {m}
  BY <1>2 DEF Own
<1>4. (CHOOSE n \in {m} : TRUE) = m
  OBVIOUS
<1>5. Mailed(p)' = <<[pos |-> 1, to |-> target[p]]>>
  BY <1>2, <1>3, <1>4 DEF Mailed
<1>6. Call(p)!Mail(1, target[p])
  BY <1>1, <1>5 DEF Call!Mail
<1>7. 1 \in 1..1
  OBVIOUS
<1> QED BY <1>6, <1>7 DEF Call!Next

LEMMA CallsStep ==
  ASSUME TypeOK, InOrder, HasTarget, SentIsMailed, NoMailYet, [Next]_vars, NEW p \in Copies
  PROVE  [Call(p)!Next]_(Call(p)!deliveryVars)
<1>1. ASSUME UNCHANGED reply[p], Own(p)' = Own(p)
      PROVE  UNCHANGED Call(p)!deliveryVars
  BY <1>1 DEF Call!deliveryVars, Answered, Mailed
<1>2. CASE UNCHANGED <<reply, mails>>
  BY <1>1, <1>2 DEF Own
<1>3. ASSUME NEW q \in Copies, NEW answer \in Replies \ {"none"}, Finish(q, answer),
             UNCHANGED mails, handler[q] \in {"coming", "lookup", "zone", "mail", "mailed"},
             answer \in {"refused", "replayed"} => handler[q] = "coming",
             answer = "sent" => handler[q] = "mailed"
      PROVE  [Call(p)!Next]_(Call(p)!deliveryVars)
  <2>1. CASE q = p
    <3>1. reply[p] = "none"
      BY <1>3, <2>1 DEF TypeOK
    <3>2. answer \in {"refused", "replayed"} => Own(p) = {}
      BY <1>3, <2>1 DEF NoMailYet
    <3>3. answer = "sent" => Own(p) # {}
      BY <1>3, <2>1 DEF SentIsMailed, Own
    <3> QED BY <1>3, <2>1, <3>1, <3>2, <3>3, FinishIsClose DEF TypeOK
  <2>2. CASE q # p
    BY <1>1, <1>3, <2>2 DEF Finish, Own, TypeOK
  <2> QED BY <2>1, <2>2
<1>4. ASSUME NEW q \in Copies, TurnAway(q)
      PROVE  [Call(p)!Next]_(Call(p)!deliveryVars)
  BY <1>3, <1>4 DEF TurnAway, Replies
<1>5. ASSUME NEW q \in Copies, ReResolve(q)
      PROVE  [Call(p)!Next]_(Call(p)!deliveryVars)
  BY <1>2, <1>3, <1>5 DEF ReResolve, Replies
<1>6. ASSUME NEW q \in Copies, Report(q)
      PROVE  [Call(p)!Next]_(Call(p)!deliveryVars)
  BY <1>3, <1>6 DEF Report, SendResults, Replies
<1>7. ASSUME NEW q \in Copies, MailTaken(q)
      PROVE  [Call(p)!Next]_(Call(p)!deliveryVars)
  <2>1. CASE q = p
    <3>1. handler[p] = "mail"
      BY <1>7, <2>1 DEF MailTaken
    <3>2. target[p] \in Boxes /\ reply[p] = "none" /\ Own(p) = {}
      BY <3>1 DEF TypeOK, HasTarget, NoMailYet
    <3> QED BY <1>7, <2>1, <3>2, TakenIsMail
  <2>2. CASE q # p
    BY <1>1, <1>7, <2>2 DEF MailTaken, Own
  <2> QED BY <2>1, <2>2
<1>8. CASE \/ \E s \in Sources, records \in Listings : Publish(s, records)
           \/ \E s \in Sources : Outage(s)
           \/ LookUp \/ LookUpZone \/ LookUpFails
           \/ \E c \in Calls : Click(c) \/ Hear(c) \/ Reject(c) \/ Resend(c)
           \/ \E q \in Copies : Pass(q)
           \/ Restart
           \/ UNCHANGED vars
  <2>1. UNCHANGED <<reply, mails>>
    BY <1>8 DEF Publish, Outage, LookUp, LookUpZone, LookUpFails, Click, Hear, Reject, Resend, Pass, Restart, vars,
                browser, server
  <2> QED BY <1>2, <2>1
<1> QED BY <1>4, <1>5, <1>6, <1>7, <1>8 DEF Next, Quiet

-----------------------------------------------------------------------------
(* The theorems.                                                           *)

\* The inductive invariant.
IInv == TypeOK /\ InOrder /\ OneAtATime /\ SentIsMailed /\ StillOffered /\ StillShown /\ NoMailYet

LEMMA IInvInit == Init => IInv
<1> SUFFICES ASSUME Init PROVE IInv
  OBVIOUS
<1>1. TypeOK
  BY TypeInit
<1>2. /\ \A p \in Copies : handler[p] = "unsent" /\ reply[p] = "none"
      /\ \A c \in Calls : listening[c] = 0 /\ outcome[c] = "none"
      /\ mails = {} /\ steady = {}
  BY DEF Init
<1>3. InHand = {}
  BY <1>2 DEF InHand
<1> QED BY <1>1, <1>2, <1>3
        DEF IInv, InOrder, OneAtATime, OneMailPerStart, SentIsMailed, ConfirmedIsMailed,
            StillOffered, HasTarget, WithdrawnGetsNothing, StillShown, ShownIsUsed, NoMailYet, Own

LEMMA IInvStep == IInv /\ [Next]_vars => IInv'
BY TypeStep, InOrderStep, OneAtATimeStep, SentIsMailedStep, StillOfferedStep, StillShownStep,
   NoMailYetStep
   DEF IInv, StillOffered

LEMMA Invariance == Spec => []IInv
BY IInvInit, IInvStep, PTL DEF Spec

\* The page waits for one call at a time, and every value has its type.
THEOREM ExchangeTypeCorrect == Spec => []TypeOK
<1>1. IInv => TypeOK
  BY DEF IInv
<1> QED BY <1>1, Invariance, PTL

\* However often a post arrives and in whatever order its copies are handled,
\* one start of the server mails it once.
THEOREM RepeatedPostMailsOnce == Spec => []OneMailPerStart
<1>1. IInv => OneMailPerStart
  BY DEF IInv, OneAtATime
<1> QED BY <1>1, Invariance, PTL

\* A recipient the page reports as served was mailed.
THEOREM ConfirmationIsTrue == Spec => []ConfirmedIsMailed
<1>1. IInv => ConfirmedIsMailed
  BY DEF IInv, SentIsMailed
<1> QED BY <1>1, Invariance, PTL

\* While the sources stay as they were, key and mailbox are of one record.
THEOREM KeyAndMailboxAgree == Spec => []ShownIsUsed
<1>1. IInv => ShownIsUsed
  BY DEF IInv, StillShown
<1> QED BY <1>1, Invariance, PTL

\* A mailbox withdrawn before the post was let in gets no mail of it.
THEOREM WithdrawalHolds == Spec => []WithdrawnGetsNothing
<1>1. IInv => WithdrawnGetsNothing
  BY DEF IInv, StillOffered
<1> QED BY <1>1, Invariance, PTL

\* However a message's copies, failures and crashes interleave, each copy that
\* reaches the server is a call as Relay's are: mailed before it is answered and
\* once, "sent" only if it was mailed, and turned away only if it was not.
THEOREM CopiesImplementDelivery == Spec => CallsDeliver
<1>1. ASSUME Init, NEW p \in Copies
      PROVE  Call(p)!Init
  <2>1. Answered(p) = "none" /\ Mailed(p) = <<>> /\ 1 \in Nat
    BY <1>1 DEF Init, Answered, Mailed, Own
  <2> QED BY <2>1 DEF Call!Init
<1>2. IInv /\ [Next]_vars =>
        [\A p \in Copies : [Call(p)!Next]_(Call(p)!deliveryVars)]_vars
  BY CallsStep DEF IInv, StillOffered
<1>3. Init => \A p \in Copies : Call(p)!Init
  BY <1>1
<1> QED BY <1>2, <1>3, Invariance, PTL DEF Spec, CallsDeliver
=============================================================================
