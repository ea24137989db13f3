---------------------------- MODULE ClientProofs ----------------------------
(***************************************************************************)
(* Proofs about the page, for any number of addresses, lookups, sends and  *)
(* files, with a user who does anything at any time.                       *)
(***************************************************************************)
EXTENDS Client, FunctionTheorems, SequenceTheorems, FiniteSetTheorems, TLAPS

Badge == [status : Statuses, id : LookupIds]
Entry == [trust : Trusts, own : BOOLEAN]
Look  == [addr : Addresses, badge : BOOLEAN]
Send  == [phase : {"encrypting", "posting", "done"}, to : SUBSET Addresses,
          todo : SUBSET Addresses, current : Addresses, body : Texts,
          atts : Seq(Files), ok : SUBSET Addresses, listed : SUBSET Addresses,
          stray : SUBSET Addresses]

\* Partial functions from S to T.
Maps(f, S, T) == DOMAIN f \subseteq S /\ f \in [DOMAIN f -> T]

PageTypes ==
  /\ Maps(badge, Addresses, Badge)
  /\ Maps(resolved, Addresses, Entry)
  /\ body \in Texts /\ files \in Seq(Files)
  /\ sendEnabled \in BOOLEAN /\ warning \in BOOLEAN

\* The debounce timer has a number left for its lookup.
LookupTypes ==
  /\ Maps(lookups, LookupIds, Look)
  /\ nextId \in 1..(MaxLookups + 2)
  /\ timer \in Addresses \cup {NoAddress}
  /\ timer # NoAddress => nextId <= MaxLookups + 1

SendTypes ==
  /\ sends \in Seq(Send) /\ Len(sends) <= MaxSends
  /\ \A i \in DOMAIN sends : /\ sends[i].ok \subseteq sends[i].to
                             /\ sends[i].todo \subseteq sends[i].to
                             /\ sends[i].current \in sends[i].to

\* What is noted is noted of sends.
MarkTypes == updated \subseteq DOMAIN sends /\ edited \subseteq updated

TypeInv == PageTypes /\ LookupTypes /\ SendTypes /\ MarkTypes

-----------------------------------------------------------------------------
(* Maps.                                                                   *)

LEMMA WithMap ==
  ASSUME NEW f, NEW S, NEW T, Maps(f, S, T), NEW x \in S, NEW y \in T
  PROVE  /\ Maps(With(f, x, y), S, T)
         /\ DOMAIN With(f, x, y) = DOMAIN f \cup {x}
         /\ With(f, x, y)[x] = y
         /\ \A z \in DOMAIN f \ {x} : With(f, x, y)[z] = f[z]
BY DEF Maps, With

LEMMA WithoutMap ==
  ASSUME NEW f, NEW S, NEW T, Maps(f, S, T), NEW x
  PROVE  /\ Maps(Without(f, x), S, T)
         /\ DOMAIN Without(f, x) = DOMAIN f \ {x}
         /\ \A z \in DOMAIN f \ {x} : Without(f, x)[z] = f[z]
BY DEF Maps, Without, Restrict

LEMMA EmptyMap ==
  ASSUME NEW S, NEW T
  PROVE  Maps(<<>>, S, T) /\ DOMAIN <<>> = {}
BY DEF Maps

LEMMA StatusMap ==
  ASSUME TypeInv, NEW id \in DOMAIN lookups, NEW status \in Statuses, SetStatus(id, status)
  PROVE  /\ Maps(badge', Addresses, Badge)
         /\ DOMAIN badge' = DOMAIN badge
         /\ \A a \in DOMAIN badge : badge'[a].id = badge[a].id
<1> DEFINE a == lookups[id].addr
<1>1. CASE badge' = badge
  BY <1>1 DEF TypeInv, PageTypes
<1>2. CASE a \in DOMAIN badge /\ badge' = [badge EXCEPT ![a].status = status]
  BY <1>2 DEF TypeInv, PageTypes, Maps, Badge
<1> QED BY <1>1, <1>2 DEF SetStatus, OfBadge

-----------------------------------------------------------------------------
(* Types.                                                                  *)

LEMMA TypeInit == Init => TypeInv
<1> SUFFICES ASSUME Init PROVE TypeInv
  OBVIOUS
<1>1. PICK link \in DeepLinks :
        LET At(a) == CHOOSE i \in DOMAIN link : link[i] = a
        IN  /\ badge = [a \in Range(link) |-> [status |-> "loading", id |-> At(a)]]
            /\ lookups = [i \in DOMAIN link |-> [addr |-> link[i], badge |-> TRUE]]
            /\ nextId = Len(link) + 1
            /\ timer = IF link = <<>> THEN NoAddress ELSE link[Len(link)]
  BY DEF Init
<1>2. /\ link \in Seq(Addresses) /\ Len(link) \in Nat /\ Len(link) <= MaxLookups
      /\ MaxLookups \in Nat /\ MaxSends \in Nat
      /\ DOMAIN link = 1..Len(link) /\ DOMAIN link \subseteq LookupIds
  BY ClientAssumption DEF LookupIds
<1>3. \A a \in Range(link) : (CHOOSE i \in DOMAIN link : link[i] = a) \in LookupIds
  BY <1>2 DEF Range
<1>4. Range(link) \subseteq Addresses
  BY <1>2 DEF Range
<1>5. Maps(badge, Addresses, Badge)
  BY <1>1, <1>3, <1>4 DEF Maps, Badge, Statuses
<1>6. Maps(lookups, LookupIds, Look)
  BY <1>1, <1>2 DEF Maps, Look
<1>7. timer \in Addresses \cup {NoAddress}
  BY <1>1, <1>2
<1>8. LookupTypes
  BY <1>1, <1>2, <1>6, <1>7 DEF LookupTypes
<1>9. PageTypes
  <2>1. Maps(resolved, Addresses, Entry)
    BY EmptyMap DEF Init
  <2>2. files \in Seq(Files)
    BY EmptySeq DEF Init
  <2> QED BY <1>5, <2>1, <2>2 DEF Init, PageTypes
<1>10. SendTypes /\ MarkTypes
  BY <1>2 DEF Init, SendTypes, MarkTypes
<1> QED BY <1>8, <1>9, <1>10 DEF TypeInv

\* What updateUI writes.
LEMMA UpdateTypes ==
  ASSUME UpdateUI PROVE sendEnabled' \in BOOLEAN /\ warning' \in BOOLEAN
BY DEF UpdateUI

\* What it notes, at the end of a step that keeps the sends there are.
LEMMA MarksAreSends ==
  ASSUME TypeInv, UpdateUI \/ UNCHANGED marks, DOMAIN sends' = DOMAIN sends
  PROVE  MarkTypes'
<1>1. updated' \subseteq updated \cup DOMAIN sends' /\ updated \subseteq updated'
  BY DEF UpdateUI, marks
<1>2. edited' \subseteq edited \cup (updated' \ updated) \cup updated'
  BY DEF UpdateUI, marks, TypeInv, MarkTypes
<1> QED BY <1>1, <1>2 DEF TypeInv, MarkTypes

LEMMA AddBadgeType ==
  ASSUME TypeInv, NEW a \in Addresses, AddBadge(a)
  PROVE  TypeInv'
<1>1. /\ nextId \in LookupIds /\ nextId + 1 \in 1..(MaxLookups + 2)
      /\ nextId + 1 <= MaxLookups + 1
  BY ClientAssumption DEF TypeInv, LookupTypes, LookupIds, AddBadge
<1>2. [status |-> "loading", id |-> nextId] \in Badge
  BY <1>1 DEF Badge, Statuses
<1>3. Maps(badge', Addresses, Badge)
  BY <1>2, WithMap DEF AddBadge, TypeInv, PageTypes
<1>4. Maps(lookups', LookupIds, Look)
  <2>1. [addr |-> a, badge |-> TRUE] \in Look
    BY DEF Look
  <2> QED BY <1>1, <2>1, WithMap DEF AddBadge, StartLookup, TypeInv, LookupTypes
<1>5. PageTypes'
  BY <1>3, UpdateTypes DEF AddBadge, TypeInv, PageTypes, form
<1>6. LookupTypes'
  BY <1>1, <1>4 DEF AddBadge, TypeInv, LookupTypes
<1>7. SendTypes' /\ MarkTypes'
  BY MarksAreSends DEF AddBadge, TypeInv, SendTypes
<1> QED BY <1>5, <1>6, <1>7 DEF TypeInv

LEMMA TimerType ==
  ASSUME TypeInv, TimerFires
  PROVE  TypeInv'
<1>1. nextId \in LookupIds /\ nextId + 1 \in 1..(MaxLookups + 2) /\ timer \in Addresses
  BY ClientAssumption DEF TypeInv, LookupTypes, LookupIds, TimerFires
<1>2. [addr |-> timer, badge |-> FALSE] \in Look
  BY <1>1 DEF Look
<1>3. Maps(lookups', LookupIds, Look)
  BY <1>1, <1>2, WithMap DEF TimerFires, StartLookup, TypeInv, LookupTypes
<1>4. PageTypes'
  BY DEF TimerFires, TypeInv, PageTypes, form
<1>5. LookupTypes'
  BY <1>1, <1>3 DEF TimerFires, LookupTypes
<1>6. SendTypes' /\ MarkTypes'
  BY MarksAreSends DEF TimerFires, TypeInv, SendTypes
<1> QED BY <1>4, <1>5, <1>6 DEF TypeInv

\* The three ends of a lookup.
LEMMA AnswerType ==
  ASSUME TypeInv, NEW id \in DOMAIN lookups, AnswerLookup(id)
  PROVE  TypeInv'
<1>1. lookups[id].addr \in Addresses
  BY DEF TypeInv, LookupTypes, Maps, Look
<1>2. EndLookup(id)
  BY DEF AnswerLookup, LookupFound, LookupFailed, LookupRefused
<1>3. Maps(badge', Addresses, Badge)
  BY StatusMap DEF AnswerLookup, LookupFound, LookupFailed, LookupRefused, Statuses
<1>4. Maps(resolved', Addresses, Entry)
  <2>1. ASSUME NEW trust \in Trusts, LookupFound(id, trust)
        PROVE  Maps(resolved', Addresses, Entry)
    <3>1. Maps(resolved, Addresses, Entry)
      BY DEF TypeInv, PageTypes
    <3>2. resolved' = With(resolved, lookups[id].addr, [trust |-> trust, own |-> OfBadge(id)])
      BY <2>1 DEF LookupFound, Resolve
    <3>3. lookups[id].badge \in BOOLEAN
      BY DEF TypeInv, LookupTypes, Maps, Look
    <3>4. OfBadge(id) \in BOOLEAN
      BY <3>3 DEF OfBadge
    <3>5. [trust |-> trust, own |-> OfBadge(id)] \in Entry
      BY <3>4 DEF Entry
    <3> QED BY <1>1, <3>1, <3>2, <3>5, WithMap
  <2>2. CASE LookupFailed(id)
    BY <2>2, WithoutMap DEF LookupFailed, TypeInv, PageTypes
  <2>3. CASE LookupRefused(id)
    BY <2>3 DEF LookupRefused, TypeInv, PageTypes
  <2> QED BY <2>1, <2>2, <2>3 DEF AnswerLookup
<1>5. sendEnabled' \in BOOLEAN /\ warning' \in BOOLEAN
  <2>1. UpdateUI \/ UNCHANGED <<sendEnabled, warning>>
    BY DEF AnswerLookup, LookupFound, LookupFailed, LookupRefused
  <2> QED BY <2>1, UpdateTypes DEF TypeInv, PageTypes
<1>6. PageTypes'
  BY <1>2, <1>3, <1>4, <1>5 DEF EndLookup, TypeInv, PageTypes, form
<1>7. LookupTypes'
  BY <1>2, WithoutMap DEF EndLookup, TypeInv, LookupTypes
<1>8. SendTypes' /\ MarkTypes'
  <2>1. UpdateUI \/ UNCHANGED marks
    BY DEF AnswerLookup, LookupFound, LookupFailed, LookupRefused
  <2> QED BY <1>2, <2>1, MarksAreSends DEF EndLookup, TypeInv, SendTypes
<1> QED BY <1>6, <1>7, <1>8 DEF TypeInv

LEMMA RemoveType ==
  ASSUME TypeInv, NEW a \in Addresses, Remove(a)
  PROVE  TypeInv'
<1>1. PageTypes'
  BY WithoutMap, UpdateTypes DEF Remove, TypeInv, PageTypes, form
<1>2. LookupTypes' /\ SendTypes' /\ MarkTypes'
  BY MarksAreSends DEF Remove, TypeInv, LookupTypes, SendTypes
<1> QED BY <1>1, <1>2 DEF TypeInv

\* The form's own actions.
EditForm == \/ \E txt \in Texts : EditBody(txt)
            \/ \E f \in Files : AddFile(f)
            \/ \E i \in DOMAIN files : RemoveFile(i)

LEMMA EditType ==
  ASSUME TypeInv, EditForm
  PROVE  TypeInv'
<1>1. Edit
  BY DEF EditForm, EditBody, AddFile, RemoveFile
<1>2. body' \in Texts /\ files' \in Seq(Files)
  <2>1. CASE \E txt \in Texts : EditBody(txt)
    BY <2>1 DEF EditBody, TypeInv, PageTypes
  <2>2. CASE \E f \in Files : AddFile(f)
    BY <2>2 DEF AddFile, TypeInv, PageTypes
  <2>3. ASSUME NEW i \in DOMAIN files, RemoveFile(i) PROVE body' \in Texts /\ files' \in Seq(Files)
    <3> DEFINE At(j) == IF j < i THEN files[j] ELSE files[j + 1]
               n == Len(files) - 1
    <3>1. files \in Seq(Files) /\ n \in Nat /\ i \in 1..Len(files)
      BY <2>3 DEF TypeInv, PageTypes
    <3>2. \A j \in 1..n : At(j) \in Files
      BY <3>1
    <3>3. [j \in 1..n |-> At(j)] \in Seq(Files)
      <4> HIDE DEF At, n
      <4> QED BY <3>1, <3>2, IsASeq
    <3> QED BY <3>3, <2>3 DEF RemoveFile, TypeInv, PageTypes
  <2> QED BY <2>1, <2>2, <2>3 DEF EditForm
<1>3. PageTypes'
  BY <1>1, <1>2, UpdateTypes DEF Edit, TypeInv, PageTypes, compose
<1>4. LookupTypes' /\ SendTypes' /\ MarkTypes'
  BY <1>1, MarksAreSends DEF Edit, TypeInv, LookupTypes, SendTypes, compose
<1> QED BY <1>3, <1>4 DEF TypeInv

\* What ClickSend appends.
NewSend(first) == [phase   |-> "encrypting",
                   to      |-> DOMAIN resolved,
                   todo    |-> DOMAIN resolved \ {first},
                   current |-> first,
                   body    |-> body,
                   atts    |-> <<>>,
                   ok      |-> {},
                   listed  |-> DOMAIN badge,
                   stray   |-> {a \in DOMAIN resolved : ~resolved[a].own}]

LEMMA Appended ==
  ASSUME TypeInv, NEW first \in DOMAIN resolved, sends' = Append(sends, NewSend(first))
  PROVE  /\ NewSend(first) \in Send
         /\ sends' \in Seq(Send) /\ Len(sends') = Len(sends) + 1
         /\ DOMAIN sends' = DOMAIN sends \cup {Len(sends) + 1}
         /\ sends'[Len(sends) + 1] = NewSend(first)
         /\ \A i \in DOMAIN sends : sends'[i] = sends[i] /\ i # Len(sends) + 1
<1>1. NewSend(first) \in Send
  BY DEF NewSend, Send, TypeInv, PageTypes, Maps
<1>2. sends \in Seq(Send) /\ Len(sends) \in Nat
  BY DEF TypeInv, SendTypes
<1> HIDE DEF NewSend
<1> QED BY <1>1, <1>2

LEMMA ClickType ==
  ASSUME TypeInv, ClickSend
  PROVE  TypeInv'
<1>1. PICK first \in DOMAIN resolved : sends' = Append(sends, NewSend(first))
  BY DEF ClickSend, NewSend
<1>2. /\ NewSend(first).ok \subseteq NewSend(first).to
      /\ NewSend(first).todo \subseteq NewSend(first).to
      /\ NewSend(first).current \in NewSend(first).to
  BY DEF NewSend
<1>3. SendTypes'
  <2>1. Len(sends) + 1 <= MaxSends
    BY ClientAssumption DEF ClickSend, TypeInv, SendTypes
  <2> QED BY <1>1, <1>2, <2>1, Appended DEF TypeInv, SendTypes
<1>4. PageTypes' /\ LookupTypes'
  BY DEF ClickSend, DisableButton, TypeInv, PageTypes, LookupTypes, compose, form
<1>5. MarkTypes'
  BY <1>1, Appended DEF ClickSend, marks, TypeInv, MarkTypes
<1> QED BY <1>3, <1>4, <1>5 DEF TypeInv

\* A send's own steps, on one entry of sends.
LEMMA EncryptEffect ==
  ASSUME TypeInv, NEW i \in DOMAIN sends, EncryptFile(i)
  PROVE  \E f \in Files :
           /\ f = files[Len(sends[i].atts) + 1] /\ Len(sends[i].atts) + 1 <= Len(files)
           /\ sends' = [sends EXCEPT ![i] = [sends[i] EXCEPT !.atts = Append(sends[i].atts, f)]]
<1>1. sends[i] \in Send /\ files \in Seq(Files)
  BY DEF TypeInv, PageTypes, SendTypes
<1> sends[i].atts \in Seq(Files)
  BY <1>1 DEF Send
<1>2. Len(sends[i].atts) + 1 \in 1..Len(files) /\ Len(sends[i].atts) + 1 <= Len(files)
  BY <1>1 DEF EncryptFile
<1>3. files[Len(sends[i].atts) + 1] \in Files
  BY <1>1, <1>2
<1>4. sends' = [sends EXCEPT ![i] = [sends[i] EXCEPT !.atts =
                        Append(sends[i].atts, files[Len(sends[i].atts) + 1])]]
  BY DEF EncryptFile
<1> QED BY <1>2, <1>3, <1>4

\* What a send keeps.
Same(s, t) == s.to = t.to /\ s.listed = t.listed /\ s.stray = t.stray /\ s.body = t.body

\* Any of them, in its shape: entry i is replaced by a send like it.
LEMMA RunShape ==
  ASSUME TypeInv, NEW i \in DOMAIN sends, RunSend(i)
  PROVE  \E s \in Send :
           /\ sends' = [sends EXCEPT ![i] = s]
           /\ Same(s, sends[i])
           /\ s.ok \subseteq s.to /\ s.todo \subseteq s.to /\ s.current \in s.to
<1> USE DEF Same
<1>1. /\ sends[i] \in Send
      /\ sends[i].ok \subseteq sends[i].to /\ sends[i].todo \subseteq sends[i].to
      /\ sends[i].current \in sends[i].to
  BY DEF TypeInv, SendTypes
<1>2. \A ok \in BOOLEAN : Answered(i, ok) \subseteq sends[i].to
  BY <1>1 DEF Answered
<1>3. sends[i].to \subseteq Addresses
  BY <1>1 DEF Send
<1>4. CASE EncryptFile(i)
  <2>1. PICK f \in Files : sends' = [sends EXCEPT ![i] = [sends[i] EXCEPT !.atts =
                                                              Append(sends[i].atts, f)]]
    BY <1>4, EncryptEffect
  <2>2. Append(sends[i].atts, f) \in Seq(Files)
    BY <1>1 DEF Send
  <2> DEFINE s == [sends[i] EXCEPT !.atts = Append(sends[i].atts, f)]
  <2>3. s \in Send /\ Same(s, sends[i]) /\ s.ok = sends[i].ok /\ s.todo = sends[i].todo
        /\ s.current = sends[i].current
    BY <1>1, <2>2 DEF Send
  <2> HIDE DEF s
  <2> QED BY <1>1, <2>1, <2>3 DEF s
<1>5. CASE StartPost(i)
  <2> DEFINE s == [sends[i] EXCEPT !.phase = "posting"]
  <2>1. sends' = [sends EXCEPT ![i] = s]
    BY <1>5 DEF StartPost
  <2>2. s \in Send /\ Same(s, sends[i]) /\ s.ok = sends[i].ok /\ s.todo = sends[i].todo
        /\ s.current = sends[i].current
    BY <1>1 DEF Send
  <2> HIDE DEF s
  <2> QED BY <1>1, <2>1, <2>2
<1>6. ASSUME NEW ok \in BOOLEAN, NEW next \in sends[i].todo,
             sends' = [sends EXCEPT ![i].phase = "encrypting",
                              ![i].current = next,
                              ![i].todo = @ \ {next},
                              ![i].atts = <<>>,
                              ![i].ok = Answered(i, ok)]
      PROVE  \E s \in Send :
           /\ sends' = [sends EXCEPT ![i] = s]
           /\ Same(s, sends[i])
           /\ s.ok \subseteq s.to /\ s.todo \subseteq s.to /\ s.current \in s.to
  <2> DEFINE s == [sends[i] EXCEPT !.phase = "encrypting", !.current = next,
                                   !.todo = @ \ {next}, !.atts = <<>>,
                                   !.ok = Answered(i, ok)]
  <2>1. sends' = [sends EXCEPT ![i] = s]
    BY <1>6
  <2>2. <<>> \in Seq(Files) /\ next \in Addresses /\ Answered(i, ok) \subseteq Addresses
    BY <1>1, <1>2, <1>3, EmptySeq
  <2>3. s \in Send /\ Same(s, sends[i]) /\ s.ok = Answered(i, ok)
        /\ s.todo = sends[i].todo \ {next} /\ s.current = next
    BY <1>1, <2>2 DEF Send
  <2> HIDE DEF s
  <2> QED BY <1>1, <1>2, <2>1, <2>3
<1>7. ASSUME NEW ok \in BOOLEAN,
             sends' = [sends EXCEPT ![i].phase = "done", ![i].ok = Answered(i, ok)]
      PROVE  \E s \in Send :
           /\ sends' = [sends EXCEPT ![i] = s]
           /\ Same(s, sends[i])
           /\ s.ok \subseteq s.to /\ s.todo \subseteq s.to /\ s.current \in s.to
  <2> DEFINE s == [sends[i] EXCEPT !.phase = "done", !.ok = Answered(i, ok)]
  <2>1. sends' = [sends EXCEPT ![i] = s]
    BY <1>7
  <2>2. Answered(i, ok) \subseteq Addresses
    BY <1>2, <1>3
  <2>3. s \in Send /\ Same(s, sends[i]) /\ s.ok = Answered(i, ok)
        /\ s.todo = sends[i].todo /\ s.current = sends[i].current
    BY <1>1, <2>2 DEF Send
  <2> HIDE DEF s
  <2> QED BY <1>1, <1>2, <2>1, <2>3
<1> QED BY <1>4, <1>5, <1>6, <1>7 DEF RunSend, Encrypt, Answer, PostNext, PostLast

LEMMA RunType ==
  ASSUME TypeInv, NEW i \in DOMAIN sends, RunSend(i)
  PROVE  TypeInv'
<1>1. PICK s \in Send :
           /\ sends' = [sends EXCEPT ![i] = s]
           /\ s.ok \subseteq s.to /\ s.todo \subseteq s.to /\ s.current \in s.to
  BY RunShape
<1>2. SendTypes'
  <2>1. sends \in Seq(Send) /\ i \in 1..Len(sends)
    BY DEF TypeInv, SendTypes
  <2>2. /\ sends' \in Seq(Send) /\ Len(sends') = Len(sends)
        /\ \A j \in 1..Len(sends) : sends'[j] = IF j = i THEN s ELSE sends[j]
    BY <1>1, <2>1, ExceptSeq
  <2> QED BY <1>1, <2>1, <2>2 DEF TypeInv, SendTypes
<1>3. MarkTypes'
  <2>1. UpdateUI \/ UNCHANGED marks
    BY DEF RunSend, Encrypt, Answer, EncryptFile, StartPost, OnlySends, PostNext, PostLast, ResetIf
  <2> QED BY <1>1, <2>1, MarksAreSends
<1>4. PageTypes' /\ LookupTypes'
  <2>1. CASE OnlySends \/ UNCHANGED <<compose, lookups, nextId, form, sendEnabled, warning, records, marks>>
    BY <2>1 DEF OnlySends, TypeInv, PageTypes, LookupTypes, compose, form
  <2>2. ASSUME NEW any, any \in BOOLEAN, ResetIf(any), UNCHANGED <<lookups, nextId, timer>>
        PROVE  PageTypes' /\ LookupTypes'
    <3>1. LookupTypes'
      BY <2>2 DEF TypeInv, LookupTypes
    <3>2. sendEnabled' \in BOOLEAN /\ warning' \in BOOLEAN
      BY <2>2, UpdateTypes DEF ResetIf
    <3>3. CASE any
      <4>1. badge' = <<>> /\ resolved' = <<>> /\ body' = NoText /\ files' = <<>>
        BY <2>2, <3>3 DEF ResetIf
      <4>2. Maps(badge', Addresses, Badge) /\ Maps(resolved', Addresses, Entry)
        BY <4>1, EmptyMap
      <4>3. files' \in Seq(Files) /\ body' \in Texts
        BY <4>1, EmptySeq, ClientAssumption
      <4> QED BY <3>1, <3>2, <4>2, <4>3 DEF PageTypes
    <3>4. CASE ~any
      <4>1. UNCHANGED <<badge, resolved, form>>
        BY <2>2, <3>4 DEF ResetIf
      <4> QED BY <3>1, <3>2, <4>1 DEF TypeInv, PageTypes, form
    <3> QED BY <2>2, <3>3, <3>4
  <2> QED BY <2>1, <2>2 DEF RunSend, Encrypt, Answer, EncryptFile, StartPost, PostNext, PostLast
<1> QED BY <1>2, <1>3, <1>4 DEF TypeInv

\* The actions, one by one.
LEMMA Steps ==
  ASSUME Next
  PROVE  \/ \E a \in Addresses : AddBadge(a) \/ Remove(a)
         \/ EditForm
         \/ ClickSend
         \/ TimerFires
         \/ \E id \in DOMAIN lookups : AnswerLookup(id)
         \/ \E i \in DOMAIN sends : RunSend(i)
BY DEF Next, User, EditForm

LEMMA TypeStep == TypeInv /\ [Next]_vars => TypeInv'
<1> SUFFICES ASSUME TypeInv, [Next]_vars PROVE TypeInv'
  OBVIOUS
<1>1. CASE UNCHANGED vars
  BY <1>1 DEF vars, compose, form, marks, TypeInv, PageTypes, LookupTypes, SendTypes, MarkTypes
<1>2. CASE Next
  BY <1>2, Steps, AddBadgeType, RemoveType, EditType, ClickType, TimerType, AnswerType, RunType
<1> QED BY <1>1, <1>2

-----------------------------------------------------------------------------
(* The button and the warning.                                             *)

Sendable == AllFound(badge, resolved) /\ HasContent(body, files)

\* With the button enabled the warning is up to date: a recipient found by
\* plain DNS makes the worst level "dns".
Warned == sendEnabled /\ "dns" \in TrustsOf(resolved) => warning

Truthful == ButtonTellsTruth /\ Warned

\* Of three levels the lowest is "dns" if any of them is.
LEMMA WorstIsDns ==
  ASSUME NEW res, TrustsOf(res) \subseteq {"https", "dnssec", "dns"}, "dns" \in TrustsOf(res)
  PROVE  WorstTrust(res) = "dns"
<1>1. \A u \in TrustsOf(res) : Score["dns"] <= Score[u]
  BY DEF Score
<1>2. \A t \in TrustsOf(res) : (\A u \in TrustsOf(res) : Score[t] <= Score[u]) => t = "dns"
  BY DEF Score
<1>3. WorstTrust(res) \in TrustsOf(res)
      /\ \A u \in TrustsOf(res) : Score[WorstTrust(res)] <= Score[u]
  BY <1>1 DEF WorstTrust
<1> QED BY <1>2, <1>3

\* A task that ends with updateUI leaves the truth behind.
LEMMA UpdatedIsTruthful ==
  ASSUME TypeInv', UpdateUI
  PROVE  Truthful'
<1>1. ButtonTellsTruth'
  BY DEF UpdateUI, ButtonTellsTruth
<1>2. Warned'
  <2>1. TrustsOf(resolved') \subseteq {"https", "dnssec", "dns"}
    BY ClientAssumption DEF TypeInv, PageTypes, Maps, TrustsOf, Entry
  <2> SUFFICES ASSUME sendEnabled', "dns" \in TrustsOf(resolved') PROVE warning'
    BY DEF Warned
  <2>2. AllFound(badge', resolved')
    BY DEF UpdateUI
  <2> QED BY <2>1, <2>2, WorstIsDns DEF UpdateUI
<1> QED BY <1>1, <1>2 DEF Truthful

\* One that does not must leave what the button depends on alone.
LEMMA UntouchedIsTruthful ==
  ASSUME Truthful, UNCHANGED <<badge, resolved, body, files, sendEnabled, warning>>,
         Sending' \/ ~Sending
  PROVE  Truthful'
<1>1. Warned'
  BY DEF Truthful, Warned
<1>2. sendEnabled' => AllFound(badge', resolved') /\ HasContent(body', files')
  BY DEF Truthful, ButtonTellsTruth
<1>3. ~Sending' /\ AllFound(badge', resolved') /\ HasContent(body', files') => sendEnabled'
  BY DEF Truthful, ButtonTellsTruth
<1> QED BY <1>1, <1>2, <1>3 DEF Truthful, ButtonTellsTruth

LEMMA AnswerTruth ==
  ASSUME TypeInv, TypeInv', Truthful, NEW id \in DOMAIN lookups, AnswerLookup(id)
  PROVE  Truthful'
<1>1. CASE UpdateUI
  BY <1>1, UpdatedIsTruthful
<1>2. CASE ~UpdateUI
  <2>1. LookupRefused(id) /\ ~lookups[id].badge
    BY <1>2 DEF AnswerLookup, LookupFound, LookupFailed, LookupRefused
  <2>2. badge' = badge
    BY <2>1 DEF LookupRefused, SetStatus, OfBadge
  <2>3. UNCHANGED <<badge, resolved, body, files, sendEnabled, warning, sends>>
    BY <2>1, <2>2 DEF LookupRefused, EndLookup, form
  <2>4. Sending' = Sending
    BY <2>3 DEF Sending, Running
  <2> QED BY <2>3, <2>4, UntouchedIsTruthful
<1> QED BY <1>1, <1>2

\* The send that is under way is entry i, and stays so until its last answer.
LEMMA RunTruth ==
  ASSUME TypeInv, TypeInv', Truthful, NEW i \in DOMAIN sends, RunSend(i)
  PROVE  Truthful'
<1>1. CASE UpdateUI
  BY <1>1, UpdatedIsTruthful
<1>2. CASE ~UpdateUI
  <2>1. EncryptFile(i) \/ StartPost(i) \/ \E ok \in BOOLEAN : PostNext(i, ok)
    BY <1>2 DEF RunSend, Encrypt, Answer, PostLast, ResetIf
  <2>2. UNCHANGED <<badge, resolved, body, files, sendEnabled, warning>>
    BY <2>1 DEF EncryptFile, StartPost, PostNext, OnlySends, compose, form
  <2>3. i \in DOMAIN sends' /\ sends'[i].phase \in {"encrypting", "posting"}
    <3>1. sends \in Seq(Send) /\ i \in 1..Len(sends) /\ sends[i] \in Send
      BY DEF TypeInv, SendTypes
    <3>2. CASE EncryptFile(i)
      BY <3>1, <3>2 DEF EncryptFile, Send
    <3>3. CASE StartPost(i)
      BY <3>1, <3>3 DEF StartPost, Send
    <3>4. CASE \E ok \in BOOLEAN : PostNext(i, ok)
      BY <3>1, <3>4 DEF PostNext, Send
    <3> QED BY <2>1, <3>2, <3>3, <3>4
  <2>4. Sending'
    BY <2>3 DEF Sending, Running
  <2> QED BY <2>2, <2>4, UntouchedIsTruthful
<1> QED BY <1>1, <1>2

\* A click disables the button and begins a send.
LEMMA ClickTruth ==
  ASSUME TypeInv, Truthful, ClickSend
  PROVE  Truthful'
<1>1. PICK first \in DOMAIN resolved : sends' = Append(sends, NewSend(first))
  BY DEF ClickSend, NewSend
<1>2. Len(sends) + 1 \in DOMAIN sends' /\ sends'[Len(sends) + 1].phase = "encrypting"
  BY <1>1, Appended DEF NewSend
<1>3. Sending'
  BY <1>2 DEF Sending, Running
<1> QED BY <1>3 DEF ClickSend, DisableButton, Truthful, ButtonTellsTruth, Warned

LEMMA TruthStep == TypeInv /\ TypeInv' /\ Truthful /\ [Next]_vars => Truthful'
<1> SUFFICES ASSUME TypeInv, TypeInv', Truthful, [Next]_vars PROVE Truthful'
  OBVIOUS
<1>1. CASE UNCHANGED <<badge, resolved, body, files, sendEnabled, warning, sends>>
  <2>1. Sending' = Sending
    BY <1>1 DEF Sending, Running
  <2> QED BY <1>1, <2>1, UntouchedIsTruthful
<1>2. CASE UNCHANGED vars
  BY <1>1, <1>2 DEF vars, compose, form
<1>3. CASE Next
  <2>1. ASSUME NEW a \in Addresses, AddBadge(a) \/ Remove(a) PROVE Truthful'
    BY <2>1, UpdatedIsTruthful DEF AddBadge, Remove
  <2>2. CASE EditForm
    BY <2>2, UpdatedIsTruthful DEF EditForm, EditBody, AddFile, RemoveFile, Edit
  <2>3. CASE TimerFires
    BY <1>1, <2>3 DEF TimerFires, form
  <2> QED BY <1>3, <2>1, <2>2, <2>3, Steps, AnswerTruth, RunTruth, ClickTruth
<1> QED BY <1>2, <1>3

LEMMA TruthInit == Init => Truthful
<1> SUFFICES ASSUME Init PROVE Truthful
  OBVIOUS
<1>1. DOMAIN resolved = {}
  BY EmptyMap DEF Init
<1>2. ~AllFound(badge, resolved)
  BY <1>1 DEF AllFound
<1> QED BY <1>2 DEF Init, Truthful, ButtonTellsTruth, Warned

LEMMA Invariance == Spec => [](TypeInv /\ Truthful)
<1>1. Init => TypeInv /\ Truthful
  BY TypeInit, TruthInit
<1>2. TypeInv /\ Truthful /\ [Next]_vars => (TypeInv /\ Truthful)'
  BY TypeStep, TruthStep
<1> QED BY <1>1, <1>2, PTL DEF Spec

\* Every variable of the page keeps its type.
THEOREM PageTypeCorrect == Spec => []TypeOK
<1>1. TypeInv => TypeOK
  <2> SUFFICES ASSUME TypeInv PROVE TypeOK
    OBVIOUS
  <2>1. \A i \in DOMAIN sends : sends[i].phase \in {"encrypting", "posting", "done"}
    <3>1. \A i \in DOMAIN sends : sends[i] \in Send
      BY DEF TypeInv, SendTypes
    <3> QED BY <3>1 DEF Send
  <2>2. \A a \in DOMAIN resolved : resolved[a].trust \in Trusts /\ resolved[a].own \in BOOLEAN
    BY DEF TypeInv, PageTypes, Maps, Entry
  <2>3. \A a \in DOMAIN badge : badge[a].status \in Statuses /\ badge[a].id \in LookupIds
    BY DEF TypeInv, PageTypes, Maps, Badge
  <2> QED BY <2>1, <2>2, <2>3 DEF TypeInv, PageTypes, LookupTypes, SendTypes, MarkTypes, Maps, TypeOK
<1> QED BY <1>1, Invariance, PTL

\* Whoever touched the page last, the button is enabled only for a message that
\* can be sent, and is back when no send is under way.
THEOREM TheButtonIsRight == Spec => []ButtonTellsTruth
<1>1. Truthful => ButtonTellsTruth
  BY DEF Truthful
<1> QED BY <1>1, Invariance, PTL

\* Nobody found by plain DNS is sent to without the warning.
THEOREM TheWarningIsRight == Spec => DnsWarned
<1>1. TypeInv /\ Truthful /\ [Next]_vars =>
        [\A i \in DOMAIN sends' \ DOMAIN sends : "dns" \in TrustsOf(resolved) => warning]_vars
  <2> SUFFICES ASSUME TypeInv, Truthful, Next,
                      NEW i \in DOMAIN sends' \ DOMAIN sends, "dns" \in TrustsOf(resolved)
               PROVE  warning
    OBVIOUS
  <2>1. CASE ClickSend
    BY <2>1 DEF ClickSend, Truthful, Warned
  <2>2. CASE \E j \in DOMAIN sends : RunSend(j)
    <3>1. PICK j \in DOMAIN sends, s \in Send : sends' = [sends EXCEPT ![j] = s]
      BY <2>2, RunShape
    <3> QED BY <3>1
  <2>3. CASE UNCHANGED sends
    BY <2>3
  <2>4. ClickSend \/ (\E j \in DOMAIN sends : RunSend(j)) \/ UNCHANGED sends
    BY Steps DEF EditForm, EditBody, AddFile, RemoveFile, Edit, AddBadge, Remove,
                 TimerFires, AnswerLookup, LookupFound, LookupFailed, LookupRefused,
                 EndLookup
  <2> QED BY <2>1, <2>2, <2>3, <2>4
<1> QED BY <1>1, Invariance, PTL DEF Spec, DnsWarned

-----------------------------------------------------------------------------
(* The badges and the Map.                                                 *)

\* A badge whose lookup is under way says so, and no number is used twice.
IdsInv ==
  /\ \A id \in DOMAIN lookups : id < nextId
  /\ \A a \in DOMAIN badge : /\ badge[a].id < nextId
                             /\ badge[a].id \in DOMAIN lookups => badge[a].status = "loading"

\* The badge is there and shows success when the Map holds its own lookup's answer.
OwnInv == \A a \in DOMAIN resolved :
            resolved[a].own => a \in DOMAIN badge /\ badge[a].status = "found"

PairInv == IdsInv /\ OwnInv

LEMMA PairInit == Init => PairInv
<1> SUFFICES ASSUME Init PROVE PairInv
  OBVIOUS
<1>1. PICK link \in DeepLinks :
        LET At(a) == CHOOSE i \in DOMAIN link : link[i] = a
        IN  /\ badge = [a \in Range(link) |-> [status |-> "loading", id |-> At(a)]]
            /\ lookups = [i \in DOMAIN link |-> [addr |-> link[i], badge |-> TRUE]]
            /\ nextId = Len(link) + 1
  BY DEF Init
<1>2. link \in Seq(Addresses) /\ DOMAIN link = 1..Len(link) /\ Len(link) \in Nat
  BY ClientAssumption
<1>3. \A a \in Range(link) : (CHOOSE i \in DOMAIN link : link[i] = a) \in DOMAIN link
  BY DEF Range
<1>4. IdsInv
  <2>1. \A id \in DOMAIN lookups : id < nextId
    BY <1>1, <1>2
  <2>2. \A a \in DOMAIN badge : badge[a].id \in DOMAIN link /\ badge[a].status = "loading"
    BY <1>1, <1>3
  <2>3. \A a \in DOMAIN badge : badge[a].id < nextId
    BY <1>1, <1>2, <2>2
  <2> QED BY <2>1, <2>2, <2>3 DEF IdsInv
<1>5. DOMAIN resolved = {}
  BY EmptyMap DEF Init
<1> QED BY <1>4, <1>5 DEF PairInv, OwnInv

\* A step that touches neither.
LEMMA SamePairs ==
  ASSUME PairInv, UNCHANGED <<badge, resolved, lookups, nextId>>
  PROVE  PairInv'
BY DEF PairInv, IdsInv, OwnInv

LEMMA AddBadgePairs ==
  ASSUME TypeInv, PairInv, NEW a \in Addresses, AddBadge(a)
  PROVE  PairInv'
<1>1. /\ nextId \in Nat /\ nextId' = nextId + 1 /\ resolved' = resolved /\ a \notin DOMAIN badge
      /\ Maps(badge, Addresses, Badge) /\ Maps(lookups, LookupIds, Look)
  BY DEF AddBadge, TypeInv, PageTypes, LookupTypes
<1>2. /\ DOMAIN badge' = DOMAIN badge \cup {a}
      /\ badge'[a] = [status |-> "loading", id |-> nextId]
      /\ \A b \in DOMAIN badge : badge'[b] = badge[b] /\ badge[b].id \in Nat
  <2>1. \A b \in DOMAIN badge : badge[b].id \in Nat
    BY <1>1 DEF Maps, Badge, LookupIds
  <2> QED BY <1>1, <2>1 DEF AddBadge, With
<1>3. /\ DOMAIN lookups' = DOMAIN lookups \cup {nextId}
      /\ \A id \in DOMAIN lookups : id \in Nat
  BY <1>1 DEF AddBadge, StartLookup, With, Maps, LookupIds
<1>4. IdsInv'
  BY <1>1, <1>2, <1>3 DEF PairInv, IdsInv
<1>5. OwnInv'
  BY <1>1, <1>2 DEF PairInv, OwnInv
<1> QED BY <1>4, <1>5 DEF PairInv

LEMMA TimerPairs ==
  ASSUME TypeInv, PairInv, TimerFires
  PROVE  PairInv'
<1>1. /\ nextId \in Nat /\ nextId' = nextId + 1 /\ UNCHANGED <<badge, resolved>>
      /\ Maps(badge, Addresses, Badge) /\ Maps(lookups, LookupIds, Look)
  BY DEF TimerFires, TypeInv, PageTypes, LookupTypes
<1>2. /\ \A b \in DOMAIN badge : badge[b].id \in Nat
      /\ \A id \in DOMAIN lookups : id \in Nat
  BY <1>1 DEF Maps, Badge, LookupIds
<1>3. DOMAIN lookups' = DOMAIN lookups \cup {nextId}
  BY DEF TimerFires, StartLookup, With
<1>4. IdsInv'
  BY <1>1, <1>2, <1>3 DEF PairInv, IdsInv
<1> QED BY <1>1, <1>4 DEF PairInv, OwnInv

LEMMA RemovePairs ==
  ASSUME TypeInv, PairInv, NEW a \in Addresses, Remove(a)
  PROVE  PairInv'
<1>1. /\ DOMAIN badge' = DOMAIN badge \ {a} /\ DOMAIN resolved' = DOMAIN resolved \ {a}
      /\ \A b \in DOMAIN badge' : badge'[b] = badge[b]
      /\ \A b \in DOMAIN resolved' : resolved'[b] = resolved[b]
      /\ UNCHANGED <<lookups, nextId>>
  BY WithoutMap DEF Remove, TypeInv, PageTypes
<1> QED BY <1>1 DEF PairInv, IdsInv, OwnInv

LEMMA AnswerPairs ==
  ASSUME TypeInv, PairInv, NEW id \in DOMAIN lookups, AnswerLookup(id)
  PROVE  PairInv'
<1> DEFINE a == lookups[id].addr
<1>1. PICK status \in Statuses : SetStatus(id, status)
  BY DEF AnswerLookup, LookupFound, LookupFailed, LookupRefused, Statuses
<1>2. /\ DOMAIN lookups' = DOMAIN lookups \ {id} /\ nextId' = nextId
      /\ Maps(resolved, Addresses, Entry)
  BY WithoutMap DEF AnswerLookup, LookupFound, LookupFailed, LookupRefused, EndLookup,
                    TypeInv, LookupTypes, PageTypes
<1>3. /\ DOMAIN badge' = DOMAIN badge
      /\ \A b \in DOMAIN badge : badge'[b].id = badge[b].id
      /\ \A b \in DOMAIN badge : badge[b].id # id => badge'[b] = badge[b]
      /\ \A b \in DOMAIN badge \ {a} : badge'[b] = badge[b]
      /\ OfBadge(id) => a \in DOMAIN badge /\ badge[a].id = id /\ badge'[a].status = status
  <2>1. CASE OfBadge(id)
    BY <1>1, <2>1, StatusMap DEF SetStatus, OfBadge, TypeInv, PageTypes, Maps, Badge
  <2>2. CASE ~OfBadge(id)
    BY <1>1, <2>2 DEF SetStatus
  <2> QED BY <2>1, <2>2
<1>4. IdsInv'
  BY <1>2, <1>3 DEF PairInv, IdsInv
\* What the Map holds of another lookup's badge stays true.
<1>5. ASSUME NEW b \in DOMAIN resolved, resolved[b].own
      PROVE  b \in DOMAIN badge' /\ badge'[b].status = "found"
  <2>1. b \in DOMAIN badge /\ badge[b].status = "found"
    BY <1>5 DEF PairInv, OwnInv
  <2>2. badge[b].id # id
    BY <2>1 DEF PairInv, IdsInv
  <2> QED BY <1>3, <2>1, <2>2
<1>6. OwnInv'
  <2>1. ASSUME NEW trust \in Trusts, LookupFound(id, trust) PROVE OwnInv'
    <3>1. /\ resolved' = With(resolved, a, [trust |-> trust, own |-> OfBadge(id)])
          /\ SetStatus(id, "found")
      BY <2>1 DEF LookupFound, Resolve
    <3>2. /\ DOMAIN resolved' = DOMAIN resolved \cup {a}
          /\ resolved'[a] = [trust |-> trust, own |-> OfBadge(id)]
          /\ \A b \in DOMAIN resolved \ {a} : resolved'[b] = resolved[b]
      BY <3>1 DEF With
    <3>3. OfBadge(id) => a \in DOMAIN badge' /\ badge'[a].status = "found"
      BY <3>1 DEF SetStatus, OfBadge, TypeInv, PageTypes, Maps, Badge
    <3>4. resolved'[a].own => OfBadge(id)
      BY <3>2
    <3> QED BY <1>5, <3>2, <3>3, <3>4 DEF OwnInv
  <2>2. CASE LookupFailed(id)
    <3>1. /\ DOMAIN resolved' = DOMAIN resolved \ {a}
          /\ \A b \in DOMAIN resolved' : resolved'[b] = resolved[b]
      BY <1>2, <2>2, WithoutMap DEF LookupFailed
    <3> QED BY <1>5, <3>1 DEF OwnInv
  <2>3. CASE LookupRefused(id)
    BY <1>5, <2>3 DEF OwnInv, LookupRefused
  <2> QED BY <2>1, <2>2, <2>3 DEF AnswerLookup
<1> QED BY <1>4, <1>6 DEF PairInv

LEMMA RunPairs ==
  ASSUME PairInv, NEW i \in DOMAIN sends, RunSend(i)
  PROVE  PairInv'
<1>1. CASE UNCHANGED <<badge, resolved, lookups, nextId>>
  BY <1>1, SamePairs
<1>2. CASE badge' = <<>> /\ resolved' = <<>> /\ UNCHANGED <<lookups, nextId>>
  <2>1. DOMAIN badge' = {} /\ DOMAIN resolved' = {}
    BY <1>2, EmptyMap
  <2> QED BY <1>2, <2>1 DEF PairInv, IdsInv, OwnInv
<1> QED BY <1>1, <1>2
        DEF RunSend, Encrypt, Answer, EncryptFile, StartPost, OnlySends, PostNext, PostLast,
            ResetIf, compose

LEMMA PairStep == TypeInv /\ PairInv /\ [Next]_vars => PairInv'
<1> SUFFICES ASSUME TypeInv, PairInv, [Next]_vars PROVE PairInv'
  OBVIOUS
<1>1. CASE UNCHANGED vars
  BY <1>1, SamePairs DEF vars, compose
<1>2. CASE EditForm
  BY <1>2, SamePairs DEF EditForm, EditBody, AddFile, RemoveFile, Edit, compose
<1>3. CASE ClickSend
  BY <1>3, SamePairs DEF ClickSend, compose
<1> QED BY <1>1, <1>2, <1>3, Steps, AddBadgePairs, TimerPairs, RemovePairs, AnswerPairs,
           RunPairs

-----------------------------------------------------------------------------
(* The sends.                                                              *)

\* The button of a page that is sending is disabled until updateUI runs.
OverlapInv == /\ \A i \in DOMAIN sends : Running(i) /\ sendEnabled => i \in updated
              /\ OverlapIsUpdated

\* A send in progress, while nobody edits the form: everything about it agrees
\* with the form.
Agrees(i) ==
  /\ sends[i].body = body
  /\ Len(sends[i].atts) <= Len(files)
  /\ \A k \in 1..Len(sends[i].atts) : sends[i].atts[k] = files[k]
  /\ sends[i].phase = "posting" => sends[i].atts = files
  /\ \A p \in posted : p.send = i => p.body = body /\ p.atts = files

Recorded ==
  /\ \A i \in DOMAIN sends : Running(i) /\ i \notin edited => Agrees(i)
  /\ \A p \in posted : p.send \in DOMAIN sends
  /\ \A rec \in records : rec.send \in DOMAIN sends /\ ~Running(rec.send)
  /\ RecordUnlessEdited

SendInv == ListedOrStray /\ OverlapInv /\ Recorded

LEMMA SendInit == Init => SendInv
<1> SUFFICES ASSUME Init PROVE SendInv
  OBVIOUS
<1>1. DOMAIN sends = {} /\ posted = {} /\ records = {}
  BY EmptyMap DEF Init
<1> QED BY <1>1 DEF SendInv, ListedOrStray, OverlapInv, OverlapIsUpdated, Recorded,
                    RecordUnlessEdited

\* A task of the page that is not of a send: either it ends with updateUI, which
\* notes all sends under way, or it leaves form and button alone.
LEMMA TaskKeepsSends ==
  ASSUME TypeInv, SendInv, UNCHANGED <<sends, posted, records>>,
         UpdateUI \/ UNCHANGED <<form, sendEnabled, marks>>
  PROVE  SendInv'
<1>1. \A i \in DOMAIN sends : Running(i)' = Running(i)
  BY DEF Running
<1>2. updated \subseteq updated' /\ edited \subseteq edited'
  BY DEF UpdateUI, marks
<1>3. UpdateUI => \A i \in DOMAIN sends : Running(i) => i \in updated'
  BY <1>1 DEF UpdateUI
<1>4. UNCHANGED form \/ \A i \in DOMAIN sends : Running(i) => i \in edited'
  BY <1>1 DEF UpdateUI, form
<1>5. ListedOrStray'
  BY DEF SendInv, ListedOrStray
<1>6. OverlapInv'
  BY <1>1, <1>2, <1>3 DEF SendInv, OverlapInv, OverlapIsUpdated
<1>7. Recorded'
  <2>1. \A i \in DOMAIN sends' : Running(i)' /\ i \notin edited' => Agrees(i)'
    BY <1>1, <1>2, <1>4 DEF SendInv, Recorded, Agrees, form
  <2>2. RecordUnlessEdited'
    BY <1>2 DEF SendInv, Recorded, RecordUnlessEdited
  <2> QED BY <1>1, <2>1, <2>2 DEF SendInv, Recorded
<1> QED BY <1>5, <1>6, <1>7 DEF SendInv

\* A click takes the Map, which holds every badge because the button is enabled;
\* and whoever clicks while a send is under way does so after an update.
LEMMA ClickSends ==
  ASSUME TypeInv, Truthful, PairInv, SendInv, ClickSend
  PROVE  SendInv'
<1>1. PICK first \in DOMAIN resolved : sends' = Append(sends, NewSend(first))
  BY DEF ClickSend, NewSend
<1> PICK n : n = Len(sends) + 1
  OBVIOUS
<1>2. /\ DOMAIN sends' = DOMAIN sends \cup {n} /\ sends'[n] = NewSend(first)
      /\ \A i \in DOMAIN sends : sends'[i] = sends[i] /\ i < n
      /\ n \in Nat /\ DOMAIN sends \subseteq Nat
  <2>1. sends \in Seq(Send) /\ Len(sends) \in Nat /\ DOMAIN sends = 1..Len(sends)
    BY DEF TypeInv, SendTypes
  <2> QED BY <1>1, <2>1, Appended
<1>3. /\ sendEnabled /\ DOMAIN badge \subseteq DOMAIN resolved
      /\ UNCHANGED <<form, posted, records, marks>> /\ ~sendEnabled'
  BY DEF ClickSend, DisableButton, Truthful, ButtonTellsTruth, AllFound
<1>4. \A i \in DOMAIN sends : Running(i)' = Running(i)
  BY <1>2 DEF Running
<1>5. ListedOrStray'
  <2>1. DOMAIN resolved \ DOMAIN badge \subseteq {a \in DOMAIN resolved : ~resolved[a].own}
    BY DEF PairInv, OwnInv
  <2>2. /\ sends'[n].listed = DOMAIN badge /\ sends'[n].to = DOMAIN resolved
        /\ sends'[n].stray = {a \in DOMAIN resolved : ~resolved[a].own}
    BY <1>2 DEF NewSend
  <2>3. \A i \in DOMAIN sends : /\ sends'[i].listed \subseteq sends'[i].to
                               /\ sends'[i].to \ sends'[i].listed \subseteq sends'[i].stray
    BY <1>2 DEF SendInv, ListedOrStray
  <2> QED BY <1>2, <1>3, <2>1, <2>2, <2>3 DEF ListedOrStray
<1>6. OverlapInv'
  <2>1. \A i, j \in DOMAIN sends' : i < j => i \in DOMAIN sends
    BY <1>2
  <2>2. ASSUME NEW i \in DOMAIN sends', NEW j \in DOMAIN sends', i < j, Running(i)', Running(j)'
        PROVE  i \in updated'
    <3>1. i \in DOMAIN sends /\ Running(i)
      BY <1>4, <2>1, <2>2
    <3>2. CASE j = n
      BY <1>3, <3>1, <3>2 DEF SendInv, OverlapInv, marks
    <3>3. CASE j \in DOMAIN sends
      BY <1>3, <1>4, <2>2, <3>1, <3>3 DEF SendInv, OverlapInv, OverlapIsUpdated, marks
    <3> QED BY <1>2, <3>2, <3>3
  <2> QED BY <1>3, <2>2 DEF OverlapInv, OverlapIsUpdated
<1>7. Recorded'
  <2>1. Agrees(n)'
    <3>1. sends'[n].body = body /\ sends'[n].atts = <<>> /\ sends'[n].phase = "encrypting"
      BY <1>2 DEF NewSend
    <3>2. Len(<<>>) = 0 /\ files \in Seq(Files)
      BY DEF TypeInv, PageTypes
    <3>3. \A p \in posted : p.send # n
      BY <1>2 DEF SendInv, Recorded
    <3> QED BY <1>3, <3>1, <3>2, <3>3 DEF Agrees, form
  <2>2. \A i \in DOMAIN sends : Running(i)' /\ i \notin edited' => Agrees(i)'
    BY <1>2, <1>3, <1>4 DEF SendInv, Recorded, Agrees, form, marks
  <2>3. \A rec \in records : rec.send \in DOMAIN sends /\ ~Running(rec.send)'
    BY <1>4 DEF SendInv, Recorded
  <2>4. RecordUnlessEdited'
    BY <1>3 DEF SendInv, Recorded, RecordUnlessEdited, marks
  <2> QED BY <1>2, <1>3, <2>1, <2>2, <2>3, <2>4 DEF SendInv, Recorded
<1> QED BY <1>5, <1>6, <1>7 DEF SendInv

\* The entry of a send that runs is replaced.
LEMMA Replaced ==
  ASSUME TypeInv, NEW i \in DOMAIN sends, NEW s \in Send, sends' = [sends EXCEPT ![i] = s]
  PROVE  /\ DOMAIN sends' = DOMAIN sends /\ sends'[i] = s
         /\ \A j \in DOMAIN sends \ {i} : sends'[j] = sends[j] /\ Running(j)' = Running(j)
         /\ Running(i)' <=> s.phase # "done"
BY DEF TypeInv, SendTypes, Running

\* A step of a send that changes neither the page nor the records.
LEMMA GoesOn ==
  ASSUME TypeInv, SendInv, NEW i \in DOMAIN sends, Running(i), NEW s \in Send,
         sends' = [sends EXCEPT ![i] = s], Same(s, sends[i]),
         UNCHANGED <<form, sendEnabled, records, marks>>,
         i \notin edited => Agrees(i)',
         \A p \in posted' \ posted : p.send = i
  PROVE  SendInv'
<1>0. /\ DOMAIN sends' = DOMAIN sends /\ updated' = updated /\ edited' = edited
      /\ body' = body /\ files' = files /\ sendEnabled' = sendEnabled
      /\ \A j \in DOMAIN sends : Running(j)' => Running(j)
      /\ \A j \in DOMAIN sends \ {i} : sends'[j] = sends[j]
  BY Replaced DEF form, marks
<1>1. ListedOrStray'
  BY Replaced DEF SendInv, ListedOrStray, Same
<1>2. OverlapInv'
  <2>1. OverlapIsUpdated'
    BY <1>0 DEF SendInv, OverlapInv, OverlapIsUpdated
  <2> QED BY <1>0, <2>1 DEF SendInv, OverlapInv
<1>3. Recorded'
  <2>1. \A j \in DOMAIN sends' : Running(j)' /\ j \notin edited' => Agrees(j)'
    <3>1. \A j \in DOMAIN sends \ {i} : \A p \in posted' : p.send = j => p \in posted
      OBVIOUS
    <3>2. \A j \in DOMAIN sends \ {i} : Running(j)' /\ j \notin edited' => Agrees(j)
      BY <1>0 DEF SendInv, Recorded
    <3>3. \A j \in DOMAIN sends \ {i} : Agrees(j) => Agrees(j)'
      BY <1>0, <3>1 DEF Agrees
    <3> QED BY <1>0, <3>2, <3>3
  <2>2. \A rec \in records : rec.send # i
    BY DEF SendInv, Recorded
  <2>3. \A p \in posted' : p.send \in DOMAIN sends'
    BY Replaced DEF SendInv, Recorded
  <2>4. \A rec \in records' : rec.send \in DOMAIN sends' /\ ~Running(rec.send)'
    BY <2>2, Replaced DEF SendInv, Recorded
  <2>5. RecordUnlessEdited'
    BY <2>2 DEF SendInv, Recorded, RecordUnlessEdited, marks
  <2> QED BY <2>1, <2>3, <2>4, <2>5 DEF Recorded
<1> QED BY <1>1, <1>2, <1>3 DEF SendInv

\* What a send that runs looks like.
LEMMA RunningFacts ==
  ASSUME TypeInv, SendInv, NEW i \in DOMAIN sends, Running(i)
  PROVE  /\ i \notin edited => Agrees(i)
         /\ sends[i] \in Send /\ sends[i].atts \in Seq(Files) /\ files \in Seq(Files)
         /\ \A rec \in records : rec.send # i
<1>1. sends[i] \in Send /\ files \in Seq(Files)
  BY DEF TypeInv, PageTypes, SendTypes
<1>2. sends[i].atts \in Seq(Files)
  BY <1>1 DEF Send
<1> QED BY <1>1, <1>2 DEF SendInv, Recorded

LEMMA EncryptSends ==
  ASSUME TypeInv, SendInv, NEW i \in DOMAIN sends, EncryptFile(i)
  PROVE  SendInv'
<1>1. Running(i)
  BY DEF EncryptFile, Running
<1>2. /\ i \notin edited => Agrees(i)
      /\ sends[i] \in Send /\ sends[i].atts \in Seq(Files) /\ files \in Seq(Files)
  BY <1>1, RunningFacts
<1>3. PICK f \in Files :
        /\ f = files[Len(sends[i].atts) + 1] /\ Len(sends[i].atts) + 1 <= Len(files)
        /\ sends' = [sends EXCEPT ![i] = [sends[i] EXCEPT !.atts = Append(sends[i].atts, f)]]
  BY EncryptEffect
<1> PICK longer : longer = Append(sends[i].atts, f)
  OBVIOUS
<1>4. /\ longer \in Seq(Files) /\ Len(longer) = Len(sends[i].atts) + 1
      /\ Agrees(i) => \A k \in 1..Len(longer) : longer[k] = files[k]
  BY <1>2, <1>3 DEF Agrees
<1> PICK s : s = [sends[i] EXCEPT !.atts = longer]
  OBVIOUS
<1>5. /\ s \in Send /\ s.atts = longer /\ s.phase = "encrypting"
      /\ Same(s, sends[i])
  BY <1>2, <1>4 DEF Send, EncryptFile, Same
<1>6. sends' = [sends EXCEPT ![i] = s]
  BY <1>3
<1>7. sends'[i] = s
  BY <1>5, <1>6, Replaced
<1>8. UNCHANGED <<form, sendEnabled, records, posted, marks>>
  BY DEF EncryptFile, OnlySends
<1>9. ASSUME i \notin edited PROVE Agrees(i)'
  <2>1. UNCHANGED <<body, files, posted>>
    BY <1>8 DEF form
  <2>2. s.body = body /\ \A p \in posted : p.send = i => p.body = body /\ p.atts = files
    BY <1>2, <1>5, <1>9 DEF Agrees, Same
  <2>3. Len(longer) <= Len(files)
    BY <1>3, <1>4
  <2> QED BY <1>2, <1>4, <1>5, <1>7, <1>9, <2>1, <2>2, <2>3 DEF Agrees
<1> QED BY <1>1, <1>5, <1>6, <1>8, <1>9, GoesOn

LEMMA StartPostSends ==
  ASSUME TypeInv, SendInv, NEW i \in DOMAIN sends, StartPost(i)
  PROVE  SendInv'
<1>1. Running(i)
  BY DEF StartPost, Running
<1>2. /\ i \notin edited => Agrees(i)
      /\ sends[i] \in Send /\ sends[i].atts \in Seq(Files) /\ files \in Seq(Files)
  BY <1>1, RunningFacts
<1>3. ASSUME i \notin edited PROVE sends[i].atts = files
  <2>1. Len(sends[i].atts) = Len(files)
    BY <1>2, <1>3 DEF StartPost, Agrees
  <2>2. \A k \in 1..Len(sends[i].atts) : sends[i].atts[k] = files[k]
    BY <1>2, <1>3 DEF Agrees
  <2> QED BY <1>2, <2>1, <2>2, SeqEqual
<1> PICK s : s = [sends[i] EXCEPT !.phase = "posting"]
  OBVIOUS
<1>4. s \in Send /\ s.atts = sends[i].atts /\ Same(s, sends[i])
  BY <1>2 DEF Send, Same
<1>5. sends' = [sends EXCEPT ![i] = s]
  BY DEF StartPost
<1>6. sends'[i] = s
  BY <1>4, <1>5, Replaced
<1>7. UNCHANGED <<form, sendEnabled, records, posted, marks>>
  BY DEF StartPost, OnlySends
<1>8. i \notin edited => Agrees(i)'
  BY <1>2, <1>3, <1>4, <1>6, <1>7 DEF Agrees, form, Same
<1> QED BY <1>1, <1>4, <1>5, <1>7, <1>8, GoesOn

\* What the server may take is what the form holds.
LEMMA DeliverAgrees ==
  ASSUME TypeInv, SendInv, NEW i \in DOMAIN sends, sends[i].phase = "posting",
         NEW ok \in BOOLEAN, Deliver(i, ok)
  PROVE  /\ posted \subseteq posted'
         /\ \A p \in posted' \ posted :
              p.send = i /\ (i \notin edited => p.body = body /\ p.atts = files)
<1>1. Running(i)
  BY DEF Running
<1>2. i \notin edited => sends[i].body = body /\ sends[i].atts = files
  BY <1>1, RunningFacts DEF Agrees
<1> QED BY <1>2 DEF Deliver

LEMMA PostNextSends ==
  ASSUME TypeInv, SendInv, NEW i \in DOMAIN sends, NEW ok \in BOOLEAN, PostNext(i, ok)
  PROVE  SendInv'
<1>1. Running(i) /\ sends[i].phase = "posting" /\ Deliver(i, ok)
  BY DEF PostNext, Running
<1>2. (i \notin edited => Agrees(i)) /\ sends[i] \in Send /\ files \in Seq(Files)
  BY <1>1, RunningFacts
<1>3. sends[i].ok \subseteq sends[i].to /\ sends[i].current \in sends[i].to
  BY DEF TypeInv, SendTypes
<1>4. PICK next \in sends[i].todo :
        sends' = [sends EXCEPT ![i].phase = "encrypting",
                               ![i].current = next,
                               ![i].todo = @ \ {next},
                               ![i].atts = <<>>,
                               ![i].ok = Answered(i, ok)]
  BY DEF PostNext
<1> PICK s : s = [sends[i] EXCEPT !.phase = "encrypting", !.current = next,
                                  !.todo = @ \ {next}, !.atts = <<>>, !.ok = Answered(i, ok)]
  OBVIOUS
<1>5. sends' = [sends EXCEPT ![i] = s]
  BY <1>4
<1>6. Answered(i, ok) \subseteq Addresses /\ <<>> \in Seq(Files) /\ Len(<<>>) = 0
  BY <1>2, <1>3, EmptySeq DEF Answered, Send
<1>7. s \in Send /\ s.atts = <<>> /\ s.phase = "encrypting" /\ Same(s, sends[i])
  BY <1>2, <1>6 DEF Send, Same
<1>8. sends'[i] = s
  BY <1>5, <1>7, Replaced
<1>9. UNCHANGED <<form, sendEnabled, records, marks>>
  BY DEF PostNext
<1>10. \A p \in posted' \ posted :
         p.send = i /\ (i \notin edited => p.body = body /\ p.atts = files)
  BY <1>1, DeliverAgrees
<1>11. i \notin edited => Agrees(i)'
  BY <1>2, <1>6, <1>7, <1>8, <1>9, <1>10 DEF Agrees, form, Same
<1> QED BY <1>1, <1>5, <1>7, <1>9, <1>10, <1>11, GoesOn

\* The last answer: the record is made of the form, with which a send agrees that
\* nobody has edited.  The send is over when updateUI notes those under way.
LEMMA PostLastSends ==
  ASSUME TypeInv, SendInv, NEW i \in DOMAIN sends, NEW ok \in BOOLEAN, PostLast(i, ok)
  PROVE  SendInv'
<1>1. Running(i) /\ sends[i].phase = "posting" /\ Deliver(i, ok) /\ UpdateUI
  BY DEF PostLast, Running, ResetIf
<1>2. /\ i \notin edited => Agrees(i)
      /\ sends[i] \in Send /\ \A rec \in records : rec.send # i
  BY <1>1, RunningFacts
<1> PICK s : s = [sends[i] EXCEPT !.phase = "done", !.ok = Answered(i, ok)]
  OBVIOUS
<1>3. sends' = [sends EXCEPT ![i] = s]
  BY DEF PostLast
<1>4. sends[i].ok \subseteq sends[i].to /\ sends[i].current \in sends[i].to
  BY DEF TypeInv, SendTypes
<1>5. Answered(i, ok) \subseteq Addresses
  BY <1>2, <1>4 DEF Answered, Send
<1>6. s \in Send /\ s.phase = "done" /\ Same(s, sends[i])
  BY <1>2, <1>5 DEF Send, Same
<1>7. /\ DOMAIN sends' = DOMAIN sends /\ sends'[i] = s /\ ~Running(i)'
      /\ \A j \in DOMAIN sends \ {i} : sends'[j] = sends[j] /\ Running(j)' = Running(j)
  BY <1>3, <1>6, Replaced
<1>8. /\ updated \subseteq updated' /\ edited \subseteq edited'
      /\ \A j \in DOMAIN sends : Running(j)' => j \in updated'
      /\ UNCHANGED form \/ \A j \in DOMAIN sends : Running(j)' => j \in edited'
      /\ i \in edited' => i \in edited
  BY <1>1, <1>7 DEF UpdateUI, form
<1>9. ListedOrStray'
  BY <1>6, <1>7 DEF SendInv, ListedOrStray, Same
<1>10. OverlapInv'
  BY <1>7, <1>8 DEF OverlapInv, OverlapIsUpdated
<1>11. Recorded'
  <2>1. /\ posted \subseteq posted'
        /\ \A p \in posted' \ posted :
             p.send = i /\ (i \notin edited => p.body = body /\ p.atts = files)
    BY <1>1, DeliverAgrees
  <2>2. records' \subseteq records \cup {[send |-> i, body |-> body, files |-> files]}
    BY DEF PostLast, Record
  <2>3. \A j \in DOMAIN sends' : Running(j)' /\ j \notin edited' => Agrees(j)'
    <3> SUFFICES ASSUME NEW j \in DOMAIN sends, Running(j)', j \notin edited' PROVE Agrees(j)'
      BY <1>7
    <3>1. j # i /\ Running(j) /\ j \notin edited /\ sends'[j] = sends[j] /\ UNCHANGED form
      BY <1>7, <1>8
    <3>2. Agrees(j)
      BY <3>1 DEF SendInv, Recorded
    <3> QED BY <2>1, <3>1, <3>2 DEF Agrees, form
  <2>4. i \notin edited => \A p \in posted' : p.send = i => p.body = body /\ p.atts = files
    BY <1>2, <2>1 DEF Agrees
  <2>5. RecordUnlessEdited'
    <3> SUFFICES ASSUME NEW rec \in records', NEW p \in posted', p.send = rec.send,
                        rec.send \notin edited'
                 PROVE  p.body = rec.body /\ p.atts = rec.files
      BY DEF RecordUnlessEdited
    <3>1. rec.send \notin edited
      BY <1>8
    <3>2. CASE rec \in records
      <4>1. p \in posted
        BY <1>2, <2>1, <3>2
      <4> QED BY <3>1, <3>2, <4>1 DEF SendInv, Recorded, RecordUnlessEdited
    <3>3. CASE rec = [send |-> i, body |-> body, files |-> files]
      BY <2>4, <3>1, <3>3
    <3> QED BY <2>2, <3>2, <3>3
  <2>6. \A p \in posted' : p.send \in DOMAIN sends'
    BY <1>7, <2>1 DEF SendInv, Recorded
  <2>7. \A rec \in records' : rec.send \in DOMAIN sends' /\ ~Running(rec.send)'
    BY <1>2, <1>7, <2>2 DEF SendInv, Recorded
  <2> QED BY <2>3, <2>5, <2>6, <2>7 DEF Recorded
<1> QED BY <1>9, <1>10, <1>11 DEF SendInv

LEMMA SendStep == TypeInv /\ Truthful /\ PairInv /\ SendInv /\ [Next]_vars => SendInv'
<1> SUFFICES ASSUME TypeInv, Truthful, PairInv, SendInv, [Next]_vars PROVE SendInv'
  OBVIOUS
<1>1. CASE UNCHANGED vars
  BY <1>1, TaskKeepsSends DEF vars, compose
<1>2. CASE EditForm
  BY <1>2, TaskKeepsSends DEF EditForm, EditBody, AddFile, RemoveFile, Edit
<1>3. ASSUME NEW a \in Addresses, AddBadge(a) \/ Remove(a) PROVE SendInv'
  BY <1>3, TaskKeepsSends DEF AddBadge, Remove
<1>4. CASE TimerFires
  BY <1>4, TaskKeepsSends DEF TimerFires
<1>5. ASSUME NEW id \in DOMAIN lookups, AnswerLookup(id) PROVE SendInv'
  <2>1. UNCHANGED <<sends, posted, records>>
    BY <1>5 DEF AnswerLookup, LookupFound, LookupFailed, LookupRefused, EndLookup
  <2>2. UpdateUI \/ UNCHANGED <<form, sendEnabled, marks>>
    BY <1>5 DEF AnswerLookup, LookupFound, LookupFailed, LookupRefused, EndLookup
  <2> QED BY <2>1, <2>2, TaskKeepsSends
<1>6. ASSUME NEW i \in DOMAIN sends, RunSend(i) PROVE SendInv'
  BY <1>6, EncryptSends, StartPostSends, PostNextSends, PostLastSends
     DEF RunSend, Encrypt, Answer
<1> QED BY <1>1, <1>2, <1>3, <1>4, <1>5, <1>6, Steps, ClickSends

LEMMA SendInvariance == Spec => [](TypeInv /\ Truthful /\ PairInv /\ SendInv)
<1>1. Init => TypeInv /\ Truthful /\ PairInv /\ SendInv
  BY TypeInit, TruthInit, PairInit, SendInit
<1>2. TypeInv /\ Truthful /\ PairInv /\ SendInv /\ [Next]_vars
      => (TypeInv /\ Truthful /\ PairInv /\ SendInv)'
  BY TypeStep, TruthStep, PairStep, SendStep
<1> QED BY <1>1, <1>2, PTL DEF Spec

\* A message goes to every badge on the page, and elsewhere only where a lookup
\* that no badge waited for had put an address into the Map.
THEOREM SendsGoToTheListed == Spec => []ListedOrStray
<1>1. SendInv => ListedOrStray
  BY DEF SendInv
<1> QED BY <1>1, SendInvariance, PTL

\* An enabled button stands beside badges that are found, but for one whose place
\* in the Map another lookup of the same address has taken.
THEOREM TheButtonAgreesWithTheBadges == Spec => []FoundOrStray
<1>1. TypeInv /\ Truthful /\ PairInv => FoundOrStray
  <2> SUFFICES ASSUME TypeInv, Truthful, PairInv, sendEnabled, NEW a \in DOMAIN badge
               PROVE  badge[a].status = "found" \/ (a \in DOMAIN resolved /\ ~resolved[a].own)
    BY DEF FoundOrStray
  <2>1. a \in DOMAIN resolved
    BY DEF Truthful, ButtonTellsTruth, AllFound
  <2> QED BY <2>1 DEF PairInv, OwnInv
<1> QED BY <1>1, SendInvariance, PTL

\* Two sends are under way at a time only if the page was updated during the
\* first: the click itself leaves no enabled button behind.
THEOREM SendsTakeTurns == Spec => []OverlapIsUpdated
<1>1. SendInv => OverlapIsUpdated
  BY DEF SendInv, OverlapInv
<1> QED BY <1>1, SendInvariance, PTL

\* The record of a send during which nobody edited the form is a true copy of
\* what each recipient got, whatever other sends were under way.
THEOREM RecordsAreTrue == Spec => []RecordUnlessEdited
<1>1. SendInv => RecordUnlessEdited
  BY DEF SendInv, Recorded
<1> QED BY <1>1, SendInvariance, PTL
=============================================================================
