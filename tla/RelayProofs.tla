---------------------------- MODULE RelayProofs -----------------------------
(***************************************************************************)
(* Proofs about Relay and Envelope, for any number of recipients and       *)
(* mailboxes, for either backend, or both, and for any contents, number of *)
(* attachments, width and length of text.                                  *)
(*                                                                         *)
(* The argument: the loop leaves behind it, at every position before the   *)
(* one it works on, a mail that was taken or an error (Behind), and has    *)
(* mailed nothing ahead of it (Ahead); a mail of the present position      *)
(* exists exactly while QUIT is outstanding (InHand).  What a mail holds   *)
(* depends on the request and the backend alone, so the properties of      *)
(* Envelope hold in every state.                                           *)
(***************************************************************************)
EXTENDS Envelope, ListLemmas

Working == DOMAIN After \cup {"end", "quit", "post"}

\* Where the loop is, by the stage of the handler.
Place ==
  /\ Len(found) = IF stage \in Working THEN at ELSE at - 1
  /\ stage \in Working \cup {"lookup"} => at <= count
  /\ stage \in Working \cup {"lookup", "answer"} => damaged = "nothing"
  /\ stage = "decode" => at = 1
  /\ stage = "answer" => at = count + 1
  /\ stage # "done" => answer = "none"
  /\ answer = "rejected" => at = 1
  /\ answer \in {"sent", "failed"} => at = count + 1
  /\ answer = "sent" => errors = {}
  /\ damaged # "nothing" => at = 1

HasMail(mails, p) == \E i \in DOMAIN mails : mails[i].pos = p
HasError(errs, p) == \E e \in errs : e.pos = p

\* Every position the loop has passed is accounted for.
Behind == \A p \in 1..(at - 1) : HasMail(taken, p) \/ HasError(errors, p)

\* Nothing has been said or mailed of the positions that come.
Ahead == /\ \A e \in errors : e.pos < at
         /\ \A i \in DOMAIN taken : taken[i].pos <= at

\* The position the loop works on: its mailbox is the one found for it, and its
\* mail is out only when the dialogue is at QUIT.
InHand ==
  /\ stage \in Working => /\ delivery \in Mailboxes
                          /\ found[at] = delivery
  /\ stage = "quit" => HasMail(taken, at)
  /\ stage # "quit" => ~HasMail(taken, at)

\* However the backend fails, one call mails at most once for each entry of
\* its list, in the order of the list.
OneMailEach == \A i, j \in DOMAIN taken : i < j => taken[i].pos < taken[j].pos

IInv == /\ TypeOK
        /\ Place
        /\ Behind
        /\ Ahead
        /\ InHand
        /\ OneMailEach
        /\ MailedWhereFound

-----------------------------------------------------------------------------
(* Lists of mails.                                                         *)

Mails == [pos : Nat, to : Mailboxes]

InOrder(mails) == \A i, j \in DOMAIN mails : i < j => mails[i].pos < mails[j].pos

\* The mails of a request with n recipients have positions that are numbers.
LEMMA MailsOf ==
  ASSUME NEW n \in Nat, NEW mails \in Seq([pos : 1..n, to : Mailboxes])
  PROVE  /\ \A i \in DOMAIN mails : /\ mails[i] \in [pos : 1..n, to : Mailboxes]
                                    /\ mails[i].pos \in Nat
         /\ mails \in Seq(Mails)
<1> DEFINE R == [pos : 1..n, to : Mailboxes]
<1>1. \A r \in R : r.pos \in Nat /\ r \in Mails
  BY DEF Mails
<1>2. mails \in Seq(R)
  OBVIOUS
<1> HIDE DEF R
<1>3. \A i \in DOMAIN mails : mails[i] \in R
  BY <1>2
<1>4. mails \in Seq(Mails)
  BY <1>1, <1>2
<1> QED
  BY <1>1, <1>3, <1>4 DEF R

\* A mail for a later position, put at the end, keeps the list in order.
LEMMA AppendInOrder ==
  ASSUME NEW mails \in Seq(Mails), NEW m \in Mails, InOrder(mails),
         \A i \in DOMAIN mails : mails[i].pos < m.pos
  PROVE  /\ Append(mails, m) \in Seq(Mails)
         /\ InOrder(Append(mails, m))
         /\ HasMail(Append(mails, m), m.pos)
         /\ \A p : HasMail(mails, p) => HasMail(Append(mails, m), p)
         /\ \A i \in DOMAIN Append(mails, m) :
              \/ Append(mails, m)[i] = m
              \/ i \in DOMAIN mails /\ Append(mails, m)[i] = mails[i]
<1> DEFINE more == Append(mails, m)
<1>1. /\ more \in Seq(Mails)
      /\ Len(mails) \in Nat
      /\ DOMAIN mails = 1..Len(mails) /\ DOMAIN more = 1..(Len(mails) + 1)
      /\ more[Len(mails) + 1] = m
      /\ \A i \in DOMAIN mails : more[i] = mails[i]
  OBVIOUS
<1> HIDE DEF more
<1>2. \A i \in DOMAIN more : \/ i = Len(mails) + 1 /\ more[i] = m
                             \/ i \in DOMAIN mails /\ more[i] = mails[i]
  BY <1>1
<1>3. InOrder(more)
  <2> SUFFICES ASSUME NEW i \in DOMAIN more, NEW j \in DOMAIN more, i < j
               PROVE  more[i].pos < more[j].pos
    BY DEF InOrder
  <2>1. i \in DOMAIN mails /\ more[i] = mails[i]
    BY <1>1, <1>2
  <2>2. CASE j = Len(mails) + 1
    BY <1>1, <2>1, <2>2
  <2>3. CASE j \in DOMAIN mails /\ more[j] = mails[j]
    BY <2>1, <2>3 DEF InOrder
  <2> QED
    BY <1>2, <2>2, <2>3
<1>4. HasMail(more, m.pos)
  BY <1>1 DEF HasMail
<1>5. \A p : HasMail(mails, p) => HasMail(more, p)
  BY <1>1 DEF HasMail
<1> QED
  BY <1>1, <1>2, <1>3, <1>4, <1>5 DEF more

-----------------------------------------------------------------------------
\* The stages in which a recipient's mail is being worked on.
LEMMA WorkingStages ==
  /\ DOMAIN After = {"dial", "starttls", "auth", "mail", "rcpt", "data", "write"}
  /\ Working = {"dial", "starttls", "auth", "mail", "rcpt", "data", "write", "end",
                "quit", "post"}
BY DEF Working, After

(* The invariant, action by action.                                        *)

LEMMA InitInv == Init => IInv
<1> SUFFICES ASSUME Init PROVE IInv
  OBVIOUS
<1> USE DEF Init
<1>1. TypeOK
  BY RelayAssumption DEF TypeOK, Stages, Parts, After
<1>2. Place
  BY RelayAssumption DEF Place, Working, Parts, After
<1>3. Behind /\ Ahead /\ InHand
  BY DEF Behind, Ahead, InHand, HasMail, Working, After
<1>4. OneMailEach /\ MailedWhereFound
  BY DEF OneMailEach, MailedWhereFound
<1> QED
  BY <1>1, <1>2, <1>3, <1>4 DEF IInv

LEMMA Types ==
  ASSUME TypeOK
  PROVE  /\ count \in Nat
         /\ at \in Nat /\ at >= 1 /\ at <= count + 1
         /\ Positions = 1..count
         /\ \A p \in Positions : p \in Nat
         /\ errors \subseteq [pos : Positions, why : Reasons]
         /\ taken \in Seq([pos : Positions, to : Mailboxes])
<1>1. count \in Nat
  BY RelayAssumption DEF TypeOK
<1> QED
  BY <1>1, RelayAssumption DEF TypeOK, Positions

LEMMA DecodeInv == ASSUME IInv, Decode PROVE IInv'
<1>1. /\ stage = "decode" /\ at = 1
      /\ \/ damaged = "nothing" /\ count > 0
            /\ stage' = "lookup" /\ answer' = answer
         \/ stage' = "done" /\ answer' = "rejected"
      /\ UNCHANGED <<backend, count, damaged, at, delivery, errors, found, taken>>
  BY DEF IInv, Place, Decode, Decodable
<1>2. TypeOK'
  BY <1>1 DEF IInv, TypeOK, Stages, Positions
<1>3. Place'
  BY <1>1, Types, WorkingStages DEF IInv, Place
<1>4. Behind' /\ Ahead'
  BY <1>1 DEF IInv, Behind, Ahead
<1>5. InHand'
  BY <1>1, WorkingStages DEF IInv, InHand
<1>6. OneMailEach' /\ MailedWhereFound'
  BY <1>1 DEF IInv, OneMailEach, MailedWhereFound
<1> QED
  BY <1>2, <1>3, <1>4, <1>5, <1>6 DEF IInv

\* Leaving a position, in whatever way: what the loop leaves behind is accounted
\* for, and the next position is untouched.
LEMMA PassInv ==
  ASSUME IInv, stage \in Working \cup {"lookup"}, NextRecipient,
         UNCHANGED <<backend, count, damaged, answer>>,
         delivery' \in Mailboxes \cup {NoMailbox},
         found' \in Seq(Mailboxes \cup {NotFound, NoMailbox}), Len(found') = at,
         errors' = errors \/ \E why \in Reasons : Note(why),
         taken' \in Seq([pos : Positions, to : Mailboxes]),
         \A p : HasMail(taken, p) => HasMail(taken', p),
         HasMail(taken', at) \/ HasError(errors', at),
         \A i \in DOMAIN taken' : taken'[i].pos <= at,
         OneMailEach', MailedWhereFound'
  PROVE  IInv'
<1>1. /\ TypeOK /\ at <= count /\ damaged = "nothing" /\ answer = "none"
      /\ count' = count /\ at' = at + 1 /\ stage' \in {"lookup", "answer"}
      /\ stage' = "lookup" => at < count
      /\ stage' = "answer" => at = count
  <2>1. TypeOK /\ at <= count /\ damaged = "nothing" /\ answer = "none"
    BY WorkingStages DEF IInv, Place
  <2>2. at \in Nat /\ count \in Nat
    BY <2>1, Types
  <2> QED
    BY <2>1, <2>2 DEF NextRecipient
<1>2. at \in Nat /\ at >= 1 /\ count \in Nat /\ Positions = 1..count /\ Positions' = Positions
  BY <1>1, Types DEF Positions
<1>3. \A e \in errors' : e \in errors \/ (e.pos = at /\ e.why \in Reasons /\ e \in [pos : Positions, why : Reasons])
  BY <1>1, <1>2 DEF Note
<1>4. \A e \in errors : e \in errors'
  BY DEF Note
<1>5. TypeOK'
  <2>1. errors' \subseteq [pos : Positions', why : Reasons]
    BY <1>1, <1>2, <1>3 DEF TypeOK
  <2>2. at' \in 1..(MaxRecipients + 1) /\ at' <= count' + 1
    BY <1>1, <1>2, RelayAssumption DEF TypeOK
  <2> QED
    BY <1>1, <1>2, <2>1, <2>2 DEF TypeOK, Stages
<1>6. Place'
  BY <1>1, <1>2, WorkingStages DEF Place
<1>7. Behind'
  <2> SUFFICES ASSUME NEW p \in 1..at PROVE HasMail(taken', p) \/ HasError(errors', p)
    BY <1>1, <1>2 DEF Behind
  <2>1. CASE p = at
    BY <2>1
  <2>2. CASE p # at
    <3>1. HasMail(taken, p) \/ HasError(errors, p)
      BY <1>2, <2>2 DEF IInv, Behind
    <3> QED
      BY <3>1, <1>4 DEF HasError
  <2> QED
    BY <2>1, <2>2
<1>8. /\ \A e \in errors' : e.pos < at + 1
      /\ \A i \in DOMAIN taken' : taken'[i].pos \in Nat /\ taken'[i].pos < at + 1
  <2>1. \A e \in errors : e.pos \in Nat /\ e.pos < at
    BY <1>1, <1>2 DEF IInv, Ahead, TypeOK
  <2>2. \A i \in DOMAIN taken' : taken'[i].pos \in Nat
    BY <1>2, MailsOf
  <2> QED
    BY <1>2, <1>3, <2>1, <2>2
<1>9. Ahead'
  BY <1>1, <1>8 DEF Ahead
<1>10. InHand'
  <2>1. stage' \notin Working /\ stage' # "quit"
    BY <1>1, WorkingStages
  <2>2. ~HasMail(taken, at)'
    BY <1>1, <1>2, <1>8 DEF HasMail
  <2> QED
    BY <2>1, <2>2 DEF InHand
<1> QED
  BY <1>5, <1>6, <1>7, <1>9, <1>10 DEF IInv

\* A mail taken for the present position, which has none yet.
LEMMA AcceptMail ==
  ASSUME IInv, stage \in Working, stage # "quit", Accept, UNCHANGED <<count, found>>,
         errors' = errors \/ Note("unsent")
  PROVE  /\ taken' \in Seq([pos : Positions, to : Mailboxes])
         /\ HasMail(taken', at)
         /\ \A p : HasMail(taken, p) => HasMail(taken', p)
         /\ \A i \in DOMAIN taken' : taken'[i].pos <= at
         /\ OneMailEach' /\ MailedWhereFound'
<1> DEFINE m == [pos |-> at, to |-> delivery]
<1>1. /\ TypeOK /\ at \in Nat /\ at >= 1 /\ at <= count /\ count \in Nat
      /\ Positions = 1..count
      /\ taken \in Seq([pos : Positions, to : Mailboxes])
      /\ delivery \in Mailboxes /\ found[at] = delivery
      /\ ~HasMail(taken, at)
  BY Types DEF IInv, Place, InHand
<1>2. \A i \in DOMAIN taken : /\ taken[i] \in [pos : Positions, to : Mailboxes]
                             /\ taken[i].pos \in Nat /\ taken[i].pos < at
  <2> SUFFICES ASSUME NEW i \in DOMAIN taken
               PROVE  /\ taken[i] \in [pos : Positions, to : Mailboxes]
                      /\ taken[i].pos \in Nat /\ taken[i].pos < at
    OBVIOUS
  <2>1. taken[i] \in [pos : Positions, to : Mailboxes] /\ taken[i].pos \in Nat
    BY <1>1, MailsOf
  <2>2. taken[i].pos <= at /\ taken[i].pos # at
    BY <1>1 DEF IInv, Ahead, HasMail
  <2> QED
    BY <1>1, <2>1, <2>2
<1>3. m \in [pos : Positions, to : Mailboxes] /\ m \in Mails /\ taken \in Seq(Mails)
  <2>1. at \in Positions
    BY <1>1
  <2>2. m \in [pos : Positions, to : Mailboxes] /\ m \in Mails
    BY <1>1, <2>1 DEF Mails
  <2>3. taken \in Seq(Mails)
    BY <1>1, MailsOf
  <2> QED
    BY <2>2, <2>3
<1>4. InOrder(taken)
  BY DEF IInv, OneMailEach, InOrder
<1>5. taken' = Append(taken, m)
  BY DEF Accept
<1> HIDE DEF m
<1>6. /\ InOrder(taken') /\ HasMail(taken', m.pos)
      /\ \A p : HasMail(taken, p) => HasMail(taken', p)
      /\ \A i \in DOMAIN taken' : \/ taken'[i] = m
                                  \/ i \in DOMAIN taken /\ taken'[i] = taken[i]
  <2>1. \A i \in DOMAIN taken : taken[i].pos < m.pos
    BY <1>2 DEF m
  <2> QED
    BY <1>3, <1>4, <1>5, <2>1, AppendInOrder
<1>7. taken' \in Seq([pos : Positions, to : Mailboxes])
  BY <1>1, <1>3, <1>5
<1>8. \A i \in DOMAIN taken' : taken'[i].pos <= at
  BY <1>1, <1>2, <1>6 DEF m
<1>9. OneMailEach'
  BY <1>6 DEF OneMailEach, InOrder
<1>10. MailedWhereFound'
  <2> SUFFICES ASSUME NEW i \in DOMAIN taken'
               PROVE  /\ found[taken'[i].pos] = taken'[i].to
                      /\ \A e \in errors' : e.pos = taken'[i].pos => e.why = "unsent"
    BY DEF MailedWhereFound
  <2>1. \A e \in errors' : e \in errors \/ (e.pos = at /\ e.why = "unsent")
    BY DEF Note
  <2>2. \A e \in errors : e.pos \in Nat /\ e.pos < at
    BY <1>1 DEF IInv, Ahead, TypeOK
  <2>3. CASE taken'[i] = m
    BY <1>1, <2>1, <2>2, <2>3 DEF m
  <2>4. CASE i \in DOMAIN taken /\ taken'[i] = taken[i]
    BY <1>1, <1>2, <2>1, <2>4 DEF IInv, MailedWhereFound
  <2> QED
    BY <1>6, <2>3, <2>4
<1> QED
  BY <1>6, <1>7, <1>8, <1>9, <1>10 DEF m

LEMMA NotedIsReported == ASSUME NEW why, Note(why) PROVE HasError(errors', at)
<1> DEFINE e == [pos |-> at, why |-> why]
<1>1. e \in errors' /\ e.pos = at
  BY DEF Note
<1> QED
  BY <1>1 DEF HasError

LEMMA LookUpInv == ASSUME IInv, LookUp PROVE IInv'
<1>1. PICK outcome \in Mailboxes \cup {NotFound, NoMailbox} :
        /\ found' = Append(found, outcome)
        /\ \/ NextRecipient /\ delivery' = delivery /\ \E why \in Reasons \ {"unsent"} : Note(why)
           \/ /\ outcome \in Mailboxes /\ delivery' = outcome /\ HandOver
              /\ errors' = errors
  BY DEF LookUp, RefuseNotFound, Fail, Reasons
<1>2. /\ stage = "lookup" /\ at <= count /\ ~HasMail(taken, at)
      /\ UNCHANGED <<backend, count, damaged, answer, taken>>
      /\ found \in Seq(Mailboxes \cup {NotFound, NoMailbox}) /\ Len(found) = at - 1
      /\ at \in Nat /\ at >= 1 /\ count \in Nat /\ Positions = 1..count
      /\ taken \in Seq([pos : Positions, to : Mailboxes])
  BY Types, WorkingStages DEF IInv, TypeOK, Place, InHand, LookUp
<1>3. /\ found' \in Seq(Mailboxes \cup {NotFound, NoMailbox}) /\ Len(found') = at
      /\ found'[at] = outcome
      /\ \A p \in 1..(at - 1) : found'[p] = found[p]
  BY <1>1, <1>2
<1>4. \A i \in DOMAIN taken : taken[i].pos \in 1..(at - 1)
  <2>1. \A i \in DOMAIN taken : taken[i] \in [pos : Positions, to : Mailboxes]
    BY <1>2, MailsOf
  <2>2. \A i \in DOMAIN taken : taken[i].pos \in Nat /\ taken[i].pos >= 1
    BY <1>2, <2>1
  <2>3. \A i \in DOMAIN taken : taken[i].pos <= at /\ taken[i].pos # at
    BY <1>2 DEF IInv, Ahead, HasMail
  <2> QED
    BY <1>2, <2>2, <2>3
<1>5. OneMailEach'
  BY <1>2 DEF IInv, OneMailEach
<1>6. MailedWhereFound'
  <2> SUFFICES ASSUME NEW i \in DOMAIN taken
               PROVE  /\ found'[taken[i].pos] = taken[i].to
                      /\ \A e \in errors' : e.pos = taken[i].pos => e.why = "unsent"
    BY <1>2 DEF MailedWhereFound
  <2>1. \A e \in errors' : e \in errors \/ e.pos = at
    BY <1>1 DEF Note
  <2>2. taken[i].pos # at
    BY <1>2, <1>4
  <2> QED
    BY <1>3, <1>4, <2>1, <2>2 DEF IInv, MailedWhereFound
<1>7. CASE NextRecipient /\ delivery' = delivery /\ \E why \in Reasons \ {"unsent"} : Note(why)
  <2>1. HasError(errors', at)
    BY <1>7, NotedIsReported
  <2>2. delivery' \in Mailboxes \cup {NoMailbox}
    BY <1>7 DEF IInv, TypeOK
  <2>3. \A i \in DOMAIN taken' : taken'[i].pos <= at
    BY <1>2 DEF IInv, Ahead
  <2> QED
    BY <1>2, <1>3, <1>5, <1>6, <1>7, <2>1, <2>2, <2>3, PassInv
<1>8. CASE outcome \in Mailboxes /\ delivery' = outcome /\ HandOver /\ errors' = errors
  <2>1. stage' \in {"dial", "post"} /\ at' = at
    BY <1>8 DEF HandOver
  <2>2. TypeOK'
    BY <1>2, <1>3, <1>8, <2>1, WorkingStages DEF IInv, TypeOK, Stages, Positions
  <2>3. Place'
    BY <1>2, <1>3, <1>8, <2>1, WorkingStages DEF IInv, Place
  <2>4. Behind' /\ Ahead'
    BY <1>2, <1>8, <2>1 DEF IInv, Behind, Ahead
  <2>5. InHand'
    BY <1>2, <1>3, <1>8, <2>1 DEF InHand, HasMail
  <2> QED
    BY <1>5, <1>6, <2>2, <2>3, <2>4, <2>5 DEF IInv
<1> QED
  BY <1>1, <1>7, <1>8

\* The backend gives up, before or after the mail was taken.
LEMMA SendFailedInv ==
  ASSUME IInv, stage \in Working, SendFailed, UNCHANGED taken, Sending PROVE IInv'
<1>1. /\ NextRecipient /\ Note("unsent") /\ "unsent" \in Reasons
      /\ UNCHANGED <<backend, count, damaged, delivery, answer, found, taken>>
  BY DEF SendFailed, Fail, Sending, Reasons
<1>2. /\ delivery \in Mailboxes \cup {NoMailbox}
      /\ found \in Seq(Mailboxes \cup {NotFound, NoMailbox}) /\ Len(found) = at
      /\ taken \in Seq([pos : Positions, to : Mailboxes])
  BY DEF IInv, TypeOK, Place
<1>3. HasError(errors', at)
  BY <1>1, NotedIsReported
<1>4. \A i \in DOMAIN taken' : taken'[i].pos <= at
  BY <1>1 DEF IInv, Ahead
<1>5. OneMailEach'
  BY <1>1 DEF IInv, OneMailEach
<1>6. MailedWhereFound'
  <2>1. \A e \in errors' : e \in errors \/ e.why = "unsent"
    BY <1>1 DEF Note
  <2> QED
    BY <1>1, <2>1 DEF IInv, MailedWhereFound
<1> QED
  BY <1>1, <1>2, <1>3, <1>4, <1>5, <1>6, PassInv

\* The other side takes the mail, and Send returns, with or without an error.
LEMMA AcceptPassInv ==
  ASSUME IInv, stage \in Working, stage # "quit", Accept, Sent \/ SendFailed, Sending
  PROVE  IInv'
<1>1. /\ NextRecipient
      /\ errors' = errors \/ Note("unsent")
      /\ UNCHANGED <<backend, count, damaged, delivery, answer, found>>
  BY DEF Sent, SendFailed, Fail, Sending
<1>2. /\ delivery \in Mailboxes \cup {NoMailbox}
      /\ found \in Seq(Mailboxes \cup {NotFound, NoMailbox}) /\ Len(found) = at
      /\ "unsent" \in Reasons
  BY DEF IInv, TypeOK, Place, Reasons
<1>3. /\ taken' \in Seq([pos : Positions, to : Mailboxes])
      /\ HasMail(taken', at)
      /\ \A p : HasMail(taken, p) => HasMail(taken', p)
      /\ \A i \in DOMAIN taken' : taken'[i].pos <= at
      /\ OneMailEach' /\ MailedWhereFound'
  BY <1>1, AcceptMail
<1> QED
  BY <1>1, <1>2, <1>3, PassInv

\* Send returns without an error after QUIT.
LEMMA QuitPassInv ==
  ASSUME IInv, stage = "quit", Sent, UNCHANGED taken, Sending PROVE IInv'
<1>1. /\ NextRecipient /\ stage \in Working
      /\ UNCHANGED <<backend, count, damaged, delivery, answer, found, errors, taken>>
  BY WorkingStages DEF Sent, Sending
<1>2. /\ delivery \in Mailboxes \cup {NoMailbox}
      /\ found \in Seq(Mailboxes \cup {NotFound, NoMailbox}) /\ Len(found) = at
      /\ taken \in Seq([pos : Positions, to : Mailboxes]) /\ HasMail(taken, at)
  BY <1>1 DEF IInv, TypeOK, Place, InHand
<1>3. \A i \in DOMAIN taken' : taken'[i].pos <= at
  BY <1>1 DEF IInv, Ahead
<1>4. OneMailEach' /\ MailedWhereFound'
  BY <1>1 DEF IInv, OneMailEach, MailedWhereFound
<1> QED
  BY <1>1, <1>2, <1>3, <1>4, PassInv

\* The dialogue goes on to a stage before the end of the message.
LEMMA ForwardInv ==
  ASSUME IInv, stage \in DOMAIN After, stage' = After[stage],
         UNCHANGED <<at, errors, taken>>, Sending
  PROVE  IInv'
<1>1. /\ stage \in Working /\ stage # "quit" /\ stage # "end" /\ stage # "post"
      /\ stage' \in Working /\ stage' # "quit"
      /\ stage' \in Stages
  BY WorkingStages DEF After, Stages
<1>2. UNCHANGED <<backend, count, damaged, delivery, answer, found, at, errors, taken>>
  BY DEF Sending
<1>3. TypeOK'
  BY <1>1, <1>2 DEF IInv, TypeOK, Positions
<1>4. Place'
  BY <1>1, <1>2, WorkingStages DEF IInv, Place
<1>5. Behind' /\ Ahead'
  BY <1>2 DEF IInv, Behind, Ahead
<1>6. InHand'
  BY <1>1, <1>2 DEF IInv, InHand, HasMail
<1>7. OneMailEach' /\ MailedWhereFound'
  BY <1>2 DEF IInv, OneMailEach, MailedWhereFound
<1> QED
  BY <1>3, <1>4, <1>5, <1>6, <1>7 DEF IInv

\* The mail is taken, the reply is read, QUIT is next.
LEMMA EndTakenInv ==
  ASSUME IInv, stage = "end", Accept, stage' = "quit", UNCHANGED <<at, errors>>, Sending
  PROVE  IInv'
<1>1. /\ stage \in Working /\ stage' \in Working /\ stage' \in Stages
      /\ UNCHANGED <<backend, count, damaged, delivery, answer, found, at, errors>>
  BY WorkingStages DEF Sending, Stages
<1>2. /\ taken' \in Seq([pos : Positions, to : Mailboxes])
      /\ HasMail(taken', at)
      /\ \A p : HasMail(taken, p) => HasMail(taken', p)
      /\ \A i \in DOMAIN taken' : taken'[i].pos <= at
      /\ OneMailEach' /\ MailedWhereFound'
  BY <1>1, AcceptMail
<1>3. TypeOK'
  BY <1>1, <1>2 DEF IInv, TypeOK, Positions
<1>4. Place'
  BY <1>1, WorkingStages DEF IInv, Place
<1>5. Behind'
  BY <1>1, <1>2 DEF IInv, Behind, HasError
<1>6. Ahead'
  BY <1>1, <1>2 DEF IInv, Ahead
<1>7. InHand'
  BY <1>1, <1>2 DEF IInv, InHand, HasMail
<1> QED
  BY <1>2, <1>3, <1>4, <1>5, <1>6, <1>7 DEF IInv

LEMMA AnswerInv == ASSUME IInv, Answer PROVE IInv'
<1>1. /\ stage = "answer" /\ stage' = "done" /\ stage' \in Stages
      /\ answer' \in {"sent", "failed"}
      /\ answer' = "sent" => errors = {}
      /\ UNCHANGED <<backend, count, damaged, at, delivery, errors, found, taken>>
  BY DEF Answer, Stages
<1>2. TypeOK'
  BY <1>1 DEF IInv, TypeOK, Positions
<1>3. Place'
  BY <1>1, WorkingStages DEF IInv, Place
<1>4. Behind' /\ Ahead'
  BY <1>1 DEF IInv, Behind, Ahead
<1>5. InHand'
  BY <1>1, WorkingStages DEF IInv, InHand, HasMail
<1>6. OneMailEach' /\ MailedWhereFound'
  BY <1>1 DEF IInv, OneMailEach, MailedWhereFound
<1> QED
  BY <1>2, <1>3, <1>4, <1>5, <1>6 DEF IInv

LEMMA StutterInv == ASSUME IInv, UNCHANGED vars PROVE IInv'
<1> USE DEF vars
<1>1. TypeOK' /\ Place'
  BY DEF IInv, TypeOK, Place, Positions
<1>2. Behind' /\ Ahead' /\ InHand'
  BY DEF IInv, Behind, Ahead, InHand
<1>3. OneMailEach' /\ MailedWhereFound'
  BY DEF IInv, OneMailEach, MailedWhereFound
<1> QED
  BY <1>1, <1>2, <1>3 DEF IInv

LEMMA StepInv == IInv /\ [Next]_vars => IInv'
<1> SUFFICES ASSUME IInv, [Next]_vars PROVE IInv'
  OBVIOUS
<1>1. CASE Decode
  BY <1>1, DecodeInv
<1>2. CASE LookUp
  BY <1>2, LookUpInv
<1>3. CASE Converse
  <2>1. stage \in Working
    BY <1>3, WorkingStages DEF Converse
  <2> QED
    BY <1>3, <2>1, ForwardInv, SendFailedInv DEF Converse
<1>4. CASE EndTaken
  <2>1. stage \in Working /\ stage # "quit"
    BY <1>4, WorkingStages DEF EndTaken
  <2> QED
    BY <1>4, <2>1, EndTakenInv, AcceptPassInv DEF EndTaken
<1>5. CASE EndRefused
  <2>1. stage \in Working
    BY <1>5, WorkingStages DEF EndRefused
  <2> QED
    BY <1>5, <2>1, SendFailedInv DEF EndRefused
<1>6. CASE Quit
  <2>1. stage \in Working
    BY <1>6, WorkingStages DEF Quit
  <2> QED
    BY <1>6, <2>1, SendFailedInv, QuitPassInv DEF Quit
<1>7. CASE Post
  <2>1. stage \in Working /\ stage # "quit"
    BY <1>7, WorkingStages DEF Post
  <2> QED
    BY <1>7, <2>1, SendFailedInv, AcceptPassInv DEF Post
<1>8. CASE Answer
  BY <1>8, AnswerInv
<1>9. CASE Returned \/ UNCHANGED vars
  BY <1>9, StutterInv DEF Returned
<1> QED
  BY <1>1, <1>2, <1>3, <1>4, <1>5, <1>6, <1>7, <1>8, <1>9 DEF Next

\* The invariant holds in every reachable state.
THEOREM Invariance == Spec => []IInv
BY InitInv, StepInv, PTL DEF Spec

-----------------------------------------------------------------------------
(* What follows from the invariant.                                        *)

\* Every variable keeps its type, and the loop its bounds.
THEOREM TypeCorrect == Spec => []TypeOK
<1>1. IInv => TypeOK
  BY DEF IInv
<1> QED
  BY <1>1, Invariance, PTL

\* One call never mails an entry of its list twice, nor out of order.
THEOREM MailsAreSingle == Spec => []OneMailEach
<1>1. IInv => OneMailEach
  BY DEF IInv
<1> QED
  BY <1>1, Invariance, PTL

\* Every mail goes to the mailbox that was found for its own recipient.
THEOREM MailsAreAddressed == Spec => []MailedWhereFound
<1>1. IInv => MailedWhereFound
  BY DEF IInv
<1> QED
  BY <1>1, Invariance, PTL

\* Every answer about mails accounts for each recipient.
THEOREM AnswersAccountForAll == Spec => []AccountedFor
<1>1. IInv => AccountedFor
  <2> SUFFICES ASSUME IInv, answer \in {"sent", "failed"}, NEW p \in Positions
               PROVE  HasMail(taken, p) \/ (answer # "sent" /\ HasError(errors, p))
    BY DEF AccountedFor, HasMail, HasError
  <2>1. p \in 1..(at - 1)
    BY Types DEF IInv, Place
  <2>2. HasMail(taken, p) \/ HasError(errors, p)
    BY <2>1 DEF IInv, Behind
  <2>3. answer = "sent" => ~HasError(errors, p)
    BY DEF IInv, Place, HasError
  <2> QED
    BY <2>2, <2>3
<1> QED
  BY <1>1, Invariance, PTL

\* At the first position, with no dialogue going on, nothing has been mailed.
LEMMA NothingMailed ==
  ASSUME IInv, at = 1, stage # "quit", stage \notin Working
  PROVE  taken = <<>>
<1>1. /\ taken \in Seq([pos : Positions, to : Mailboxes])
      /\ Positions = 1..count /\ count \in Nat
  BY Types DEF IInv
<1>2. \A i \in DOMAIN taken : FALSE
  <2> SUFFICES ASSUME NEW i \in DOMAIN taken PROVE FALSE
    OBVIOUS
  <2>1. taken[i].pos \in Nat /\ taken[i].pos >= 1
    BY <1>1, MailsOf
  <2>2. taken[i].pos <= 1 /\ taken[i].pos # 1
    BY DEF IInv, Ahead, InHand, HasMail
  <2> QED
    BY <2>1, <2>2
<1>3. Len(taken) \in Nat /\ DOMAIN taken = 1..Len(taken)
  BY <1>1, LenProperties
<1>4. taken # <<>> => Len(taken) \in Nat \ {0}
  BY <1>1, EmptySeq
<1> QED
  BY <1>2, <1>3, <1>4

\* No mail leaves for a request that cannot be decoded, or is refused.
THEOREM BadRequestsAreHarmless == Spec => []BadRequestMailsNothing
<1>1. IInv => BadRequestMailsNothing
  <2> SUFFICES ASSUME IInv, damaged # "nothing" \/ answer = "rejected"
               PROVE  taken = <<>>
    BY DEF BadRequestMailsNothing
  <2>1. at = 1 /\ stage # "quit" /\ stage \notin Working
    BY WorkingStages DEF IInv, Place
  <2> QED
    BY <2>1, NothingMailed
<1> QED
  BY <1>1, Invariance, PTL

-----------------------------------------------------------------------------
(* The call implements Delivery.                                           *)

\* A mail taken for the position in hand is one that Delivery allows.
LEMMA AcceptIsMail ==
  ASSUME IInv, stage \in Working, stage # "quit", Accept, UNCHANGED <<count, answer>>
  PROVE  Promise!Next
<1>1. /\ TypeOK /\ at \in Nat /\ at >= 1 /\ at <= count /\ count \in Nat
      /\ taken \in Seq([pos : Positions, to : Mailboxes]) /\ Positions = 1..count
      /\ delivery \in Mailboxes /\ ~HasMail(taken, at) /\ answer = "none"
  BY Types, WorkingStages DEF IInv, Place, InHand
<1>2. \A i \in DOMAIN taken : taken[i].pos < at
  <2> SUFFICES ASSUME NEW i \in DOMAIN taken PROVE taken[i].pos < at
    OBVIOUS
  <2>1. taken[i].pos \in Nat
    BY <1>1, MailsOf
  <2>2. taken[i].pos <= at /\ taken[i].pos # at
    BY <1>1 DEF IInv, Ahead, HasMail
  <2> QED
    BY <1>1, <2>1, <2>2
<1>3. Promise!Mail(at, delivery)
  BY <1>1, <1>2 DEF Promise!Mail, Accept
<1>4. at \in 1..count
  BY <1>1
<1> QED
  BY <1>1, <1>3, <1>4 DEF Promise!Next

\* The answer about mails is one that Delivery allows.
LEMMA AnswerIsClose == ASSUME IInv, Answer PROVE Promise!Next
<1>1. /\ answer = "none" /\ answer' \in {"sent", "failed"}
      /\ answer' = "sent" => errors = {}
      /\ at = count + 1 /\ count \in Nat /\ UNCHANGED <<count, taken>>
  BY Types DEF IInv, Place, Answer
<1>2. errors = {} => \A p \in 1..count : HasMail(taken, p)
  BY <1>1 DEF IInv, Behind, HasError
<1>3. Promise!Close(answer')
  BY <1>1, <1>2 DEF Promise!Close, HasMail
<1> QED
  BY <1>1, <1>3 DEF Promise!Next

\* A refusal is one that Delivery allows: nothing has been mailed.
LEMMA RefusalIsClose ==
  ASSUME IInv, Decode PROVE Promise!Next \/ UNCHANGED Promise!deliveryVars
<1>1. /\ stage = "decode" /\ UNCHANGED <<count, taken>>
      /\ answer' = answer \/ answer' = "rejected"
  BY DEF Decode
<1>2. answer = "none" /\ at = 1
  BY <1>1 DEF IInv, Place
<1>3. taken = <<>>
  BY <1>1, <1>2, NothingMailed, WorkingStages
<1>4. CASE answer' = answer
  BY <1>1, <1>4 DEF Promise!deliveryVars
<1>5. CASE answer' = "rejected"
  <2>1. Promise!Close("rejected")
    BY <1>1, <1>2, <1>3, <1>5 DEF Promise!Close
  <2> QED
    BY <2>1 DEF Promise!Next
<1> QED
  BY <1>1, <1>4, <1>5

LEMMA StepRefines ==
  ASSUME IInv, [Next]_vars PROVE [Promise!Next]_(Promise!deliveryVars)
<1>1. CASE Decode
  BY <1>1, RefusalIsClose
<1>2. CASE LookUp \/ Converse \/ EndRefused \/ Quit \/ Returned \/ UNCHANGED vars
  <2>1. UNCHANGED <<count, taken, answer>>
    BY <1>2 DEF LookUp, Converse, EndRefused, Quit, Returned, Sending, vars
  <2> QED
    BY <2>1 DEF Promise!deliveryVars
<1>3. CASE EndTaken
  <2>1. stage \in Working /\ stage # "quit" /\ Accept /\ UNCHANGED <<count, answer>>
    BY <1>3, WorkingStages DEF EndTaken, Sending
  <2> QED
    BY <2>1, AcceptIsMail
<1>4. CASE Post
  <2>1. stage \in Working /\ stage # "quit" /\ UNCHANGED <<count, answer>>
    BY <1>4, WorkingStages DEF Post, Sending
  <2>2. Accept \/ UNCHANGED taken
    BY <1>4 DEF Post
  <2>3. CASE UNCHANGED taken
    BY <2>1, <2>3 DEF Promise!deliveryVars
  <2> QED
    BY <2>1, <2>2, <2>3, AcceptIsMail
<1>5. CASE Answer
  BY <1>5, AnswerIsClose
<1> QED
  BY <1>1, <1>2, <1>3, <1>4, <1>5 DEF Next

\* Every call implements Delivery: its mails leave in the order of the list,
\* each before the answer, a refusal follows no mail and "sent" follows all.
THEOREM RelayImplementsDelivery == Spec => DeliverySpec
<1>1. Init => Promise!Init
  BY RelayAssumption DEF Init, Promise!Init
<1> QED
  BY <1>1, Invariance, StepRefines, PTL DEF Spec, DeliverySpec, Promise!Spec

-----------------------------------------------------------------------------
(* The files of a request.                                                 *)

Tags == {"notice", "message", "payload", "meta"}
Files == [name : Tags \X Nat, content : Blobs \cup {"text"}]

LEMMA FileParts ==
  ASSUME NEW tag, NEW index, NEW content
  PROVE  /\ File(tag, index, content).name = <<tag, index>>
         /\ File(tag, index, content).name[1] = tag
         /\ File(tag, index, content).content = content
<1>1. File(tag, index, content).name = <<tag, index>>
  BY DEF File
<1>2. File(tag, index, content).content = content
  BY DEF File
<1>3. <<tag, index>>[1] = tag
  OBVIOUS
<1> QED BY <1>1, <1>2, <1>3

\* The pairs of the attachments: of the i-th, the payload stands before the
\* metadata, and both after those of the earlier ones.
LEMMA PairsInOrder ==
  ASSUME NEW atts \in Seq(Attached)
  PROVE  LET files == MIMEPairs(Numbered(atts))
         IN  /\ files \in Seq(Files) /\ Len(files) = 2 * Len(atts)
             /\ \A i \in 1..Len(atts) :
                  /\ files[2 * i - 1] = File("payload", i, atts[i].payload)
                  /\ files[2 * i] = File("meta", i, atts[i].meta)
<1> DEFINE two == [i \in 1..Len(atts) |-> <<File("payload", i, atts[i].payload),
                                           File("meta", i, atts[i].meta)>>]
<1>1. /\ DOMAIN atts = 1..Len(atts) /\ Len(atts) \in Nat
      /\ \A i \in 1..Len(atts) : atts[i] \in Attached
  BY LenProperties
<1>2. MIMEPairs(Numbered(atts)) = FlattenSeq(two)
  BY <1>1 DEF MIMEPairs, MIMEPair, Numbered
<1>3. ASSUME NEW i \in 1..Len(atts)
      PROVE  /\ File("payload", i, atts[i].payload) \in Files
             /\ File("meta", i, atts[i].meta) \in Files
  BY <1>1 DEF File, Files, Tags, Attached
<1>4. two \in Seq(Seq(Files)) /\ Len(two) = Len(atts)
  <2>1. \A i \in 1..Len(atts) : two[i] \in Seq(Files)
    BY <1>3
  <2> QED BY <1>1, <2>1
<1>5. \A i \in 1..Len(two) : /\ Len(two[i]) = 2
                             /\ two[i][1] = File("payload", i, atts[i].payload)
                             /\ two[i][2] = File("meta", i, atts[i].meta)
  BY <1>4
<1> HIDE DEF two
<1>6. FlattenSeq(two) \in Seq(Files)
  BY <1>4, FlattenType
<1>7. /\ Len(FlattenSeq(two)) = 2 * Len(two)
      /\ \A i \in 1..Len(two) : /\ FlattenSeq(two)[2 * i - 1] = two[i][1]
                                /\ FlattenSeq(two)[2 * i] = two[i][2]
  <2>1. \A i \in 1..Len(two) : Len(two[i]) = 2
    BY <1>5
  <2> QED BY <1>4, <2>1, FlattenTwos
<1> QED BY <1>2, <1>4, <1>5, <1>6, <1>7

\* The backends name an attachment's files alike.
LEMMA SamePairs == \A atts : APIPairs(atts) = MIMEPairs(atts)
BY DEF APIPairs, MIMEPairs, APIPair, MIMEPair

\* Both backends send the message and the pairs: SMTP's parts but the notice
\* are the attachments of the API call.
LEMMA SameFiles ==
  ASSUME NEW m \in Messages
  PROVE  /\ m.message \in Blobs /\ m.attachments \in Seq(Attached)
         /\ FilesSent(m) = <<File("message", 0, m.message)>> \o MIMEPairs(Numbered(m.attachments))
<1> DEFINE notice == File("notice", 0, "text")
           msg == File("message", 0, m.message)
           pairs == MIMEPairs(Numbered(m.attachments))
           rest == <<msg>> \o pairs
           parts == MIMEParts(m)
           sent == {i \in DOMAIN parts : parts[i].name[1] # "notice"}
<1>1. m.message \in Blobs /\ m.attachments \in Seq(Attached)
  BY EnvelopeAssumption DEF Messages
<1>2. /\ pairs \in Seq(Files) /\ Len(pairs) = 2 * Len(m.attachments)
      /\ \A i \in 1..Len(m.attachments) :
           /\ pairs[2 * i - 1] = File("payload", i, m.attachments[i].payload)
           /\ pairs[2 * i] = File("meta", i, m.attachments[i].meta)
  BY <1>1, PairsInOrder
<1>3. notice \in Files /\ msg \in Files
  BY <1>1 DEF File, Files, Tags
<1>4. \A i \in 1..Len(pairs) : pairs[i].name[1] # "notice"
  <2> SUFFICES ASSUME NEW i \in 1..Len(pairs) PROVE pairs[i].name[1] # "notice"
    OBVIOUS
  <2>1. Len(m.attachments) \in Nat
    BY <1>1, LenProperties
  <2> HIDE DEF pairs
  <2>2. PICK j \in 1..Len(m.attachments) : i = 2 * j - 1 \/ i = 2 * j
    <3>1. i = 2 * ((i + 1) \div 2) - 1 \/ i = 2 * ((i + 1) \div 2)
      BY <1>2, <2>1
    <3>2. (i + 1) \div 2 \in 1..Len(m.attachments)
      BY <1>2, <2>1
    <3> QED BY <3>1, <3>2
  <2>3. CASE i = 2 * j - 1
    <3>1. pairs[i] = File("payload", j, m.attachments[j].payload)
      BY <1>2, <2>3
    <3> QED BY <3>1, FileParts
  <2>4. CASE i = 2 * j
    <3>1. pairs[i] = File("meta", j, m.attachments[j].meta)
      BY <1>2, <2>4
    <3> QED BY <3>1, FileParts
  <2> QED BY <2>2, <2>3, <2>4
<1>5. rest \in Seq(Files) /\ Len(rest) = 1 + Len(pairs) /\ rest[1] = msg
      /\ \A i \in 1..Len(pairs) : rest[i + 1] = pairs[i]
  <2> DEFINE one == <<msg>>
  <2>1. one \in Seq(Files) /\ Len(one) = 1 /\ one[1] = msg
    BY <1>3
  <2>2. Len(pairs) \in Nat
    BY <1>2, LenProperties
  <2>3. rest = one \o pairs
    OBVIOUS
  <2> HIDE DEF msg, pairs, one, rest
  <2>4. /\ rest \in Seq(Files) /\ Len(rest) = Len(one) + Len(pairs)
        /\ \A i \in 1..Len(one) + Len(pairs) :
             rest[i] = IF i <= Len(one) THEN one[i] ELSE pairs[i - Len(one)]
    BY <1>2, <2>1, <2>3, ConcatProperties
  <2>5. ASSUME NEW i \in 1..Len(pairs) PROVE rest[i + 1] = pairs[i]
    <3>1. /\ i + 1 \in 1..Len(one) + Len(pairs) /\ ~(i + 1 <= Len(one))
          /\ (i + 1) - Len(one) = i
      BY <2>1, <2>2
    <3> QED BY <2>4, <3>1
  <2>6. rest[1] = msg
    <3>1. 1 \in 1..Len(one) + Len(pairs) /\ 1 <= Len(one)
      BY <2>1, <2>2
    <3> QED BY <2>1, <2>4, <3>1
  <2> QED BY <2>1, <2>4, <2>5, <2>6
<1>6. \A i \in 1..Len(rest) : rest[i].name[1] # "notice"
  <2>1. msg.name[1] = "message"
    BY DEF File
  <2> HIDE DEF msg, pairs, rest
  <2>2. Len(pairs) \in Nat
    BY <1>2, LenProperties
  <2> SUFFICES ASSUME NEW i \in 1..Len(rest) PROVE rest[i].name[1] # "notice"
    OBVIOUS
  <2>3. CASE i = 1
    BY <2>1, <2>3, <1>5
  <2>4. CASE i # 1
    <3>1. i - 1 \in 1..Len(pairs) /\ (i - 1) + 1 = i
      BY <2>2, <2>4, <1>5
    <3>2. rest[i] = pairs[i - 1]
      BY <3>1, <1>5
    <3> QED BY <3>1, <3>2, <1>4
  <2> QED BY <2>3, <2>4
<1>7. parts = <<notice>> \o rest
  <2>1. parts = (<<notice>> \o <<msg>>) \o pairs
    BY DEF MIMEParts, MessageFile
  <2>2. <<notice>> \in Seq(Files) /\ <<msg>> \in Seq(Files)
    BY <1>3
  <2> HIDE DEF notice, msg, pairs
  <2> QED BY <1>2, <2>1, <2>2, ConcatAssociative
<1>8. Keep(parts, sent) = rest
  <2>1. <<notice>> \in Seq(Files) /\ Len(<<notice>>) = 1 /\ <<notice>>[1] = notice
    BY <1>3
  <2>2. notice.name[1] = "notice"
    BY DEF File
  <2> HIDE DEF notice, rest
  <2> DEFINE R == {j \in Nat : Len(<<notice>>) + j \in sent}
  <2>3. /\ Len(rest) \in Nat /\ DOMAIN rest = 1..Len(rest)
        /\ parts \in Seq(Files) /\ Len(parts) = 1 + Len(rest) /\ DOMAIN parts = 1..(1 + Len(rest))
        /\ parts[1] = notice /\ \A i \in 1..Len(rest) : parts[1 + i] = rest[i]
    <3>1. Len(rest) \in Nat /\ DOMAIN rest = 1..Len(rest)
      BY <1>5, LenProperties
    <3>2. parts \in Seq(Files) /\ Len(parts) = 1 + Len(rest)
      BY <1>5, <1>7, <2>1, ConcatProperties
    <3>3. \A i \in 1..(1 + Len(rest)) :
            parts[i] = IF i <= 1 THEN <<notice>>[i] ELSE rest[i - 1]
      BY <1>5, <1>7, <2>1, ConcatProperties
    <3>4. DOMAIN parts = 1..(1 + Len(rest))
      BY <3>2, LenProperties
    <3> HIDE DEF parts
    <3>5. parts[1] = notice
      BY <3>1, <3>3, <2>1
    <3>6. ASSUME NEW i \in 1..Len(rest) PROVE parts[1 + i] = rest[i]
      <4>1. 1 + i \in 1..(1 + Len(rest)) /\ ~(1 + i <= 1) /\ (1 + i) - 1 = i
        BY <3>1
      <4> QED BY <3>3, <4>1
    <3> QED BY <3>1, <3>2, <3>4, <3>5, <3>6
  <2>4. Keep(parts, sent) = Keep(<<notice>>, sent) \o Keep(rest, R)
    <3> DEFINE one == <<notice>>
    <3>1. one \in Seq(Files) /\ rest \in Seq(Files) /\ parts = one \o rest
      BY <1>5, <1>7, <2>1
    <3> HIDE DEF sent, one, parts
    <3>2. \A j \in 1..Len(rest) : j \in R <=> Len(one) + j \in sent
      BY DEF one
    <3> HIDE DEF R
    <3>3. Keep(one \o rest, sent) = Keep(one, sent) \o Keep(rest, R)
      BY <3>1, <3>2, KeepConcat
    <3> QED BY <3>1, <3>3 DEF one
  <2> HIDE DEF parts
  <2>5. Keep(<<notice>>, sent) = <<>>
    <3>1. sent \cap DOMAIN <<notice>> = {}
      BY <2>1, <2>2, <2>3
    <3> HIDE DEF sent
    <3> QED BY <2>1, <3>1, KeepNothing
  <2>6. DOMAIN rest \subseteq R
    BY <1>6, <2>1, <2>3
  <2>7. Keep(rest, R) = rest
    <3> HIDE DEF R
    <3> QED BY <1>5, <2>6, KeepAll
  <2> QED BY <1>5, <2>4, <2>5, <2>7, ConcatEmptySeq
<1>9. APIAttachments(m) = rest
  BY SamePairs DEF APIAttachments, MessageFile
<1>10. FilesSent(m) = rest
  BY <1>8, <1>9 DEF FilesSent
<1> QED BY <1>1, <1>10

\* The contents of the files of one name.
ContentOf(files, name) ==
  {files[i].content : i \in {j \in DOMAIN files : files[j].name = name}}

LEMMA FilesByName ==
  ASSUME NEW m \in Messages
  PROVE  LET files == FilesSent(m)
         IN  /\ Len(files) = 1 + 2 * Len(m.attachments)
             /\ ContentOf(files, <<"message", 0>>) = {m.message}
             /\ \A i \in DOMAIN m.attachments :
                  /\ ContentOf(files, <<"payload", i>>) = {m.attachments[i].payload}
                  /\ ContentOf(files, <<"meta", i>>) = {m.attachments[i].meta}
<1> DEFINE msg == File("message", 0, m.message)
           atts == m.attachments
           n == Len(atts)
           pairs == MIMEPairs(Numbered(atts))
           files == <<msg>> \o pairs
<1>1. atts \in Seq(Attached) /\ FilesSent(m) = files
  BY SameFiles
<1>2. m.message \in Blobs /\ n \in Nat /\ DOMAIN atts = 1..n
  BY <1>1, SameFiles, LenProperties
<1>3. /\ pairs \in Seq(Files) /\ Len(pairs) = 2 * n
      /\ \A i \in 1..n : /\ pairs[2 * i - 1] = File("payload", i, atts[i].payload)
                         /\ pairs[2 * i] = File("meta", i, atts[i].meta)
  BY <1>1, PairsInOrder
<1>4. <<msg>> \in Seq(Files) /\ Len(<<msg>>) = 1 /\ <<msg>>[1] = msg
  BY <1>2 DEF File, Files, Tags
<1> HIDE DEF atts, pairs
<1>5. /\ files \in Seq(Files) /\ Len(files) = 1 + 2 * n
      /\ \A i \in 1..(1 + 2 * n) : files[i] = IF i <= 1 THEN <<msg>>[i] ELSE pairs[i - 1]
  <2> DEFINE one == <<msg>>
  <2>1. one \in Seq(Files) /\ Len(one) = 1
    BY <1>4
  <2> HIDE DEF one
  <2>2. /\ one \o pairs \in Seq(Files) /\ Len(one \o pairs) = Len(one) + Len(pairs)
        /\ \A i \in 1..Len(one) + Len(pairs) :
             (one \o pairs)[i] = IF i <= Len(one) THEN one[i] ELSE pairs[i - Len(one)]
    BY <1>3, <2>1, ConcatProperties
  <2>3. files = one \o pairs
    BY DEF one
  <2> HIDE DEF files
  <2>4. \A i \in 1..(1 + 2 * n) : files[i] = IF i <= 1 THEN one[i] ELSE pairs[i - 1]
    BY <1>3, <2>1, <2>2, <2>3
  <2> QED BY <1>3, <2>1, <2>2, <2>3, <2>4 DEF one
<1>6. DOMAIN files = 1..(1 + 2 * n)
  BY <1>5, LenProperties
<1> HIDE DEF files, n
<1>7. files[1] = msg
  BY <1>2, <1>4, <1>5
<1>8. ASSUME NEW i \in 1..n
      PROVE  /\ 2 * i \in DOMAIN files /\ 2 * i + 1 \in DOMAIN files
             /\ files[2 * i] = File("payload", i, atts[i].payload)
             /\ files[2 * i + 1] = File("meta", i, atts[i].meta)
  <2>1. /\ 2 * i \in 1..(1 + 2 * n) /\ ~(2 * i <= 1)
        /\ 2 * i + 1 \in 1..(1 + 2 * n) /\ ~(2 * i + 1 <= 1) /\ (2 * i + 1) - 1 = 2 * i
    BY <1>2
  <2>2. files[2 * i] = pairs[2 * i - 1] /\ files[2 * i + 1] = pairs[(2 * i + 1) - 1]
    BY <1>5, <2>1
  <2>3. files[2 * i + 1] = pairs[2 * i]
    BY <2>1, <2>2
  <2> QED BY <1>3, <1>6, <2>1, <2>2, <2>3
<1>9. ASSUME NEW j \in DOMAIN files
      PROVE  j = 1 \/ \E i \in 1..n : j = 2 * i \/ j = 2 * i + 1
  <2>1. j = 1 \/ (j \div 2 \in 1..n /\ (j = 2 * (j \div 2) \/ j = 2 * (j \div 2) + 1))
    BY <1>2, <1>6
  <2> QED BY <2>1
<1>10. ASSUME NEW j \in DOMAIN files
       PROVE  \/ j = 1 /\ files[j].name = <<"message", 0>>
              \/ \E i \in 1..n : \/ j = 2 * i /\ files[j].name = <<"payload", i>>
                                 \/ j = 2 * i + 1 /\ files[j].name = <<"meta", i>>
  BY <1>7, <1>8, <1>9, FileParts
<1>11. 1 \in DOMAIN files /\ files[1].name = <<"message", 0>> /\ files[1].content = m.message
  BY <1>2, <1>6, <1>7, FileParts
<1>12. ASSUME NEW i \in 1..n
       PROVE  /\ 2 * i \in DOMAIN files /\ 2 * i + 1 \in DOMAIN files
              /\ files[2 * i].name = <<"payload", i>> /\ files[2 * i].content = atts[i].payload
              /\ files[2 * i + 1].name = <<"meta", i>> /\ files[2 * i + 1].content = atts[i].meta
  BY <1>8, FileParts
<1>13. ContentOf(files, <<"message", 0>>) = {m.message}
  <2>1. \A j \in DOMAIN files : files[j].name = <<"message", 0>> => j = 1
    BY <1>10
  <2> QED BY <1>11, <2>1 DEF ContentOf
<1>14. ASSUME NEW i \in 1..n PROVE ContentOf(files, <<"payload", i>>) = {atts[i].payload}
  <2>1. \A j \in DOMAIN files : files[j].name = <<"payload", i>> => j = 2 * i
    BY <1>10
  <2> QED BY <1>12, <2>1 DEF ContentOf
<1>15. ASSUME NEW i \in 1..n PROVE ContentOf(files, <<"meta", i>>) = {atts[i].meta}
  <2>1. \A j \in DOMAIN files : files[j].name = <<"meta", i>> => j = 2 * i + 1
    BY <1>10
  <2> QED BY <1>12, <2>1 DEF ContentOf
<1> QED BY <1>1, <1>2, <1>5, <1>13, <1>14, <1>15 DEF atts, n

LEMMA FilesHold == FilesAreTheRequest
BY FilesByName DEF FilesAreTheRequest, ContentOf

\* Whichever backend a server is set up for, a mail holds the message and each
\* attachment's own payload and metadata under its own number (api/send.go:76-106,
\* mail/mime.go and mail/cloudflare.go).
THEOREM MailHoldsRequest == Spec => []FilesAreTheRequest
BY FilesHold, PTL

-----------------------------------------------------------------------------
(* The lines of a text.                                                    *)

\* writeBase64 cuts a text into pieces of LineWidth characters.
LEMMA LinesArePieces ==
  ASSUME NEW T, NEW text \in Seq(T)
  PROVE  LinesOf(text) = [k \in 1..PieceCount(text, LineWidth) |-> Piece(text, LineWidth, k)]
<1>1. Len(text) \in Nat /\ LineWidth \in Nat \ {0}
  BY EnvelopeAssumption, LenProperties
<1>2. ASSUME NEW k \in 1..PieceCount(text, LineWidth)
      PROVE  LineEnd((k - 1) * LineWidth + 1, text) = PieceEnd(text, LineWidth, k)
  <2>1. (k - 1) * LineWidth + 1 + LineWidth - 1 = k * LineWidth /\ k * LineWidth \in Int
    BY <1>1
  <2>2. LineEnd((k - 1) * LineWidth + 1, text) =
          IF k * LineWidth > Len(text) THEN Len(text) ELSE k * LineWidth
    BY <2>1 DEF LineEnd
  <2> QED BY <1>1, <2>1, <2>2 DEF PieceEnd
<1> QED BY <1>2 DEF LinesOf, Piece, PieceCount

LEMMA LinesHold == LinesAreTheText
<1> SUFFICES ASSUME NEW n \in 0..MaxText
             PROVE  LET text == [i \in 1..n |-> i]
                    IN  /\ FlattenSeq(LinesOf(text)) = text
                        /\ \A k \in DOMAIN LinesOf(text) : Len(LinesOf(text)[k]) \in 1..LineWidth
  BY DEF LinesAreTheText
<1> DEFINE text == [i \in 1..n |-> i]
<1>1. text \in Seq(Nat) /\ LineWidth \in Nat \ {0}
  BY EnvelopeAssumption
<1> HIDE DEF text
<1>2. LinesOf(text) = [k \in 1..PieceCount(text, LineWidth) |-> Piece(text, LineWidth, k)]
  BY <1>1, LinesArePieces
<1>3. FlattenSeq(LinesOf(text)) = text
  BY <1>1, <1>2, PiecesAreWhole
<1>4. \A k \in DOMAIN LinesOf(text) : Len(LinesOf(text)[k]) \in 1..LineWidth
  BY <1>1, <1>2, PieceType
<1> QED BY <1>3, <1>4 DEF text

\* The lines of an encoded text of any length are that text, and none of them
\* is too long or empty (writeBase64, mail/mime.go).
THEOREM LinesAreWhole == Spec => []LinesAreTheText
BY LinesHold, PTL
=============================================================================
