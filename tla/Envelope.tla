------------------------------ MODULE Envelope ------------------------------
(***************************************************************************)
(* What is in a mail: the request's attachments as the send handler        *)
(* numbers them (api/send.go), and the files each backend makes of them    *)
(* (AssembleMIME and writeBase64 in internal/mail, or the list of          *)
(* attachments of CloudflareService.Send).                                 *)
(*                                                                         *)
(* A file name is a tag and a number; "attachment-%03d" is injective.      *)
(* Headers, the notice's wording and base64 itself are left out, but not   *)
(* that base64 text is cut into lines.                                     *)
(***************************************************************************)
EXTENDS Relay, Lists

CONSTANTS
  Blobs,          \* encrypted contents
  MaxAttachments, \* bound on the attachments of a request
  LineWidth,      \* characters of base64 on a line: 76
  MaxText         \* bound on the length of a base64 text

ASSUME EnvelopeAssumption == /\ MaxAttachments \in Nat /\ MaxText \in Nat
                             /\ LineWidth \in Nat \ {0}

Attached == [payload : Blobs, meta : Blobs]
Messages == [message : Blobs,
             attachments : UNION {[1..n -> Attached] : n \in 0..MaxAttachments}]

\* The handler's loop: Index is i + 1 of Go's i.
Numbered(atts) ==
  [i \in DOMAIN atts |-> [payload |-> atts[i].payload, meta |-> atts[i].meta, index |-> i]]

File(tag, index, content) == [name |-> <<tag, index>>, content |-> content]

\* The two files of an attachment, named by the one backend and by the other.
MIMEPair(att) == <<File("payload", att.index, att.payload), File("meta", att.index, att.meta)>>

\* (Wrong: the suffixes are swapped.)
SwappedPair(att) == <<File("meta", att.index, att.payload), File("payload", att.index, att.meta)>>

APIPair(att) == <<File("payload", att.index, att.payload), File("meta", att.index, att.meta)>>

\* The pairs of all attachments, in the order of the request.
MIMEPairs(atts) == FlattenSeq([i \in DOMAIN atts |-> MIMEPair(atts[i])])
APIPairs(atts)  == FlattenSeq([i \in DOMAIN atts |-> APIPair(atts[i])])

MessageFile(m) == <<File("message", 0, m.message)>>

\* AssembleMIME: a notice, the message, the attachments.
MIMEParts(m) == <<File("notice", 0, "text")>> \o MessageFile(m) \o MIMEPairs(Numbered(m.attachments))

\* CloudflareService.Send: the notice is the text of the mail, not a part.
APIAttachments(m) == MessageFile(m) \o APIPairs(Numbered(m.attachments))

FilesSent(m) ==
  LET parts == MIMEParts(m)
  IN  IF backend = "smtp"
        THEN Keep(parts, {i \in DOMAIN parts : parts[i].name[1] # "notice"})
        ELSE APIAttachments(m)

\* (Wrong: the end of a line is taken for its last character.)
EndsEarly(i, text) == IF i + LineWidth - 1 > Len(text) THEN Len(text) ELSE i + LineWidth - 2

\* The last character of the line that starts at i.
LineEnd(i, text) == IF i + LineWidth - 1 > Len(text) THEN Len(text) ELSE i + LineWidth - 1

\* writeBase64: the lines of an encoded text.
LinesOf(text) ==
  [k \in 1..((Len(text) + LineWidth - 1) \div LineWidth) |->
     LET first == (k - 1) * LineWidth + 1 IN SubSeq(text, first, LineEnd(first, text))]

-----------------------------------------------------------------------------
\* Whichever backend a server is set up for, the mail holds the message and,
\* under the number of each attachment, its own payload and its own metadata,
\* each under a name of its own: no file can be opened with another's metadata.
FilesAreTheRequest ==
  stage = "decode" =>
    \A m \in Messages :
      LET files  == FilesSent(m)
          Of(name) == {files[i].content : i \in {j \in DOMAIN files : files[j].name = name}}
      IN  /\ Len(files) = 1 + 2 * Len(m.attachments)
          /\ Of(<<"message", 0>>) = {m.message}
          /\ \A i \in DOMAIN m.attachments :
               /\ Of(<<"payload", i>>) = {m.attachments[i].payload}
               /\ Of(<<"meta", i>>) = {m.attachments[i].meta}

\* An encoded text of any length, also a multiple of the width and none at all,
\* comes back whole from its lines, of which none is too long, and none empty.
LinesAreTheText ==
  stage = "decode" =>
    \A n \in 0..MaxText :
      LET text  == [i \in 1..n |-> i]
          lines == LinesOf(text)
      IN  /\ FlattenSeq(lines) = text
          /\ \A k \in DOMAIN lines : Len(lines[k]) \in 1..LineWidth
=============================================================================
