------------------------------ MODULE Records -------------------------------
(***************************************************************************)
(* The text under module Lookup: how a well-known file and a TXT record    *)
(* set become records (ParseRecord, ParseRecordsAndFailures, unescapeTXT,  *)
(* DNSLookup's loop and HTTPSLookup's size limit, in internal/lookup).     *)
(*                                                                         *)
(* Text is a sequence of bytes.  The properties say that module Lookup is  *)
(* right to speak of lines that are records or malformed: this is what the *)
(* code reads, however the text was cut into strings on its way.           *)
(***************************************************************************)
EXTENDS Lookup, Integers, FiniteSetsExt

CONSTANTS
  Spelling,   \* of names, mailboxes, NoMailbox and keys: their bytes
  KeyPrefix,  \* what a key must start with: "age1"
  ChunkSize   \* the longest string in a TXT record: 255 bytes

Newline == 10
Space == 32
Quote == 34
Hash == 35
Semicolon == 59
Backslash == 92
Digits == 48..57

Blanks == {Space, Newline}
Bytes == 0..255
Text == Seq(Bytes)

\* What a field can hold after ParseRecord has trimmed it.
IsField(s) == /\ s # <<>> /\ s[1] \notin Blanks /\ s[Len(s)] \notin Blanks
              /\ Newline \notin ToSet(s)

ASSUME RecordsAssumption ==
  /\ Spelling \in [Names \cup Mailboxes \cup {NoMailbox} \cup Keys -> Text]
  /\ KeyPrefix \in Text \ {<<>>}
  /\ ChunkSize \in Nat \ {0}
  /\ Spelling[NoMailbox] = <<>>
  /\ \A f \in Names \cup Mailboxes \cup Keys : IsField(Spelling[f])
  /\ \A f \in Names \cup Mailboxes : Semicolon \notin ToSet(Spelling[f])
  /\ \A name \in Names : Spelling[name][1] # Hash
  /\ \A key \in Keys : IsPrefix(KeyPrefix, Spelling[key])

-----------------------------------------------------------------------------
(* Reading.                                                                *)

Cut(s, i, j) == SubSeq(s, i, j)

\* strings.TrimSpace. (Its other blanks, tab and return, are left out.)
Trimmed(s) ==
  LET dark == {i \in DOMAIN s : s[i] \notin Blanks}
  IN  IF dark = {} THEN <<>> ELSE Cut(s, Min(dark), Max(dark))

\* The parts of s between some of its positions.
Ends(s, seps) == <<0>> \o seps \o <<Len(s) + 1>>
Between(s, seps) ==
  [k \in 1..(Len(seps) + 1) |-> Cut(s, Ends(s, seps)[k] + 1, Ends(s, seps)[k + 1] - 1)]

\* strings.Split; and strings.SplitN: at most n parts, the last one whole.
Split(s, sep) == Between(s, Places(s, sep))
SplitN(s, sep, n) ==
  LET seps == Places(s, sep)
  IN  Between(s, IF Len(seps) < n THEN seps ELSE Cut(seps, 1, n - 1))

\* (Wrong: the delivery field may be left out.)
TwoFieldsWillDo(line) ==
  LET fields == SplitN(line, Semicolon, 3)
      all == IF Len(fields) = 2 THEN <<fields[1], <<>>, fields[2]>> ELSE fields
  IN  [k \in DOMAIN all |-> Trimmed(all[k])]

\* The fields of a line, trimmed.
Fields(line) == LET fields == SplitN(line, Semicolon, 3)
                IN  [k \in DOMAIN fields |-> Trimmed(fields[k])]

\* ParseRecord, of a line that is neither empty nor a comment.
IsRecord(line) == LET f == Fields(line)
                  IN  /\ Len(f) = 3
                      /\ f[1] # <<>>
                      /\ f[3] # <<>> /\ IsPrefix(KeyPrefix, f[3])

\* ParseRecordsAndFailures.
TextLines(text) ==
  LET parts == Split(text, Newline)
      all   == [k \in DOMAIN parts |-> Trimmed(parts[k])]
  IN  Keep(all, {k \in DOMAIN all : all[k] # <<>> /\ Head(all[k]) # Hash})

RecordsIn(text) ==
  LET lines == TextLines(text)
      good  == Keep(lines, {k \in DOMAIN lines : IsRecord(lines[k])})
  IN  [k \in DOMAIN good |-> Fields(good[k])]
FailuresIn(text) ==
  LET lines == TextLines(text)
  IN  Keep(lines, {k \in DOMAIN lines : ~IsRecord(lines[k])})

\* What \DDD at position i stands for, and whether it is there.
CodeAt(s, i) == 100 * (s[i + 1] - 48) + 10 * (s[i + 2] - 48) + (s[i + 3] - 48)
IsCode(s, i) == /\ s[i] = Backslash /\ i + 3 <= Len(s)
                /\ \A k \in 1..3 : s[i + k] \in Digits
                /\ CodeAt(s, i) <= 255
IsEscape(s, i) == s[i] = Backslash /\ i < Len(s) /\ s[i + 1] \in {Backslash, Quote}

\* unescapeTXT: \DDD, \\ and \"; anything else stands for itself.
Unescape(s) ==
  LET from[i \in 1..(Len(s) + 1)] ==
        IF i > Len(s) THEN <<>>
        ELSE IF IsCode(s, i) THEN <<CodeAt(s, i)>> \o from[i + 4]
        ELSE IF IsEscape(s, i) THEN <<s[i + 1]>> \o from[i + 2]
        ELSE <<s[i]>> \o from[i + 1]
  IN  from[1]

\* (Wrong: each string is undone, and so is what they make together.)
UnescapeTwice(strings) ==
  Unescape(FlattenSeq([k \in DOMAIN strings |-> Unescape(strings[k])]))

\* The text of one TXT record from its strings.
Joined(strings) == Unescape(FlattenSeq(strings))

\* io.LimitReader: what is read of a file.
Limited(text, limit) == Cut(text, 1, IF limit < Len(text) THEN limit ELSE Len(text))

-----------------------------------------------------------------------------
(* Publishing: how the domain's server and the DNS library present it.     *)

\* A record line, and a malformed one: a match and nothing more.
Written(line) ==
  IF line.kind = "record"
    THEN Spelling[line.match] \o <<Semicolon>> \o Spelling[line.delivery]
           \o <<Semicolon, Space>> \o Spelling[line.key]
    ELSE Spelling[line.intended] \o <<Semicolon>>

AsFile(lines) ==
  <<Hash, Newline>> \o FlattenSeq([k \in DOMAIN lines |-> Written(lines[k]) \o <<Newline>>])

\* The presentation form of miekg/dns.
EscapedByte(b) == IF b \in {Backslash, Quote} THEN <<Backslash, b>>
                  ELSE IF b \in 32..126 THEN <<b>>
                  ELSE <<Backslash, 48 + (b \div 100), 48 + ((b \div 10) % 10), 48 + (b % 10)>>

\* A TXT record: strings of at most ChunkSize bytes, each escaped.
AsStrings(text) ==
  [k \in 1..((Len(text) + ChunkSize - 1) \div ChunkSize) |->
     LET piece == Cut(text, (k - 1) * ChunkSize + 1,
                      IF k * ChunkSize < Len(text) THEN k * ChunkSize ELSE Len(text))
     IN  FlattenSeq([i \in DOMAIN piece |-> EscapedByte(piece[i])])]

\* A zone: all lines bundled in one TXT record, or one record for each line.
Zones(lines) == {<<AsStrings(AsFile(lines))>>,
                 [k \in DOMAIN lines |-> AsStrings(Written(lines[k]))]}

\* DNSLookup's loop over the answer.
RecordsOfZone(zone)  == FlattenSeq([k \in DOMAIN zone |-> RecordsIn(Joined(zone[k]))])
FailuresOfZone(zone) == FlattenSeq([k \in DOMAIN zone |-> FailuresIn(Joined(zone[k]))])

-----------------------------------------------------------------------------
Spelled(records) == [k \in DOMAIN records |-> <<Spelling[records[k].match],
                                                Spelling[records[k].delivery],
                                                Spelling[records[k].key]>>]

\* "TXT records may be split into 255-byte strings ... A single TXT may also
\* bundle multiple age records": every way to publish some lines, in a file, in
\* one TXT record or in several, reads as the same records and failures.
PublishedIsRead ==
  stage = "https" =>
    \A lines \in Published :
      /\ RecordsIn(AsFile(lines)) = Spelled(Valid(lines))
      /\ Len(FailuresIn(AsFile(lines))) = Len(Failures(lines))
      /\ \A zone \in Zones(lines) :
           /\ RecordsOfZone(zone) = Spelled(Valid(lines))
           /\ Len(FailuresOfZone(zone)) = Len(Failures(lines))

\* A file that is cut off at the size limit loses its end, and may lose the end
\* of one key, which the code then takes for a key; but no record gets another
\* match or mailbox, and no record before the last is touched.
OnlyTheEndIsLost ==
  stage = "https" =>
    \A lines \in Published : \A limit \in 0..Len(AsFile(lines)) :
      LET whole == RecordsIn(AsFile(lines))
          read  == RecordsIn(Limited(AsFile(lines), limit))
      IN  /\ Len(read) <= Len(whole)
          /\ \A k \in DOMAIN read :
               \/ read[k] = whole[k]
               \/ /\ k = Len(read)
                  /\ read[k][1] = whole[k][1] /\ read[k][2] = whole[k][2]
                  /\ IsPrefix(read[k][3], whole[k][3])
=============================================================================
