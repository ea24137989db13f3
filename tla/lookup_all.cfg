CONSTANTS
  user = user
  typo = typo
  domain = domain
  box = box
  classic = classic
  old = old
  pq = pq
  Names = {user, typo, domain}
  FullNames = {user, typo}
  LocalPart <- MCLocal
  DomainName <- MCDomain
  Mailboxes = {box}
  NoMailbox = NoMailbox
  Keys = {classic, old, pq}
  PQKeys = {pq}
  MaxLines = 2
  Spelling <- MCSpelling
  KeyPrefix <- MCPrefix
  ChunkSize = 5
SPECIFICATION Spec
INVARIANTS TypeOK AnswerIsExplicit PQPreferred WarnedOfBoth PublishedIsRead OnlyTheEndIsLost
