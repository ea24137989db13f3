CONSTANTS
  Backends = {"smtp", "cloudflare"}
  m1 = m1
  m2 = m2
  Mailboxes <- AllMailboxes
  NotFound = NotFound
  NoMailbox = NoMailbox
  MaxRecipients = 3
  Blobs = {x, y}
  MaxAttachments = 3
  LineWidth = 3
  MaxText = 10
SYMMETRY AnyMailbox
SPECIFICATION Spec
INVARIANTS TypeOK AccountedFor MailedWhereFound BadRequestMailsNothing
           FilesAreTheRequest LinesAreTheText
PROPERTY DeliverySpec
