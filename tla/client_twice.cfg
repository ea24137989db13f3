CONSTANTS
  a1 = a1
  a2 = a2
  Addresses = {a1, a2}
  NoAddress = NoAddress
  Trusts = {"https"}
  NoText = NoText
  Texts = {NoText, hello}
  Files = {f}
  DeepLinks <- NoLink
  MaxLookups = 2
  MaxSends = 2
  MaxFiles = 1
SPECIFICATION Spec
INVARIANTS OverlapIsUpdated RecordUnlessEdited
