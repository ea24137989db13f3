CONSTANTS
  a1 = a1
  a2 = a2
  Addresses = {a1, a2}
  NoAddress = NoAddress
  Trusts = {"https", "dns"}
  NoText = NoText
  Texts = {NoText, hello}
  Files = {f}
  DeepLinks <- Links
  MaxLookups = 2
  MaxSends = 1
  MaxFiles = 1
SPECIFICATION Spec
INVARIANTS TypeOK ButtonTellsTruth ListedOrStray FoundOrStray
PROPERTY DnsWarned LoadingEnds SendEnds
