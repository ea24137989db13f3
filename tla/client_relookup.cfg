CONSTANTS
  a1 = a1
  a2 = a2
  Addresses = {a1, a2}
  NoAddress = NoAddress
  Trusts = {"https", "dns"}
  NoText = NoText
  Texts = {NoText, hello}
  Files = {f}
  DeepLinks <- Links
  MaxLookups = 3
  MaxSends = 1
  MaxFiles = 1
SPECIFICATION Spec
INVARIANT EnabledMeansFound
