SPECIFICATION Spec
CONSTANTS
  Server = s
  Processes = {s, c1}
  Files = {"keypair", "onboarding"}
  Keys = {k1, k2, k3, k4}
  None = None
  U64 = 2000000000
  InfoLists <- MCInfoLists
  Replies <- MCReplies
  Height <- MCHeight
SYMMETRY MCSymmetry
INVARIANTS
  HeldIsSaved
  InfoConsistent
  TxnPriced
PROPERTIES
  TornFileStays
