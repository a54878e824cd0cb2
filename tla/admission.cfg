SPECIFICATION Spec
SYMMETRY MCSymmetry
CONSTANTS
  i1 = i1
  i2 = i2
  s1 = s1
  k1 = k1
  k2 = k2
  first = first
  resent = resent
  loose = loose
  strict = strict
  h1 = h1
  h2 = h2
  NoRow = NoRow
  Payloads = {first, resent}
  Ids = {i1, i2}
  Signals = {s1}
  Keys = {k1, k2}
  IdOf <- MCIdOf
  SignalOf <- MCSignalOf
  ExpiresAt <- MCExpiresAt
  Requests <- MCRequests
  Starts <- MCStarts
  Policies = {loose, strict}
  Approves <- MCApproves
  Ttl = 2
  Handlers = {h1, h2}
  MaxTime = 2
  MaxSwitches = 1
  PageLimits = {2}
INVARIANTS TypeOK CopyFollowsJournal AdmittedOnce AnswersAreDurable JournalRebuildsRows
PROPERTY ImplementsContract
