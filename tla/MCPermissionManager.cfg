CONSTANTS
  t1 = t1
  t2 = t2
  Threads = {t1, t2}
  Requests <- MCRequests
  KindOf <- MCKindOf
  UserConfig <- MCUserConfig
  MaxApprovals = 1
  MaxChanges = 2
SPECIFICATION Spec
SYMMETRY MCSymmetry
INVARIANTS
  ConfirmationsSpentOnce
  ConsentDiesWithItsPolicy
  HighRiskNeedsConsent
  PolicyUnderCeiling
