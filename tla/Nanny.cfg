CONSTANTS
  Desc = {d1, d2}
  Names = {n1, n2}
  Pwds = {p1}
  None = None
  Guest = n2
  MaxCount = 4
  MaxCorpses = 1
  GhostsAnyTime = FALSE
SPECIFICATION FairSpec
INVARIANTS
  UniqueName
  OneBody
PROPERTIES
  NewcomerApproved
  ImplementsSession
  ApprovalEnds
