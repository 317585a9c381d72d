SPECIFICATION Spec
CONSTANTS
  o1 = o1
  Orders <- OneOrder
  Intent <- OneIntent
  Trades = {t1, t2}
  Submitters = {s1, s2}
  Cancellers = {c1, c2}
  Reconcilers = {r1}
  Tasks <- AllTasks
  ViewCarriesFills = TRUE
  None = None
INVARIANT TypeOK
INVARIANT AtMostOnceSent
INVARIANT FillsBookedOnce
INVARIANT InFlightIsMarked
INVARIANT FinalIsVenueTruth
INVARIANT FilledHasItsFills
PROPERTY LedgerSpec
SYMMETRY TaskSymmetry
