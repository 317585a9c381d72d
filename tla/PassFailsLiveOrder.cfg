SPECIFICATION Spec
CONSTANTS
  o1 = o1
  Orders <- OneOrder
  Intent <- OneIntent
  Trades = {t1, t2}
  Submitters = {s1}
  Cancellers = {}
  Reconcilers = {r1}
  Tasks <- AllTasks
  ViewCarriesFills = TRUE
  None = None
INVARIANT FailedNeverPlaced
SYMMETRY TradeSymmetry
