SPECIFICATION FairSpec
CONSTANTS
  o1 = o1
  Orders <- OneOrder
  Intent <- OneIntent
  Trades = {t1, t2}
  Submitters = {s1}
  Cancellers = {c1}
  Reconcilers = {r1}
  Tasks <- AllTasks
  ViewCarriesFills = FALSE
  None = None
PROPERTY UnknownIsResolved
