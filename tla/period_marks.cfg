SPECIFICATION Spec
CONSTANTS
  monthly = monthly
  quarterly = quarterly
  Users = {u1}
  Plans = {monthly}
  Months <- MCMonths
  Quota <- MCQuota
  Workers = {w1, w2}
  Slack = 5
  Instants <- Months3
  Volume = 2
  None = None
SYMMETRY Symmetry
INVARIANTS CycleBilled PaidUp
