SPECIFICATION FairSpec
CONSTANTS
  monthly = monthly
  quarterly = quarterly
  Users = {u1}
  Plans = {monthly, quarterly}
  Months <- MCMonths
  Quota <- MCQuota
  Workers = {w1}
  Slack = 5
  Instants <- Months3
  Volume = 2
  None = None
PROPERTY OverdueRolled
