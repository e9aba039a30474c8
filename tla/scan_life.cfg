CONSTANTS
  Url <- MCUrl
  Company <- MCCompany
  ListedBy <- MCListedBy
  CompanyOf <- MCCompanyOf
  Connectors <- MCConnectors
  PageLimit = 1
  KeyOf <- MCKeyOf
  None = None
  Broken = Broken
  ReportLimit = 1
  HistoryLimit = 1
  MaxScans = 2
  MaxKills = 1
  MaxNow = 2
  Retries = 1
  MaxEdits = 1
SPECIFICATION Spec
CHECK_DEADLOCK FALSE
INVARIANTS TypeOK RowsClosed ReportsOwn NewIsNew MomentsKept
PROPERTIES HistoryFaithful
