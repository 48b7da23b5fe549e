SPECIFICATION Spec
CONSTANTS
  Stages = {"email", "files", "items", "lines", "form", "quote", "record", "forward", "table"}
  ClusterGap = 2
  Lookahead = 2
  KeepLines = 1
  MinLatest = 1
  MinBody = 1
  AutoThreshold = 85
  ReviewThreshold = 60
  FastPath = TRUE
  Emails <- EmailsUsed
  Drafts <- DraftsUsed
  MaxAttachments = 2
  MaxTotal = 2
  MaxSingle = 2
  MaxDepth = 1
  MaxEntries = 1
  MaxUnpacked = 2
  MaxRows = 1
  MaxPages = 2
  MaxRasterized = 2
  MaxImages = 2
  Noise = 1
  Sizes = {1, 2, 3}
  MaxFiles = 2
  MinHits = 2
  MaxScan = 2
  MaxChunk = 3
  ImagesPerCall = 2
  Grids <- GridsUsed
  MailBody <- Body
  BeforeHash <- BeforeUsed
  Mailings <- MailingsUsed
  Namings <- NamingsUsed
  Sheet <- SheetUsed
  WordsOf <- WordsUsed
  Narrows <- NarrowsUsed
  Spellings <- SpellingsUsed
  Requests <- RequestsUsed
  Batch = 2
  Assessed = 1
  Shortlisted = 2
  Verdicts <- VerdictsUsed
  Checks <- ChecksUsed
  NoScore = NoScore
  Replies <- RepliesUsed
  Todays <- TodaysUsed
  Tolerance = 60
  Filings <- FilingsUsed
  Room = 3
  Remarks = {TRUE, FALSE}
  MaxRemarks = 7
  MaxBlanks = 6
  Editions <- EditionsUsed
  Normal <- NormalUsed
  Landed <- LandedUsed
  PriceLists <- PricingsUsed
  MaxDrawn = 2
  Deliveries <- DeliveriesUsed
  FormName <- TheForm
  InLower <- LowerUsed
  KeepFiles = TRUE
  Chunks = 3
  MaxHandled = 2
INVARIANTS
  FilesAsTheyCame
  DeliveryIsAsReported
  AnRfqIsNotPutAway
  WithinBudget
  NothingDropsInSilence
  PicturesAreShared
  NothingLostInSilence
  
  TablesAreWhole
  UncheckedCodesAreDropped
  ScoresAreTheirOwn
  ChoicesStayOpen
  EveryCellIsExplained
  DatesAreNotGuessed
  
  OneRuleForTotals
  OneProductPerLine
CHECK_DEADLOCK FALSE
