SPECIFICATION FairSpec
CONSTANTS
  main1 = main1
  t1 = t1
  i1 = i1
  Main = main1
  Loggers = {t1}
  InitThread = i1
  Nobody = Nobody
  MaxLines = 1
  CardFails = {"init", "open", "read"}
  NacpSize = 2
  Files <- AllFiles
  Requests <- AllRequests
  MaxRequests = 1
CHECK_DEADLOCK FALSE
INVARIANTS FilesWhileMounted NoLineLost SizeFits OnePicture FieldsAreOneFiles ParserMeetsReference
PROPERTIES EveryRequestAnswered
