SPECIFICATION Spec
CONSTANTS
  main = main
  page = page
  short = short
  long = long
  Files = {main, page}
  PathLen <- Lengths
  Contents = {short, long}
  Size <- Sizes
  Gone = Gone
  Unread = Unread
  NoEntry = NoEntry
  NoImage = NoImage
  StartFiles <- Start
  Page = 4
  InputSizes = {7, 8}
INVARIANTS TypeOK LayoutFits RoundTrip AnswersAsAtStartup
