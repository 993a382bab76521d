SPECIFICATION SearchSpec
CONSTANTS
  a = a  b = b  c = c
  LastDay = 27
  Nights <- ShortAndLong
  Steps <- OneToThree
  WeekdaySets <- DayChoices
  FirstWeekday = 2
  Today = 3
  SeasonFloors <- WinterAndSummer
  MaxWindow = 22
  MaxCredits = 12
  Pool <- ThreeResorts
  Fit <- FitOf
  Appeal <- AppealOf
  Airport <- AirportOf
  FlightEstimate <- FlightOf
  LodgingEstimate <- LodgingOf
  HighSeason <- Late
  FlightPrices = {2, 5}
  LodgingPrices = {2}
  Asks <- AskedFor
  PricedSearches <- SaturdaysAndDays
  ShortlistSize = 3
  TopN = 4
  RepriceN = 4
  MaxPerResort = 2
CHECK_DEADLOCK FALSE
INVARIANTS
  ExactlyTheValidDates
  QuoteIsClose
  FlagTellsTruth
  ShownWasPriced
  EveryResortRepresented
  LeadsWithBest
