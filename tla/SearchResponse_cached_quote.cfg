SPECIFICATION ResponseSpec
CONSTANTS
  AssumedPickup = 840
  PickupBuffer = 45
  MaxOptions = 4
  RoutesShown = 2
  LiveRepriceN = 2
  SnowLookups = 2
  YearsBack = 2
  StaysListed = 2
  LiveTransferN = 1
  GroupScale <- MCGroupScale
  DepthBands <- MCDepthBands
  MaxForecastDays <- MCMaxForecastDays
  PlausibleRates <- MCPlausibleRates
  RatingSteps <- MCRatingSteps
  Worlds <- MCWorlds
  Calendar <- MCCalendar
  CurrentDay <- MCCurrentDay
INVARIANT
  SameQuoteTwice
CHECK_DEADLOCK FALSE
