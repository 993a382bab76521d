---------------------------- MODULE TripWeather ----------------------------
(***************************************************************************)
(* adapters/weather_adapter and engine/weather: the weather of a trip, from *)
(* the forecast for the days that have one and from the same days of past   *)
(* years for the others.  Days are counted from the season's first, depths  *)
(* are in centimetres.                                                      *)
(***************************************************************************)
EXTENDS Ordering

CONSTANTS
  MaxForecastDays,   \* MAX_FORECAST_DAYS
  YearsBack          \* historical_years_back

ASSUME WeatherAssumption == MaxForecastDays \in Nat /\ YearsBack \in Nat \ {0}

\* DailyWeather; `temp` stands for the two temperatures, None when the
\* provider has none.
Daily(day, temp, depth, live, years) ==
  [day |-> day, temp |-> temp, depth |-> depth, live |-> live, years |-> years]

OrZero(value) == IF value = None THEN 0 ELSE value
Mean(values) == Share(FoldSeq(+, 0, values), Len(values))

\* The days of a trip, and those that a forecast is asked for.
Days(start, end) == [i \in 1..(end - start + 1) |-> start + i - 1]
ForecastSpan(start, end, today) == Max({start, today})..Min({end, today + MaxForecastDays})

\* get_forecast_range.  The provider fails, or answers for some of the days
\* asked for; one it garbles is left out.
ForecastRange(answer, start, end, today) ==
  LET told == {d \in ForecastSpan(start, end, today) \cap DOMAIN answer.days : ~answer.days[d].garbled}
      DayOf(d) == Daily(d, answer.days[d].temp, OrZero(answer.days[d].depth), TRUE, None)
  IN  Mapped(Where(Days(start, end), LAMBDA d : d \in told), DayOf)

\* One year of the archive: a reading for each day of the trip that year had
\* and recorded.
Samples(archive, day) ==
  Where([y \in 1..YearsBack |->
               IF day \in DOMAIN archive[y] THEN archive[y][day] ELSE [temp |-> None, depth |-> None]],
            LAMBDA r : r.temp # None)

\* get_historical_daily_breakdown: the mean of each calendar day.
HistoricalDays(archive, start, end) ==
  LET known == Where(Days(start, end), LAMBDA d : Samples(archive, d) # <<>>)
      DayOf(d) == LET s == Samples(archive, d) IN
                  Daily(d, Mean([i \in DOMAIN s |-> s[i].temp]),
                        Mean([i \in DOMAIN s |-> OrZero(s[i].depth)]), FALSE, Len(s))
  IN  Mapped(known, DayOf)

\* Mutant: history for the whole trip as well.
TripDaysTwice(weather, start, end, today) ==
  (IF weather.forecast.fails THEN <<>> ELSE ForecastRange(weather.forecast, start, end, today))
    \o HistoricalDays(weather.archive, start, end)

\* get_trip_weather of the adapter: history for what comes after the last day
\* that was forecast, for all of it when nothing was.
TripDays(weather, start, end, today) ==
  LET ThenHistory(forecast) ==
        forecast \o HistoricalDays(weather.archive,
                                   IF forecast = <<>> THEN start ELSE Last(forecast).day + 1, end)
  IN  ThenHistory(IF weather.forecast.fails THEN <<>>
                  ELSE ForecastRange(weather.forecast, start, end, today))

\* get_trip_weather of engine/weather: nothing for a resort without
\* coordinates, when no day is known, or when a mean cannot be taken.
Summary(days) ==
  [list |-> days, days |-> Len(days), forecast |-> Len(Where(days, LAMBDA d : d.live)),
   depth |-> Mean([i \in DOMAIN days |-> days[i].depth])]
GetTripWeather(resort, weather, start, end, today) ==
  {Summary(days) : days \in {d \in {TripDays(weather, start, end, today)} :
                              resort.located /\ d # <<>> /\ \A i \in DOMAIN d : d[i].temp # None}}

\* _is_within_forecast_horizon
WithinForecastHorizon(start, today) == start >= today /\ start - today <= MaxForecastDays
=============================================================================
