CONSTANTS
    MaxRequests = 2
    Posted <- MCPosted
    HoursPerDay = 24
    HourLength = 60
    Parts = 50
    DefaultStart = 6
    DefaultEnd = 22
    Places = {"ulm", "york"}
    Imperial = "imperial"
    Metric = "metric"
    Blank = Blank
    Bad = Bad
    Unsent = Unsent
    Nothing = Nothing
    Seed <- MCSeed
    MaxMishaps = 1
SPECIFICATION WeatherSpec
INVARIANT PairsAreWhole
PROPERTIES ForecastConverges SeedKeepsChoice
