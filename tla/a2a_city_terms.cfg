SPECIFICATION MCSpec
CONSTANTS
    t1 = t1  t2 = t2
    c1 = c1  c2 = c2  c3 = c3
    p1 = p1  p2 = p2
    plain = plain  city1 = city1  city2 = city2
    Tasks = {t1, t2}
    Skills = {city1, city2}
    CityOrder <- MCCities
    Calls = {c1, c2, c3}
    Payments = {p1, p2}
    NoCall = NoCall
    NoTask = NoTask
    NoSkill = NoSkill
    one = one  two = two
    Parts = {"tasks"}
    CityCodes <- MCCityCodes
    CityReqs = {one, two}
    CityWarmers = {one}
    CityKeys = {"bare", "bad"}
    CityPack <- MCCityPack
    CityRows <- MCRows
    CityStart <- MCStart
    Shown = 1
    Page = 2
    CityTTL = 1
    FetchMax = 1
    CityMaxNow = 3
    CityMaxChanges = 1
    CityMaxFaults = 1
    MaxFaults = 1
SYMMETRY MCSymmetry
INVARIANTS TermsNameTheSkill
CHECK_DEADLOCK FALSE
