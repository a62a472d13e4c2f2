SPECIFICATION PartSpec
CONSTANTS
    Seats = {"s1"}
    Orders = {"o1"}
    NoOrder = "no order"
    NoSeat = "no seat"
    Calls = {c1, c2}
    PartnerCalls = {c1, c2}
    MaxSeats = 2
    MaxRequests = 3
    MaxPartnerCalls = 3
    PartnerTotal <- Total
    Callers = {c1, c2}
    Users = {"u1", "u2"}
    MaxApplications = 3
    Data = {"d1", "d2"}
    Movies = {"m1", "m2"}
    Content = {"text"}
    Casts = {"l1", "l2"}
    MaxPlans = 2
    LastDay = 2
    Rooms = {"r1", "r2"}
    MaxShows = 2
    Starts <- TwoDays
    Lengths = {1, 2}
    Layouts <- TwoLayouts
    Prices = {2, 3, 4}
    PlanPrices <- AllPrices
    DefaultPrice = 50
    Totals = {1, 3}
    SeatsPerRow = 2
    PageLimit = 2
    Services = {"s1", "s2"}
    Names = {"n1", "n2"}
    MaxLinks = 2
SYMMETRY Symmetry
INVARIANTS
    PartnersComplete
    MoviesConsistent
    ShowtimesConsistent
    LinksConsistent
    ScannedBeforeUse
    RefundsAccounted
CHECK_DEADLOCK FALSE
