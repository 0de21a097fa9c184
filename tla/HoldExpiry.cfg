SPECIFICATION FairSpec
CONSTANTS
    Trips = {t1}
    Bookings = {b1, b2}
    Drivers = {d1}
    Passengers = {p1, p2}
    Handlers = {h1}
    Sweeps = {s1}
    Capacities = {2}
    PartySizes = {1}
    EditCapacities = {0}
    BatchLimit = 1
    Endpoints = {"createTrip", "createBooking", "acceptBooking", "cancelTrip"}
    Suspendable = {d1}
    Faults = {h1}
    Monitored = TRUE
    None = None
PROPERTIES HoldsSettle RequestsFinish
