SPECIFICATION Spec
CONSTANTS
    Trips = {t1}
    Bookings = {b1, b2}
    Drivers = {d1}
    Passengers = {p1, p2}
    Handlers = {h1}
    Sweeps = {s1}
    Capacities = {2}
    PartySizes = {1}
    EditCapacities = {0, 1, 3}
    BatchLimit = 1
    Endpoints = {"createTrip", "createBooking", "acceptBooking", "cancelBooking", "updateTrip", "startTrip", "completeTrip", "cancelTrip"}
    Suspendable = {}
    Faults = {h1, s1}
    Monitored = FALSE
    None = None
SYMMETRY Symmetry
PROPERTIES SeatLedgerRefined TripLifecycle
