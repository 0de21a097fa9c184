SPECIFICATION Spec
CONSTANTS
    Trips = {t1}
    Bookings = {b1, b2}
    Drivers = {d1}
    Passengers = {p1, p2}
    Handlers = {h1, h2}
    Sweeps = {s1}
    Capacities = {1}
    PartySizes = {1}
    EditCapacities = {1}
    BatchLimit = 1
    Endpoints = {"createTrip", "createBooking", "updateTrip"}
    Suspendable = {}
    Faults = {}
    Monitored = TRUE
    None = None
SYMMETRY Symmetry
INVARIANTS NoOversell
