SPECIFICATION Spec
CONSTANTS
    Trips = {t1}
    Bookings = {b1, b2}
    Drivers = {d1}
    Passengers = {p1, p2}
    Handlers = {h1, h2}
    Sweeps = {s1, s2}
    Capacities = {2}
    PartySizes = {1, 2}
    EditCapacities = {0}
    BatchLimit = 1
    Endpoints = {"createTrip", "createBooking", "acceptBooking", "rejectBooking", "cancelBooking"}
    Suspendable = {}
    Faults = {}
    Monitored = TRUE
    None = None
SYMMETRY Symmetry
INVARIANTS SeatsConserved OneActiveBooking DecisionsAnnounced
PROPERTIES SettledBookings SeatLedgerRefined
