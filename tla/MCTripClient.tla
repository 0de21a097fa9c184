---------------------------- MODULE MCTripClient ----------------------------
EXTENDS TripClient
=============================================================================
