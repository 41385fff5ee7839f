------------------------------ MODULE HubClock ------------------------------
(* The hub's clock (Deps.now), which every expiry on the hub is read from.  *)
EXTENDS Naturals

VARIABLE now  \* in ticks

=============================================================================
