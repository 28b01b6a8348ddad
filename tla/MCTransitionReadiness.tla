----------------------- MODULE MCTransitionReadiness ------------------------
(* Two owners; a route that is bound as it should be, and one that is not. *)
EXTENDS TransitionReadiness

MCPeople == {"source", "validator"}

MCRoutes ==
    {[route |-> "prototype-to-delivery", source |-> "prototype", target |-> "delivery"],
     [route |-> "proposal-to-delivery", source |-> "prototype", target |-> "delivery"]}
=============================================================================
