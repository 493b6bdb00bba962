-------------------------- MODULE MCGatewayFilters --------------------------
(* The routes of application.yaml, and every other configuration. *)
EXTENDS GatewayFilters

AllRoutes == [predicate : {"none", "headers", "body"},
              filter : {"none", "request", "requestBody", "response", "responseBody"}]
BodyRoute == {[predicate |-> "none", filter |-> "requestBody"]}
=============================================================================
