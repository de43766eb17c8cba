---------------------------- MODULE MCRateWindow ----------------------------
(* RateWindow for TLC: job creation has a rule of its own, two others do not. *)
EXTENDS RateWindow

MCRoutes == {"create", "login", "list"}
MCRuled  == {"create"}
=============================================================================
