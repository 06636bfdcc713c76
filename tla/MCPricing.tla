------------------------------ MODULE MCPricing ------------------------------
(* A small instance of Pricing for TLC: a salon and a stylist are paid in one *)
(* checkout.  Two rules can match the same service.                           *)
EXTENDS Pricing, TLC

CONSTANTS haircut, braids, hair, cut, r1, r2

MCTotal == <<15, 3>>
MCFare == <<0, 0>>
MCBaseFee == <<0, 2>>
MCServicesOf == <<<<haircut, braids>>, <<braids>>>>
MCPrice == haircut :> 9 @@ braids :> 6
MCKeywordsIn == haircut :> {hair, cut} @@ braids :> {hair}
=============================================================================
