------------------------- MODULE MCSubscriptionGateway -------------------------
(* Instances of SubscriptionGateway for TLC.                                    *)
EXTENDS SubscriptionGateway
==============================================================================
