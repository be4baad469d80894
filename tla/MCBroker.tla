------------------------------ MODULE MCBroker ------------------------------
(***************************************************************************)
(* Model checking of the broker.                                           *)
(***************************************************************************)
EXTENDS BrokerProps, TLC

OneDocument == "viewer" :> "d1" @@ "switch" :> "d1"
TwoDocuments == OneDocument @@ "other" :> "d2"
=============================================================================
