------------------------------ MODULE MCIncident ------------------------------
(* The instance TLC checks. *)
EXTENDS Incident

=============================================================================
