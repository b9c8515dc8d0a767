-------------------------- MODULE MCCommunication --------------------------
(* The two clients of the application, for module Communication.           *)
EXTENDS Communication

CONSTANTS iam, sm
=============================================================================
