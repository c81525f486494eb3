------------------------------ MODULE MCManager ------------------------------
(* An instance of BrowserManager for TLC: one tenant. *)
EXTENDS BrowserManager

OneTenant == [r \in Requests |-> "acme"]
=============================================================================
