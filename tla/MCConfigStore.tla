---------------------------- MODULE MCConfigStore ----------------------------
(* Instances of ConfigStore for TLC. *)
EXTENDS ConfigStore

NoHub == [transport |-> "sc", url |-> "none"]

=============================================================================
