---------------------------- MODULE MCSettings -----------------------------
(* Settings with two themes, a zone to adopt, one to choose and one the API *)
(* does not know, and a name.                                              *)
EXTENDS Settings

NoZoneYet == [theme |-> "light", zone |-> Unset, name |-> ""]
=============================================================================
