--------------------------- MODULE MCConfigReload ---------------------------
(* A small instance of ConfigReload for TLC: the file holds the defaults   *)
(* or one of two other settings, is broken, or is away.                    *)
EXTENDS ConfigReload

CONSTANTS defaults, fast, slow, invalid, absent

ThreeSettings == {defaults, fast, slow}

=============================================================================
