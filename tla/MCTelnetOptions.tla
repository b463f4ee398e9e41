--------------------------- MODULE MCTelnetOptions ---------------------------
(* Two sessions, of which one may switch remote control on. *)
EXTENDS TelnetOptions
==============================================================================
