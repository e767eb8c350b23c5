-------------------------------- MODULE MCAcme --------------------------------
(* One window with events of two and of one byte, of which the last is malformed. *)
EXTENDS Acme

MCBegins == <<1, 3, 4, 5>>
===============================================================================
