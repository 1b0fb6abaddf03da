------------------------- MODULE MCElectrumXClient -------------------------
(* A small instance of ElectrumXClient: the handshake and two more calls. *)
EXTENDS ElectrumXClient
CONSTANTS t1, t2
=============================================================================
