-------------------------------- MODULE MCPacer --------------------------------
(* The pacer with every kind of renderer and V-sync source. *)
EXTENDS Pacer

MCModes == [paced : BOOLEAN, lenient : {TRUE}, thread : BOOLEAN, unbuffered : BOOLEAN]
           \cup [paced : {TRUE}, lenient : {FALSE}, thread : BOOLEAN, unbuffered : {FALSE}]

=============================================================================
