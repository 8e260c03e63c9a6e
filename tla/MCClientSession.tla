--------------------------- MODULE MCClientSession ---------------------------
(* The two queues have the sizes of the code, far more than a session of this *)
(* length fills.  Two sockets may be open at once; two messages may wait for  *)
(* the server and one for the client.                                         *)
EXTENDS ClientSession
==============================================================================
