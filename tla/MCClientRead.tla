----------------------------- MODULE MCClientRead -----------------------------
(* Constants for model checking ClientRead.  A limit of 12 bytes and chunks  *)
(* of 4 put every test of client_read within reach: headers cut anywhere,    *)
(* requests below, at and above the limit, streams longer than the request.  *)
EXTENDS ClientRead

MCLengths == {0, 1, 2, 6}
===============================================================================
