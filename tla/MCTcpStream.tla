----------------------------- MODULE MCTcpStream -----------------------------
(* Three bytes, in one segment, two or three.                                 *)
EXTENDS TcpStream

MCSent == <<71, 69, 84>>
=============================================================================
