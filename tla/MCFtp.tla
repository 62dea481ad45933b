------------------------------- MODULE MCFtp -------------------------------
(* Instances of Ftp for TLC *)
EXTENDS Ftp
=============================================================================
