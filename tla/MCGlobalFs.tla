------------------------------ MODULE MCGlobalFs ------------------------------
EXTENDS GlobalFs
CONSTANTS u1, u2
(* a.txt and a file named a without an extension *)
MCClientNames == {[stem |-> <<"a">>, ext |-> "txt"], [stem |-> <<"a">>, ext |-> NoExt]}
=============================================================================
