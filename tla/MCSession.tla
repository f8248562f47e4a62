----------------------------- MODULE MCSession -----------------------------
(* Small instances of Session.                                             *)
EXTENDS Session
CONSTANTS kmd, btc
=============================================================================
