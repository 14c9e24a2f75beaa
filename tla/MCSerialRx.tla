----------------------------- MODULE MCSerialRx -----------------------------
(* Instance of SerialRx for TLC; the values are in the .cfg file.           *)
EXTENDS SerialRx
=============================================================================
