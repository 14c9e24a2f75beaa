---------------------------- MODULE MCJsonParser ----------------------------
(* Instance of JsonParser for TLC; the values are in the .cfg file.         *)
EXTENDS JsonParser
=============================================================================
