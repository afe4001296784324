------------------------------- MODULE Helpers -------------------------------
(***************************************************************************)
(* The pure helpers: the base64 encoder, and the strings and IDs.          *)
(***************************************************************************)
Code == INSTANCE Base64
Util == INSTANCE UniqueID \* and StringTool, which it extends
=============================================================================
