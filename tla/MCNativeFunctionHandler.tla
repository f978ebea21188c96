----------------------- MODULE MCNativeFunctionHandler -----------------------
(* Small instances of NativeFunctionHandler for TLC. *)
EXTENDS NativeFunctionHandler
=============================================================================
