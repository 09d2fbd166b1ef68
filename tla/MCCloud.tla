-------------------------------- MODULE MCCloud --------------------------------
(* One file of a cloud drive, on the store and under the mount.               *)
EXTENDS CloudRetire, TLC
CONSTANTS r1, bytes1
MCStart == r1 :> bytes1
=============================================================================
