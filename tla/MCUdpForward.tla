---------------------------- MODULE MCUdpForward ----------------------------
(* Instances of UdpForward for TLC.                                        *)
EXTENDS UdpForward
=============================================================================
