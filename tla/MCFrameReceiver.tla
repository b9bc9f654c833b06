-------------------------- MODULE MCFrameReceiver --------------------------
(* An instance of FrameReceiver for TLC: bytes of two values, so lengths up to
   three, and a buffer of two.                                              *)
EXTENDS FrameReceiver

MCSizes == 0 .. 3
=============================================================================
