---------------------------- MODULE MC_Keystone ----------------------------
(* Keystone for TLC: a window that is turned, and pointers inside and outside it. *)
EXTENDS Keystone

TwoWindows == {<<4, 3>>, <<3, 4>>}
SomePoints == {<<1, 0>>, <<5, 1>>, <<2, 4>>}
=============================================================================
