---------------------------- MODULE MCDictionary ----------------------------
(* The persistent storage for TLC: keys of two lengths, of which one begins *)
(* like the other, and values of two lengths                                *)
EXTENDS Dictionary

MCPrefix == <<7>>
MCKeys == {<<7>>, <<7, 1>>}
MCValues == {<<0>>, <<7, 0>>}
=============================================================================
