------------------------------ MODULE MCLaunch -------------------------------
(***************************************************************************)
(* Model checking of building and launching, with a keyring of the named   *)
(* keys and one more.                                                      *)
(***************************************************************************)
EXTENDS Launch

CONSTANT Charlie

MCKeyring   == {Alice, Bob, AliceStash, BobStash, One, Two, Charlie}
MCEndowment == 2^20
=============================================================================
