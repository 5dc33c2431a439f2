---------------------------- MODULE MCSbcDecoder ----------------------------
(***************************************************************************)
(* Headers of two bytes: frames of three bytes, frames of only a header,   *)
(* damaged ones, and syncwords whose header claims more than any packet    *)
(* holds.                                                                  *)
(***************************************************************************)
EXTENDS SbcDecoder

Header(length, intact, rate, channels) ==
    [length |-> length, intact |-> intact, rate |-> rate, channels |-> channels]

AllHeaders ==
    {Header(3, TRUE, 44, 2), Header(2, TRUE, 48, 1),
     Header(3, FALSE, 44, 2), Header(9, FALSE, 48, 2)}
=============================================================================
