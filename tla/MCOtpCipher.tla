---------------------------- MODULE MCOtpCipher ----------------------------
(* Short lines over the characters that the checks and the modulus tell apart:  *)
(* an end of the alphabet, the space, 'H' (which the newline of a key that is too    *)
(* short turns into a comma, and the key T into a space) and 'a', an invalid one.  *)
EXTENDS OtpCipher

MCChars == {72, 90, 32, 97}
MCKeyChars == {84, 32}
MaxLine == 3
MCLines == UNION {[1..n -> MCChars] : n \in 0..MaxLine}
MCFiles == (MCLines \ {<<>>}) \cup {Append(l, NewLine) : l \in MCLines}
MCKeys == UNION {[1..n -> MCKeyChars] : n \in 0..MaxLine}
MCGarbage == {0, 7}
=============================================================================
