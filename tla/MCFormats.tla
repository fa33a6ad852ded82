------------------------------- MODULE MCFormats -------------------------------
(* A small instance of Formats for TLC. *)
EXTENDS Formats, SequencesExt

\* Up to three of a letter and a colon; a pair just fits and just does not.
MCLogins == BoundedSeq({97, 58}, 3)

\* Up to three characters on either side of each range of digits.
MCDigits == BoundedSeq({47, 48, 57, 58, 64, 65, 70, 71, 96, 97, 102, 103}, 3)
===============================================================================
