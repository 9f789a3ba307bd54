---------------------------- MODULE MCParentheses ----------------------------
(* Parentheses for TLC: all texts up to a length.                          *)
EXTENDS Parentheses

LOCAL INSTANCE SequencesExt

AllTexts == SeqOf({Opening, Closing, "a", Delim}, 6)
=============================================================================
