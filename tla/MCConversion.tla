---------------------------- MODULE MCConversion ----------------------------
(* Inputs over all kinds of letters with one candidate a segment, and inputs *)
(* of vowels only with two.                                                  *)
EXTENDS Conversion
CONSTANTS k1, k2, k3
MCIds == {k1, k2, k3}
MCSymmetry == Permutations(MCIds)
MCLetters == {"n", "c", "v", "s"}
MCRomaji == {"romaji"}
MCKanaOnly == {<<"hiragana">>}
MCVowels == {"v"}
MCKatakana == {"katakana"}
MCReadOnly == {"error"}
MCStore == {"ok", "error"}
MCTwoOrders == {<<"hiragana", "word">>}
=============================================================================
