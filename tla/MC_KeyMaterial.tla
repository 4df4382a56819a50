--------------------------- MODULE MC_KeyMaterial ---------------------------
(* One-byte keys over the digits 1 and a/A, inputs of up to four          *)
(* characters after the prefix (a key, a key and a half, two keys), three  *)
(* mnemonics (one invalid) and two paths (one malformed).                  *)
EXTENDS KeyMaterial, TLC

CONSTANTS w1, w2, wBad, pDefault, pBad

MCNibbleOf == ("0" :> 0) @@ ("1" :> 1) @@ ("a" :> 10) @@ ("A" :> 10)
MCLowerDigit == (0 :> "0") @@ (1 :> "1") @@ (10 :> "a")
MCBodyChars == {"1", "a", "A", "x"}
MCKeyNibbles == {1, 10}
MCMnemonics == {w1, w2, wBad}
MCValidMnemonics == {w1, w2}
MCPaths == {pDefault, pBad}
MCValidPaths == {pDefault}
MCDerivedKey ==
    (<<w1, pDefault>> :> << <<1, 10>> >>) @@
    (<<w2, pDefault>> :> << <<10, 1>> >>)
=============================================================================
