--------------------------- MODULE MCWebViewFocus ---------------------------
(***************************************************************************)
(* Instances of WebViewFocus for TLC.                                      *)
(***************************************************************************)
EXTENDS WebViewFocus, TLC

Symmetry == Permutations(Views)

=============================================================================
