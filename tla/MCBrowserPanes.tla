-------------------------- MODULE MCBrowserPanes --------------------------
(* Instances of BrowserPanes for TLC: a window of the multiplexer with two  *)
(* tabs and a pane in each and another with one pane, and one or two windows*)
(* of the app to show them.                                                 *)
EXTENDS BrowserPanes

CONSTANTS w1, w2, m1, m2, p1, p2, p3, main, io

OneWindow == {w1}
TwoWindows == {w1, w2}
TwoMuxWindows == {m1, m2}
ThreePanes == {p1, p2, p3}
TheHome == [p \in Panes |-> [win |-> IF p = p3 THEN m2 ELSE m1,
                             tab |-> IF p = p2 THEN 2 ELSE 1]]
TheThreads == {main, io}
=============================================================================
