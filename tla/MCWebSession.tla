---------------------------- MODULE MCWebSession ----------------------------
(***************************************************************************)
(* Instances of WebSession for TLC.  Each command sends one `open`.        *)
(***************************************************************************)
EXTENDS WebSession

CONSTANTS c1, c2, v1, v2

OpenRequests ==
  {[action |-> "open", pane |-> p, view |-> NoView] : p \in Panes}

\* Commands, webviews and messages differ in nothing but their names: it is
\* enough to look at the behaviours in which the first command starts first,
\* the first webview is granted first, to either, and its page logs "m" before
\* "n".  Bound: the page of the second one is silent, and exits with 0.
FirstComesFirst ==
  /\ cli[c2]' # "absent" => cli[c1]' # "absent"
  /\ v2 \in used' => v1 \in used'
  /\ said[v1]' \in {<<>>, <<"m">>, <<"m", "n">>}
  /\ said[v2]' = <<>> /\ ended[v2]' \in {NotYet, 0}

=============================================================================
