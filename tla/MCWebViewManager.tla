-------------------------- MODULE MCWebViewManager --------------------------
(***************************************************************************)
(* Instances of WebViewManager for TLC.                                    *)
(***************************************************************************)
EXTENDS WebViewManager, TLC

Req(a, p, v) == [action |-> a, pane |-> p, view |-> v]

\* What `web open` sends from a pane and from outside of one, and a ping.
OpenRequests ==
  {Req("open", p, NoView) : p \in Panes \cup {NoPane}}
    \cup {Req("ping", NoPane, NoView)}

\* Only `web open` from a pane.
PaneRequests == {Req("open", p, NoView) : p \in Panes}

\* What `web close` sends, with and without an id.
CloseRequests ==
  {Req("close", NoPane, v) : v \in WebViews \cup {NoView}}

\* What the clients of webviews send.
AllRequests == PaneRequests \cup CloseRequests

Symmetry ==
  Permutations(WebViews) \cup Permutations(Conns) \cup Permutations(Panes)

=============================================================================
