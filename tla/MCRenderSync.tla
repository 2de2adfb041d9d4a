--------------------------- MODULE MCRenderSync ---------------------------
(* Instances of RenderSync for TLC, with three reductions and the bounds of *)
(* the instance of three events.                                            *)
EXTENDS RenderSync

(* The steps of a client and the reads of compute_changes touch different   *)
(* variables and commute: it is enough to let the client act between two    *)
(* computations.  Output of the terminal still lands between the reads.     *)
ClientBetweenJobs == job.pc # "idle" => UNCHANGED <<lines, client>>

(* Output asks for a push, so that the poll of a session that has pushed    *)
(* something finds nothing that is not asked for anyway.                    *)
PollsThatMatter ==
  client.paint /\ ~client'.paint /\ asked'.push /\ ~asked.push => session = Fresh

(* For the same reason the client may wait until the server has computed    *)
(* and answered what it was asked for; its user does not wait.              *)
ServerWorks ==
  \/ pushes = <<>> /\ (asked.push \/ asked.keys # <<>>)
  \/ \E f \in DOMAIN fetches : fetches[f].got = "nothing"
ServerFirst == ServerWorks /\ events' = events => UNCHANGED <<lines, client>>

(* Bounds.  A delta is applied before more is printed or computed; programs *)
(* and user begin when the client has attached; of the three events two are *)
(* keys at most, and one is of another kind of the user's or a lost         *)
(* connection; who writes a row leaves the cursor there.                    *)
OneDeltaAtATime == pushes # <<>> => term' = term /\ ~(job = NoJob /\ job' # NoJob)

AfterAttaching ==
  events = 0 /\ events' = 1 => client.seqno > 0 /\ DOMAIN fetches = {} /\ pushes = <<>>

MixedEvents ==
  /\ client'.serial <= 2
  /\ events' - (term'.seq - 1) - client'.serial <= 1

CursorOnTheRow ==
  term' # term /\ term'.alt = term.alt => SeqAt(term', term'.cur) = term'.seq
=============================================================================
