----------------------------- MODULE MCAnnounce -----------------------------
(* Nodes with a rate limit and without, with a periodic announce and        *)
(* without, each met by a few edges, reports or commands.                   *)
EXTENDS Announce

Node(l, p, g, e, r, a, d) ==
  [limit |-> l, period |-> p, pages |-> g, edges |-> e, reports |-> r, answers |-> a,
   drops |-> d]

Nodes == {Node(TRUE, FALSE, 0, 3, 0, 0, 0), Node(FALSE, FALSE, 0, 2, 0, 0, 0),
          Node(FALSE, FALSE, 0, 1, 1, 0, 0), Node(FALSE, TRUE, 0, 0, 0, 0, 0),
          Node(FALSE, FALSE, 1, 0, 0, 1, 1)}
=============================================================================
