------------------------------- MODULE MCPoll -------------------------------
(* A small instance of Poll for TLC: a unit is a quarter of a second. *)
EXTENDS Poll

\* Less than a second, one second, and a second and a half.
MCIntervals == {2, 4, 6}

\* With no room for a missed poll, and just not enough or just enough for one.
MCTimeouts == {5, 17, 18, 25, 26}
=============================================================================
