------------------------------- MODULE MCTokens -------------------------------
(* Instances of Tokens for TLC. *)
EXTENDS Tokens, TLC

\* Requests are interchangeable.
Symmetry == Permutations(Requests)

\* No handler reads the audit log, and none decides anything on the sessions: states that
\* differ in these only are explored once.
WithoutLogs == <<now, account, refresh, req, exchanged, excused>>
=============================================================================
