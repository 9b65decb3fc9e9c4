------------------------------ MODULE TokenLife ------------------------------
(***************************************************************************)
(* What refresh tokens promise their holders: a token is accepted from its *)
(* issue until its life is over, unless it is exchanged for another or a   *)
(* logout names it.  A token is known by its user and its second.          *)
(***************************************************************************)
EXTENDS Naturals

CONSTANTS Users,     \* the holders
          Life,      \* for how many seconds a token is accepted
          Everyone   \* what a logout names that names no token: it ends all of them

VARIABLES now,       \* the second
          accepted,  \* the tokens a refresh would be granted for
          doomed     \* the tokens, or Everyone, that are about to be withdrawn

vars == <<now, accepted, doomed>>

Tokens == [user : Users, at : 0 .. now]

Init == now = 0 /\ accepted = {} /\ doomed = {}

\* No token is given out while it is accepted already; one that took longer than a
\* life to be issued is never accepted.
Grant(token) ==
    /\ token \notin accepted
    /\ accepted' = IF now < token.at + Life THEN accepted \cup {token} ELSE accepted

Issue == /\ \E token \in Tokens : Grant(token)
         /\ UNCHANGED <<now, doomed>>

\* A holder gets a token that is no older; the old one is not withdrawn yet.
Exchange == /\ \E old, new \in Tokens :
                  /\ old.user = new.user /\ old.at <= new.at
                  /\ Grant(new)
                  /\ doomed' = doomed \cup {old}
            /\ UNCHANGED now

Logout == /\ \E named \in Tokens \cup {Everyone} : doomed' = doomed \cup {named}
          /\ UNCHANGED <<now, accepted>>

\* Nobody loses a token that is not doomed.  It may stay doomed for another request.
Withdraw == /\ \E named \in doomed :
                  /\ accepted' = IF named = Everyone THEN {} ELSE accepted \ {named}
                  /\ doomed' \in {doomed, doomed \ {named}}
            /\ UNCHANGED now

\* A failure keeps a token from being withdrawn.
GiveUp == /\ \E named \in doomed : doomed' = doomed \ {named}
          /\ UNCHANGED <<now, accepted>>

Tick == /\ now' = now + 1
        /\ accepted' = {token \in accepted : now' < token.at + Life}
        /\ UNCHANGED doomed

Next == Issue \/ Exchange \/ Logout \/ Withdraw \/ GiveUp \/ Tick

Spec == Init /\ [][Next]_vars
=============================================================================
