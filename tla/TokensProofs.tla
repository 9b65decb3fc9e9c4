----------------------------- MODULE TokensProofs -----------------------------
(***************************************************************************)
(* Proofs about the token service, for any number of requests, users and   *)
(* seconds and any lifetimes.                                              *)
(***************************************************************************)
EXTENDS Tokens, FiniteSetTheorems, TLAPS

\* The shape of a request follows from its program counter.
LEMMA Shapes ==
    ASSUME TypeOK, NEW r \in Requests
    PROVE  /\ req[r] \in RequestStates
           /\ req[r] = Idle <=> At(r, "idle")
           /\ At(r, "create") \/ At(r, "session") => req[r] \in Entries
           /\ At(r, "issue") => req[r] \in Entries \cup Refreshes
           /\ At(r, "user") => req[r] \in Refreshes
           /\ At(r, "revoke") \/ At(r, "remove") => req[r] \in Refreshes \cup Logouts
           /\ At(r, "audit") => req[r] \in Entries \cup Logouts
           /\ req[r].op = "refresh" => req[r] \in Refreshes
<1> USE DEF At
<1>1. req[r] \in RequestStates
  BY DEF TypeOK
<1>2. CASE req[r] = Idle
  BY <1>1, <1>2 DEF Idle
<1>3. CASE req[r] \in Entries
  BY <1>1, <1>3 DEF Entries, Idle
<1>4. CASE req[r] \in Refreshes
  BY <1>1, <1>4 DEF Refreshes, Idle
<1>5. CASE req[r] \in Logouts
  BY <1>1, <1>5 DEF Logouts, Idle
<1>6. CASE req[r] \in CleanUps
  BY <1>1, <1>6 DEF CleanUps, Idle
<1> QED
  BY <1>1, <1>2, <1>3, <1>4, <1>5, <1>6 DEF RequestStates

\* The token that a request is about to issue, or has issued.
LEMMA NewTokenType ==
    ASSUME TypeOK, NEW r \in Requests, req[r] \in Entries \cup Refreshes
    PROVE  NewToken(r) \in Tokens
BY DEF NewToken, Tokens, Entries, Refreshes

-------------------------------------------------------------------------------
(* What a step does to the requests *)

\* The request goes on with the statement pc, the rest of it as it was.
Moved(r, pc) ==
    /\ req'[r].pc = pc
    /\ req'[r].op = req[r].op
    /\ req'[r].user = req[r].user
    /\ req[r] \in Entries \cup Refreshes => req'[r].at = req[r].at
    /\ req[r] \in Refreshes \cup Logouts => req'[r].old = req[r].old

\* The request signs its tokens and goes on to issue them.
Signed(r) ==
    /\ req'[r].pc = "issue"
    /\ req'[r].op = req[r].op
    /\ req'[r].user = req[r].user
    /\ req'[r].at = now
    /\ req[r] \in Refreshes => req'[r].old = req[r].old

\* What Become does to the requests.
LEMMA BecomeStep ==
    ASSUME TypeOK, NEW r \in Requests, NEW job, Become(r, job)
    PROVE  /\ req'[r] = job
           /\ \A q \in Requests \ {r} : req'[q] = req[q]
           /\ job \in RequestStates => req' \in [Requests -> RequestStates]
BY DEF TypeOK, Become

\* A statement that another follows.
LEMMA GotoStep ==
    ASSUME TypeOK, NEW r \in Requests, NEW pc, Goto(r, pc),
           \/ req[r] \in Entries /\ pc \in {"session", "audit"}
           \/ req[r] \in Refreshes /\ pc \in {"revoke", "remove"}
           \/ req[r] \in Logouts /\ pc \in {"remove", "audit"}
    PROVE  Moved(r, pc) /\ req' \in [Requests -> RequestStates]
<1> DEFINE job == [req[r] EXCEPT !.pc = pc]
<1>1. CASE req[r] \in Entries /\ pc \in {"session", "audit"}
  <2>1. /\ job \in Entries /\ job.pc = pc /\ job.op = req[r].op
        /\ job.user = req[r].user /\ job.at = req[r].at
    BY <1>1 DEF Entries
  <2> QED
    BY <1>1, <2>1, BecomeStep DEF Goto, Moved, RequestStates, Entries, Refreshes, Logouts
<1>2. CASE req[r] \in Refreshes /\ pc \in {"revoke", "remove"}
  <2>1. /\ job \in Refreshes /\ job.pc = pc /\ job.op = req[r].op
        /\ job.user = req[r].user /\ job.at = req[r].at /\ job.old = req[r].old
    BY <1>2 DEF Refreshes
  <2> QED
    BY <2>1, BecomeStep DEF Goto, Moved, RequestStates
<1>3. CASE req[r] \in Logouts /\ pc \in {"remove", "audit"}
  <2>1. /\ job \in Logouts /\ job.pc = pc /\ job.op = req[r].op
        /\ job.user = req[r].user /\ job.old = req[r].old
    BY <1>3 DEF Logouts
  <2> QED
    BY <1>3, <2>1, BecomeStep DEF Goto, Moved, RequestStates, Entries, Refreshes, Logouts
<1> QED
  BY <1>1, <1>2, <1>3

\* Signing the tokens of a request.
LEMMA SignStep ==
    ASSUME TypeOK, NEW r \in Requests, SignAndGoto(r, "issue"),
           req[r] \in Entries \cup Refreshes
    PROVE  Signed(r) /\ req' \in [Requests -> RequestStates]
<1> DEFINE job == [req[r] EXCEPT !.pc = "issue", !.at = now]
<1>1. now \in Seconds
  BY DEF TypeOK
<1>2. CASE req[r] \in Entries
  <2>1. /\ job \in Entries /\ job.pc = "issue" /\ job.op = req[r].op
        /\ job.user = req[r].user /\ job.at = now
    BY <1>1, <1>2 DEF Entries
  <2> QED
    BY <1>2, <2>1, BecomeStep DEF SignAndGoto, Signed, RequestStates, Entries, Refreshes
<1>3. CASE req[r] \in Refreshes
  <2>1. /\ job \in Refreshes /\ job.pc = "issue" /\ job.op = req[r].op
        /\ job.user = req[r].user /\ job.at = now /\ job.old = req[r].old
    BY <1>1, <1>3 DEF Refreshes
  <2> QED
    BY <2>1, BecomeStep DEF SignAndGoto, Signed, RequestStates
<1> QED
  BY <1>2, <1>3

\* A request that ends.
LEMMA FinishStep ==
    ASSUME TypeOK, NEW r \in Requests, Finish(r)
    PROVE  /\ req'[r] = Idle
           /\ \A q \in Requests \ {r} : req'[q] = req[q]
           /\ req' \in [Requests -> RequestStates]
BY BecomeStep DEF Finish, RequestStates

\* The end of a revocation: of the request, too, unless it is a logout.
Released(r) == req'[r] = Idle \/ Moved(r, "audit")

\* What the handlers do after revokeToken.
LEMMA AfterRevokeStep ==
    ASSUME TypeOK, NEW r \in Requests, Become(r, AfterRevokeToken(req[r])),
           req[r] \in Refreshes \cup Logouts
    PROVE  Released(r) /\ req' \in [Requests -> RequestStates]
<1>1. CASE req[r].op = "logout"
  <2>1. Goto(r, "audit") /\ req[r] \in Logouts
    BY <1>1 DEF AfterRevokeToken, Goto, Refreshes
  <2> QED
    BY <2>1, GotoStep DEF Released
<1>2. CASE req[r].op # "logout"
  <2>1. Finish(r)
    BY <1>2 DEF AfterRevokeToken, Finish
  <2> QED
    BY <2>1, FinishStep DEF Released
<1> QED
  BY <1>1, <1>2

-------------------------------------------------------------------------------
(* The inductive invariant *)

\* A token is signed in the past, and exchanged for one of its user that is no older.
DatedRequest(r) ==
    /\ At(r, "issue") => req[r].at <= now
    /\ req[r].op = "refresh" =>
          /\ req[r].user = req[r].old.user
          /\ req[r].old.at <= now
          /\ At(r, "issue") => req[r].old.at <= req[r].at

\* Nothing is from the future: no token on record, and none about to be.
Dated == /\ \A token \in Tokens : refresh[token] # "none" => token.at <= now
         /\ \A r \in Requests : DatedRequest(r)

Inductive == TypeOK /\ Dated /\ ExchangedIsRevoked

RequestStep(r) == Begin(r) \/ Continue(r) \/ Fail(r) \/ SwallowError(r)

-------------------------------------------------------------------------------
(* What each step does *)

\* A request begins, with a token on record if it is to exchange one.
LEMMA BeginStep ==
    ASSUME TypeOK, NEW r \in Requests, Begin(r)
    PROVE  /\ req[r] = Idle
           /\ req' \in [Requests -> RequestStates]
           /\ \A q \in Requests \ {r} : req'[q] = req[q]
           /\ UNCHANGED <<now, account, session, audit, exchanged, excused>>
           /\ req'[r].pc \in {"create", "issue", "user", "revoke", "sessions"}
           /\ req'[r].pc = "issue" => req'[r].at = now
           /\ req'[r].pc \in {"create", "issue"} => req'[r].op # "refresh"
           /\ req'[r].pc = "revoke" => BeginLogout(r)
           /\ req'[r].op = "refresh" => /\ BeginRefresh(r)
                                        /\ req'[r].pc = "user"
                                        /\ req'[r].old \in Tokens
                                        /\ Valid(req'[r].old)
                                        /\ req'[r].user = req'[r].old.user
<1>1. /\ req[r] = Idle
      /\ UNCHANGED <<now, account, session, audit, exchanged, excused>>
  BY DEF Begin, BeginRegister, BeginLogin, BeginRefresh, BeginLogout, BeginCleanUp, tables, history
<1>2. CASE BeginRegister(r)
  <2>1. PICK user \in Users : Become(r, [op |-> "register", pc |-> "create", user |-> user, at |-> 0])
    BY <1>2 DEF BeginRegister
  <2>2. [op |-> "register", pc |-> "create", user |-> user, at |-> 0] \in RequestStates
    BY TokensAssumption DEF RequestStates, Entries, Seconds
  <2> QED
    BY <1>1, <2>1, <2>2, BecomeStep
<1>3. CASE BeginLogin(r)
  <2>1. PICK user \in account : Become(r, [op |-> "login", pc |-> "issue", user |-> user, at |-> now])
    BY <1>3 DEF BeginLogin
  <2>2. [op |-> "login", pc |-> "issue", user |-> user, at |-> now] \in RequestStates
    BY DEF RequestStates, Entries, TypeOK
  <2> QED
    BY <1>1, <2>1, <2>2, BecomeStep
<1>4. CASE BeginRefresh(r)
  <2>1. PICK old \in Tokens :
            /\ Valid(old)
            /\ Become(r, [op |-> "refresh", pc |-> "user", user |-> old.user, at |-> 0, old |-> old])
    BY <1>4 DEF BeginRefresh
  <2>2. [op |-> "refresh", pc |-> "user", user |-> old.user, at |-> 0, old |-> old] \in RequestStates
    BY TokensAssumption DEF RequestStates, Refreshes, Tokens, Seconds
  <2>3. /\ req'[r].op = "refresh" /\ req'[r].pc = "user" /\ req'[r].user = old.user
        /\ req'[r].old = old
    BY <2>1, <2>2, BecomeStep
  <2> QED
    BY <1>1, <1>4, <2>1, <2>2, <2>3, BecomeStep
<1>5. CASE BeginLogout(r)
  <2>1. PICK user \in account, old \in Tokens \cup {Missing} :
            Become(r, [op |-> "logout", pc |-> "revoke", user |-> user, old |-> old])
    BY <1>5 DEF BeginLogout
  <2>2. [op |-> "logout", pc |-> "revoke", user |-> user, old |-> old] \in RequestStates
    BY DEF RequestStates, Logouts, TypeOK
  <2> QED
    BY <1>1, <1>5, <2>1, <2>2, BecomeStep
<1>6. CASE BeginCleanUp(r)
  <2>1. Become(r, [op |-> "cleanup", pc |-> "sessions"])
    BY <1>6 DEF BeginCleanUp
  <2>2. [op |-> "cleanup", pc |-> "sessions"] \in RequestStates
    BY DEF RequestStates, CleanUps
  <2> QED
    BY <1>1, <2>1, <2>2, BecomeStep
<1> QED
  BY <1>2, <1>3, <1>4, <1>5, <1>6 DEF Begin

\* A failure ends the request, or lets it go on with what follows the statement.
LEMMA FailStep ==
    ASSUME TypeOK, NEW r \in Requests, Fail(r) \/ SwallowError(r)
    PROVE  /\ req[r] # Idle
           /\ Released(r)
           /\ req' \in [Requests -> RequestStates]
           /\ \A q \in Requests \ {r} : req'[q] = req[q]
           /\ UNCHANGED <<now, account, refresh, session, audit, exchanged>>
           /\ Excuse(r)
<1>1. CASE Fail(r)
  BY <1>1, FinishStep DEF Fail, Released, tables
<1>2. CASE At(r, "session") /\ Goto(r, "audit") /\ SwallowError(r)
  BY <1>2, Shapes, GotoStep, BecomeStep DEF Goto, SwallowError, Released, tables, At, Idle
<1>3. CASE /\ At(r, "revoke") \/ At(r, "remove")
           /\ Become(r, AfterRevokeToken(req[r]))
           /\ SwallowError(r)
  BY <1>3, Shapes, AfterRevokeStep, BecomeStep DEF SwallowError, Released, tables, At, Idle
<1> QED
  BY <1>1, <1>2, <1>3 DEF SwallowError, At

\* What the statements other than the insert make of their request.
LEMMA ContinueStep ==
    ASSUME TypeOK, NEW r \in Requests, Continue(r)
    PROVE  /\ req' \in [Requests -> RequestStates]
           /\ \A q \in Requests \ {r} : req'[q] = req[q]
           /\ CreateUser(r) => At(r, "create") /\ (req'[r] = Idle \/ Signed(r))
           /\ GetUser(r) => At(r, "user") /\ Signed(r)
           /\ GenerateTokens(r) => /\ At(r, "issue")
                                   /\ \/ req'[r] = Idle
                                      \/ req[r].op = "refresh" /\ Moved(r, "revoke")
                                      \/ req[r].op # "refresh" /\ Moved(r, "session")
           /\ CreateSession(r) => At(r, "session") /\ Moved(r, "audit")
           /\ RevokeToken(r) => At(r, "revoke") /\ (Released(r) \/ Moved(r, "remove"))
           /\ RemoveSession(r) => At(r, "remove") /\ Released(r)
           /\ CleanSessions(r) => At(r, "sessions") /\ req'[r] = Idle
           /\ LogAction(r) => At(r, "audit") /\ req'[r] = Idle
<1> DEFINE Distinct == /\ CreateUser(r) => At(r, "create")
                       /\ GetUser(r) => At(r, "user")
                       /\ GenerateTokens(r) => At(r, "issue")
                       /\ CreateSession(r) => At(r, "session")
                       /\ RevokeToken(r) => At(r, "revoke")
                       /\ RemoveSession(r) => At(r, "remove")
                       /\ CleanSessions(r) => At(r, "sessions")
                       /\ LogAction(r) => At(r, "audit")
<1>1. Distinct
  BY DEF CreateUser, GetUser, GenerateTokens, CreateSession, RevokeToken, RemoveSession,
         CleanSessions, LogAction
<1>2. CASE CreateUser(r)
  <2>1. Finish(r) \/ SignAndGoto(r, "issue")
    BY <1>2 DEF CreateUser
  <2> QED
    BY <1>1, <1>2, <2>1, Shapes, SignStep, FinishStep, BecomeStep DEF SignAndGoto, At
<1>3. CASE GetUser(r)
  BY <1>1, <1>3, Shapes, SignStep, BecomeStep DEF GetUser, SignAndGoto, At
<1>4. CASE GenerateTokens(r)
  <2>1. \/ Finish(r)
        \/ req[r].op = "refresh" /\ Goto(r, "revoke")
        \/ req[r].op # "refresh" /\ Goto(r, "session")
    BY <1>4 DEF GenerateTokens
  <2>2. \/ req[r] \in Entries /\ req[r].op # "refresh"
        \/ req[r] \in Refreshes /\ req[r].op = "refresh"
    BY <1>1, <1>4, Shapes DEF Entries, Refreshes
  <2> QED
    BY <1>1, <1>4, <2>1, <2>2, GotoStep, FinishStep, BecomeStep DEF Goto, At
<1>5. CASE CreateSession(r)
  BY <1>1, <1>5, Shapes, GotoStep, BecomeStep DEF CreateSession, Goto, At
<1>6. CASE RevokeToken(r)
  <2>1. Become(r, AfterRevokeToken(req[r])) \/ Goto(r, "remove")
    BY <1>6 DEF RevokeToken
  <2> QED
    BY <1>1, <1>6, <2>1, Shapes, GotoStep, AfterRevokeStep, BecomeStep DEF Goto, At
<1>7. CASE RemoveSession(r)
  BY <1>1, <1>7, Shapes, AfterRevokeStep, BecomeStep DEF RemoveSession, At
<1>8. CASE CleanSessions(r) \/ LogAction(r)
  BY <1>1, <1>8, FinishStep DEF CleanSessions, LogAction, At
<1> QED
  BY <1>2, <1>3, <1>4, <1>5, <1>6, <1>7, <1>8 DEF Continue

\* The insert of a refresh token that has no row.
Issued(r) ==
    /\ NewToken(r) \in Tokens
    /\ refresh[NewToken(r)] = "none"
    /\ refresh' = [refresh EXCEPT ![NewToken(r)] = "active"]
    /\ excused' = excused \cup ({NewToken(r)} \cap Exchanged)
    /\ \/ /\ req[r] \in Refreshes /\ Moved(r, "revoke")
          /\ exchanged' = exchanged \cup {<<req[r].old, NewToken(r)>>}
       \/ /\ req[r] \in Entries /\ Moved(r, "session")
          /\ UNCHANGED exchanged

\* No step but the insert makes a row, or makes one active.
NoNewRow == /\ refresh' \in [Tokens -> RowStates]
            /\ \A token \in Tokens : /\ refresh'[token] # "none" => refresh[token] # "none"
                                     /\ refresh'[token] = "active" => refresh[token] = "active"

\* The insert, unless it is refused.
LEMMA InsertStep ==
    ASSUME TypeOK, NEW r \in Requests, GenerateTokens(r)
    PROVE  \/ Issued(r)
           \/ UNCHANGED <<refresh, exchanged, excused>> /\ req'[r] = Idle
<1>1. req[r] \in Entries \cup Refreshes /\ NewToken(r) \in Tokens
  BY Shapes, NewTokenType DEF GenerateTokens
<1>2. CASE refresh[NewToken(r)] # "none"
  BY <1>2, FinishStep DEF GenerateTokens
<1>3. CASE refresh[NewToken(r)] = "none" /\ req[r].op = "refresh"
  <2>1. req[r] \in Refreshes /\ Goto(r, "revoke")
    BY <1>3, Shapes DEF GenerateTokens
  <2> QED
    BY <1>1, <1>3, <2>1, GotoStep DEF GenerateTokens, Issued
<1>4. CASE refresh[NewToken(r)] = "none" /\ req[r].op # "refresh"
  <2>1. req[r] \in Entries /\ Goto(r, "session")
    BY <1>1, <1>4 DEF GenerateTokens, Refreshes
  <2>2. exchanged' = exchanged
    BY <1>4 DEF GenerateTokens
  <2> QED
    BY <1>1, <1>4, <2>1, <2>2, GotoStep DEF GenerateTokens, Issued
<1> QED
  BY <1>2, <1>3, <1>4

\* What revokeToken does to the rows.
LEMMA RevokeStep ==
    ASSUME TypeOK, NEW r \in Requests, RevokeToken(r)
    PROVE  /\ NoNewRow
           /\ UNCHANGED <<now, account, session, exchanged, excused>>
           /\ \A token \in Tokens : /\ token \in Named(req[r].old) => refresh'[token] # "active"
                                    /\ token \notin Named(req[r].old) => refresh'[token] = refresh[token]
<1>1. \A token \in Tokens :
          refresh'[token] = IF token \in Named(req[r].old) /\ refresh[token] = "active"
                            THEN "revoked" ELSE refresh[token]
  BY DEF RevokeToken
<1>2. refresh' = [token \in Tokens |-> refresh'[token]]
  BY DEF RevokeToken
<1>3. refresh' \in [Tokens -> RowStates]
  <2>1. \A token \in Tokens : refresh'[token] \in RowStates
    BY <1>1 DEF TypeOK, RowStates
  <2> QED
    BY <1>2, <2>1
<1> QED
  BY <1>1, <1>3 DEF RevokeToken, NoNewRow, history

\* What the clean-up does to the rows: no valid token loses its own.
LEMMA CleanUpStep ==
    ASSUME TypeOK, NEW r \in Requests, BeginCleanUp(r)
    PROVE  /\ NoNewRow
           /\ \A token \in Tokens : Valid(token)' <=> Valid(token)
<1>1. \A token \in Tokens :
          refresh'[token] = IF \/ refresh[token] = "revoked"
                               \/ refresh[token] = "active" /\ ~ Unexpired(token)
                            THEN "none" ELSE refresh[token]
  BY DEF BeginCleanUp
<1>2. refresh' = [token \in Tokens |-> refresh'[token]]
  BY DEF BeginCleanUp
<1>3. refresh' \in [Tokens -> RowStates]
  <2>1. \A token \in Tokens : refresh'[token] \in RowStates
    BY <1>1 DEF TypeOK, RowStates
  <2> QED
    BY <1>2, <2>1
<1>4. now' = now
  BY DEF BeginCleanUp
<1> QED
  BY <1>1, <1>3, <1>4 DEF NoNewRow, Valid, Unexpired

\* The rows of the refresh tokens, and the pairs exchanged, in a step of a request.
LEMMA RowStep ==
    ASSUME TypeOK, NEW r \in Requests, RequestStep(r)
    PROVE  \/ GenerateTokens(r) /\ Issued(r)
           \/ ~ Issued(r) /\ NoNewRow /\ UNCHANGED exchanged
<1>1. UNCHANGED refresh => NoNewRow
  BY DEF NoNewRow, TypeOK
<1>2. NoNewRow => ~ Issued(r)
  BY DEF NoNewRow, Issued, TypeOK
<1>3. CASE Begin(r)
  BY <1>1, <1>2, <1>3, CleanUpStep, BeginStep DEF Begin, BeginRegister, BeginLogin, BeginRefresh,
     BeginLogout, tables
<1>4. CASE Fail(r) \/ SwallowError(r)
  BY <1>1, <1>2, <1>4, FailStep
<1>5. CASE Continue(r)
  <2>1. CASE GenerateTokens(r)
    BY <1>1, <1>2, <2>1, InsertStep
  <2>2. CASE RevokeToken(r)
    BY <1>2, <2>2, RevokeStep
  <2>3. CASE ~ GenerateTokens(r) /\ ~ RevokeToken(r)
    BY <1>1, <1>2, <1>5, <2>3 DEF Continue, CreateUser, GetUser, CreateSession, RemoveSession,
       CleanSessions, LogAction, tables, history
  <2> QED
    BY <2>1, <2>2, <2>3
<1> QED
  BY <1>3, <1>4, <1>5 DEF RequestStep

\* A request moves only itself.
LEMMA OwnStep ==
    ASSUME TypeOK, NEW r \in Requests, RequestStep(r)
    PROVE  /\ req' \in [Requests -> RequestStates]
           /\ \A q \in Requests \ {r} : req'[q] = req[q]
           /\ now' = now
<1>1. now' = now
  BY DEF RequestStep, Begin, BeginRegister, BeginLogin, BeginRefresh, BeginLogout, BeginCleanUp,
         Continue, CreateUser, GetUser, GenerateTokens, CreateSession, RevokeToken, RemoveSession,
         CleanSessions, LogAction, Fail, SwallowError
<1> QED
  BY <1>1, BeginStep, ContinueStep, FailStep DEF RequestStep

-------------------------------------------------------------------------------
(* Types *)

\* The empty tables and the idle requests have the types.
LEMMA TypeInit == Init => TypeOK
BY TokensAssumption DEF Init, TypeOK, RequestStates, RowStates, Seconds

\* The sessions are those of access tokens, from a second that has been.
LEMMA SessionStep ==
    ASSUME TypeOK, NEW r \in Requests, RequestStep(r)
    PROVE  session' \subseteq [hash : [kind : {"access"}, token : Tokens], since : Seconds]
<1>1. CASE CreateSession(r)
  <2>1. NewToken(r) \in Tokens
    BY <1>1, Shapes, NewTokenType DEF CreateSession
  <2>2. [hash |-> Hash("access", NewToken(r)), since |-> now]
            \in [hash : [kind : {"access"}, token : Tokens], since : Seconds]
    BY <2>1 DEF Hash, TypeOK
  <2> QED
    BY <1>1, <2>2 DEF CreateSession, TypeOK
<1>2. CASE RemoveSession(r) \/ CleanSessions(r)
  BY <1>2 DEF RemoveSession, CleanSessions, TypeOK
<1>3. CASE ~ CreateSession(r) /\ ~ RemoveSession(r) /\ ~ CleanSessions(r)
  <2>1. session' = session
    BY <1>3, BeginStep, FailStep DEF RequestStep, Continue, CreateUser, GetUser, GenerateTokens,
       RevokeToken, LogAction, tables
  <2> QED
    BY <2>1 DEF TypeOK
<1> QED
  BY <1>1, <1>2, <1>3

\* The accounts are users.
LEMMA AccountStep ==
    ASSUME TypeOK, NEW r \in Requests, RequestStep(r)
    PROVE  account' \subseteq Users
<1>1. CASE CreateUser(r)
  BY <1>1, Shapes DEF CreateUser, Entries, TypeOK
<1>2. CASE ~ CreateUser(r)
  <2>1. account' = account
    BY <1>2, BeginStep, FailStep DEF RequestStep, Continue, GetUser, GenerateTokens, CreateSession,
       RevokeToken, RemoveSession, CleanSessions, LogAction, tables
  <2> QED
    BY <2>1 DEF TypeOK
<1> QED
  BY <1>1, <1>2

\* The entries of the log name users.
LEMMA AuditStep ==
    ASSUME TypeOK, NEW r \in Requests, RequestStep(r)
    PROVE  audit' \subseteq [action : {"USER_REGISTER", "USER_LOGIN", "USER_LOGOUT"}, user : Users]
<1>1. CASE LogAction(r)
  <2>1. req[r] \in Entries \cup Logouts
    BY <1>1, Shapes DEF LogAction
  <2>2. /\ AuditAction[req[r].op] \in {"USER_REGISTER", "USER_LOGIN", "USER_LOGOUT"}
        /\ req[r].user \in Users
    BY <2>1 DEF AuditAction, Entries, Logouts
  <2> QED
    BY <1>1, <2>2 DEF LogAction, TypeOK
<1>2. CASE ~ LogAction(r)
  <2>1. audit' = audit
    BY <1>2, BeginStep, FailStep DEF RequestStep, Continue, CreateUser, GetUser, GenerateTokens,
       CreateSession, RevokeToken, RemoveSession, CleanSessions, tables
  <2> QED
    BY <2>1 DEF TypeOK
<1> QED
  BY <1>1, <1>2

\* The tokens that a failure excuses are tokens, and none is unexcused.
LEMMA ExcuseStep ==
    ASSUME TypeOK, NEW r \in Requests, RequestStep(r)
    PROVE  excused' \subseteq Tokens /\ excused \subseteq excused'
<1>1. CASE GenerateTokens(r)
  <2>1. Issued(r) \/ UNCHANGED excused
    BY <1>1, InsertStep
  <2> QED
    BY <2>1 DEF Issued, TypeOK
<1>2. CASE Fail(r) \/ SwallowError(r)
  <2>1. Excuse(r)
    BY <1>2, FailStep
  <2>2. req[r].op = "refresh" => req[r].old \in Tokens
    BY Shapes DEF Refreshes
  <2> QED
    BY <2>1, <2>2 DEF Excuse, TypeOK
<1>3. CASE Begin(r) \/ (Continue(r) /\ ~ GenerateTokens(r))
  <2>1. excused' = excused
    BY <1>3, BeginStep DEF Continue, CreateUser, GetUser, CreateSession, RevokeToken, RemoveSession,
       CleanSessions, LogAction, history
  <2> QED
    BY <2>1 DEF TypeOK
<1> QED
  BY <1>1, <1>2, <1>3 DEF RequestStep

\* A step of a request keeps the types.
LEMMA TypeStep ==
    ASSUME TypeOK, NEW r \in Requests, RequestStep(r)
    PROVE  TypeOK'
<1>1. refresh' \in [Tokens -> RowStates] /\ exchanged' \subseteq Tokens \X Tokens
  <2>1. CASE Issued(r)
    <3>1. req[r] \in Refreshes => req[r].old \in Tokens
      BY DEF Refreshes
    <3>2. refresh' \in [Tokens -> RowStates]
      BY <2>1 DEF Issued, TypeOK, RowStates
    <3> QED
      BY <2>1, <3>1, <3>2 DEF Issued, TypeOK
  <2>2. CASE NoNewRow /\ UNCHANGED exchanged
    BY <2>2 DEF NoNewRow, TypeOK
  <2> QED
    BY <2>1, <2>2, RowStep
<1> QED
  BY <1>1, OwnStep, SessionStep, AccountStep, AuditStep, ExcuseStep DEF TypeOK

\* Time passes within its bound, and touches nothing else.
LEMMA TickStep ==
    ASSUME TypeOK, Tick
    PROVE  /\ TypeOK'
           /\ now' = now + 1
           /\ UNCHANGED <<account, refresh, session, audit, req, exchanged, excused>>
<1>1. UNCHANGED <<account, refresh, session, audit, req, exchanged, excused>>
  BY DEF Tick, tables, history
<1>2. now' \in Seconds /\ now' = now + 1
  BY TokensAssumption DEF Tick, TypeOK, Seconds
<1> QED
  BY <1>1, <1>2 DEF TypeOK

-------------------------------------------------------------------------------
(* No token is from the future *)

\* The dates are those of integers.
LEMMA Times == ASSUME TypeOK
               PROVE  /\ now \in Int
                      /\ \A token \in Tokens : token.at \in Int
                      /\ \A r \in Requests : req[r] \in Entries \cup Refreshes => req[r].at \in Int
BY DEF TypeOK, Tokens, Seconds, Entries, Refreshes

\* The tokens on record were signed before now.
LEMMA DatedRows ==
    ASSUME TypeOK, Dated, NEW r \in Requests, RequestStep(r),
           NEW token \in Tokens, refresh'[token] # "none"
    PROVE  token.at <= now
<1>1. CASE Issued(r)
  <2>1. NewToken(r).at <= now
    BY <1>1, RowStep DEF Dated, DatedRequest, NewToken, GenerateTokens, NoNewRow, Issued
  <2> QED
    BY <1>1, <2>1 DEF Issued, TypeOK, Dated
<1>2. CASE NoNewRow
  BY <1>2 DEF NoNewRow, Dated
<1> QED
  BY <1>1, <1>2, RowStep

\* The request that makes the step carries what Dated asks of it.
LEMMA DatedOwn ==
    ASSUME TypeOK, Dated, NEW r \in Requests, RequestStep(r)
    PROVE  DatedRequest(r)'
<1> USE DEF At, DatedRequest
<1>1. now' = now /\ DatedRequest(r)
  BY OwnStep DEF Dated
<1>2. CASE Begin(r)
  <2>1. req'[r].op = "refresh" => req'[r].old.at <= now
    BY <1>2, BeginStep DEF Valid, Dated
  <2> QED
    BY <1>1, <1>2, <2>1, BeginStep, Times
<1>3. CASE req'[r] = Idle
  BY <1>3 DEF Idle
<1>4. ASSUME NEW pc, pc # "issue", Moved(r, pc)
      PROVE  DatedRequest(r)'
  BY <1>1, <1>4, Shapes DEF Moved
<1>5. CASE Signed(r)
  BY <1>1, <1>5, Shapes, Times DEF Signed
<1>6. Begin(r) \/ req'[r] = Idle \/ Signed(r) \/ \E pc : pc # "issue" /\ Moved(r, pc)
  <2>1. Released(r) => req'[r] = Idle \/ \E pc : pc # "issue" /\ Moved(r, pc)
    BY DEF Released
  <2>2. CASE Continue(r)
    BY <2>1, <2>2, ContinueStep DEF Continue
  <2> QED
    BY <2>1, <2>2, FailStep DEF RequestStep
<1> QED
  BY <1>2, <1>3, <1>4, <1>5, <1>6

\* A step of a request leaves nothing from the future.
LEMMA DatedStep ==
    ASSUME TypeOK, Dated, NEW r \in Requests, RequestStep(r)
    PROVE  Dated'
<1>1. now' = now
  BY OwnStep
<1>2. \A q \in Requests \ {r} : DatedRequest(q)'
  BY <1>1, OwnStep DEF Dated, DatedRequest, At
<1> QED
  BY <1>1, <1>2, DatedRows, DatedOwn DEF Dated

-------------------------------------------------------------------------------
(* An exchanged token is revoked *)

\* A request that is about to revoke a token of an exchange.
Revoking(token) == \E r \in Exchanging(token) : At(r, "revoke")

\* A request leaves the revocation by making it, or by a failure that is excused.
LEMMA LeavesRevoke ==
    ASSUME TypeOK, NEW r \in Requests, RequestStep(r), At(r, "revoke")
    PROVE  RevokeToken(r) \/ Excuse(r)
<1>1. ~ Begin(r)
  BY BeginStep DEF At, Idle
<1>2. Continue(r) => RevokeToken(r)
  BY ContinueStep DEF Continue, At
<1> QED
  BY <1>1, <1>2, FailStep DEF RequestStep

\* A step of a request loses no revocation that is due.
LEMMA RevokedStep ==
    ASSUME TypeOK, ExchangedIsRevoked, NEW r \in Requests, RequestStep(r)
    PROVE  ExchangedIsRevoked'
<1> SUFFICES ASSUME NEW pair \in exchanged', Valid(pair[1])'
             PROVE  pair[1] \in excused' \/ Revoking(pair[1])'
  BY DEF ExchangedIsRevoked, Revoking
<1> DEFINE token == pair[1]
<1>1. TypeOK' /\ token \in Tokens
  BY TypeStep DEF TypeOK
<1>2. refresh'[token] = "active" /\ now' = now /\ Unexpired(token)
  BY OwnStep DEF Valid, Unexpired
<1>3. ASSUME pair \notin exchanged
      PROVE  Revoking(token)'
  <2>1. Issued(r) /\ req[r] \in Refreshes /\ Moved(r, "revoke") /\ token = req[r].old
    BY <1>3, RowStep DEF Issued
  <2>2. req'[r].op = "refresh" /\ req'[r].pc = "revoke" /\ req'[r].old = token
    BY <2>1 DEF Moved, Refreshes
  <2> QED
    BY <2>2 DEF Revoking, Exchanging, At
<1>4. ASSUME pair \in exchanged, refresh[token] # "active"
      PROVE  token \in excused'
  <2>1. Issued(r) /\ token = NewToken(r)
    BY <1>1, <1>2, <1>4, RowStep DEF NoNewRow, Issued, TypeOK
  <2>2. token \in Exchanged
    BY <1>4 DEF Exchanged
  <2> QED
    BY <2>1, <2>2 DEF Issued
<1>5. ASSUME pair \in exchanged, refresh[token] = "active"
      PROVE  token \in excused' \/ Revoking(token)'
  <2>1. token \in excused \/ Revoking(token)
    BY <1>2, <1>5 DEF ExchangedIsRevoked, Valid, Revoking
  <2>2. CASE token \in excused
    BY <2>2, ExcuseStep
  <2>3. ASSUME NEW q \in Exchanging(token), At(q, "revoke"), q # r
        PROVE  Revoking(token)'
    <3>1. req'[q] = req[q] /\ q \in Requests
      BY <2>3, OwnStep DEF Exchanging
    <3> QED
      BY <2>3, <3>1 DEF Revoking, Exchanging, At
  <2>4. CASE r \in Exchanging(token) /\ At(r, "revoke")
    <3>1. ~ RevokeToken(r)
      BY <1>1, <1>2, <2>4, RevokeStep DEF Exchanging, Named
    <3> QED
      BY <2>4, <3>1, LeavesRevoke DEF Excuse, Exchanging
  <2> QED
    BY <2>1, <2>2, <2>3, <2>4 DEF Revoking
<1> QED
  BY <1>3, <1>4, <1>5

-------------------------------------------------------------------------------
(* The invariant holds initially, and in every step *)

\* It holds of the empty tables.
LEMMA InductiveInit == Init => Inductive
BY TypeInit, TokensAssumption DEF Init, Inductive, Dated, DatedRequest, ExchangedIsRevoked, At, Idle

\* Every step keeps it.
LEMMA InductiveStep == Inductive /\ [Next]_vars => Inductive'
<1> SUFFICES ASSUME Inductive, [Next]_vars
             PROVE  Inductive'
  OBVIOUS
<1>1. ASSUME NEW r \in Requests, RequestStep(r)
      PROVE  Inductive'
  BY <1>1, TypeStep, DatedStep, RevokedStep DEF Inductive
<1>2. CASE Tick
  <2>1. TypeOK' /\ now' = now + 1 /\ UNCHANGED <<refresh, req, exchanged, excused>>
    BY <1>2, TickStep DEF Inductive
  <2>2. Dated'
    <3>1. \A token \in Tokens : token.at <= now => token.at <= now + 1
      BY Times DEF Inductive
    <3>2. \A q \in Requests : DatedRequest(q)'
      <4> TAKE q \in Requests
      <4>1. DatedRequest(q)
        BY DEF Inductive, Dated
      <4>2. At(q, "issue") => req[q].at \in Int
        BY Shapes, Times DEF Inductive
      <4>3. req[q].op = "refresh" => req[q].old.at \in Int
        BY Shapes, Times DEF Inductive, Refreshes
      <4>4. now \in Int
        BY Times DEF Inductive
      <4> QED
        BY <2>1, <4>1, <4>2, <4>3, <4>4 DEF DatedRequest, At
    <3> QED
      BY <2>1, <3>1, <3>2 DEF Dated, Inductive
  <2>3. ExchangedIsRevoked'
    <3>1. \A token \in Tokens : Valid(token)' => Valid(token)
      <4>1. now \in Int /\ RefreshLife \in Int
        BY TokensAssumption, Times DEF Inductive
      <4> QED
        BY <2>1, <4>1, Times DEF Inductive, Valid, Unexpired
    <3>2. \A pair \in exchanged : pair[1] \in Tokens
      BY DEF Inductive, TypeOK
    <3> QED
      BY <2>1, <3>1, <3>2 DEF Inductive, ExchangedIsRevoked, Exchanging, At
  <2> QED
    BY <2>1, <2>2, <2>3 DEF Inductive
<1>3. CASE UNCHANGED vars
  BY <1>3 DEF vars, Inductive, TypeOK, Dated, DatedRequest, ExchangedIsRevoked, Valid, Unexpired,
              Exchanging, At
<1> QED
  BY <1>1, <1>2, <1>3 DEF Next, RequestStep

\* So it always holds.
LEMMA InductiveInvariant == Spec => []Inductive
BY InductiveInit, InductiveStep, PTL DEF Spec

-------------------------------------------------------------------------------
(* What the token service promises: it implements TokenLife *)

\* The refinement mapping.
Accepted == {token \in Tokens : Valid(token)}
Doomed == {req[r].old : r \in {q \in Requests : At(q, "revoke")}}

\* A request that comes to no revocation, or leaves none, dooms and spares no token.
LEMMA DoomedSame ==
    ASSUME NEW r \in Requests, \A q \in Requests \ {r} : req'[q] = req[q],
           ~ At(r, "revoke"), ~ At(r, "revoke")'
    PROVE  Doomed' = Doomed
<1>1. {q \in Requests : At(q, "revoke")'} = {q \in Requests : At(q, "revoke")}
  BY DEF At
<1>2. \A q \in Requests : At(q, "revoke") => req'[q] = req[q]
  OBVIOUS
<1> QED
  BY <1>1, <1>2 DEF Doomed

\* One that comes to its revocation dooms its token.
LEMMA DoomedMore ==
    ASSUME NEW r \in Requests, \A q \in Requests \ {r} : req'[q] = req[q],
           ~ At(r, "revoke"), At(r, "revoke")'
    PROVE  Doomed' = Doomed \cup {req'[r].old}
<1>1. \A q \in Requests : At(q, "revoke")' <=> q = r \/ At(q, "revoke")
  BY DEF At
<1>2. \A q \in Requests : At(q, "revoke") => req'[q] = req[q]
  OBVIOUS
<1>3. Doomed' \subseteq Doomed \cup {req'[r].old}
  BY <1>1, <1>2 DEF Doomed
<1>4. Doomed \cup {req'[r].old} \subseteq Doomed'
  BY <1>1, <1>2 DEF Doomed
<1> QED
  BY <1>3, <1>4

\* One that leaves it spares its token, unless another request is about to revoke it.
LEMMA DoomedLess ==
    ASSUME NEW r \in Requests, \A q \in Requests \ {r} : req'[q] = req[q],
           At(r, "revoke"), ~ At(r, "revoke")'
    PROVE  req[r].old \in Doomed /\ Doomed' \in {Doomed, Doomed \ {req[r].old}}
<1>1. \A q \in Requests : At(q, "revoke")' <=> q # r /\ At(q, "revoke")
  BY DEF At
<1>2. \A q \in Requests : q # r => req'[q] = req[q]
  OBVIOUS
<1>3. req[r].old \in Doomed
  BY DEF Doomed
<1>4. Doomed' \subseteq Doomed
  BY <1>1, <1>2 DEF Doomed
<1>5. \A old \in Doomed : old # req[r].old => old \in Doomed'
  BY <1>1, <1>2 DEF Doomed
<1>6. Doomed' = Doomed \/ Doomed' = Doomed \ {req[r].old}
  BY <1>3, <1>4, <1>5
<1> QED
  BY <1>3, <1>6

\* A step that does not come to a revocation keeps to its request.
LEMMA SameSteps ==
    ASSUME Inductive, NEW r \in Requests, RequestStep(r),
           ~ Issued(r), ~ BeginLogout(r), ~ At(r, "revoke")
    PROVE  Accepted' = Accepted /\ Doomed' = Doomed
<1> USE DEF Inductive
<1>1. now' = now /\ \A q \in Requests \ {r} : req'[q] = req[q]
  BY OwnStep
<1>2. \A token \in Tokens : Valid(token)' <=> Valid(token)
  <2>1. CASE BeginCleanUp(r)
    BY <2>1, CleanUpStep
  <2>2. CASE ~ BeginCleanUp(r)
    <3>1. GenerateTokens(r) => refresh' = refresh
      BY InsertStep
    <3>2. refresh' = refresh
      BY <2>2, <3>1, FailStep DEF RequestStep, Begin, Continue, BeginRegister, BeginLogin, BeginRefresh,
         CreateUser, GetUser, CreateSession, RevokeToken, RemoveSession, CleanSessions, LogAction,
         tables
    <3> QED
      BY <1>1, <3>2 DEF Valid, Unexpired
  <2> QED
    BY <2>1, <2>2
<1>3. ~ At(r, "revoke")'
  <2>1. CASE Begin(r)
    BY <2>1, BeginStep DEF At
  <2>2. CASE GenerateTokens(r)
    BY <2>2, InsertStep DEF At, Idle
  <2>3. CASE Continue(r) /\ ~ GenerateTokens(r)
    BY <2>3, ContinueStep DEF Continue, Released, Moved, Signed, At, Idle
  <2>4. CASE Fail(r) \/ SwallowError(r)
    BY <2>4, FailStep DEF Released, Moved, At, Idle
  <2> QED
    BY <2>1, <2>2, <2>3, <2>4 DEF RequestStep
<1> QED
  BY <1>1, <1>2, <1>3, DoomedSame DEF Accepted

\* The insert grants a token that was not accepted, for its life.
LEMMA GrantStep ==
    ASSUME Inductive, NEW r \in Requests, RequestStep(r), Issued(r)
    PROVE  LET new == NewToken(r)
           IN  /\ new \in [user : Users, at : 0 .. now]
               /\ new \notin Accepted
               /\ Accepted' = IF now < new.at + RefreshLife THEN Accepted \cup {new} ELSE Accepted
<1> USE DEF Inductive
<1> DEFINE new == NewToken(r)
<1>1. now' = now /\ new \in Tokens /\ GenerateTokens(r)
  BY OwnStep, RowStep DEF Issued
<1>2. new.at <= now
  BY <1>1 DEF Dated, DatedRequest, NewToken, GenerateTokens
<1>3. new \in [user : Users, at : 0 .. now]
  BY <1>1, <1>2 DEF Tokens, Seconds, TypeOK
<1>4. /\ refresh[new] = "none" /\ refresh'[new] = "active"
      /\ \A token \in Tokens \ {new} : refresh'[token] = refresh[token]
  BY <1>1 DEF Issued, TypeOK
<1> HIDE DEF new
<1>5. \A token \in Tokens : token \in Accepted' <=> \/ token \in Accepted
                                                    \/ token = new /\ now < new.at + RefreshLife
  BY <1>1, <1>4 DEF Accepted, Valid, Unexpired
<1>6. Accepted \subseteq Tokens /\ Accepted' \subseteq Tokens /\ new \notin Accepted
  BY <1>4 DEF Accepted, Valid
<1> QED
  BY <1>1, <1>3, <1>5, <1>6 DEF new

\* An insert is an issue, or an exchange if the request is to refresh a token.
LEMMA InsertImplements ==
    ASSUME Inductive, NEW r \in Requests, RequestStep(r), Issued(r)
    PROVE  Life!Issue \/ Life!Exchange
<1> USE DEF Inductive
<1> DEFINE new == NewToken(r)
<1>1. now' = now /\ At(r, "issue") /\ \A q \in Requests \ {r} : req'[q] = req[q]
  BY OwnStep, RowStep DEF GenerateTokens
<1>2. Life!Grant(new) /\ new \in Life!Tokens
  BY GrantStep DEF Life!Grant, Life!Tokens, Accepted
<1>3. CASE req[r] \in Refreshes /\ Moved(r, "revoke")
  <2>1. req'[r].old = req[r].old /\ At(r, "revoke")' /\ ~ At(r, "revoke")
    BY <1>1, <1>3 DEF Moved, At
  <2>2. Doomed' = Doomed \cup {req[r].old}
    BY <1>1, <2>1, DoomedMore
  <2>3. /\ req[r].old \in Tokens /\ req[r].old.at <= now
        /\ req[r].old.user = new.user /\ req[r].old.at <= new.at
    BY <1>1, <1>3 DEF Dated, DatedRequest, Refreshes, NewToken
  <2>4. req[r].old \in Life!Tokens
    BY <2>3 DEF Life!Tokens, Tokens, Seconds, TypeOK
  <2> QED
    BY <1>1, <1>2, <2>2, <2>3, <2>4 DEF Life!Exchange, Doomed
<1>4. CASE req[r] \in Entries /\ Moved(r, "session")
  <2>1. Doomed' = Doomed
    BY <1>1, <1>4, DoomedSame DEF Moved, At
  <2> QED
    BY <1>1, <1>2, <2>1 DEF Life!Issue, Doomed
<1> QED
  BY <1>3, <1>4 DEF Issued

\* A logout dooms the token that it names, or all of them.
LEMMA LogoutImplements ==
    ASSUME Inductive, NEW r \in Requests, Begin(r), BeginLogout(r)
    PROVE  Life!Logout
<1> USE DEF Inductive
<1>1. PICK user \in account, old \in Tokens \cup {Missing} :
          /\ old # Missing => refresh[old] # "none"
          /\ req'[r] = [op |-> "logout", pc |-> "revoke", user |-> user, old |-> old]
  BY BecomeStep DEF BeginLogout
<1>2. /\ now' = now /\ refresh' = refresh
      /\ ~ At(r, "revoke") /\ At(r, "revoke")' /\ req'[r].old = old
      /\ \A q \in Requests \ {r} : req'[q] = req[q]
  BY <1>1, BeginStep DEF BeginLogout, tables, At, Idle
<1>3. Doomed' = Doomed \cup {old}
  BY <1>2, DoomedMore
<1>4. Accepted' = Accepted
  BY <1>2 DEF Accepted, Valid, Unexpired
<1>5. old \in Life!Tokens \cup {Missing}
  BY <1>1 DEF Dated, Life!Tokens, Tokens, Seconds, TypeOK
<1> QED
  BY <1>2, <1>3, <1>4, <1>5 DEF Life!Logout, Accepted, Doomed

\* A revocation withdraws the token it was for, or all of them.
LEMMA RevokeImplements ==
    ASSUME Inductive, NEW r \in Requests, RequestStep(r), RevokeToken(r)
    PROVE  Life!Withdraw
<1> USE DEF Inductive
<1> DEFINE named == req[r].old
<1>1. /\ now' = now
      /\ At(r, "revoke")
      /\ Released(r) \/ Moved(r, "remove")
      /\ \A q \in Requests \ {r} : req'[q] = req[q]
  <2>1. Continue(r)
    BY DEF Continue
  <2> QED
    BY <2>1, OwnStep, ContinueStep
<1>2. named \in Doomed /\ Doomed' \in {Doomed, Doomed \ {named}}
  <2>1. ~ At(r, "revoke")'
    BY <1>1 DEF Released, Moved, At, Idle
  <2> QED
    BY <1>1, <2>1, DoomedLess
<1>3. \A token \in Tokens : Valid(token)' <=> Valid(token) /\ named \notin {token, Missing}
  BY <1>1, RevokeStep DEF Valid, Unexpired, Named, NoNewRow
<1>4. Accepted' = IF named = Missing THEN {} ELSE Accepted \ {named}
  BY <1>3 DEF Accepted
<1> QED
  BY <1>1, <1>2, <1>4 DEF Life!Withdraw, Accepted, Doomed

\* A failure in place of a revocation gives it up.
LEMMA FailureImplements ==
    ASSUME Inductive, NEW r \in Requests, Fail(r) \/ SwallowError(r), At(r, "revoke")
    PROVE  Life!GiveUp \/ UNCHANGED <<now, Accepted, Doomed>>
<1> USE DEF Inductive
<1>1. /\ now' = now /\ refresh' = refresh
      /\ ~ At(r, "revoke")'
      /\ \A q \in Requests \ {r} : req'[q] = req[q]
  BY FailStep DEF Released, Moved, At, Idle
<1>2. req[r].old \in Doomed /\ Doomed' \in {Doomed, Doomed \ {req[r].old}}
  BY <1>1, DoomedLess
<1>3. Accepted' = Accepted
  BY <1>1 DEF Accepted, Valid, Unexpired
<1> QED
  BY <1>1, <1>2, <1>3 DEF Life!GiveUp, Accepted, Doomed

\* Time ends the lives of tokens.
LEMMA TickImplements ==
    ASSUME Inductive, Tick
    PROVE  Life!Tick
<1> USE DEF Inductive
<1>1. now' = now + 1 /\ UNCHANGED <<refresh, req>>
  BY TickStep
<1>2. \A token \in Tokens : Valid(token)' <=> Valid(token) /\ now' < token.at + RefreshLife
  <2>1. now \in Int /\ RefreshLife \in Int
    BY TokensAssumption, Times
  <2> QED
    BY <1>1, <2>1, Times DEF Valid, Unexpired
<1>3. Accepted' = {token \in Accepted : now' < token.at + RefreshLife}
  BY <1>2 DEF Accepted
<1>4. Doomed' = Doomed
  BY <1>1 DEF Doomed, At
<1> QED
  BY <1>1, <1>3, <1>4 DEF Life!Tick, Accepted, Doomed

\* Every step of the services is one that the promise allows, or none it can see.
LEMMA StepImplements == Inductive /\ [Next]_vars => [Life!Next]_Life!vars
<1> SUFFICES ASSUME Inductive, [Next]_vars
             PROVE  Life!Next \/ UNCHANGED <<now, Accepted, Doomed>>
  BY DEF Life!vars, Accepted, Doomed
<1> USE DEF Life!Next
<1>1. ASSUME NEW r \in Requests, RequestStep(r)
      PROVE  Life!Next \/ UNCHANGED <<now, Accepted, Doomed>>
  <2>1. CASE Issued(r)
    BY <1>1, <2>1, InsertImplements
  <2>2. CASE BeginLogout(r)
    <3>1. Begin(r)
      <4>1. req[r] = Idle
        BY <2>2 DEF BeginLogout
      <4>2. ~ Continue(r)
        BY <4>1, ContinueStep DEF Continue, Inductive, At, Idle
      <4>3. ~ Fail(r) /\ ~ SwallowError(r)
        BY <4>1, FailStep DEF Inductive
      <4> QED
        BY <1>1, <4>2, <4>3 DEF RequestStep
    <3> QED
      BY <2>2, <3>1, LogoutImplements
  <2>3. CASE At(r, "revoke")
    <3>1. RevokeToken(r) \/ Fail(r) \/ SwallowError(r)
      <4>1. ~ Begin(r)
        BY <2>3, BeginStep DEF Inductive, At, Idle
      <4>2. Continue(r) => RevokeToken(r)
        BY <2>3, ContinueStep DEF Continue, Inductive, At
      <4> QED
        BY <1>1, <4>1, <4>2 DEF RequestStep
    <3> QED
      BY <1>1, <2>3, <3>1, RevokeImplements, FailureImplements
  <2>4. CASE ~ Issued(r) /\ ~ BeginLogout(r) /\ ~ At(r, "revoke")
    BY <1>1, <2>4, SameSteps, OwnStep DEF Inductive
  <2> QED
    BY <2>1, <2>2, <2>3, <2>4
<1>2. CASE Tick
  BY <1>2, TickImplements
<1>3. CASE UNCHANGED vars
  BY <1>3 DEF vars, Accepted, Doomed, Valid, Unexpired, At
<1> QED
  BY <1>1, <1>2, <1>3 DEF Next, RequestStep

\* No token is accepted and none is doomed at first.
LEMMA InitImplements == Init => Life!Init
BY DEF Init, Life!Init, Valid, At, Idle

-------------------------------------------------------------------------------
(* How many successors a token has *)

\* The requests that have exchanged a token and are about to revoke it, and those
\* that will exchange it.
Replaced(token) == {r \in Exchanging(token) : At(r, "revoke")}
Replacing(token) == {r \in Exchanging(token) : ~ At(r, "revoke")}

\* While a token is active nobody who exchanged it has been past its revocation: each
\* successor is of a request that is still about to revoke it.
SuccessorsMatched ==
    \A token \in Tokens \ excused :
        /\ IsFiniteSet(Successors(token))
        /\ refresh[token] = "active" =>
              Cardinality(Successors(token)) <= Cardinality(Replaced(token))

\* Two sets apart in a finite one.
LEMMA ApartInside ==
    ASSUME NEW Q, IsFiniteSet(Q), NEW A \in SUBSET Q, NEW B \in SUBSET Q, A \cap B = {}
    PROVE  /\ IsFiniteSet(A) /\ IsFiniteSet(B)
           /\ Cardinality(A) \in Nat /\ Cardinality(B) \in Nat /\ Cardinality(Q) \in Nat
           /\ Cardinality(A) + Cardinality(B) <= Cardinality(Q)
<1>1. IsFiniteSet(A) /\ IsFiniteSet(B)
  BY FS_Subset
<1>2. Cardinality(A) \in Nat /\ Cardinality(B) \in Nat /\ Cardinality(Q) \in Nat
  BY <1>1, FS_CardinalityType
<1>3. Cardinality(A \cup B) = Cardinality(A) + Cardinality(B) - Cardinality(A \cap B)
  BY <1>1, FS_Union
<1>4. Cardinality(A \cap B) = 0
  BY FS_EmptySet
<1>5. Cardinality(A \cup B) <= Cardinality(Q)
  <2>1. A \cup B \subseteq Q
    OBVIOUS
  <2> QED
    BY <2>1, FS_Subset
<1> QED
  BY <1>1, <1>2, <1>3, <1>4, <1>5

\* The requests about to revoke a token, and about to exchange it, are different ones.
LEMMA RequestsApart ==
    ASSUME IsFiniteSet(Requests), NEW token
    PROVE  /\ IsFiniteSet(Replaced(token)) /\ IsFiniteSet(Replacing(token))
           /\ Cardinality(Replaced(token)) \in Nat /\ Cardinality(Replacing(token)) \in Nat
           /\ Cardinality(Requests) \in Nat
           /\ Cardinality(Replaced(token)) + Cardinality(Replacing(token))
                 <= Cardinality(Requests)
<1>1. /\ Replaced(token) \in SUBSET Requests
      /\ Replacing(token) \in SUBSET Requests
      /\ Replaced(token) \cap Replacing(token) = {}
  BY DEF Replaced, Replacing, Exchanging
<1> QED
  BY <1>1, ApartInside

\* One more element.
LEMMA OneMore ==
    ASSUME NEW A, IsFiniteSet(A), NEW B, NEW x, B \subseteq A \cup {x}
    PROVE  IsFiniteSet(B) /\ Cardinality(B) \in Nat /\ Cardinality(B) <= Cardinality(A) + 1
<1>1. /\ IsFiniteSet(A \cup {x})
      /\ Cardinality(A \cup {x}) <= Cardinality(A) + 1
  <2> DEFINE more == A \cup {x}
  <2>1. IsFiniteSet(more) /\ (x \notin A => Cardinality(more) = Cardinality(A) + 1)
    BY FS_AddElement
  <2>2. x \in A => more = A
    OBVIOUS
  <2> HIDE DEF more
  <2>3. IsFiniteSet(more) /\ Cardinality(more) <= Cardinality(A) + 1
    BY <2>1, <2>2, FS_CardinalityType
  <2> QED
    BY <2>3 DEF more
<1>2. IsFiniteSet(B) /\ Cardinality(B) <= Cardinality(A \cup {x})
  BY <1>1, FS_Subset
<1>3. /\ Cardinality(A) \in Nat /\ Cardinality(B) \in Nat
      /\ Cardinality(A \cup {x}) \in Nat
  BY <1>1, <1>2, FS_CardinalityType
<1> QED
  BY <1>1, <1>2, <1>3

\* A token that was not exchanged has no successor.
LEMMA NoSuccessor ==
    ASSUME NEW token, token \notin Exchanged
    PROVE  Successors(token) = {}
BY DEF Successors, Exchanged

\* What the exchange of a token does to its counts.
LEMMA ExchangeCounts ==
    ASSUME TypeOK, NEW r \in Requests, RequestStep(r), Issued(r),
           req[r] \in Refreshes, Moved(r, "revoke"), NEW token \in Tokens, token = req[r].old
    PROVE  /\ Successors(token)' \subseteq Successors(token) \cup {NewToken(r)}
           /\ Replaced(token)' = Replaced(token) \cup {r} /\ r \notin Replaced(token)
           /\ Replacing(token)' = Replacing(token) \ {r} /\ r \in Replacing(token)
<1>1. At(r, "issue") /\ \A q \in Requests \ {r} : req'[q] = req[q]
  BY OwnStep, RowStep DEF GenerateTokens
<1>2. req[r].op = "refresh"
  BY DEF Refreshes
<1>3. exchanged' = exchanged \cup {<<token, NewToken(r)>>}
  BY RowStep, Shapes DEF Issued, Entries, Refreshes
<1>4. Successors(token)' \subseteq Successors(token) \cup {NewToken(r)}
  BY <1>3 DEF Successors
<1>5. req'[r].op = "refresh" /\ req'[r].old = token /\ req'[r].pc = "revoke"
  BY <1>2 DEF Moved
<1>6. Replaced(token)' = Replaced(token) \cup {r} /\ r \notin Replaced(token)
  BY <1>1, <1>5 DEF Replaced, Exchanging, At
<1>7. Replacing(token)' = Replacing(token) \ {r} /\ r \in Replacing(token)
  BY <1>1, <1>2, <1>5 DEF Replacing, Exchanging, At
<1> QED
  BY <1>4, <1>6, <1>7

\* A step that does not exchange the token adds no successor, and no request that
\* will exchange it unless the token is active; as long as the token is active and
\* unexcused it keeps the requests that are about to revoke it.
LEMMA OtherCounts ==
    ASSUME TypeOK, NEW r \in Requests, RequestStep(r), NEW token \in Tokens \ excused',
           ~ (Issued(r) /\ req[r] \in Refreshes /\ token = req[r].old)
    PROVE  /\ Successors(token)' = Successors(token)
           /\ refresh'[token] # "active" => Replacing(token)' \subseteq Replacing(token)
           /\ refresh'[token] = "active" => Replaced(token) \subseteq Replaced(token)'
<1>1. \A q \in Requests \ {r} : req'[q] = req[q]
  BY OwnStep
<1>2. Successors(token)' = Successors(token)
  BY RowStep DEF Successors, Issued
<1>3. ASSUME refresh'[token] # "active"
      PROVE  Replacing(token)' \subseteq Replacing(token)
  <2>1. r \in Replacing(token)' => r \in Replacing(token)
    <3> SUFFICES ASSUME r \in Replacing(token)'
                 PROVE  r \in Replacing(token)
      OBVIOUS
    <3>1. req'[r].op = "refresh" /\ req'[r].old = token /\ req'[r].pc \in {"user", "issue"}
      BY DEF Replacing, Exchanging, At
    <3>2. ~ Begin(r)
      <4> SUFFICES ASSUME Begin(r)
                   PROVE  FALSE
        OBVIOUS
      <4>1. BeginRefresh(r) /\ Valid(token)
        BY <3>1, BeginStep
      <4> QED
        BY <1>3, <4>1 DEF BeginRefresh, Valid, tables
    <3>3. ~ Fail(r) /\ ~ SwallowError(r)
      BY <3>1, FailStep DEF Released, Moved, Idle
    <3>4. Signed(r) /\ (At(r, "create") \/ At(r, "user"))
      BY <3>1, <3>2, <3>3, ContinueStep DEF RequestStep, Continue, Released, Moved, Idle
    <3>5. At(r, "user") /\ req[r] \in Refreshes
      BY <3>1, <3>4, Shapes DEF Signed, Entries
    <3> QED
      BY <3>1, <3>4, <3>5 DEF Signed, Replacing, Exchanging, At, Refreshes
  <2> QED
    BY <1>1, <2>1 DEF Replacing, Exchanging, At
<1>4. ASSUME refresh'[token] = "active"
      PROVE  Replaced(token) \subseteq Replaced(token)'
  <2>1. r \notin Replaced(token)
    <3> SUFFICES ASSUME r \in Replaced(token)
                 PROVE  FALSE
      OBVIOUS
    <3>1. At(r, "revoke") /\ req[r].op = "refresh" /\ req[r].old = token
      BY DEF Replaced, Exchanging
    <3>2. ~ RevokeToken(r)
      BY <1>4, <3>1, RevokeStep DEF Named
    <3>3. Excuse(r)
      BY <3>1, <3>2, LeavesRevoke
    <3> QED
      BY <3>1, <3>3 DEF Excuse
  <2> QED
    BY <1>1, <2>1 DEF Replaced, Exchanging, At
<1> QED
  BY <1>2, <1>3, <1>4

\* Each step of a request keeps the successors matched.
LEMMA MatchedStep ==
    ASSUME IsFiniteSet(Requests), TypeOK, SuccessorsMatched, NEW r \in Requests, RequestStep(r)
    PROVE  SuccessorsMatched'
<1> SUFFICES ASSUME NEW token \in Tokens \ excused'
             PROVE  /\ IsFiniteSet(Successors(token)')
                    /\ refresh'[token] = "active" =>
                          Cardinality(Successors(token)') <= Cardinality(Replaced(token)')
  BY DEF SuccessorsMatched
<1>1. token \notin excused
  BY ExcuseStep
<1>2. IsFiniteSet(Successors(token)) /\ Cardinality(Successors(token)) \in Nat
  BY <1>1, FS_CardinalityType DEF SuccessorsMatched
<1>3. IsFiniteSet(Replaced(token)) /\ Cardinality(Replaced(token)) \in Nat
  BY RequestsApart
<1>4. refresh'[token] = "active" => \/ refresh[token] = "active"
                                    \/ Successors(token) = {}
  <2>1. ASSUME Issued(r), token = NewToken(r)
        PROVE  Successors(token) = {}
    BY <2>1, NoSuccessor DEF Issued
  <2>2. ASSUME Issued(r), token # NewToken(r)
        PROVE  refresh'[token] = refresh[token]
    BY <2>2 DEF Issued, TypeOK
  <2> QED
    BY <2>1, <2>2, RowStep DEF NoNewRow
<1>5. refresh'[token] = "active" =>
          Cardinality(Successors(token)) <= Cardinality(Replaced(token))
  <2>1. Successors(token) = {} => Cardinality(Successors(token)) = 0
    BY FS_EmptySet
  <2> QED
    BY <1>1, <1>3, <1>4, <2>1 DEF SuccessorsMatched
<1>6. CASE Issued(r) /\ req[r] \in Refreshes /\ token = req[r].old
  <2>1. Moved(r, "revoke")
    BY <1>6 DEF Issued, Entries, Refreshes
  <2>2. /\ Successors(token)' \subseteq Successors(token) \cup {NewToken(r)}
        /\ Replaced(token)' = Replaced(token) \cup {r} /\ r \notin Replaced(token)
    BY <1>6, <2>1, ExchangeCounts
  <2>3. /\ IsFiniteSet(Successors(token)') /\ Cardinality(Successors(token)') \in Nat
        /\ Cardinality(Successors(token)') <= Cardinality(Successors(token)) + 1
    BY <1>2, <2>2, OneMore
  <2>4. Cardinality(Replaced(token)') = Cardinality(Replaced(token)) + 1
    BY <1>3, <2>2, FS_AddElement
  <2> QED
    BY <1>2, <1>3, <1>5, <2>3, <2>4
<1>7. CASE ~ (Issued(r) /\ req[r] \in Refreshes /\ token = req[r].old)
  <2>1. /\ Successors(token)' = Successors(token)
        /\ refresh'[token] = "active" => Replaced(token) \subseteq Replaced(token)'
    BY <1>7, OtherCounts
  <2>2. IsFiniteSet(Replaced(token)')
    <3>1. Replaced(token)' \subseteq Requests
      BY DEF Replaced, Exchanging
    <3> QED
      BY <3>1, FS_Subset
  <2>3. refresh'[token] = "active" => Cardinality(Replaced(token)) <= Cardinality(Replaced(token)')
    BY <2>1, <2>2, FS_Subset
  <2>4. Cardinality(Replaced(token)') \in Nat
    BY <2>2, FS_CardinalityType
  <2> QED
    BY <1>2, <1>3, <1>5, <2>1, <2>3, <2>4
<1> QED
  BY <1>6, <1>7

\* So the bound of an active token is that of the requests; and that of a token that
\* is not active only falls.
LEMMA BoundedStep ==
    ASSUME IsFiniteSet(Requests), TypeOK, SuccessorsMatched, SuccessorsMatched',
           SuccessorsBounded, NEW r \in Requests, RequestStep(r)
    PROVE  SuccessorsBounded'
<1> SUFFICES ASSUME NEW token \in Tokens \ excused'
             PROVE  Cardinality(Successors(token)') + Cardinality(Replacing(token)')
                        <= Cardinality(Requests)
  BY DEF SuccessorsBounded, Replacing
<1>1. token \notin excused
  BY ExcuseStep
<1>2. /\ IsFiniteSet(Successors(token)) /\ IsFiniteSet(Successors(token)')
      /\ Cardinality(Successors(token)) \in Nat /\ Cardinality(Successors(token)') \in Nat
  BY <1>1, FS_CardinalityType DEF SuccessorsMatched
<1>3. /\ IsFiniteSet(Replacing(token)) /\ Cardinality(Replacing(token)) \in Nat
      /\ Cardinality(Requests) \in Nat
  BY RequestsApart
<1>4. /\ IsFiniteSet(Replacing(token)')
      /\ Cardinality(Replaced(token)') \in Nat /\ Cardinality(Replacing(token)') \in Nat
      /\ Cardinality(Replaced(token)') + Cardinality(Replacing(token)') <= Cardinality(Requests)
  <2>1. /\ Replaced(token)' \in SUBSET Requests
        /\ Replacing(token)' \in SUBSET Requests
        /\ Replaced(token)' \cap Replacing(token)' = {}
    BY DEF Replaced, Replacing, Exchanging
  <2> QED
    BY <2>1, ApartInside
<1>5. Cardinality(Successors(token)) + Cardinality(Replacing(token)) <= Cardinality(Requests)
  BY <1>1 DEF SuccessorsBounded, Replacing
<1>6. CASE refresh'[token] = "active"
  <2>1. Cardinality(Successors(token)') <= Cardinality(Replaced(token)')
    BY <1>6 DEF SuccessorsMatched
  <2> QED
    BY <1>2, <1>3, <1>4, <2>1
<1>7. CASE Issued(r) /\ req[r] \in Refreshes /\ token = req[r].old
  <2>1. Moved(r, "revoke")
    BY <1>7 DEF Issued, Entries, Refreshes
  <2>2. /\ Successors(token)' \subseteq Successors(token) \cup {NewToken(r)}
        /\ Replacing(token)' = Replacing(token) \ {r} /\ r \in Replacing(token)
    BY <1>7, <2>1, ExchangeCounts
  <2>3. Cardinality(Successors(token)') <= Cardinality(Successors(token)) + 1
    BY <1>2, <2>2, OneMore
  <2>4. Cardinality(Replacing(token)') = Cardinality(Replacing(token)) - 1
    BY <1>3, <2>2, FS_RemoveElement
  <2> QED
    BY <1>2, <1>3, <1>4, <1>5, <2>3, <2>4
<1>8. CASE /\ refresh'[token] # "active"
           /\ ~ (Issued(r) /\ req[r] \in Refreshes /\ token = req[r].old)
  <2>1. /\ Successors(token)' = Successors(token)
        /\ Replacing(token)' \subseteq Replacing(token)
    BY <1>8, OtherCounts
  <2>2. Cardinality(Replacing(token)') <= Cardinality(Replacing(token))
    BY <1>3, <2>1, FS_Subset
  <2> QED
    BY <1>2, <1>3, <1>4, <1>5, <2>1, <2>2
<1> QED
  BY <1>6, <1>7, <1>8

\* Both hold of the empty tables, and in every step.
LEMMA BoundedInvariant ==
    ASSUME IsFiniteSet(Requests)
    PROVE  Spec => [](SuccessorsMatched /\ SuccessorsBounded)
<1>1. Init => SuccessorsMatched /\ SuccessorsBounded
  <2> SUFFICES ASSUME Init, NEW token \in Tokens
               PROVE  /\ IsFiniteSet(Successors(token))
                      /\ refresh[token] # "active"
                      /\ Cardinality(Successors(token)) + Cardinality(Replacing(token))
                            <= Cardinality(Requests)
    BY DEF SuccessorsMatched, SuccessorsBounded, Replacing
  <2>1. Successors(token) = {} /\ Replacing(token) = {} /\ refresh[token] = "none"
    BY DEF Init, Successors, Replacing, Exchanging, Idle
  <2> QED
    BY <2>1, FS_EmptySet, FS_CardinalityType
<1>2. /\ TypeOK /\ SuccessorsMatched /\ SuccessorsBounded
      /\ [Next]_vars
      => SuccessorsMatched' /\ SuccessorsBounded'
  <2> SUFFICES ASSUME TypeOK, SuccessorsMatched, SuccessorsBounded, [Next]_vars
               PROVE  SuccessorsMatched' /\ SuccessorsBounded'
    OBVIOUS
  <2>1. ASSUME NEW r \in Requests, RequestStep(r)
        PROVE  SuccessorsMatched' /\ SuccessorsBounded'
    BY <2>1, MatchedStep, BoundedStep
  <2>2. CASE Tick \/ UNCHANGED vars
    <3>1. UNCHANGED <<refresh, req, exchanged, excused>>
      BY <2>2, TickStep DEF vars
    <3> QED
      BY <3>1 DEF SuccessorsMatched, SuccessorsBounded, Successors, Replaced, Exchanging, At
  <2> QED
    BY <2>1, <2>2 DEF Next, RequestStep
<1>3. Spec => []TypeOK
  BY InductiveInvariant, PTL DEF Inductive
<1> QED
  BY <1>1, <1>2, <1>3, PTL DEF Spec

-------------------------------------------------------------------------------
(* The theorems *)

\* Every table and every request of the token service keeps the shape the code gives it.
THEOREM TokensTypeCorrect == Spec => []TypeOK
BY InductiveInvariant, PTL DEF Inductive

\* A token that was exchanged and is still valid is about to be revoked, unless a
\* failure came first.
THEOREM ExchangedTokensRevoked == Spec => []ExchangedIsRevoked
BY InductiveInvariant, PTL DEF Inductive

\* The token service keeps the promise of TokenLife.
THEOREM TokensImplementTokenLife == Spec => ImplementsTokenLife
BY InitImplements, StepImplements, InductiveInvariant, PTL DEF Spec, ImplementsTokenLife, Life!Spec

\* A token gets no more successors than requests can be in progress at a time.
THEOREM SuccessorsAtMostRequests ==
    ASSUME IsFiniteSet(Requests)
    PROVE  Spec => []SuccessorsBounded
BY BoundedInvariant, PTL
=============================================================================
