------------------------------- MODULE Tokens -------------------------------
(***************************************************************************)
(* The authentication and token services: who is registered, the refresh   *)
(* tokens on record, and the sessions.                                     *)
(*                                                                         *)
(* No handler uses a transaction: req[r] is what request r still has to    *)
(* do, one action is one awaited statement.  Passwords, codes and roles    *)
(* are abstracted to "the checks were passed", a token to its user and the *)
(* second in which it was signed: nothing else tells two of them apart.    *)
(***************************************************************************)
EXTENDS Naturals, FiniteSets

CONSTANTS
    Requests,     \* requests that may be in progress at the same time
    Users,        \* the e-mail addresses, which are unique
    RefreshLife,  \* seconds for which a refresh token is valid (7 days)
    SessionLife,  \* seconds for which a session is (24 hours)
    MaxTime,      \* the last second
    Missing,      \* a logout without a refresh token
    CleanUpTimes, \* the seconds in which a clean-up is begun (bounds their number)
    Calls,        \* the handlers that clients call
    MayFail       \* whether a statement may fail or a server stop mid-request

ASSUME TokensAssumption == /\ RefreshLife \in Nat
                           /\ SessionLife \in Nat
                           /\ MaxTime \in Nat
                           /\ MayFail \in BOOLEAN

VARIABLES
    now,         \* the second
    account,     \* the users table
    refresh,     \* the refresh_tokens table: for each token the state of its row
    session,     \* the user_sessions table: hashed tokens, and since when
    audit,       \* the audit log, as the set of its entries
    req,         \* the requests in progress
    exchanged,   \* history: the pairs of a token and one issued in exchange for it
    excused      \* history: the tokens that a failure kept from being revoked, or
                 \* whose row was made again after an exchange

tables == <<account, refresh, session, audit>>
history == <<exchanged, excused>>
vars == <<now, account, refresh, session, audit, req, exchanged, excused>>

-------------------------------------------------------------------------------
(* Tokens *)

Seconds == 0 .. MaxTime
Tokens == [user : Users, at : Seconds]

\* isRevoked, or that there is no row, yet or any more.
RowStates == {"none", "active", "revoked"}

\* sha256: the hash of a refresh token is never that of an access token.
Kinds == {"access", "refresh"}
Hash(kind, token) == [kind |-> kind, token |-> token]

\* verifyRefreshToken; the expiresAt of the row is the same but for a fraction of a second.
Unexpired(token) == now < token.at + RefreshLife

\* Faulty: any row will do.
OnRecord(token) == refresh[token] # "none" /\ Unexpired(token)

\* What refreshToken asks of a token: that it verifies and isTokenRevoked is false.
Valid(token) == refresh[token] = "active" /\ Unexpired(token)

-------------------------------------------------------------------------------
(* Requests *)

Idle == [op |-> "none", pc |-> "idle"]

\* at is the second in which the new tokens are signed, 0 until they are.
Entries == [op : {"register"}, pc : {"create", "issue", "session", "audit"},
            user : Users, at : Seconds]
           \cup [op : {"login"}, pc : {"issue", "session", "audit"}, user : Users, at : Seconds]

Refreshes == [op : {"refresh"}, pc : {"user", "issue", "revoke", "remove"},
              user : Users, at : Seconds, old : Tokens]

Logouts == [op : {"logout"}, pc : {"revoke", "remove", "audit"},
            user : Users, old : Tokens \cup {Missing}]

CleanUps == [op : {"cleanup"}, pc : {"sessions"}]

RequestStates == {Idle} \cup Entries \cup Refreshes \cup Logouts \cup CleanUps

At(r, pc) == req[r].pc = pc
Become(r, state) == req' = [req EXCEPT ![r] = state]
Goto(r, pc) == Become(r, [req[r] EXCEPT !.pc = pc])
Finish(r) == Become(r, Idle)
SignAndGoto(r, pc) == Become(r, [req[r] EXCEPT !.pc = pc, !.at = now])

Init == /\ now = 0
        /\ account = {}
        /\ refresh = [token \in Tokens |-> "none"]
        /\ session = {}
        /\ audit = {}
        /\ req = [r \in Requests |-> Idle]
        /\ exchanged = {} /\ excused = {}

-------------------------------------------------------------------------------
(* register, login *)

\* Neither an address that is taken nor a missing GUEST role goes on.
BeginRegister(r) ==
    /\ req[r] = Idle
    /\ \E user \in Users \ account :
          Become(r, [op |-> "register", pc |-> "create", user |-> user, at |-> 0])
    /\ UNCHANGED <<now, tables, history>>

\* The unique index on the address decides between two; then the tokens are signed.
CreateUser(r) ==
    /\ At(r, "create")
    /\ IF req[r].user \in account
       THEN /\ Finish(r)
            /\ UNCHANGED account
       ELSE /\ account' = account \cup {req[r].user}
            /\ SignAndGoto(r, "issue")
    /\ UNCHANGED <<now, refresh, session, audit, history>>

\* validateUser and the two-factor check have passed, lastLoginAt is written (and read
\* nowhere), the tokens are signed.
BeginLogin(r) ==
    /\ req[r] = Idle
    /\ \E user \in account :
          Become(r, [op |-> "login", pc |-> "issue", user |-> user, at |-> now])
    /\ UNCHANGED <<now, tables, history>>

Exchanged == {pair[1] : pair \in exchanged}

NewToken(r) == [user |-> req[r].user, at |-> req[r].at]

\* generateTokens: the second token of a user and a second is refused by the unique
\* index, whatever became of the first.
GenerateTokens(r) ==
    /\ At(r, "issue")
    /\ LET new == NewToken(r)
           rotation == req[r].op = "refresh"
       IN  IF refresh[new] # "none"
           THEN Finish(r) /\ UNCHANGED <<refresh, exchanged, excused>>
           ELSE /\ refresh' = [refresh EXCEPT ![new] = "active"]
                /\ Goto(r, IF rotation THEN "revoke" ELSE "session")
                /\ exchanged' = exchanged \cup (IF rotation THEN {<<req[r].old, new>>} ELSE {})
                /\ excused' = excused \cup ({new} \cap Exchanged)
    /\ UNCHANGED <<now, account, session, audit>>

\* createSession dates the row from this second, not from the signing.  A hash is unique:
\* the second row of a token that was issued again is refused, and the error logged only.
CreateSession(r) ==
    /\ At(r, "session")
    /\ LET hash == Hash("access", NewToken(r))
       IN  session' = IF \E row \in session : row.hash = hash THEN session
                      ELSE session \cup {[hash |-> hash, since |-> now]}
    /\ Goto(r, "audit")
    /\ UNCHANGED <<now, account, refresh, audit, history>>

AuditAction == [register |-> "USER_REGISTER", login |-> "USER_LOGIN", logout |-> "USER_LOGOUT"]

LogAction(r) ==
    /\ At(r, "audit")
    /\ audit' = audit \cup {[action |-> AuditAction[req[r].op], user |-> req[r].user]}
    /\ Finish(r)
    /\ UNCHANGED <<now, account, refresh, session, history>>

-------------------------------------------------------------------------------
(* refreshToken, logout *)

BeginRefresh(r) ==
    /\ req[r] = Idle
    /\ \E old \in Tokens :
          /\ Valid(old)
          /\ Become(r, [op |-> "refresh", pc |-> "user", user |-> old.user, at |-> 0,
                        old |-> old])
    /\ UNCHANGED <<now, tables, history>>

\* The user is there: none is ever deleted or made inactive.  The tokens are signed.
GetUser(r) ==
    /\ At(r, "user")
    /\ SignAndGoto(r, "issue")
    /\ UNCHANGED <<now, tables, history>>

\* A user who is logged in, with the token of the cookie if there is one.  (A token
\* without a row changes nothing.)
BeginLogout(r) ==
    /\ req[r] = Idle
    /\ \E user \in account, old \in Tokens \cup {Missing} :
          /\ old # Missing => old.user = user /\ refresh[old] # "none"
          /\ Become(r, [op |-> "logout", pc |-> "revoke", user |-> user, old |-> old])
    /\ UNCHANGED <<now, tables, history>>

\* updateMany: a filter by undefined is no filter.
Named(old) == {token \in Tokens : old \in {token, Missing}}

\* Faulty: every revocation is logged.
AfterRevocationLog(job) == [job EXCEPT !.pc = "audit"]

\* What the handler does after revokeToken, which lets no error out.
AfterRevokeToken(job) == IF job.op = "logout" THEN [job EXCEPT !.pc = "audit"] ELSE Idle

\* Faulty: an exchange ends the token it has just made.
RevokeNewest(r) ==
    /\ At(r, "revoke")
    /\ refresh' = IF req[r].op = "refresh" THEN [refresh EXCEPT ![NewToken(r)] = "revoked"]
                                          ELSE refresh
    /\ Goto(r, "remove")
    /\ UNCHANGED <<now, account, session, audit, history>>

\* revokeToken.  Hashing an undefined token throws, and so its session is not looked for.
RevokeToken(r) ==
    /\ At(r, "revoke")
    /\ refresh' = [token \in Tokens |->
                      IF token \in Named(req[r].old) /\ refresh[token] = "active"
                      THEN "revoked" ELSE refresh[token]]
    /\ IF req[r].old = Missing THEN Become(r, AfterRevokeToken(req[r])) ELSE Goto(r, "remove")
    /\ UNCHANGED <<now, account, session, audit, history>>

\* The second statement of revokeToken looks for the hash of the refresh token.
RemoveSession(r) ==
    /\ At(r, "remove")
    /\ session' = {row \in session : row.hash # Hash("refresh", req[r].old)}
    /\ Become(r, AfterRevokeToken(req[r]))
    /\ UNCHANGED <<now, account, refresh, audit, history>>

-------------------------------------------------------------------------------
(* cleanupExpiredTokens, which nothing in the repository calls *)

\* Faulty: the comparison of the expiry is the wrong way round.
BeginCleanUpEarly(r) ==
    /\ req[r] = Idle /\ now \in CleanUpTimes
    /\ refresh' = [token \in Tokens |->
                      IF \/ refresh[token] = "revoked"
                         \/ refresh[token] = "active" /\ Unexpired(token)
                      THEN "none" ELSE refresh[token]]
    /\ Become(r, [op |-> "cleanup", pc |-> "sessions"])
    /\ UNCHANGED <<now, account, session, audit, history>>

BeginCleanUp(r) ==
    /\ req[r] = Idle /\ now \in CleanUpTimes
    /\ refresh' = [token \in Tokens |->
                      IF \/ refresh[token] = "revoked"
                         \/ refresh[token] = "active" /\ ~ Unexpired(token)
                      THEN "none" ELSE refresh[token]]
    /\ Become(r, [op |-> "cleanup", pc |-> "sessions"])
    /\ UNCHANGED <<now, account, session, audit, history>>

\* The end of the life that createSession gave the row.
SessionExpired(row) == now >= row.since + SessionLife

CleanSessions(r) ==
    /\ At(r, "sessions")
    /\ session' = {row \in session : ~ SessionExpired(row)}
    /\ Finish(r)
    /\ UNCHANGED <<now, account, refresh, audit, history>>

-------------------------------------------------------------------------------
(* Time, failures, and the specification *)

Tick == /\ now < MaxTime
        /\ now' = now + 1
        /\ UNCHANGED <<tables, history, req>>

\* An exchange that stops before its revocation.
Excuse(r) == excused' = excused \cup
    (IF At(r, "revoke") /\ req[r].op = "refresh" THEN {req[r].old} ELSE {})

\* A statement fails and its error is thrown, or the server stops.
Fail(r) ==
    /\ MayFail
    /\ req[r] # Idle
    /\ Finish(r)
    /\ Excuse(r)
    /\ UNCHANGED <<now, tables, exchanged>>

\* createSession and revokeToken log an error and return: the handler goes on.
SwallowError(r) ==
    /\ MayFail
    /\ \/ At(r, "session") /\ Goto(r, "audit")
       \/ req[r].pc \in {"revoke", "remove"} /\ Become(r, AfterRevokeToken(req[r]))
    /\ Excuse(r)
    /\ UNCHANGED <<now, tables, exchanged>>

Begin(r) == \/ "register" \in Calls /\ BeginRegister(r)
            \/ "login" \in Calls /\ BeginLogin(r)
            \/ "refresh" \in Calls /\ BeginRefresh(r)
            \/ "logout" \in Calls /\ BeginLogout(r)
            \/ "cleanup" \in Calls /\ BeginCleanUp(r)

Continue(r) == \/ CreateUser(r)
               \/ GetUser(r)
               \/ GenerateTokens(r)
               \/ CreateSession(r)
               \/ RevokeToken(r)
               \/ RemoveSession(r)
               \/ CleanSessions(r)
               \/ LogAction(r)

Next == \/ \E r \in Requests : Begin(r) \/ Continue(r) \/ Fail(r) \/ SwallowError(r)
        \/ Tick

\* Clients may stop sending requests, but a request in progress is carried on.
Fairness == \A r \in Requests : WF_vars(Continue(r))

Spec == Init /\ [][Next]_vars /\ Fairness

-------------------------------------------------------------------------------
(* Properties *)

\* Every table and every request has the shape the code gives it.
TypeOK == /\ now \in Seconds
          /\ account \subseteq Users
          /\ refresh \in [Tokens -> RowStates]
          /\ session \subseteq [hash : [kind : {"access"}, token : Tokens], since : Seconds]
          /\ audit \subseteq [action : {"USER_REGISTER", "USER_LOGIN", "USER_LOGOUT"}, user : Users]
          /\ req \in [Requests -> RequestStates]
          /\ exchanged \subseteq Tokens \X Tokens
          /\ excused \subseteq Tokens

Exchanging(token) == {r \in Requests : /\ req[r].op = "refresh" /\ req[r].old = token
                                       /\ req[r].pc \in {"user", "issue", "revoke"}}

\* "Revoke old refresh token": a token that was exchanged and is still valid is about
\* to be revoked by one of the requests that exchange it, unless a failure came first.
\* The old token is revoked after the new one is made, and by a statement of its own.
ExchangedIsRevoked ==
    \A pair \in exchanged :
        Valid(pair[1]) => pair[1] \in excused \/ \E r \in Exchanging(pair[1]) : At(r, "revoke")

Successors(token) == {new \in Tokens : <<token, new>> \in exchanged}

\* A refresh token is good for one exchange, yet requests that present it at the same
\* time all find it valid.  What it has been exchanged for and what requests will still
\* exchange it for is never more than there are requests at a time, however long they
\* go on and however late its revocation comes.
SuccessorsBounded ==
    \A token \in Tokens \ excused :
        Cardinality(Successors(token)) + Cardinality({r \in Exchanging(token) : ~ At(r, "revoke")})
            <= Cardinality(Requests)

\* A token is accepted from its issue to the end of its life unless it was exchanged or
\* a logout named it, whatever requests and clean-ups run beside and wherever they fail.
Life == INSTANCE TokenLife
            WITH Life <- RefreshLife, Everyone <- Missing,
                 accepted <- {token \in Tokens : Valid(token)},
                 doomed <- {req[r].old : r \in {q \in Requests : At(q, "revoke")}}
ImplementsTokenLife == Life!Spec
=============================================================================
