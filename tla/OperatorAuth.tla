---------------------------- MODULE OperatorAuth ----------------------------
(***************************************************************************)
(* The operator's account and sessions (internal/auth/service.go).  The    *)
(* first operator is made with a bootstrap token that every replica        *)
(* installs when it starts; later the operator logs in with a password.    *)
(*                                                                         *)
(* Two resources of the process are limited: the connections of the pool   *)
(* and the slots in which a password is hashed.  Bootstrap takes a         *)
(* connection, the row of the token and then a slot; Login takes a slot    *)
(* and then a connection.  A request waits for each of them until its      *)
(* client goes away, for the server sets no timeout on a request.          *)
(***************************************************************************)
EXTENDS Naturals, FiniteSets

CONSTANTS Callers,        \* HTTP requests being handled
          Replicas,       \* processes, each with the token it is configured with
          TokenOf(_),     \* the configured token of a replica
          Connections,    \* size of the connection pool
          PasswordSlots,  \* the capacity of the channel passwordSlots
          MaxSessions     \* bound: sessions ever created

AuthAssumption == Connections \in Nat \ {0} /\ PasswordSlots \in Nat \ {0}

VARIABLES token,      \* the row of bootstrap_tokens
          operators,  \* rows of operators, by the request that made them
          logins,     \* rows of operator_sessions: number made and those revoked or expired
          caller,     \* the handler of each request
          slots,      \* the requests that hold a password slot
          starting    \* InitializeBootstrap of each replica

authVars == <<token, operators, logins, caller, slots, starting>>

NoToken == [digest |-> "none", expired |-> FALSE, consumed |-> FALSE]
NewCaller == [at |-> "idle", op |-> "none", digest |-> "none", login |-> 0]

AuthInit ==
    /\ token = NoToken /\ operators = {}
    /\ logins = [made |-> 0, ended |-> {}]
    /\ caller = [r \in Callers |-> NewCaller]
    /\ slots = {}
    /\ starting = [p \in Replicas |-> "new"]

CallerAt(r, op, at) == caller[r].op = op /\ caller[r].at = at
CallerTo(r, at) == caller' = [caller EXCEPT ![r].at = at]
\* Returning runs the deferred rollback: connection and locks are free.
Answer(r) == caller' = [caller EXCEPT ![r] = NewCaller]

\* The states in which a transaction is open, and in which it holds the row.
Connected == {r \in Callers : caller[r].at \in {"locking", "slot", "hashing", "inserting", "verifying", "reading", "touching"}}
RowHolders == {r \in Callers : caller[r].op = "bootstrap" /\ caller[r].at \in {"slot", "hashing", "inserting"}}
FreeConnection ==
    Cardinality(Connected) + Cardinality({p \in Replicas : starting[p] # "new" /\ starting[p] # "ready"}) < Connections

-----------------------------------------------------------------------------
(***************************************************************************)
(* InitializeBootstrap, once in every process that starts.                 *)
(***************************************************************************)

\* The advisory lock of bootstrapping and the look at operators.
BeginInitialize(p) ==
    /\ starting[p] = "new" /\ FreeConnection
    /\ \A q \in Replicas : starting[q] # "locked"
    /\ starting' = [starting EXCEPT ![p] = IF operators # {} THEN "ready" ELSE "locked"]
    /\ UNCHANGED <<token, operators, logins, caller, slots>>

\* The row FOR UPDATE: a new one is inserted, another token that nobody
\* consumed is replaced.
InstallToken(p) ==
    /\ starting[p] = "locked" /\ RowHolders = {}
    /\ token' = IF token = NoToken \/ (~token.consumed /\ token.digest # TokenOf(p))
                THEN [NoToken EXCEPT !.digest = TokenOf(p)] ELSE token
    /\ starting' = [starting EXCEPT ![p] = "ready"]
    /\ UNCHANGED <<operators, logins, caller, slots>>

ExpireToken ==
    /\ token # NoToken /\ ~token.expired
    /\ token' = [token EXCEPT !.expired = TRUE]
    /\ UNCHANGED <<operators, logins, caller, slots, starting>>

-----------------------------------------------------------------------------
(***************************************************************************)
(* Requests.                                                               *)
(***************************************************************************)
Rows == UNCHANGED <<token, operators, logins, starting>>

\* The handler has decoded a command.
Arrive(r, op, digest) ==
    /\ caller[r].at = "idle"
    /\ op # "bootstrap" => digest = "none"
    /\ caller' = [caller EXCEPT ![r] = [NewCaller EXCEPT !.op = op, !.digest = digest,
                  !.at = IF op = "login" THEN "slot_first" ELSE "connecting"]]
    /\ UNCHANGED slots /\ Rows

\* BeginTx: a connection of the pool, when one is free.
TakeConnection(r) ==
    /\ caller[r].at = "connecting" /\ FreeConnection
    /\ CallerTo(r, CASE caller[r].op = "bootstrap" -> "locking"
                     [] caller[r].op = "login" -> "verifying"
                     [] OTHER -> "reading")
    /\ UNCHANGED slots /\ Rows

\* Bootstrap without locking the row.
LockToken_Unlocked(r) ==
    /\ CallerAt(r, "bootstrap", "locking")
    /\ IF token.digest = caller[r].digest /\ ~token.expired /\ ~token.consumed /\ operators = {}
       THEN CallerTo(r, "slot") ELSE Answer(r)
    /\ UNCHANGED slots /\ Rows

\* Bootstrap: the row FOR UPDATE, and every reason to refuse.
LockToken(r) ==
    /\ CallerAt(r, "bootstrap", "locking") /\ RowHolders = {}
    /\ IF token.digest = caller[r].digest /\ ~token.expired /\ ~token.consumed /\ operators = {}
       THEN CallerTo(r, "slot") ELSE Answer(r)
    /\ UNCHANGED slots /\ Rows

\* acquirePasswordSlot: Bootstrap holds its transaction meanwhile, Login has
\* not begun one.
TakeSlot(r) ==
    /\ caller[r].at \in {"slot", "slot_first"}
    /\ Cardinality(slots) < PasswordSlots
    /\ slots' = slots \cup {r}
    /\ CallerTo(r, IF caller[r].op = "bootstrap" THEN "hashing" ELSE "connecting")
    /\ Rows

\* The hash, after which the slot is given back at once.
HashPassword(r) ==
    /\ CallerAt(r, "bootstrap", "hashing")
    /\ slots' = slots \ {r}
    /\ CallerTo(r, "inserting") \/ Answer(r)
    /\ Rows

\* createSession: a new row under a random token.
NewLogin == logins.made < MaxSessions /\ logins' = [logins EXCEPT !.made = @ + 1]

\* The operator, the consumed token and the session commit together.
CommitBootstrap(r) ==
    /\ CallerAt(r, "bootstrap", "inserting")
    /\ operators' = operators \cup {r}
    /\ token' = [token EXCEPT !.consumed = TRUE]
    /\ NewLogin /\ Answer(r)
    /\ UNCHANGED <<slots, starting>>

\* The slot of a login that is refused is never given back.
RefuseLogin_KeepsSlot(r) ==
    /\ CallerAt(r, "login", "verifying")
    /\ Answer(r)
    /\ UNCHANGED slots /\ Rows

\* Login with a wrong name or password; the deferred call frees the slot.
RefuseLogin(r) ==
    /\ CallerAt(r, "login", "verifying")
    /\ Answer(r) /\ slots' = slots \ {r}
    /\ Rows

AcceptLogin(r) ==
    /\ CallerAt(r, "login", "verifying") /\ operators # {}
    /\ NewLogin
    /\ Answer(r) /\ slots' = slots \ {r}
    /\ UNCHANGED <<token, operators, starting>>

\* Authenticate reads the session, unless it was revoked or has expired.
ReadSession(r, n) ==
    /\ caller[r].op \in {"read", "logout"} /\ caller[r].at = "reading"
    /\ IF n <= logins.made /\ n \notin logins.ended
       THEN caller' = [caller EXCEPT ![r].at = "touching", ![r].login = n] ELSE Answer(r)
    /\ UNCHANGED slots /\ Rows

\* The time of last use is stored; a logout goes on to revoke the session.
TouchSession(r) ==
    /\ caller[r].at = "touching"
    /\ IF caller[r].op = "logout" THEN CallerTo(r, "revoking") ELSE Answer(r)
    /\ UNCHANGED slots /\ Rows

Logout(r) ==
    /\ CallerAt(r, "logout", "revoking") /\ FreeConnection
    /\ logins' = [logins EXCEPT !.ended = @ \cup {caller[r].login}]
    /\ Answer(r)
    /\ UNCHANGED <<token, operators, slots, starting>>

\* The wait for a password slot ignores the context.
GiveUp_NotAtSlot(r) ==
    /\ caller[r].at \notin {"idle", "slot", "slot_first"}
    /\ Answer(r) /\ slots' = slots \ {r}
    /\ Rows

\* The client goes away: every wait and every query ends with an error, and
\* the deferred functions run.
GiveUp(r) ==
    /\ caller[r].at # "idle"
    /\ Answer(r) /\ slots' = slots \ {r}
    /\ Rows

ExpireLogin(n) ==
    /\ n <= logins.made /\ n \notin logins.ended
    /\ logins' = [logins EXCEPT !.ended = @ \cup {n}]
    /\ UNCHANGED <<token, operators, caller, slots, starting>>

-----------------------------------------------------------------------------
Tokens == {TokenOf(p) : p \in Replicas}

CallerStep(r) ==
    \/ TakeConnection(r) \/ LockToken(r) \/ TakeSlot(r) \/ HashPassword(r) \/ CommitBootstrap(r)
    \/ RefuseLogin(r) \/ AcceptLogin(r) \/ TouchSession(r) \/ Logout(r)
    \/ \E n \in 1..MaxSessions : ReadSession(r, n)

AuthNext ==
    \/ \E r \in Callers : CallerStep(r) \/ GiveUp(r)
    \/ \E r \in Callers, d \in Tokens : Arrive(r, "bootstrap", d)
    \/ \E r \in Callers, op \in {"login", "read", "logout"} : Arrive(r, op, "none")
    \/ \E p \in Replicas : BeginInitialize(p) \/ InstallToken(p)
    \/ \E n \in 1..MaxSessions : ExpireLogin(n)
    \/ ExpireToken

\* A handler that can go on does, a client that is not answered goes away in
\* the end, and a process that starts gets its turn in the queues of the pool
\* and of the locks, which are first come first served.
AuthFairness ==
    /\ \A r \in Callers : WF_authVars(CallerStep(r)) /\ WF_authVars(GiveUp(r))
    /\ \A p \in Replicas : SF_authVars(BeginInitialize(p)) /\ SF_authVars(InstallToken(p))

AuthSpec == AuthInit /\ [][AuthNext]_authVars /\ AuthFairness

-----------------------------------------------------------------------------
\* One operator at most is made by bootstrapping, with every replica
\* installing its token and any number of requests racing (Bootstrap,
\* InitializeBootstrap).
OneOperator == Cardinality(operators) <= 1

\* A password slot is held by a request that is being handled: none is lost
\* on a refusal, a failure or a client that goes away, or logins would stop
\* for good (acquirePasswordSlot, releasePasswordSlot).
SlotsAreHeld == \A r \in slots : caller[r].at \in {"connecting", "verifying", "hashing"}

\* Where there is an operator the token is spent, whichever token a replica
\* that starts later installs (InitializeBootstrap).
TokenIsSpent == operators # {} => token.consumed

\* Bootstrapping makes one operator and spends the token, and password slots
\* are not lost (Bootstrap, Login, InitializeBootstrap).
AuthIsSound == OneOperator /\ TokenIsSpent /\ SlotsAreHeld

\* A process that starts becomes ready, although requests to bootstrap hold
\* the connections and the row of the token while they wait for password
\* slots, and logins hold the slots while they wait for connections.
ReplicaStarts == \A p \in Replicas : <>(starting[p] = "ready")
=============================================================================
