------------------------------ MODULE Accounts ------------------------------
(***************************************************************************)
(* Users, invites and password resets of an instance (auth_service.go,     *)
(* invite_service.go over user_repository.go and invite_repository.go).    *)
(* No call has a transaction: what it reads with one statement may have    *)
(* changed before the next one, and a call that fails leaves what it has   *)
(* written.  An address has at most one user and never changes hands, so a *)
(* user is its address.  Names and pictures of profiles are left out.      *)
(***************************************************************************)
EXTENDS Naturals, FiniteSets

CONSTANTS
  Addresses,  \* users.email
  Idents,     \* identities of the central service
  Passwords,
  Invites,    \* invite tokens
  Resets,     \* reset tokens
  Owner,      \* the user who invites, there from the start
  Limit,      \* entities the plan allows
  Tasks,      \* calls that may be under way at once
  MaxTasks,   \* bound on calls
  Nobody, NoPassword

ASSUME AccountsOK ==
  /\ Owner \in Addresses /\ Limit \in Nat /\ MaxTasks \in Nat
  /\ Nobody \notin Idents \cup Addresses /\ NoPassword \notin Passwords
  /\ Idents # {} /\ Passwords # {} /\ Invites # {} /\ Resets # {}

\* Parameters of a call; what an operation does not have is a fixed choice.
TaskOps == {"register", "invite", "accept", "change", "forgot", "reset"}
TaskReqs == [op : TaskOps, user : Addresses, ident : Idents, old : Passwords, new : Passwords,
             inv : Invites, rst : Resets]
PlainTask == CHOOSE q \in TaskReqs : TRUE
FirstPhase(op) ==
  CASE op = "invite" -> "limit" [] op = "forgot" -> "find" [] op = "change" -> "read"
    [] OTHER -> "check"
TaskPhases == {"idle", "limit", "check", "find", "create", "read", "write", "insert",
               "consume", "delete", "welcome"}

VARIABLES
  users,     \* addresses with a row
  hash,      \* users.password_hash
  authType,  \* users.auth_type
  central,   \* users.central_user_id
  invUser, invState,  \* rows of invites
  invLate,   \* invites past their expires_at
  rstUser, rstState,  \* rows of password_reset_tokens; "gone" when deleted or expired
  phase, task,        \* of each call: where it is, its parameters
  tasks,     \* calls so far
  passed     \* how many calls have consumed an invite (history)

userVars == <<users, hash, authType, central>>
inviteVars == <<invUser, invState, invLate>>
resetVars == <<rstUser, rstState>>
accountVars == <<userVars, inviteVars, resetVars, phase, task, tasks, passed>>

AccountTypes ==
  /\ users \subseteq Addresses
  /\ hash \in [Addresses -> Passwords \cup {NoPassword}]
  /\ authType \in [Addresses -> {"local", "central"}]
  /\ central \in [Addresses -> Idents \cup {Nobody}]
  /\ invUser \in [Invites -> Addresses \cup {Nobody}]
  /\ invState \in [Invites -> {"none", "pending", "consumed"}] /\ invLate \subseteq Invites
  /\ rstUser \in [Resets -> Addresses \cup {Nobody}]
  /\ rstState \in [Resets -> {"none", "valid", "gone"}]
  /\ phase \in [Tasks -> TaskPhases] /\ task \in [Tasks -> TaskReqs]
  /\ tasks \in 0..MaxTasks /\ passed \in [Invites -> Nat]

AccountsInit ==
  /\ users = {Owner} /\ authType = [u \in Addresses |-> "local"]
  /\ \E p \in Passwords : hash = [u \in Addresses |-> IF u = Owner THEN p ELSE NoPassword]
  /\ central = [u \in Addresses |-> Nobody]
  /\ invUser = [i \in Invites |-> Nobody] /\ invState = [i \in Invites |-> "none"]
  /\ invLate = {}
  /\ rstUser = [t \in Resets |-> Nobody] /\ rstState = [t \in Resets |-> "none"]
  /\ phase = [k \in Tasks |-> "idle"] /\ task = [k \in Tasks |-> PlainTask]
  /\ tasks = 0 /\ passed = [i \in Invites |-> 0]

-----------------------------------------------------------------------------
(* The course of a call *)

TaskBegins(k, q) ==
  /\ phase[k] = "idle" /\ tasks < MaxTasks /\ tasks' = tasks + 1
  /\ task' = [task EXCEPT ![k] = q] /\ phase' = [phase EXCEPT ![k] = FirstPhase(q.op)]
  /\ UNCHANGED <<userVars, inviteVars, resetVars, passed>>

Then(k, p) == phase' = [phase EXCEPT ![k] = p] /\ UNCHANGED <<task, tasks>>
Finishes(k) ==
  /\ phase' = [phase EXCEPT ![k] = "idle"] /\ task' = [task EXCEPT ![k] = PlainTask]
  /\ UNCHANGED tasks
At(k, op, p) == task[k].op = op /\ phase[k] = p
TablesKept == UNCHANGED <<userVars, inviteVars, resetVars, passed>>

\* A statement fails, and with it the call; what it wrote before stays.  A
\* failing deletion of the reset token is only logged.
TaskFails(k) == phase[k] # "idle" /\ Finishes(k) /\ TablesKept

-----------------------------------------------------------------------------
(* Users *)

\* Register looks for the address first; so does CreateInvite, which goes on
\* with a user who is there, as ForgotPassword does.
CheckAddress(k) ==
  /\ At(k, "register", "check") /\ TablesKept
  /\ IF task[k].user \in users THEN Finishes(k) ELSE Then(k, "create")

CheckLimit(k) ==
  /\ At(k, "invite", "limit") /\ TablesKept
  /\ IF Cardinality(users) + 1 > Limit THEN Finishes(k) ELSE Then(k, "find")
\* Without a subscription to be read there is no limit.
NoLimit(k) == At(k, "invite", "limit") /\ Then(k, "find") /\ TablesKept

FindUser(k) ==
  /\ phase[k] = "find" /\ task[k].op \in {"invite", "forgot"} /\ TablesKept
  /\ IF task[k].user \in users THEN Then(k, "insert")
     ELSE IF task[k].op = "invite" THEN Then(k, "create") ELSE Finishes(k)
\* CreateInvite takes any error for an absent user.
FindFails(k) == At(k, "invite", "find") /\ Then(k, "create") /\ TablesKept

\* An invited user has no password yet.  UNIQUE (email)
CreateUser(k) ==
  /\ phase[k] = "create" /\ task[k].user \notin users
  /\ users' = users \cup {task[k].user}
  /\ hash' = [hash EXCEPT ![task[k].user] = IF task[k].op = "register" THEN task[k].new
                                           ELSE NoPassword]
  /\ IF task[k].op = "register" THEN Finishes(k) ELSE Then(k, "insert")
  /\ UNCHANGED <<authType, central, inviteVars, resetVars, passed>>
AddressTaken(k) ==
  phase[k] = "create" /\ task[k].user \in users /\ Finishes(k) /\ TablesKept

\* Update writes the whole row: a caller that read it without auth_type and
\* central_user_id writes "local" and NULL.
WriteRow(u, pw, type, id) ==
  /\ hash' = [hash EXCEPT ![u] = pw] /\ authType' = [authType EXCEPT ![u] = type]
  /\ central' = [central EXCEPT ![u] = id]
  /\ UNCHANGED <<users, inviteVars, resetVars, passed>>

ReadForChange(k) ==
  /\ At(k, "change", "read") /\ TablesKept
  /\ IF hash[task[k].user] = task[k].old THEN Then(k, "write") ELSE Finishes(k)

ChangePassword(k) ==
  /\ At(k, "change", "write") /\ Finishes(k)
  /\ WriteRow(task[k].user, task[k].new, "local", Nobody)

-----------------------------------------------------------------------------
(* Invites *)

CreateInvite(k, i) ==
  /\ At(k, "invite", "insert") /\ invState[i] = "none" /\ Finishes(k)
  /\ invState' = [invState EXCEPT ![i] = "pending"]
  /\ invUser' = [invUser EXCEPT ![i] = task[k].user]
  /\ UNCHANGED <<userVars, invLate, resetVars, passed>>

InviteExpires(i) ==
  /\ invState[i] # "none" /\ invLate' = invLate \cup {i}
  /\ UNCHANGED <<userVars, invUser, invState, resetVars, phase, task, tasks, passed>>

\* Mutant of ValidateToken: the user is the one the request names.
ValidateTokenOfCaller(k) ==
  /\ At(k, "accept", "check") /\ TablesKept
  /\ LET i == task[k].inv IN
     IF invState[i] = "pending" /\ i \notin invLate THEN Then(k, "read") ELSE Finishes(k)

\* The central token was verified before; the invite is checked, and with it
\* its user is known.
ValidateToken(k) ==
  /\ At(k, "accept", "check") /\ TablesKept
  /\ LET i == task[k].inv IN
     IF invState[i] = "pending" /\ i \notin invLate
       THEN /\ task' = [task EXCEPT ![k].user = invUser[i]]
            /\ phase' = [phase EXCEPT ![k] = "read"] /\ UNCHANGED tasks
       ELSE Finishes(k)

\* GetByID, of AcceptInvite and ResetPassword; rows of users stay.
ReadUser(k) ==
  /\ phase[k] = "read" /\ task[k].op \in {"accept", "reset"} /\ TablesKept
  /\ Then(k, "write")

\* UNIQUE (central_user_id)
IdentElsewhere(k) == \E u \in users \ {task[k].user} : central[u] = task[k].ident
LinkIdentity(k) ==
  /\ At(k, "accept", "write") /\ ~IdentElsewhere(k) /\ Then(k, "consume")
  /\ WriteRow(task[k].user, NoPassword, "central", task[k].ident)
IdentTaken(k) ==
  At(k, "accept", "write") /\ IdentElsewhere(k) /\ Finishes(k) /\ TablesKept

\* Mutant of ConsumeToken: UPDATE without the condition.
ConsumeTokenAgain(k) ==
  /\ At(k, "accept", "consume")
  /\ LET i == task[k].inv IN
     /\ invState' = [invState EXCEPT ![i] = "consumed"]
     /\ passed' = [passed EXCEPT ![i] = @ + 1] /\ Then(k, "welcome")
  /\ UNCHANGED <<userVars, invUser, invLate, resetVars>>

\* UPDATE ... WHERE status = 'pending'
ConsumeToken(k) ==
  /\ At(k, "accept", "consume")
  /\ LET i == task[k].inv IN
     IF invState[i] = "pending"
       THEN /\ invState' = [invState EXCEPT ![i] = "consumed"]
            /\ passed' = [passed EXCEPT ![i] = @ + 1] /\ Then(k, "welcome")
       ELSE UNCHANGED <<invState, passed>> /\ Finishes(k)
  /\ UNCHANGED <<userVars, invUser, invLate, resetVars>>

\* The session token and the welcome message; then the call is answered.
Welcome(k) ==
  /\ At(k, "accept", "welcome") /\ Finishes(k)
  /\ UNCHANGED <<userVars, inviteVars, resetVars, passed>>

-----------------------------------------------------------------------------
(* Password resets *)

CreateResetToken(k, t) ==
  /\ At(k, "forgot", "insert") /\ rstState[t] = "none" /\ Finishes(k)
  /\ rstState' = [rstState EXCEPT ![t] = "valid"]
  /\ rstUser' = [rstUser EXCEPT ![t] = task[k].user]
  /\ UNCHANGED <<userVars, inviteVars, passed>>

ResetExpires(t) ==
  /\ rstState[t] = "valid" /\ rstState' = [rstState EXCEPT ![t] = "gone"]
  /\ UNCHANGED <<userVars, inviteVars, rstUser, phase, task, tasks, passed>>

FindResetToken(k) ==
  /\ At(k, "reset", "check") /\ TablesKept
  /\ IF rstState[task[k].rst] = "valid"
       THEN /\ task' = [task EXCEPT ![k].user = rstUser[task[k].rst]]
            /\ phase' = [phase EXCEPT ![k] = "read"] /\ UNCHANGED tasks
       ELSE Finishes(k)

ResetPassword(k) ==
  /\ At(k, "reset", "write") /\ Then(k, "delete")
  /\ WriteRow(task[k].user, task[k].new, "local", Nobody)

DeleteResetToken(k) ==
  /\ At(k, "reset", "delete") /\ Finishes(k)
  /\ rstState' = [rstState EXCEPT ![task[k].rst] = "gone"]
  /\ UNCHANGED <<userVars, inviteVars, rstUser, passed>>

-----------------------------------------------------------------------------
AccountCallBegins(k) ==
  LET Q == PlainTask IN
  \/ \E u \in Addresses :
       \/ \E p \in Passwords : TaskBegins(k, [Q EXCEPT !.op = "register", !.user = u, !.new = p])
       \/ TaskBegins(k, [Q EXCEPT !.op = "invite", !.user = u])
       \/ TaskBegins(k, [Q EXCEPT !.op = "forgot", !.user = u])
  \/ \E u \in users, p, n \in Passwords :
       TaskBegins(k, [Q EXCEPT !.op = "change", !.user = u, !.old = p, !.new = n])
  \/ \E i \in Invites, x \in Idents :
       invState[i] # "none" /\ TaskBegins(k, [Q EXCEPT !.op = "accept", !.inv = i, !.ident = x])
  \/ \E t \in Resets, n \in Passwords :
       rstState[t] # "none" /\ TaskBegins(k, [Q EXCEPT !.op = "reset", !.rst = t, !.new = n])

AccountSteps(k) ==
  \/ CheckAddress(k) \/ CheckLimit(k) \/ NoLimit(k) \/ FindUser(k) \/ FindFails(k)
  \/ CreateUser(k) \/ AddressTaken(k)
  \/ ReadForChange(k) \/ ChangePassword(k) \/ ValidateToken(k) \/ ReadUser(k)
  \/ LinkIdentity(k) \/ IdentTaken(k) \/ ConsumeToken(k) \/ Welcome(k)
  \/ FindResetToken(k) \/ ResetPassword(k) \/ DeleteResetToken(k) \/ TaskFails(k)
  \/ \E i \in Invites : CreateInvite(k, i)
  \/ \E t \in Resets : CreateResetToken(k, t)

AccountsNext ==
  \/ \E k \in Tasks : AccountCallBegins(k) \/ AccountSteps(k)
  \/ \E i \in Invites : InviteExpires(i)
  \/ \E t \in Resets : ResetExpires(t)

AccountsSpec == AccountsInit /\ [][AccountsNext]_accountVars

-----------------------------------------------------------------------------
(* Properties *)

\* An invite is consumed once, and the only call to go on is the one that
\* consumed it, however many found it pending.  (invite_service.go:118,
\* invite_repository.go ConsumeToken)
AcceptedOnce ==
  /\ \A i \in Invites : passed[i] = IF invState[i] = "consumed" THEN 1 ELSE 0
  /\ \A k, l \in Tasks : At(k, "accept", "welcome") =>
       /\ invState[task[k].inv] = "consumed"
       /\ At(l, "accept", "welcome") /\ task[l].inv = task[k].inv => k = l

\* Whatever overlaps: a row is a local account, or one with exactly one
\* central identity, no password, and an identity no other row has.
\* (user_repository.go Update writes the three columns together)
IdentityWhole ==
  /\ \A u \in Addresses :
       /\ authType[u] = "central" <=> central[u] # Nobody
       /\ authType[u] = "central" \/ u \notin users => hash[u] = NoPassword
       /\ u \notin users => central[u] = Nobody
  /\ \A u, v \in users : central[u] = central[v] /\ central[u] # Nobody => u = v

\* Tokens belong to users who are there.
TokensHaveUsers ==
  /\ \A i \in Invites : invState[i] = "none" \/ invUser[i] \in users
  /\ \A t \in Resets : rstState[t] = "none" \/ rstUser[t] \in users
  /\ \A k \in Tasks :
       /\ phase[k] \in {"insert", "read", "write"} => task[k].user \in users
       /\ task[k].op = "reset" /\ phase[k] \in {"read", "write", "delete"} =>
            rstState[task[k].rst] # "none"

AccountsInv == AccountTypes /\ AcceptedOnce /\ IdentityWhole /\ TokensHaveUsers

\* Rows of users stay; a token belongs to one user for good, and one that was
\* consumed, deleted or has expired never comes back.
TokensStand ==
  /\ users \subseteq users'
  /\ \A i \in Invites : invState[i] # "none" =>
       invUser'[i] = invUser[i] /\ invState'[i] \in {invState[i], "consumed"}
  /\ \A t \in Resets : rstState[t] # "none" =>
       rstUser'[t] = rstUser[t] /\ rstState'[t] \in {rstState[t], "gone"}

\* A call that was let through to write a row: it showed the password, or the
\* row is that of the user of its invite or reset token.
MayRewrite(k) ==
  \/ task[k].op = "change"
  \/ /\ task[k].op = "accept" /\ invState[task[k].inv] # "none"
     /\ task[k].user = invUser[task[k].inv]
  \/ /\ task[k].op = "reset" /\ rstState[task[k].rst] # "none"
     /\ task[k].user = rstUser[task[k].rst]
AccountOf(u) == <<hash[u], authType[u], central[u]>>
RewrittenByHolder ==
  \A u \in users : AccountOf(u)' # AccountOf(u) =>
    \E k \in Tasks : phase[k] = "write" /\ task[k].user = u /\ MayRewrite(k)

\* Calls read a token with one statement and write a row with a later one, and
\* others overlap: still a user's row is rewritten only by a call for that very
\* user, and a token that was used up stays so.  (auth_service.go
\* ResetPassword and ChangePassword, invite_service.go AcceptInvite)
RowsKeepOwners == [][TokensStand /\ RewrittenByHolder]_accountVars
=============================================================================
