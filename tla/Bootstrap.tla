----------------------------- MODULE Bootstrap -----------------------------
(***************************************************************************)
(* Provisioning a new instance (bootstrap_service.go): one row after the   *)
(* other, each by a statement of its own, without a transaction.  Any      *)
(* statement may fail, for instance because the caller hung up, which      *)
(* cancels the context of all of them; rows written before stay.  A caller *)
(* may call again, and calls may overlap.  Every key is new: a row is      *)
(* known by the call that wrote it.                                        *)
(***************************************************************************)
EXTENDS Naturals, Sequences

CONSTANTS
  Boots,         \* calls of POST /bootstrap
  Mails,         \* addresses of users
  Words,         \* passwords
  ChannelNames,
  NoMail, NoBoot

ASSUME BootsOK ==
  /\ NoMail \notin Mails /\ NoBoot \notin Boots
  /\ Mails # {} /\ Words # {} /\ ChannelNames # {}

\* The rows of a call in the order of its statements.  Channel and owner are
\* one transaction; what is published in redis for the relay may fail unseen.
Inserts == <<"user", "agent", "apikey", "subscription", "agent2", "apikey2", "human", "invite",
             "channel", "member">>
LastInsert == 10

\* One further agent and one person, if asked for: more are more of the same.
BootReqs == [email : Mails, password : Words, more : BOOLEAN, human : Mails \cup {NoMail},
             channel : ChannelNames]
Wants(q, x) ==
  /\ x \in {"agent2", "apikey2"} => q.more
  /\ x \in {"human", "invite", "member"} => q.human # NoMail

VARIABLES
  bpc,     \* where a call is
  breq,    \* its request
  bstep,   \* the insert it is at
  bfound,  \* the call whose user it has found, to recover
  rows     \* rows[b]: the rows call b has written

bootVars == <<bpc, breq, bstep, bfound, rows>>

Under == {"lookup", "count", "insert", "agents", "newkey", "plan"}
BootTypes ==
  /\ bpc \in [Boots -> Under \cup {"idle", "refused", "failed", "full", "recovered"}]
  /\ breq \in [Boots -> BootReqs]
  /\ bstep \in [Boots -> 1..LastInsert] /\ bfound \in [Boots -> Boots \cup {NoBoot}]
  /\ rows \in [Boots -> SUBSET {Inserts[i] : i \in 1..LastInsert}]

BootInit ==
  /\ bpc = [b \in Boots |-> "idle"] /\ breq = [b \in Boots |-> CHOOSE q \in BootReqs : TRUE]
  /\ bstep = [b \in Boots |-> 1] /\ bfound = [b \in Boots |-> NoBoot]
  /\ rows = [b \in Boots |-> {}]

-----------------------------------------------------------------------------
\* The table users, by address: a call's first user or the person it invites.
IsPrimary(c, m) == "user" \in rows[c] /\ breq[c].email = m
IsHuman(c, m) == "human" \in rows[c] /\ breq[c].human = m
MailTaken(m) == \E c \in Boots : IsPrimary(c, m) \/ IsHuman(c, m)
ChannelTaken(n) == \E c \in Boots : "channel" \in rows[c] /\ breq[c].channel = n

BootGoes(b, where) == bpc' = [bpc EXCEPT ![b] = where]

BootBegins(b, q) ==
  /\ bpc[b] = "idle" /\ BootGoes(b, "lookup") /\ breq' = [breq EXCEPT ![b] = q]
  /\ UNCHANGED <<bstep, bfound, rows>>

\* A user of this address: with this password, the answer is recovered; one
\* who was invited has no password yet.
LookUpFinds(b, c) ==
  /\ bpc[b] = "lookup"
  /\ IF IsPrimary(c, breq[b].email) /\ breq[c].password = breq[b].password
       THEN BootGoes(b, "agents") /\ bfound' = [bfound EXCEPT ![b] = c]
       ELSE /\ IsPrimary(c, breq[b].email) \/ IsHuman(c, breq[b].email)
            /\ BootGoes(b, "refused") /\ UNCHANGED bfound
  /\ UNCHANGED <<breq, bstep, rows>>
LookUpFindsNone(b) ==
  /\ bpc[b] = "lookup" /\ ~MailTaken(breq[b].email) /\ BootGoes(b, "count")
  /\ UNCHANGED <<breq, bstep, bfound, rows>>

CountUsers(b) ==
  /\ bpc[b] = "count"
  /\ BootGoes(b, IF \E c \in Boots : "user" \in rows[c] THEN "refused" ELSE "insert")
  /\ UNCHANGED <<breq, bstep, bfound, rows>>

\* UNIQUE (email), UNIQUE (name)
Conflict(b) ==
  CASE Inserts[bstep[b]] = "user" -> MailTaken(breq[b].email)
    [] Inserts[bstep[b]] = "human" -> breq[b].human # NoMail /\ MailTaken(breq[b].human)
    [] Inserts[bstep[b]] = "channel" -> ChannelTaken(breq[b].channel)
    [] OTHER -> FALSE

Insert(b) ==
  /\ bpc[b] = "insert" /\ ~Conflict(b)
  /\ LET x == Inserts[bstep[b]] IN
     rows' = [rows EXCEPT ![b] = IF Wants(breq[b], x) THEN @ \cup {x} ELSE @]
  /\ IF bstep[b] = LastInsert THEN BootGoes(b, "full") /\ UNCHANGED bstep
     ELSE bstep' = [bstep EXCEPT ![b] = @ + 1] /\ UNCHANGED bpc
  /\ UNCHANGED <<breq, bfound>>

InsertConflicts(b) ==
  /\ bpc[b] = "insert" /\ Conflict(b) /\ BootGoes(b, "failed")
  /\ UNCHANGED <<breq, bstep, bfound, rows>>

BootFails(b) ==
  /\ bpc[b] \in Under /\ BootGoes(b, "failed") /\ UNCHANGED <<breq, bstep, bfound, rows>>

\* Mutant of ListAgents: an empty list is not looked for.
ListAgentsBlindly(b) ==
  /\ bpc[b] = "agents" /\ BootGoes(b, "newkey") /\ UNCHANGED <<breq, bstep, bfound, rows>>

\* Recovery: an agent of the user, a new key for it, the subscription.
ListAgents(b) ==
  /\ bpc[b] = "agents"
  /\ BootGoes(b, IF "agent" \in rows[bfound[b]] THEN "newkey" ELSE "refused")
  /\ UNCHANGED <<breq, bstep, bfound, rows>>
RecoveryKey(b) ==
  /\ bpc[b] = "newkey" /\ BootGoes(b, "plan")
  /\ rows' = [rows EXCEPT ![b] = @ \cup {"apikey"}] /\ UNCHANGED <<breq, bstep, bfound>>
FindSubscription(b) ==
  /\ bpc[b] = "plan"
  /\ BootGoes(b, IF "subscription" \in rows[bfound[b]] THEN "recovered" ELSE "refused")
  /\ UNCHANGED <<breq, bstep, bfound, rows>>

BootNext ==
  \E b \in Boots :
    \/ \E q \in BootReqs : BootBegins(b, q)
    \/ \E c \in Boots : LookUpFinds(b, c)
    \/ LookUpFindsNone(b) \/ CountUsers(b) \/ Insert(b) \/ InsertConflicts(b)
    \/ ListAgents(b) \/ RecoveryKey(b) \/ FindSubscription(b) \/ BootFails(b)

BootSpec == BootInit /\ [][BootNext]_bootVars

-----------------------------------------------------------------------------
(* Properties *)

\* The parts of the inductive invariant.
\* Rows are written in order.
InOrderOfInserts ==
  \A b \in Boots :
    /\ bpc[b] \in {"idle", "lookup", "count"} => rows[b] = {} /\ bstep[b] = 1
    /\ bfound[b] = NoBoot =>
         \A i \in 1..LastInsert :
           /\ Inserts[i] \in rows[b] => i < bstep[b] \/ bpc[b] = "full"
           /\ i < bstep[b] \/ bpc[b] = "full" =>
                (Inserts[i] \in rows[b] <=> Wants(breq[b], Inserts[i]))
    /\ bpc[b] \in {"agents", "newkey", "plan", "recovered"} => bfound[b] # NoBoot
    /\ bpc[b] \in {"idle", "lookup", "count", "insert", "full"} => bfound[b] = NoBoot
    /\ bfound[b] # NoBoot => rows[b] \subseteq {"apikey"}
\* What a recovery has found stays.
FoundStays ==
  \A b \in Boots : bfound[b] # NoBoot =>
    /\ IsPrimary(bfound[b], breq[b].email) /\ breq[bfound[b]].password = breq[b].password
    /\ bpc[b] \in {"newkey", "plan", "recovered"} => "agent" \in rows[bfound[b]]
NamesUnique ==
  \A b, c \in Boots : "channel" \in rows[b] /\ "channel" \in rows[c]
                        /\ breq[b].channel = breq[c].channel => b = c

\* What an answer of success names exists: all the rows of the request when it
\* was carried out, user, agent, key and subscription of the earlier call when
\* it was recovered; and of calls for one channel, as of one request sent
\* twice, at most one is carried out.  (bootstrap_service.go:204, :347)
AnswersTrue ==
  /\ \A b \in Boots : bpc[b] = "full" =>
       \A i \in 1..LastInsert : Wants(breq[b], Inserts[i]) => Inserts[i] \in rows[b]
  /\ \A b \in Boots : bpc[b] = "recovered" =>
       {"user", "agent", "apikey", "subscription"} \subseteq rows[bfound[b]]
  /\ \A b, c \in Boots : bpc[b] = "full" /\ bpc[c] = "full" /\ b # c =>
       breq[b].channel # breq[c].channel

BootInv == BootTypes /\ InOrderOfInserts /\ FoundStays /\ NamesUnique /\ AnswersTrue

-----------------------------------------------------------------------------
(* What a comment says, and the code does not do *)

\* bootstrap_service.go:64: "Bootstrap performs atomic instance
\* provisioning": when no call is under way, the instance is provisioned or
\* has no row.
BootstrapAtomic ==
  (\A b \in Boots : bpc[b] \notin Under) /\ (\E b \in Boots : rows[b] # {}) =>
    \E b \in Boots : bpc[b] = "full"
=============================================================================
