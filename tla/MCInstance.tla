----------------------------- MODULE MCInstance -----------------------------
(***************************************************************************)
(* Instances of the relay tunnel and of the services of an instance for    *)
(* TLC.  They share no state, so a behaviour runs one of them, chosen at   *)
(* the start, and leaves the others where they begin: their state spaces   *)
(* add up.                                                                 *)
(***************************************************************************)
EXTENDS MCRelayTunnel, ChannelMembers, Accounts, Bootstrap

CONSTANTS p1, p2, p3, n1, mail1

\* A channel may be named like the conversation p1 would open with p2.
MC_RoomNames == {n1, <<p1, p2>>}

VARIABLE part

InstInit ==
  /\ part \in {"tunnel", "channels", "accounts", "bootstrap"}
  /\ Init /\ RoomInit /\ AccountsInit /\ BootInit
  /\ part # "tunnel" => tunnel /\ mtoken = None
  /\ part # "accounts" => hash[Owner] = CHOOSE p \in Passwords : TRUE

OfTunnel(A) == part = "tunnel" /\ A /\ UNCHANGED <<part, roomVars, accountVars, bootVars>>
OfChannels(A) == part = "channels" /\ A /\ UNCHANGED <<part, vars, accountVars, bootVars>>
OfAccounts(A) == part = "accounts" /\ A /\ UNCHANGED <<part, vars, roomVars, bootVars>>
OfBootstrap(A) == part = "bootstrap" /\ A /\ UNCHANGED <<part, vars, roomVars, accountVars>>

\* Calls, rows, connections and client objects differ in nothing but their
\* number: the first that is unused comes next.
InTurn(ids, pc, unused) ==
  \A k \in ids : pc[k] = unused /\ pc'[k] # unused => \A l \in ids : l < k => pc[l] # unused

\* Of three calls two overlap; a call begins when none is at its first
\* statement; addresses are interchangeable, so the first has mail1.  Calls want
\* a further agent and a person, or neither.
AtMostTwo ==
  /\ Cardinality({x \in Boots : bpc'[x] \in Under}) <= 2
  /\ Cardinality({x \in Boots : bpc'[x] = "lookup"}) <= 1
  /\ \A x \in Boots : bpc'[x] = "lookup" =>
       /\ breq'[x].more <=> breq'[x].human # NoMail
       /\ (\A y \in Boots : x <= y) => breq'[x].email = mail1

InstNext ==
  \/ OfTunnel(Next /\ InTurn(Clients, cpc, "unborn") /\ InTurn(Conns, spc, "free"))
  \/ OfChannels(RoomNext /\ InTurn(RoomCalls, at, "idle") /\ InTurn(Rooms, kind, "none"))
  \/ OfAccounts(AccountsNext /\ InTurn(Tasks, phase, "idle"))
  \/ OfBootstrap(BootNext /\ InTurn(Boots, bpc, "idle") /\ AtMostTwo)

instVars == <<part, vars, roomVars, accountVars, bootVars>>

InstSpec == InstInit /\ [][InstNext]_instVars
=============================================================================
