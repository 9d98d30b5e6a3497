--------------------------- MODULE ChannelMembers ---------------------------
(***************************************************************************)
(* Channels, their members and conversations of two (channel_service.go    *)
(* over channel_repository.go).  A call checks rights with one statement   *)
(* and acts with another, so what it acts on may have changed.  A row's    *)
(* key is used once; names are unique among all rows, conversations        *)
(* included.                                                               *)
(***************************************************************************)
EXTENDS Naturals, FiniteSets

CONSTANTS
  People,
  Rooms,      \* keys of rows of the table channels
  RoomNames,  \* names that users give; they may look like those of conversations
  RoomCalls,  \* calls that may be under way at once
  MaxCalls,   \* bound on calls
  NoName

ASSUME RoomsOK ==
  /\ MaxCalls \in Nat /\ NoName \notin RoomNames
  /\ People # {} /\ Rooms # {}

\* Who opened a conversation with whom, "dm-<first>-<second>": of eight
\* characters each, taken to tell people apart.
DmNames == People \X People
Roles == {"member", "admin", "owner"}
Phases == {"idle", "call", "name", "role", "target", "insert", "write"}
Ops == {"create", "dm", "update", "delete", "add", "remove", "read"}

\* Parameters of a call; what an operation does not have is arbitrary.
RoomReqs == [op : Ops, by : People, room : Rooms, whom : People, role : Roles,
             name : RoomNames \cup DmNames \cup {NoName}]

\* Requests with the fields an operation has; the others are a fixed choice.
Plain == CHOOSE q \in RoomReqs : TRUE
CreateReq(p, n) == [Plain EXCEPT !.op = "create", !.by = p, !.name = n]
DmReq(p, v) == [Plain EXCEPT !.op = "dm", !.by = p, !.whom = v]
RenameReq(p, r, n) == [Plain EXCEPT !.op = "update", !.by = p, !.room = r, !.name = n]
MemberReq(o, p, r, v, x) ==
  [Plain EXCEPT !.op = o, !.by = p, !.room = r, !.whom = v, !.role = x]
RoomReq(o, p, r) == [Plain EXCEPT !.op = o, !.by = p, !.room = r]

VARIABLES
  kind,    \* kind[r]: "none" before it is created, "channel", "dm", or "deleted"
  title,   \* channels.name
  role,    \* role[r][p]: channel_members.role, "none" without a row
  marked,  \* user_channel_reads: rooms a person has marked as read
  at,      \* phase of a call
  req,     \* its parameters
  held,    \* the caller's role, as RemoveMember has read it
  begun    \* calls so far

rowVars == <<kind, title, role, marked>>
roomVars == <<rowVars, at, req, held, begun>>

RoomTypes ==
  /\ kind \in [Rooms -> {"none", "channel", "dm", "deleted"}]
  /\ title \in [Rooms -> RoomNames \cup DmNames \cup {NoName}]
  /\ role \in [Rooms -> [People -> Roles \cup {"none"}]]
  /\ marked \in [People -> SUBSET Rooms]
  /\ at \in [RoomCalls -> Phases] /\ req \in [RoomCalls -> RoomReqs]
  /\ held \in [RoomCalls -> Roles \cup {"none"}] /\ begun \in 0..MaxCalls

RoomInit ==
  /\ kind = [r \in Rooms |-> "none"] /\ title = [r \in Rooms |-> NoName]
  /\ role = [r \in Rooms |-> [p \in People |-> "none"]]
  /\ marked = [p \in People |-> {}]
  /\ at = [k \in RoomCalls |-> "idle"]
  /\ req = [k \in RoomCalls |-> Plain]
  /\ held = [k \in RoomCalls |-> "none"] /\ begun = 0

Live(r) == kind[r] \in {"channel", "dm"}
Taken(n) == \E r \in Rooms : Live(r) /\ title[r] = n
Members(r) == {p \in People : role[r][p] # "none"}

-----------------------------------------------------------------------------
(* The course of a call *)

\* Where the handler's first statement is.
First(op) == IF op \in {"delete", "add", "remove"} THEN "role" ELSE "call"

Begins(k, q) ==
  /\ at[k] = "idle" /\ begun < MaxCalls /\ begun' = begun + 1
  /\ req' = [req EXCEPT ![k] = q] /\ at' = [at EXCEPT ![k] = First(q.op)]
  /\ UNCHANGED <<rowVars, held>>

Goes(k, phase) ==
  at' = [at EXCEPT ![k] = phase] /\ UNCHANGED <<req, held, begun>>

\* With an answer; nothing below depends on which.
Ends(k) ==
  /\ at' = [at EXCEPT ![k] = "idle"] /\ req' = [req EXCEPT ![k] = Plain]
  /\ held' = [held EXCEPT ![k] = "none"] /\ UNCHANGED begun

Is(k, op, phase) == at[k] = phase /\ req[k].op = op

\* The database or the connection fails: nothing of the statement is kept.
StatementFails(k) == at[k] # "idle" /\ Ends(k) /\ UNCHANGED rowVars

-----------------------------------------------------------------------------
(* Creating *)

NewRoom(r, type, n) ==
  /\ kind[r] = "none" /\ ~Taken(n)
  /\ kind' = [kind EXCEPT ![r] = type] /\ title' = [title EXCEPT ![r] = n]
  /\ UNCHANGED marked

\* One transaction: the channel and its creator as owner.
CreateChannel(k, r) ==
  /\ Is(k, "create", "call") /\ NewRoom(r, "channel", req[k].name)
  /\ role' = [role EXCEPT ![r][req[k].by] = "owner"]
  /\ Ends(k)

\* A conversation of exactly these two: found, in any order of the two.
ConversationOf(r, p, v) == kind[r] = "dm" /\ Members(r) = {p, v}

FindConversation(k) ==
  /\ Is(k, "dm", "call") /\ UNCHANGED rowVars
  /\ IF \E r \in Rooms : ConversationOf(r, req[k].by, req[k].whom)
       THEN Ends(k) ELSE Goes(k, "insert")

\* Mutant of CreateConversation: whoever opens it owns it, as with a channel.
CreateConversationOwned(k, r) ==
  /\ Is(k, "dm", "insert") /\ NewRoom(r, "dm", <<req[k].by, req[k].whom>>)
  /\ role' = [role EXCEPT ![r] = [p \in People |->
                IF p = req[k].by THEN "owner"
                ELSE IF p = req[k].whom THEN "member" ELSE "none"]]
  /\ Ends(k)

CreateConversation(k, r) ==
  /\ Is(k, "dm", "insert") /\ NewRoom(r, "dm", <<req[k].by, req[k].whom>>)
  /\ role' = [role EXCEPT ![r] = [p \in People |->
                IF p \in {req[k].by, req[k].whom} THEN "member" ELSE "none"]]
  /\ Ends(k)

\* UNIQUE (name)
NameIsTaken(k) ==
  /\ \/ Is(k, "create", "call") /\ Taken(req[k].name)
     \/ Is(k, "dm", "insert") /\ Taken(<<req[k].by, req[k].whom>>)
     \/ /\ Is(k, "update", "write") /\ Live(req[k].room)
        /\ \E r \in Rooms \ {req[k].room} : Live(r) /\ title[r] = req[k].name
  /\ Ends(k) /\ UNCHANGED rowVars

-----------------------------------------------------------------------------
(* Rights, read with a statement of their own *)

RoleOf(k) == role[req[k].room][req[k].by]

\* What an operation asks of the caller's role.
Entitled(q, own) ==
  CASE q.op \in {"update", "delete"} -> own = "owner"
    [] q.op = "add" -> own = "owner" \/ (own = "admin" /\ q.role # "owner")
    [] OTHER -> own # "none"

\* Update is preceded by Get in its handler, MarkChannelRead by a check.
CheckMember(k) ==
  /\ at[k] = "call" /\ req[k].op \in {"update", "read"} /\ UNCHANGED rowVars
  /\ IF RoleOf(k) = "none" THEN Ends(k)
     ELSE Goes(k, IF req[k].op = "read" THEN "write" ELSE "name")

\* GetByID: a field the request leaves out keeps the value read here.
ReadName(k) ==
  /\ Is(k, "update", "name") /\ UNCHANGED rowVars
  /\ IF Live(req[k].room)
       THEN /\ at' = [at EXCEPT ![k] = "role"]
            /\ req' = [req EXCEPT ![k].name = IF @ = NoName THEN title[req[k].room] ELSE @]
            /\ UNCHANGED <<held, begun>>
       ELSE Ends(k)

CheckRole(k) ==
  /\ at[k] = "role" /\ UNCHANGED rowVars
  /\ IF ~Entitled(req[k], RoleOf(k)) THEN Ends(k)
     ELSE IF req[k].op = "remove"
       THEN /\ at' = [at EXCEPT ![k] = "target"]
            /\ held' = [held EXCEPT ![k] = RoleOf(k)] /\ UNCHANGED <<req, begun>>
       ELSE Goes(k, "write")

\* Users may leave; owners remove admins and members, admins only members.
MayRemove(k, target) ==
  \/ req[k].by = req[k].whom
  \/ held[k] = "owner" /\ target # "owner"
  \/ held[k] = "admin" /\ target = "member"

CheckTarget(k) ==
  /\ Is(k, "remove", "target") /\ UNCHANGED rowVars
  /\ LET target == role[req[k].room][req[k].whom] IN
     IF target # "none" /\ MayRemove(k, target)
       THEN Goes(k, "write") ELSE Ends(k)

-----------------------------------------------------------------------------
(* Acting *)

Rename(k) ==
  /\ Is(k, "update", "write") /\ Live(req[k].room)
  /\ ~\E r \in Rooms \ {req[k].room} : Live(r) /\ title[r] = req[k].name
  /\ title' = [title EXCEPT ![req[k].room] = req[k].name]
  /\ Ends(k) /\ UNCHANGED <<kind, role, marked>>

\* Members and read marks go with the row.
Delete(k) ==
  /\ Is(k, "delete", "write") /\ Live(req[k].room)
  /\ LET r == req[k].room IN
     /\ kind' = [kind EXCEPT ![r] = "deleted"]
     /\ role' = [role EXCEPT ![r] = [p \in People |-> "none"]]
     /\ marked' = [p \in People |-> marked[p] \ {r}]
  /\ Ends(k) /\ UNCHANGED title

AddMember(k) ==
  /\ Is(k, "add", "write") /\ Live(req[k].room)
  /\ role[req[k].room][req[k].whom] = "none"
  /\ role' = [role EXCEPT ![req[k].room][req[k].whom] = req[k].role]
  /\ Ends(k) /\ UNCHANGED <<kind, title, marked>>

RemoveMember(k) ==
  /\ Is(k, "remove", "write") /\ role[req[k].room][req[k].whom] # "none"
  /\ role' = [role EXCEPT ![req[k].room][req[k].whom] = "none"]
  /\ Ends(k) /\ UNCHANGED <<kind, title, marked>>

MarkRead(k) ==
  /\ Is(k, "read", "write") /\ Live(req[k].room)
  /\ marked' = [marked EXCEPT ![req[k].by] = @ \cup {req[k].room}]
  /\ Ends(k) /\ UNCHANGED <<kind, title, role>>

\* The room is gone, the member is there already or not any more.
WriteRefused(k) ==
  /\ at[k] = "write"
  /\ \/ ~Live(req[k].room)
     \/ req[k].op = "add" /\ role[req[k].room][req[k].whom] # "none"
     \/ req[k].op = "remove" /\ role[req[k].room][req[k].whom] = "none"
  /\ Ends(k) /\ UNCHANGED rowVars

-----------------------------------------------------------------------------
RoomCallBegins(k) ==
  \E p \in People :
    \/ \E n \in RoomNames : Begins(k, CreateReq(p, n))
    \/ \E v \in People \ {p} : Begins(k, DmReq(p, v))
    \/ \E r \in {x \in Rooms : kind[x] # "none"} :
         \/ \E n \in RoomNames \cup {NoName} : Begins(k, RenameReq(p, r, n))
         \/ \E o \in {"delete", "read"} : Begins(k, RoomReq(o, p, r))
         \/ \E v \in People :
              \/ \E x \in Roles : Begins(k, MemberReq("add", p, r, v, x))
              \/ Begins(k, MemberReq("remove", p, r, v, "member"))

RoomCallSteps(k) ==
  \/ \E r \in Rooms : CreateChannel(k, r) \/ CreateConversation(k, r)
  \/ FindConversation(k) \/ NameIsTaken(k) \/ CheckMember(k) \/ ReadName(k)
  \/ CheckRole(k) \/ CheckTarget(k) \/ Rename(k) \/ Delete(k) \/ AddMember(k)
  \/ RemoveMember(k) \/ MarkRead(k) \/ WriteRefused(k) \/ StatementFails(k)

RoomNext == \E k \in RoomCalls : RoomCallBegins(k) \/ RoomCallSteps(k)

RoomSpec == RoomInit /\ [][RoomNext]_roomVars

-----------------------------------------------------------------------------
(* Properties *)

\* The parts of the inductive invariant.
\* Nobody in a conversation is more than a member, and whoever is in it is
\* one of the two who are in its name.
DmRows ==
  \A r \in Rooms : kind[r] = "dm" =>
    /\ title[r] \in DmNames
    /\ \A p \in People : role[r][p] # "none" =>
         role[r][p] = "member" /\ p \in {title[r][1], title[r][2]}
\* A call is at work on a row that exists, and one that passed the check of
\* a role is not about to change a conversation.
CallsKnowRoom ==
  \A k \in RoomCalls :
    at[k] \in {"target", "write"} =>
      /\ kind[req[k].room] # "none"
      /\ req[k].op \in {"update", "delete", "add"} => kind[req[k].room] # "dm"
NoRowNoMember ==
  \A r \in Rooms : ~Live(r) => Members(r) = {}

RoomInv == RoomTypes /\ DmRows /\ CallsKnowRoom /\ NoRowNoMember

\* A conversation of two stays one: it is never renamed, deleted or joined
\* by a third, and nobody in it gets rights over it; people can only leave.
\* (channel_service.go: the checks of roles; channel_repository.go
\* GetOrCreateDMChannel: both are members)
DmStays ==
  [][\A r \in Rooms : kind[r] = "dm" =>
       /\ kind'[r] = "dm" /\ title'[r] = title[r]
       /\ \A p \in People : role'[r][p] \in {role[r][p], "none"}]_roomVars
=============================================================================
