--------------------------- MODULE Services_proofs ---------------------------
(***************************************************************************)
(* The services of an instance, for any number of people, rooms, webhooks, *)
(* events, addresses, tokens and overlapping calls, and any bound on       *)
(* faults.  The invariants the runs check are inductive as they stand; who *)
(* may rewrite a user's row rests on what each call knows of its token.    *)
(***************************************************************************)
EXTENDS ChannelMembers, WebhookDelivery, Accounts, Bootstrap, TLAPS

-----------------------------------------------------------------------------
(* Channels and conversations *)

RowTypes ==
  /\ kind \in [Rooms -> {"none", "channel", "dm", "deleted"}]
  /\ title \in [Rooms -> RoomNames \cup DmNames \cup {NoName}]
  /\ role \in [Rooms -> [People -> Roles \cup {"none"}]]
  /\ marked \in [People -> SUBSET Rooms]
CallTypes ==
  /\ at \in [RoomCalls -> Phases] /\ req \in [RoomCalls -> RoomReqs]
  /\ held \in [RoomCalls -> Roles \cup {"none"}] /\ begun \in 0..MaxCalls

LEMMA RoomParts ==
  RoomInv <=> RowTypes /\ CallTypes /\ DmRows /\ CallsKnowRoom /\ NoRowNoMember
  BY DEF RoomInv, RoomTypes, RowTypes, CallTypes

LEMMA PlainIsRequest == Plain \in RoomReqs
<1>1. PICK p \in People, r \in Rooms : TRUE
  BY RoomsOK DEF RoomsOK
<1>2. [op |-> "create", by |-> p, room |-> r, whom |-> p, role |-> "member", name |-> NoName]
        \in RoomReqs
  BY <1>1 DEF RoomReqs, Ops, Roles
<1>. QED
  BY <1>2 DEF Plain

\* What a step on the rows must leave to the calls and to conversations.
RowsKeep ==
  /\ \A r \in Rooms : kind[r] # "none" => kind'[r] # "none" /\ (kind'[r] = "dm" => kind[r] = "dm")
  /\ \A r \in Rooms : kind[r] = "dm" =>
       /\ kind'[r] = "dm" /\ title'[r] = title[r]
       /\ \A p \in People : role'[r][p] \in {role[r][p], "none"}

\* A call that ends is at nothing; the others stay where they are.
LEMMA EndKeeps ==
  ASSUME CallTypes, NEW k \in RoomCalls, Ends(k)
  PROVE  /\ CallTypes'
         /\ \A j \in RoomCalls : at'[j] \in {"target", "write"} => at'[j] = at[j] /\ req'[j] = req[j]
<1>1. Plain \in RoomReqs
  BY PlainIsRequest
<1>. QED
  BY <1>1 DEF CallTypes, Ends, Phases

\* A step that ends its call and changes rows as it may.
LEMMA WriteKeeps ==
  ASSUME RoomInv, NEW k \in RoomCalls, Ends(k), RowTypes', DmRows', NoRowNoMember', RowsKeep
  PROVE  RoomInv'
<1>1. CallTypes' /\ \A j \in RoomCalls :
        at'[j] \in {"target", "write"} => at'[j] = at[j] /\ req'[j] = req[j]
  BY EndKeeps, RoomParts
<1>2. CallsKnowRoom'
  <2> SUFFICES ASSUME NEW j \in RoomCalls, at'[j] \in {"target", "write"}
               PROVE  /\ kind'[req'[j].room] # "none"
                      /\ req'[j].op \in {"update", "delete", "add"} => kind'[req'[j].room] # "dm"
    BY DEF CallsKnowRoom
  <2>1. at'[j] = at[j] /\ req'[j] = req[j]
    BY <1>1
  <2>2. req[j].room \in Rooms
    BY RoomParts DEF CallTypes, RoomReqs
  <2>. QED
    BY <2>1, <2>2, RoomParts DEF CallsKnowRoom, RowsKeep
<1>. QED
  BY <1>1, <1>2 DEF RoomInv, RoomTypes, RowTypes, CallTypes

\* A step that changes no row.
LEMMA ReadKeeps ==
  ASSUME RoomInv, UNCHANGED rowVars, CallTypes', CallsKnowRoom'
  PROVE  RoomInv' /\ RowsKeep
<1>1. RowTypes' /\ DmRows' /\ NoRowNoMember'
  BY RoomParts DEF rowVars, RowTypes, DmRows, NoRowNoMember, Live, Members
<1>2. RowsKeep
  BY DEF rowVars, RowsKeep
<1>. QED
  BY <1>1, <1>2 DEF RoomInv, RoomTypes, RowTypes, CallTypes

LEMMA RoomInitially == RoomInit => RoomInv
<1> SUFFICES ASSUME RoomInit PROVE RoomInv
  OBVIOUS
<1>1. Plain \in RoomReqs
  BY PlainIsRequest
<1>2. CallTypes
  BY <1>1, RoomsOK DEF RoomInit, CallTypes, Phases, RoomsOK
<1>3. RowTypes
  BY DEF RoomInit, RowTypes
<1>4. DmRows /\ CallsKnowRoom /\ NoRowNoMember
  BY DEF RoomInit, DmRows, CallsKnowRoom, NoRowNoMember, Members
<1>. QED
  BY <1>2, <1>3, <1>4, RoomParts

\* The requests that begin are requests.
LEMMA RequestsAreRequests ==
  ASSUME NEW p \in People, NEW v \in People, NEW r \in Rooms, NEW x \in Roles,
         NEW n \in RoomNames \cup DmNames \cup {NoName}, NEW o \in Ops
  PROVE  /\ CreateReq(p, n) \in RoomReqs /\ DmReq(p, v) \in RoomReqs
         /\ RenameReq(p, r, n) \in RoomReqs /\ MemberReq(o, p, r, v, x) \in RoomReqs
         /\ RoomReq(o, p, r) \in RoomReqs
<1>1. Plain \in RoomReqs
  BY PlainIsRequest
<1>. QED
  BY <1>1 DEF RoomReqs, Ops, CreateReq, DmReq, RenameReq, MemberReq, RoomReq

LEMMA BeginKeeps ==
  ASSUME RoomInv, NEW k \in RoomCalls, RoomCallBegins(k)
  PROVE  RoomInv' /\ RowsKeep
<1>1. PICK q \in RoomReqs : Begins(k, q)
  <2>1. PICK p \in People :
          \/ \E n \in RoomNames : Begins(k, CreateReq(p, n))
          \/ \E v \in People \ {p} : Begins(k, DmReq(p, v))
          \/ \E r \in {x \in Rooms : kind[x] # "none"} :
               \/ \E n \in RoomNames \cup {NoName} : Begins(k, RenameReq(p, r, n))
               \/ \E o \in {"delete", "read"} : Begins(k, RoomReq(o, p, r))
               \/ \E v \in People :
                    \/ \E x \in Roles : Begins(k, MemberReq("add", p, r, v, x))
                    \/ Begins(k, MemberReq("remove", p, r, v, "member"))
    BY DEF RoomCallBegins
  <2>2. "member" \in Roles /\ {"delete", "read", "add", "remove"} \subseteq Ops
    BY DEF Roles, Ops
  <2>3. PICK s \in Rooms : TRUE
    BY RoomsOK DEF RoomsOK
  <2>4. \A n \in RoomNames : CreateReq(p, n) \in RoomReqs
    BY <2>2, <2>3, RequestsAreRequests
  <2>5. \A v \in People : DmReq(p, v) \in RoomReqs
    BY <2>2, <2>3, PlainIsRequest DEF RoomReqs, Ops, DmReq
  <2>6. \A r \in Rooms, n \in RoomNames \cup {NoName} : RenameReq(p, r, n) \in RoomReqs
    BY <2>2, RequestsAreRequests
  <2>7. \A r \in Rooms, o \in {"delete", "read"} : RoomReq(o, p, r) \in RoomReqs
    BY PlainIsRequest DEF RoomReqs, Ops, RoomReq
  <2>8. \A r \in Rooms, v \in People, x \in Roles, o \in {"add", "remove"} :
          MemberReq(o, p, r, v, x) \in RoomReqs
    BY PlainIsRequest DEF RoomReqs, Ops, MemberReq
  <2>. QED
    BY <2>1, <2>2, <2>4, <2>5, <2>6, <2>7, <2>8
<1>2. CallTypes'
  BY <1>1, RoomParts, RoomsOK DEF Begins, CallTypes, Phases, First, RoomsOK
<1>3. \A j \in RoomCalls : at'[j] \in {"target", "write"} => at'[j] = at[j] /\ req'[j] = req[j]
  BY <1>1, RoomParts DEF Begins, CallTypes, First
<1>4. UNCHANGED rowVars
  BY <1>1 DEF Begins
<1>5. CallsKnowRoom'
  BY <1>3, <1>4, RoomParts DEF rowVars, CallsKnowRoom
<1>. QED
  BY <1>2, <1>4, <1>5, ReadKeeps

\* A call that ends without a write.
LEMMA EndsUnwritten ==
  ASSUME RoomInv, NEW k \in RoomCalls, Ends(k), UNCHANGED rowVars
  PROVE  RoomInv' /\ RowsKeep
<1>1. CallTypes' /\ \A j \in RoomCalls :
        at'[j] \in {"target", "write"} => at'[j] = at[j] /\ req'[j] = req[j]
  BY EndKeeps, RoomParts
<1>2. CallsKnowRoom'
  BY <1>1, RoomParts DEF rowVars, CallsKnowRoom
<1>. QED
  BY <1>1, <1>2, ReadKeeps

\* A call that goes on to a phase, and there knows its room if it must.
LEMMA GoesOn ==
  ASSUME RoomInv, NEW k \in RoomCalls, NEW ph \in Phases, Goes(k, ph), UNCHANGED rowVars,
         ph \in {"target", "write"} =>
           /\ kind[req[k].room] # "none"
           /\ req[k].op \in {"update", "delete", "add"} => kind[req[k].room] # "dm"
  PROVE  RoomInv' /\ RowsKeep
<1>1. CallTypes'
  BY RoomParts DEF Goes, CallTypes
<1>2. CallsKnowRoom'
  BY RoomParts DEF rowVars, Goes, CallTypes, CallsKnowRoom
<1>. QED
  BY <1>1, <1>2, ReadKeeps

\* Whoever has a role in a room makes it one that is there, and only rooms
\* other than conversations have owners and admins.
LEMMA RolesTell ==
  ASSUME RoomInv, NEW r \in Rooms, NEW p \in People, role[r][p] # "none"
  PROVE  kind[r] \in {"channel", "dm"} /\ (kind[r] = "dm" => role[r][p] = "member")
  BY RoomParts DEF NoRowNoMember, DmRows, Live, Members

\* Rows change: a new room with its first members.
LEMMA CreateKeeps ==
  ASSUME RoomInv, NEW k \in RoomCalls, NEW r \in Rooms,
         CreateChannel(k, r) \/ CreateConversation(k, r)
  PROVE  RoomInv' /\ RowsKeep
<1>. DEFINE p == req[k].by
            v == req[k].whom
<1>1. p \in People /\ v \in People /\ req[k].name \in RoomNames \cup DmNames \cup {NoName}
  BY RoomParts DEF CallTypes, RoomReqs
<1>2. kind[r] = "none" /\ Ends(k)
  BY DEF CreateChannel, CreateConversation, NewRoom
<1>3. RowTypes' /\ kind'[r] \in {"channel", "dm"}
  <2>1. RowTypes /\ <<p, v>> \in DmNames /\ {"owner", "member"} \subseteq Roles
    BY <1>1, RoomParts DEF DmNames, Roles
  <2>2. CASE CreateChannel(k, r)
    BY <1>1, <2>1, <2>2 DEF CreateChannel, NewRoom, RowTypes
  <2>3. CASE CreateConversation(k, r)
    <3>1. role' \in [Rooms -> [People -> Roles \cup {"none"}]]
      BY <2>1, <2>3 DEF CreateConversation, RowTypes
    <3>. QED
      BY <2>1, <2>3, <3>1 DEF CreateConversation, NewRoom, RowTypes
  <2>. QED
    BY <2>2, <2>3
<1>4. \A s \in Rooms \ {r} : kind'[s] = kind[s] /\ title'[s] = title[s] /\ role'[s] = role[s]
  BY RoomParts DEF CreateChannel, CreateConversation, NewRoom, RowTypes
<1>5. DmRows'
  <2>1. kind'[r] = "dm" =>
          /\ title'[r] = <<p, v>>
          /\ \A u \in People : role'[r][u] = IF u \in {p, v} THEN "member" ELSE "none"
    BY RoomParts DEF CreateChannel, CreateConversation, NewRoom, RowTypes
  <2>2. <<p, v>> \in DmNames /\ <<p, v>>[1] = p /\ <<p, v>>[2] = v
    BY <1>1 DEF DmNames
  <2>. QED
    BY <1>4, <2>1, <2>2, RoomParts DEF DmRows
<1>6. NoRowNoMember'
  BY <1>3, <1>4, RoomParts DEF NoRowNoMember, Live, Members
<1>7. RowsKeep
  BY <1>2, <1>3, <1>4 DEF RowsKeep
<1>. QED
  BY <1>2, <1>3, <1>5, <1>6, <1>7, WriteKeeps

\* Rows change: of a room that the calls that write there know to be no
\* conversation, its name, its rows or one of its members.
LEMMA ManageKeeps ==
  ASSUME RoomInv, NEW k \in RoomCalls, Rename(k) \/ Delete(k) \/ AddMember(k)
  PROVE  RoomInv' /\ RowsKeep
<1>. DEFINE r == req[k].room
<1>1. r \in Rooms /\ req[k].whom \in People /\ req[k].role \in Roles
      /\ req[k].name \in RoomNames \cup DmNames \cup {NoName}
  BY RoomParts DEF CallTypes, RoomReqs
<1>2. kind[r] = "channel" /\ Ends(k)
  BY RoomParts DEF CallsKnowRoom, Rename, Delete, AddMember, Is, Live
<1>3. RowTypes'
  <2>1. RowTypes
    BY RoomParts
  <2>2. CASE Rename(k)
    BY <1>1, <2>1, <2>2 DEF Rename, RowTypes
  <2>3. CASE Delete(k)
    <3>1. role' \in [Rooms -> [People -> Roles \cup {"none"}]]
      BY <1>1, <2>1, <2>3 DEF Delete, RowTypes
    <3>2. marked' \in [People -> SUBSET Rooms]
      BY <1>1, <2>1, <2>3 DEF Delete, RowTypes
    <3>. QED
      BY <1>1, <2>1, <2>3, <3>1, <3>2 DEF Delete, RowTypes
  <2>4. CASE AddMember(k)
    BY <1>1, <2>1, <2>4 DEF AddMember, RowTypes
  <2>. QED
    BY <2>2, <2>3, <2>4
<1>4. \A s \in Rooms \ {r} : kind'[s] = kind[s] /\ title'[s] = title[s] /\ role'[s] = role[s]
  BY RoomParts DEF Rename, Delete, AddMember, RowTypes
<1>5. \/ kind'[r] = "channel"
      \/ kind'[r] = "deleted" /\ \A u \in People : role'[r][u] = "none"
  BY <1>1, <1>2, RoomParts DEF Rename, Delete, AddMember, RowTypes
<1>6. DmRows' /\ NoRowNoMember'
  BY <1>4, <1>5, RoomParts DEF DmRows, NoRowNoMember, Live, Members
<1>7. RowsKeep
  BY <1>2, <1>4, <1>5 DEF RowsKeep
<1>. QED
  BY <1>2, <1>3, <1>6, <1>7, WriteKeeps

\* Rows change: a member goes, or a room is marked as read.
LEMMA LeaveKeeps ==
  ASSUME RoomInv, NEW k \in RoomCalls, RemoveMember(k) \/ MarkRead(k)
  PROVE  RoomInv' /\ RowsKeep
<1>1. req[k].room \in Rooms /\ req[k].whom \in People /\ req[k].by \in People
  BY RoomParts DEF CallTypes, RoomReqs
<1>2. Ends(k) /\ UNCHANGED <<kind, title>>
  BY DEF RemoveMember, MarkRead
<1>3. RowTypes'
  <2>1. RowTypes
    BY RoomParts
  <2>2. CASE RemoveMember(k)
    BY <1>1, <2>1, <2>2 DEF RemoveMember, RowTypes
  <2>3. CASE MarkRead(k)
    BY <1>1, <2>1, <2>3 DEF MarkRead, RowTypes
  <2>. QED
    BY <2>2, <2>3
<1>4. \A s \in Rooms, u \in People : role'[s][u] \in {role[s][u], "none"}
  BY <1>1, RoomParts DEF RemoveMember, MarkRead, RowTypes
<1>5. DmRows' /\ NoRowNoMember'
  BY <1>2, <1>4, RoomParts DEF DmRows, NoRowNoMember, Live, Members
<1>6. RowsKeep
  BY <1>2, <1>4 DEF RowsKeep
<1>. QED
  BY <1>2, <1>3, <1>5, <1>6, WriteKeeps

\* Rights: what a call has found out when it goes on to act.
LEMMA CheckKeeps ==
  ASSUME RoomInv, NEW k \in RoomCalls, CheckMember(k) \/ CheckRole(k) \/ CheckTarget(k)
  PROVE  RoomInv' /\ RowsKeep
<1>1. req[k].room \in Rooms /\ req[k].by \in People /\ req[k].whom \in People
  BY RoomParts DEF CallTypes, RoomReqs
<1>2. UNCHANGED rowVars
  BY DEF CheckMember, CheckRole, CheckTarget
<1>3. CASE Ends(k)
  BY <1>2, <1>3, EndsUnwritten
<1>4. CASE CheckMember(k) /\ ~Ends(k)
  <2>1. RoleOf(k) # "none" /\ Goes(k, IF req[k].op = "read" THEN "write" ELSE "name")
    BY <1>4 DEF CheckMember
  <2>2. kind[req[k].room] # "none"
    BY <1>1, <2>1, RolesTell DEF RoleOf
  <2>3. "write" \in Phases /\ "name" \in Phases
    BY DEF Phases
  <2>. QED
    BY <1>2, <2>1, <2>2, <2>3, GoesOn
<1>5. CASE CheckRole(k) /\ ~Ends(k)
  <2>1. Entitled(req[k], RoleOf(k))
    BY <1>5 DEF CheckRole
  <2>2. RoleOf(k) # "none" /\ (req[k].op \in {"update", "delete", "add"} => RoleOf(k) # "member")
    BY <2>1 DEF Entitled
  <2>3. /\ kind[req[k].room] # "none"
        /\ req[k].op \in {"update", "delete", "add"} => kind[req[k].room] # "dm"
    BY <1>1, <2>2, RolesTell DEF RoleOf
  <2>4. CASE req[k].op # "remove"
    <3>1. Goes(k, "write") /\ "write" \in Phases
      BY <1>5, <2>1, <2>4 DEF CheckRole, Phases
    <3>. QED
      BY <1>2, <2>3, <3>1, GoesOn
  <2>5. CASE req[k].op = "remove"
    <3>1. /\ at' = [at EXCEPT ![k] = "target"]
          /\ held' = [held EXCEPT ![k] = RoleOf(k)] /\ UNCHANGED <<req, begun>>
      BY <1>5, <2>1, <2>5 DEF CheckRole
    <3>2. RoleOf(k) \in Roles \cup {"none"} /\ "target" \in Phases
      BY <1>1, RoomParts DEF RoleOf, RowTypes, Phases
    <3>3. CallTypes'
      BY <3>1, <3>2, RoomParts DEF CallTypes
    <3>4. CallsKnowRoom'
      BY <1>2, <2>3, <3>1, RoomParts DEF rowVars, CallTypes, CallsKnowRoom
    <3>. QED
      BY <1>2, <3>3, <3>4, ReadKeeps
  <2>. QED
    BY <2>4, <2>5
<1>6. CASE CheckTarget(k) /\ ~Ends(k)
  <2>1. /\ role[req[k].room][req[k].whom] # "none" /\ Goes(k, "write")
        /\ req[k].op = "remove" /\ "write" \in Phases
    BY <1>6 DEF CheckTarget, Is, Phases
  <2>2. kind[req[k].room] # "none"
    BY <1>1, <2>1, RolesTell
  <2>. QED
    BY <1>2, <2>1, <2>2, GoesOn
<1>. QED
  BY <1>3, <1>4, <1>5, <1>6

LEMMA ReadNameKeeps ==
  ASSUME RoomInv, NEW k \in RoomCalls, ReadName(k)
  PROVE  RoomInv' /\ RowsKeep
<1>1. UNCHANGED rowVars
  BY DEF ReadName
<1>2. CASE Ends(k)
  BY <1>1, <1>2, EndsUnwritten
<1>3. CASE ~Ends(k)
  <2>1. /\ at' = [at EXCEPT ![k] = "role"]
        /\ req' = [req EXCEPT ![k].name = IF @ = NoName THEN title[req[k].room] ELSE @]
        /\ UNCHANGED <<held, begun>>
    BY <1>3 DEF ReadName
  <2>2. title[req[k].room] \in RoomNames \cup DmNames \cup {NoName}
    BY RoomParts DEF RowTypes, CallTypes, RoomReqs
  <2>3. CallTypes'
    BY <2>1, <2>2, RoomParts DEF CallTypes, RoomReqs, Phases
  <2>4. \A j \in RoomCalls : at'[j] \in {"target", "write"} => at'[j] = at[j] /\ req'[j] = req[j]
    BY <2>1, RoomParts DEF CallTypes
  <2>5. CallsKnowRoom'
    BY <1>1, <2>4, RoomParts DEF rowVars, CallsKnowRoom
  <2>. QED
    BY <1>1, <2>3, <2>5, ReadKeeps
<1>. QED
  BY <1>2, <1>3

LEMMA FindKeeps ==
  ASSUME RoomInv, NEW k \in RoomCalls, FindConversation(k)
  PROVE  RoomInv' /\ RowsKeep
<1>1. UNCHANGED rowVars /\ (Ends(k) \/ Goes(k, "insert")) /\ "insert" \in Phases
  BY DEF FindConversation, Phases
<1>. QED
  BY <1>1, EndsUnwritten, GoesOn

LEMMA RoomStep ==
  ASSUME RoomInv, [RoomNext]_roomVars
  PROVE  RoomInv' /\ RowsKeep
<1>1. ASSUME NEW k \in RoomCalls, RoomCallBegins(k) PROVE RoomInv' /\ RowsKeep
  BY <1>1, BeginKeeps
<1>2. ASSUME NEW k \in RoomCalls, RoomCallSteps(k) PROVE RoomInv' /\ RowsKeep
  <2>1. CASE \E r \in Rooms : CreateChannel(k, r) \/ CreateConversation(k, r)
    BY <1>2, <2>1, CreateKeeps
  <2>2. CASE FindConversation(k)
    BY <1>2, <2>2, FindKeeps
  <2>3. CASE CheckMember(k) \/ CheckRole(k) \/ CheckTarget(k)
    BY <1>2, <2>3, CheckKeeps
  <2>4. CASE ReadName(k)
    BY <1>2, <2>4, ReadNameKeeps
  <2>5. CASE Rename(k) \/ Delete(k) \/ AddMember(k)
    BY <1>2, <2>5, ManageKeeps
  <2>6. CASE RemoveMember(k) \/ MarkRead(k)
    BY <1>2, <2>6, LeaveKeeps
  <2>7. CASE NameIsTaken(k) \/ WriteRefused(k) \/ StatementFails(k)
    BY <1>2, <2>7, EndsUnwritten DEF NameIsTaken, WriteRefused, StatementFails
  <2>. QED
    BY <1>2, <2>1, <2>2, <2>3, <2>4, <2>5, <2>6, <2>7 DEF RoomCallSteps
<1>3. ASSUME UNCHANGED roomVars PROVE RoomInv' /\ RowsKeep
  BY <1>3, RoomParts, ReadKeeps DEF roomVars, rowVars, CallTypes, CallsKnowRoom
<1>. QED
  BY <1>1, <1>2, <1>3 DEF RoomNext

\* Rows and calls agree, whatever calls overlap: nobody in a conversation is
\* more than a member, and a call that acts on a conversation was entitled to.
THEOREM RoomsAgree == RoomSpec => []RoomInv
<1>1. RoomInv /\ [RoomNext]_roomVars => RoomInv'
  BY RoomStep
<1>. QED
  BY <1>1, RoomInitially, PTL DEF RoomSpec

\* A conversation of two stays one, however calls about it overlap
\* (channel_service.go Update, Delete, AddMember, RemoveMember).
THEOREM ConversationsStay == RoomSpec => DmStays
<1>. DEFINE Kept == \A r \in Rooms : kind[r] = "dm" =>
       /\ kind'[r] = "dm" /\ title'[r] = title[r]
       /\ \A p \in People : role'[r][p] \in {role[r][p], "none"}
<1>1. RoomInv /\ [RoomNext]_roomVars => [Kept]_roomVars
  BY RoomStep DEF RowsKeep
<1>. QED
  BY <1>1, RoomsAgree, PTL DEF RoomSpec, DmStays

-----------------------------------------------------------------------------
(* Users, invites and password resets *)

UserTypes ==
  /\ users \subseteq Addresses
  /\ hash \in [Addresses -> Passwords \cup {NoPassword}]
  /\ authType \in [Addresses -> {"local", "central"}]
  /\ central \in [Addresses -> Idents \cup {Nobody}]
InviteTypes ==
  /\ invUser \in [Invites -> Addresses \cup {Nobody}]
  /\ invState \in [Invites -> {"none", "pending", "consumed"}] /\ invLate \subseteq Invites
  /\ passed \in [Invites -> Nat]
ResetTypes ==
  /\ rstUser \in [Resets -> Addresses \cup {Nobody}]
  /\ rstState \in [Resets -> {"none", "valid", "gone"}]
TaskTypes ==
  phase \in [Tasks -> TaskPhases] /\ task \in [Tasks -> TaskReqs] /\ tasks \in 0..MaxTasks

\* What the invariant says of calls, and of tables alone.
CallsPart ==
  \A k \in Tasks :
    /\ phase[k] \in {"insert", "read", "write"} => task[k].user \in users
    /\ task[k].op = "reset" /\ phase[k] \in {"read", "write", "delete"} =>
         rstState[task[k].rst] # "none"
    /\ At(k, "accept", "welcome") => invState[task[k].inv] = "consumed"
    /\ \A l \in Tasks : At(k, "accept", "welcome") /\ At(l, "accept", "welcome")
                         /\ task[l].inv = task[k].inv => k = l
TablesPart ==
  /\ \A i \in Invites : passed[i] = IF invState[i] = "consumed" THEN 1 ELSE 0
  /\ \A i \in Invites : invState[i] = "none" \/ invUser[i] \in users
  /\ \A t \in Resets : rstState[t] = "none" \/ rstUser[t] \in users

LEMMA AccountParts ==
  AccountsInv <=> /\ UserTypes /\ InviteTypes /\ ResetTypes /\ TaskTypes
                  /\ CallsPart /\ TablesPart /\ IdentityWhole
  BY DEF AccountsInv, AccountTypes, AcceptedOnce, TokensHaveUsers, UserTypes, InviteTypes,
         ResetTypes, TaskTypes, CallsPart, TablesPart

LEMMA PartsAgain ==
  ASSUME UserTypes', InviteTypes', ResetTypes', TaskTypes', CallsPart', TablesPart', IdentityWhole'
  PROVE  AccountsInv'
  BY DEF AccountsInv, AccountTypes, AcceptedOnce, TokensHaveUsers, UserTypes, InviteTypes,
         ResetTypes, TaskTypes, CallsPart, TablesPart, At

LEMMA PlainTaskIsRequest == PlainTask \in TaskReqs
<1>1. PICK x \in Idents, p \in Passwords, i \in Invites, t \in Resets : TRUE
  BY AccountsOK DEF AccountsOK
<1>2. [op |-> "accept", user |-> Owner, ident |-> x, old |-> p, new |-> p, inv |-> i, rst |-> t]
        \in TaskReqs
  BY <1>1, AccountsOK DEF TaskReqs, TaskOps, AccountsOK
<1>. QED
  BY <1>2 DEF PlainTask

\* The calls after one of them has ended, or gone on.
LEMMA FinishKeeps ==
  ASSUME TaskTypes, NEW k \in Tasks, Finishes(k)
  PROVE  /\ TaskTypes'
         /\ \A j \in Tasks : phase'[j] # "idle" => phase'[j] = phase[j] /\ task'[j] = task[j]
  BY PlainTaskIsRequest DEF TaskTypes, Finishes, TaskPhases
LEMMA ThenKeeps ==
  ASSUME TaskTypes, NEW k \in Tasks, NEW p \in TaskPhases, Then(k, p)
  PROVE  /\ TaskTypes' /\ task' = task
         /\ \A j \in Tasks : phase'[j] = IF j = k THEN p ELSE phase[j]
  BY DEF TaskTypes, Then

\* A step that leaves the tables alone.
LEMMA TablesKeep ==
  ASSUME AccountsInv, TablesKept, TaskTypes', CallsPart'
  PROVE  AccountsInv'
<1>1. UserTypes' /\ InviteTypes' /\ ResetTypes' /\ TablesPart' /\ IdentityWhole'
  BY AccountParts DEF TablesKept, userVars, inviteVars, resetVars, UserTypes, InviteTypes,
     ResetTypes, TablesPart, IdentityWhole
<1>. QED
  BY <1>1, PartsAgain
LEMMA FinishSteps ==
  ASSUME AccountsInv, NEW k \in Tasks, Finishes(k), TablesKept
  PROVE  AccountsInv'
<1>1. TaskTypes' /\ \A j \in Tasks :
        phase'[j] # "idle" => phase'[j] = phase[j] /\ task'[j] = task[j]
  BY FinishKeeps, AccountParts
<1>2. CallsPart'
  BY <1>1, AccountParts DEF CallsPart, At, TablesKept, userVars, inviteVars, resetVars
<1>. QED
  BY <1>1, <1>2, TablesKeep
LEMMA ThenSteps ==
  ASSUME AccountsInv, NEW k \in Tasks, NEW p \in TaskPhases \ {"welcome"}, Then(k, p), TablesKept,
         p \in {"insert", "read", "write"} => task[k].user \in users,
         task[k].op = "reset" /\ p \in {"read", "write", "delete"} =>
           rstState[task[k].rst] # "none"
  PROVE  AccountsInv'
<1>1. TaskTypes' /\ task' = task /\ \A j \in Tasks : phase'[j] = IF j = k THEN p ELSE phase[j]
  BY ThenKeeps, AccountParts
<1>2. CallsPart'
  BY <1>1, AccountParts DEF CallsPart, At, TablesKept, userVars, inviteVars, resetVars
<1>. QED
  BY <1>1, <1>2, TablesKeep

LEMMA AccountsInitially == AccountsInit => AccountsInv
<1> SUFFICES ASSUME AccountsInit PROVE AccountsInv
  OBVIOUS
<1>1. UserTypes /\ InviteTypes /\ ResetTypes
  BY AccountsOK DEF AccountsInit, AccountsOK, UserTypes, InviteTypes, ResetTypes
<1>2. TaskTypes
  BY AccountsOK, PlainTaskIsRequest DEF AccountsInit, AccountsOK, TaskTypes, TaskPhases
<1>3. CallsPart /\ TablesPart
  BY DEF AccountsInit, CallsPart, TablesPart, At
<1>4. IdentityWhole
  BY DEF AccountsInit, IdentityWhole
<1>. QED
  BY <1>1, <1>2, <1>3, <1>4, AccountParts

\* A call begins: one to change a password for a user who is there.
LEMMA AccountCallsBegin ==
  ASSUME AccountsInv, NEW k \in Tasks, AccountCallBegins(k)
  PROVE  AccountsInv'
<1>1. PICK q \in TaskReqs : TaskBegins(k, q) /\ (q.op = "change" => q.user \in users)
  <2>. DEFINE Q == PlainTask
  <2>1. Q \in TaskReqs /\ users \subseteq Addresses
    BY PlainTaskIsRequest, AccountParts DEF UserTypes
  <2>2. ASSUME NEW u \in Addresses, NEW p \in Passwords
        PROVE  /\ [Q EXCEPT !.op = "register", !.user = u, !.new = p] \in TaskReqs
               /\ [Q EXCEPT !.op = "register", !.user = u, !.new = p].op # "change"
               /\ [Q EXCEPT !.op = "invite", !.user = u] \in TaskReqs
               /\ [Q EXCEPT !.op = "invite", !.user = u].op # "change"
               /\ [Q EXCEPT !.op = "forgot", !.user = u] \in TaskReqs
               /\ [Q EXCEPT !.op = "forgot", !.user = u].op # "change"
    BY <2>1 DEF TaskReqs, TaskOps
  <2>3. ASSUME NEW u \in users, NEW p \in Passwords, NEW n \in Passwords
        PROVE  /\ [Q EXCEPT !.op = "change", !.user = u, !.old = p, !.new = n] \in TaskReqs
               /\ [Q EXCEPT !.op = "change", !.user = u, !.old = p, !.new = n].user \in users
    BY <2>1 DEF TaskReqs, TaskOps
  <2>4. ASSUME NEW i \in Invites, NEW x \in Idents
        PROVE  /\ [Q EXCEPT !.op = "accept", !.inv = i, !.ident = x] \in TaskReqs
               /\ [Q EXCEPT !.op = "accept", !.inv = i, !.ident = x].op # "change"
    BY <2>1 DEF TaskReqs, TaskOps
  <2>5. ASSUME NEW t \in Resets, NEW n \in Passwords
        PROVE  /\ [Q EXCEPT !.op = "reset", !.rst = t, !.new = n] \in TaskReqs
               /\ [Q EXCEPT !.op = "reset", !.rst = t, !.new = n].op # "change"
    BY <2>1 DEF TaskReqs, TaskOps
  <2>6. Passwords # {}
    BY AccountsOK DEF AccountsOK
  <2>. QED
    <3>1. CASE \E u \in Addresses :
              \/ \E p \in Passwords :
                   TaskBegins(k, [Q EXCEPT !.op = "register", !.user = u, !.new = p])
              \/ TaskBegins(k, [Q EXCEPT !.op = "invite", !.user = u])
              \/ TaskBegins(k, [Q EXCEPT !.op = "forgot", !.user = u])
      BY <2>2, <2>6, <3>1
    <3>2. CASE \E u \in users, p, n \in Passwords :
              TaskBegins(k, [Q EXCEPT !.op = "change", !.user = u, !.old = p, !.new = n])
      BY <2>3, <3>2
    <3>3. CASE \E i \in Invites, x \in Idents :
              invState[i] # "none" /\ TaskBegins(k, [Q EXCEPT !.op = "accept", !.inv = i, !.ident = x])
      BY <2>4, <3>3
    <3>4. CASE \E t \in Resets, n \in Passwords :
              rstState[t] # "none" /\ TaskBegins(k, [Q EXCEPT !.op = "reset", !.rst = t, !.new = n])
      BY <2>5, <3>4
    <3>. QED
      BY <3>1, <3>2, <3>3, <3>4 DEF AccountCallBegins
<1>2. FirstPhase(q.op) \in TaskPhases \ {"insert", "write", "delete", "welcome"}
      /\ (FirstPhase(q.op) = "read" => q.op = "change")
  BY DEF FirstPhase, TaskPhases, TaskReqs, TaskOps
<1>3. TaskTypes' /\ TablesKept
  BY <1>1, <1>2, AccountParts, AccountsOK
     DEF TaskBegins, TaskTypes, TablesKept, AccountsOK
<1>4. \A j \in Tasks : /\ phase'[j] = IF j = k THEN FirstPhase(q.op) ELSE phase[j]
                       /\ task'[j] = IF j = k THEN q ELSE task[j]
  BY <1>1, AccountParts DEF TaskBegins, TaskTypes
<1>5. CallsPart'
  BY <1>1, <1>2, <1>3, <1>4, AccountParts DEF CallsPart, At, TablesKept, userVars, inviteVars, resetVars
<1>. QED
  BY <1>3, <1>5, TablesKeep

\* A row of a user is written.
LEMMA WritesRow ==
  ASSUME AccountsInv, NEW u \in users, NEW h \in Passwords \cup {NoPassword},
         NEW type \in {"local", "central"}, NEW x \in Idents \cup {Nobody}, WriteRow(u, h, type, x),
         type = "central" => h = NoPassword, type = "central" <=> x # Nobody,
         x # Nobody => \A v \in users \ {u} : central[v] # x,
         TaskTypes', CallsPart'
  PROVE  AccountsInv'
<1>1. u \in Addresses /\ UserTypes /\ IdentityWhole
  BY AccountParts DEF UserTypes
<1>2. UserTypes'
  BY <1>1 DEF WriteRow, UserTypes
<1>3. \A v \in Addresses : /\ hash'[v] = IF v = u THEN h ELSE hash[v]
                           /\ authType'[v] = IF v = u THEN type ELSE authType[v]
                           /\ central'[v] = IF v = u THEN x ELSE central[v]
  BY <1>1 DEF WriteRow, UserTypes
<1>4. IdentityWhole'
  BY <1>1, <1>3 DEF IdentityWhole, UserTypes, WriteRow
<1>5. InviteTypes' /\ ResetTypes' /\ TablesPart'
  BY AccountParts DEF WriteRow, inviteVars, resetVars, InviteTypes, ResetTypes, TablesPart
<1>. QED
  BY <1>2, <1>4, <1>5, PartsAgain

LEMMA RowSteps ==
  ASSUME AccountsInv, NEW k \in Tasks,
         ChangePassword(k) \/ LinkIdentity(k) \/ ResetPassword(k)
  PROVE  AccountsInv'
<1>1. task[k].user \in users /\ task[k].new \in Passwords /\ task[k].ident \in Idents
  BY AccountParts DEF CallsPart, TaskTypes, TaskReqs, ChangePassword, LinkIdentity,
     ResetPassword, At
<1>2. Nobody \notin Idents
  BY AccountsOK DEF AccountsOK
<1>3. TaskTypes' /\ CallsPart'
  <2>1. TaskTypes /\ CallsPart
    BY AccountParts
  <2>2. UNCHANGED <<users, invState, rstState>>
    BY DEF ChangePassword, LinkIdentity, ResetPassword, WriteRow, inviteVars, resetVars
  <2>3. CASE ChangePassword(k)
    <3>1. Finishes(k)
      BY <2>3 DEF ChangePassword
    <3>. QED
      BY <2>1, <2>2, <3>1, FinishKeeps DEF CallsPart, At
  <2>4. CASE LinkIdentity(k)
    <3>1. Then(k, "consume") /\ "consume" \in TaskPhases
      BY <2>4 DEF LinkIdentity, TaskPhases
    <3>. QED
      BY <2>1, <2>2, <2>4, <3>1, ThenKeeps DEF CallsPart, LinkIdentity, At
  <2>5. CASE ResetPassword(k)
    <3>1. Then(k, "delete") /\ "delete" \in TaskPhases
      BY <2>5 DEF ResetPassword, TaskPhases
    <3>. QED
      BY <2>1, <2>2, <2>5, <3>1, ThenKeeps DEF CallsPart, ResetPassword, At
  <2>. QED
    BY <2>3, <2>4, <2>5
<1>4. CASE ChangePassword(k) \/ ResetPassword(k)
  <2>1. WriteRow(task[k].user, task[k].new, "local", Nobody)
    BY <1>4 DEF ChangePassword, ResetPassword
  <2>. QED
    BY <1>1, <1>3, <2>1, WritesRow
<1>5. CASE LinkIdentity(k)
  <2>1. /\ WriteRow(task[k].user, NoPassword, "central", task[k].ident)
        /\ \A v \in users \ {task[k].user} : central[v] # task[k].ident
    BY <1>5 DEF LinkIdentity, IdentElsewhere
  <2>. QED
    BY <1>1, <1>2, <1>3, <2>1, WritesRow
<1>. QED
  BY <1>4, <1>5

\* A row is inserted.
LEMMA CreateUserKeeps ==
  ASSUME AccountsInv, NEW k \in Tasks, CreateUser(k)
  PROVE  AccountsInv'
<1>1. task[k].user \in Addresses /\ task[k].new \in Passwords
  BY AccountParts DEF TaskTypes, TaskReqs
<1>2. task[k].user \notin users /\ users' = users \cup {task[k].user}
  BY DEF CreateUser
<1>3. UserTypes /\ IdentityWhole /\ TaskTypes /\ CallsPart
  BY AccountParts
<1>4. UserTypes'
  BY <1>1, <1>3 DEF CreateUser, UserTypes
<1>5. UNCHANGED <<authType, central>>
      /\ \A v \in Addresses \ {task[k].user} : hash'[v] = hash[v]
  BY <1>3 DEF CreateUser, UserTypes
<1>6. IdentityWhole'
  <2>1. central[task[k].user] = Nobody /\ authType[task[k].user] # "central"
    BY <1>1, <1>2, <1>3 DEF IdentityWhole
  <2>2. \A u \in Addresses : authType'[u] = "central" <=> central'[u] # Nobody
    BY <1>3, <1>5 DEF IdentityWhole
  <2>3. \A u \in Addresses : authType'[u] = "central" \/ u \notin users' => hash'[u] = NoPassword
    BY <1>2, <1>3, <1>5, <2>1 DEF IdentityWhole
  <2>4. \A u \in Addresses : u \notin users' => central'[u] = Nobody
    BY <1>2, <1>3, <1>5 DEF IdentityWhole
  <2>5. \A u, v \in users' : central'[u] = central'[v] /\ central'[u] # Nobody => u = v
    BY <1>2, <1>3, <1>5, <2>1 DEF IdentityWhole
  <2>. QED
    BY <2>2, <2>3, <2>4, <2>5 DEF IdentityWhole
<1>7. InviteTypes' /\ ResetTypes' /\ TablesPart'
  BY <1>2, AccountParts DEF CreateUser, inviteVars, resetVars, InviteTypes, ResetTypes, TablesPart
<1>8. TaskTypes' /\ CallsPart'
  <2>1. invState' = invState /\ rstState' = rstState
    BY DEF CreateUser, inviteVars, resetVars
  <2>2. CASE Finishes(k)
    BY <1>2, <1>3, <2>1, <2>2, FinishKeeps DEF CallsPart, At
  <2>3. CASE ~Finishes(k)
    <3>1. Then(k, "insert") /\ "insert" \in TaskPhases
      BY <2>3 DEF CreateUser, TaskPhases
    <3>. QED
      BY <1>2, <1>3, <2>1, <3>1, ThenKeeps DEF CallsPart, At
  <2>. QED
    BY <2>2, <2>3
<1>. QED
  BY <1>4, <1>6, <1>7, <1>8, PartsAgain

\* Tokens: rows of users stay as they are.
LEMMA TokenSteps ==
  ASSUME AccountsInv, UNCHANGED userVars, InviteTypes', ResetTypes', TablesPart', TaskTypes',
         CallsPart'
  PROVE  AccountsInv'
<1>1. UserTypes' /\ IdentityWhole'
  BY AccountParts DEF userVars, UserTypes, IdentityWhole
<1>. QED
  BY <1>1, PartsAgain

LEMMA InviteSteps ==
  ASSUME AccountsInv, NEW k \in Tasks, NEW i \in Invites, CreateInvite(k, i)
  PROVE  AccountsInv'
<1>1. task[k].user \in users /\ UserTypes /\ Finishes(k)
  BY AccountParts DEF CallsPart, CreateInvite, At
<1>2. InviteTypes' /\ ResetTypes'
  BY <1>1, AccountParts DEF CreateInvite, InviteTypes, ResetTypes, UserTypes, resetVars
<1>3. TablesPart'
  BY <1>1, AccountParts DEF CreateInvite, InviteTypes, TablesPart, userVars, resetVars
<1>4. TaskTypes' /\ \A j \in Tasks :
        phase'[j] # "idle" => phase'[j] = phase[j] /\ task'[j] = task[j]
  BY <1>1, FinishKeeps, AccountParts
<1>5. CallsPart'
  BY <1>4, AccountParts
     DEF CreateInvite, CallsPart, InviteTypes, TaskTypes, TaskReqs, At, userVars, resetVars
<1>6. UNCHANGED userVars
  BY DEF CreateInvite
<1>. QED
  BY <1>2, <1>3, <1>4, <1>5, <1>6, TokenSteps

LEMMA ConsumeSteps ==
  ASSUME AccountsInv, NEW k \in Tasks, ConsumeToken(k)
  PROVE  AccountsInv'
<1>. DEFINE i == task[k].inv
<1>1. i \in Invites /\ At(k, "accept", "consume")
  BY AccountParts DEF ConsumeToken, TaskTypes, TaskReqs
<1>2. CASE invState[i] # "pending"
  <2>1. Finishes(k) /\ TablesKept
    BY <1>2 DEF ConsumeToken, TablesKept, inviteVars
  <2>. QED
    BY <2>1, FinishSteps
<1>3. CASE invState[i] = "pending"
  <2>1. /\ invState' = [invState EXCEPT ![i] = "consumed"]
        /\ passed' = [passed EXCEPT ![i] = @ + 1] /\ Then(k, "welcome")
        /\ UNCHANGED <<userVars, invUser, invLate, resetVars>>
    BY <1>3 DEF ConsumeToken
  <2>2. InviteTypes' /\ ResetTypes'
    BY <1>1, <2>1, AccountParts DEF InviteTypes, ResetTypes, resetVars
  <2>3. TablesPart'
    BY <1>1, <1>3, <2>1, AccountParts DEF InviteTypes, TablesPart, userVars, resetVars
  <2>4. "welcome" \in TaskPhases
    BY DEF TaskPhases
  <2>5. /\ TaskTypes' /\ task' = task
        /\ \A j \in Tasks : phase'[j] = IF j = k THEN "welcome" ELSE phase[j]
    BY <2>1, <2>4, ThenKeeps, AccountParts
  <2>6. \A j \in Tasks : At(j, "accept", "welcome") => task[j].inv # i
    BY <1>3, AccountParts DEF CallsPart
  <2>7. CallsPart'
    BY <1>1, <2>1, <2>5, <2>6, AccountParts
       DEF CallsPart, InviteTypes, TaskTypes, TaskReqs, At, userVars, resetVars
  <2>. QED
    BY <2>1, <2>2, <2>3, <2>5, <2>7, TokenSteps
<1>. QED
  BY <1>2, <1>3

LEMMA ResetSteps ==
  ASSUME AccountsInv, NEW k \in Tasks, DeleteResetToken(k) \/ \E t \in Resets : CreateResetToken(k, t)
  PROVE  AccountsInv'
<1>1. UserTypes /\ Finishes(k) /\ UNCHANGED <<userVars, inviteVars, passed>>
  BY AccountParts DEF DeleteResetToken, CreateResetToken
<1>2. ResetTypes' /\ TablesPart'
  <2>1. CASE DeleteResetToken(k)
    <3>1. task[k].rst \in Resets /\ rstState[task[k].rst] # "none"
      BY <2>1, AccountParts DEF TaskTypes, TaskReqs, CallsPart, DeleteResetToken, At
    <3>2. ResetTypes'
      BY <2>1, <3>1, AccountParts DEF DeleteResetToken, ResetTypes
    <3>3. \A t \in Resets : rstState[t] = "none" \/ rstUser[t] \in users
      BY AccountParts DEF TablesPart
    <3>. QED
      BY <2>1, <3>1, <3>2, <3>3, AccountParts
         DEF DeleteResetToken, ResetTypes, TablesPart, userVars, inviteVars
  <2>2. ASSUME NEW t \in Resets, CreateResetToken(k, t) PROVE ResetTypes' /\ TablesPart'
    <3>1. task[k].user \in users
      BY <2>2, AccountParts DEF CallsPart, CreateResetToken, At
    <3>. QED
      BY <1>1, <2>2, <3>1, AccountParts
         DEF CreateResetToken, ResetTypes, UserTypes, TablesPart, userVars, inviteVars
  <2>. QED
    BY <2>1, <2>2
<1>3. TaskTypes' /\ \A j \in Tasks :
        phase'[j] # "idle" => phase'[j] = phase[j] /\ task'[j] = task[j]
  BY <1>1, FinishKeeps, AccountParts
<1>4. InviteTypes' /\ \A t \in Resets : rstState[t] # "none" => rstState'[t] # "none"
  BY <1>1, AccountParts DEF InviteTypes, inviteVars, ResetTypes, DeleteResetToken, CreateResetToken
<1>5. CallsPart'
  BY <1>1, <1>3, <1>4, AccountParts
     DEF CallsPart, TaskTypes, TaskReqs, At, userVars, inviteVars
<1>. QED
  BY <1>1, <1>2, <1>3, <1>4, <1>5, TokenSteps

\* Tokens expire at any time.
LEMMA ExpirySteps ==
  ASSUME AccountsInv, (\E i \in Invites : InviteExpires(i)) \/ (\E t \in Resets : ResetExpires(t))
  PROVE  AccountsInv'
<1>1. UNCHANGED <<userVars, invUser, invState, rstUser, phase, task, tasks, passed>>
  BY DEF InviteExpires, ResetExpires, inviteVars, resetVars
<1>2. InviteTypes' /\ ResetTypes' /\ TaskTypes'
  BY <1>1, AccountParts
     DEF InviteExpires, ResetExpires, inviteVars, resetVars, InviteTypes, ResetTypes, TaskTypes
<1>3. \A t \in Resets : rstState'[t] = "none" <=> rstState[t] = "none"
  BY <1>2, AccountParts DEF InviteExpires, ResetExpires, ResetTypes, resetVars
<1>4. TablesPart'
  BY <1>1, <1>3, AccountParts DEF TablesPart, userVars
<1>5. CallsPart'
  BY <1>1, <1>3, AccountParts DEF CallsPart, TaskTypes, TaskReqs, At, userVars
<1>. QED
  BY <1>1, <1>2, <1>4, <1>5, TokenSteps

\* A token that is found makes known whose it is.
LEMMA TokenFound ==
  ASSUME AccountsInv, NEW k \in Tasks, ValidateToken(k) \/ FindResetToken(k)
  PROVE  AccountsInv'
<1>1. TablesKept
  BY DEF ValidateToken, FindResetToken
<1>2. CASE Finishes(k)
  BY <1>1, <1>2, FinishSteps
<1>3. CASE ~Finishes(k)
  <2>1. PICK u \in users : /\ task' = [task EXCEPT ![k].user = u]
                          /\ phase' = [phase EXCEPT ![k] = "read"] /\ UNCHANGED tasks
    <3>1. task[k].inv \in Invites /\ task[k].rst \in Resets
      BY AccountParts DEF TaskTypes, TaskReqs
    <3>. QED
      BY <1>3, <3>1, AccountParts DEF ValidateToken, FindResetToken, TablesPart
  <2>2. u \in Addresses /\ "read" \in TaskPhases
    BY AccountParts DEF UserTypes, TaskPhases
  <2>3. TaskTypes'
    BY <2>1, <2>2, AccountParts DEF TaskTypes, TaskReqs
  <2>4. \A j \in Tasks :
          /\ task'[j].inv = task[j].inv /\ task'[j].rst = task[j].rst /\ task'[j].op = task[j].op
          /\ j # k => task'[j] = task[j] /\ phase'[j] = phase[j]
    BY <2>1, AccountParts DEF TaskTypes, TaskReqs
  <2>5. task'[k].user = u /\ phase'[k] = "read"
        /\ (task[k].op = "reset" => rstState[task[k].rst] # "none")
    BY <1>3, <2>1, AccountParts DEF TaskTypes, TaskReqs, ValidateToken, FindResetToken, At
  <2>6. CallsPart'
    BY <1>1, <2>4, <2>5, AccountParts
       DEF CallsPart, At, TablesKept, userVars, inviteVars, resetVars
  <2>. QED
    BY <1>1, <2>3, <2>6, TablesKeep
<1>. QED
  BY <1>2, <1>3

\* Checks and lookups of the other calls.
LEMMA LookupSteps ==
  ASSUME AccountsInv, NEW k \in Tasks,
         \/ CheckAddress(k) \/ CheckLimit(k) \/ NoLimit(k) \/ FindUser(k) \/ FindFails(k)
         \/ ReadForChange(k) \/ ReadUser(k)
  PROVE  AccountsInv'
<1>1. TablesKept
  BY DEF CheckAddress, CheckLimit, NoLimit, FindUser, FindFails, ReadForChange, ReadUser
<1>2. CASE Finishes(k)
  BY <1>1, <1>2, FinishSteps
<1>3. CASE ~Finishes(k)
  <2>1. {"create", "find", "insert", "write"} \subseteq TaskPhases \ {"welcome"}
    BY DEF TaskPhases
  <2>2. CASE CheckAddress(k) \/ FindFails(k)
    <3>1. Then(k, "create")
      BY <1>3, <2>2 DEF CheckAddress, FindFails
    <3>. QED
      BY <1>1, <2>1, <3>1, ThenSteps
  <2>3. CASE CheckLimit(k) \/ NoLimit(k)
    <3>1. Then(k, "find")
      BY <1>3, <2>3 DEF CheckLimit, NoLimit
    <3>. QED
      BY <1>1, <2>1, <3>1, ThenSteps
  <2>4. CASE FindUser(k)
    <3>1. Then(k, "create") \/ (Then(k, "insert") /\ task[k].user \in users)
      BY <1>3, <2>4 DEF FindUser
    <3>. QED
      BY <1>1, <2>1, <3>1, ThenSteps
  <2>5. CASE ReadForChange(k) \/ ReadUser(k)
    <3>1. Then(k, "write") /\ phase[k] = "read"
      BY <1>3, <2>5 DEF ReadForChange, ReadUser, At
    <3>2. /\ task[k].user \in users
          /\ task[k].op = "reset" => rstState[task[k].rst] # "none"
      BY <3>1, AccountParts DEF CallsPart
    <3>. QED
      BY <1>1, <2>1, <3>1, <3>2, ThenSteps
  <2>. QED
    BY <2>2, <2>3, <2>4, <2>5
<1>. QED
  BY <1>2, <1>3

\* Whatever calls overlap and wherever they fail: an invite lets one call
\* pass, an identity belongs to one user, an account is local or central and
\* never half of each, and tokens belong to users who are there.
THEOREM AccountsAgree == AccountsSpec => []AccountsInv
<1>1. ASSUME AccountsInv, NEW k \in Tasks, AccountSteps(k) PROVE AccountsInv'
  <2>1. CASE \/ CheckAddress(k) \/ CheckLimit(k) \/ NoLimit(k) \/ FindUser(k) \/ FindFails(k)
             \/ ReadForChange(k) \/ ReadUser(k)
    BY <1>1, <2>1, LookupSteps
  <2>2. CASE CreateUser(k)
    BY <1>1, <2>2, CreateUserKeeps
  <2>3. CASE ChangePassword(k) \/ LinkIdentity(k) \/ ResetPassword(k)
    BY <1>1, <2>3, RowSteps
  <2>4. CASE ValidateToken(k) \/ FindResetToken(k)
    BY <1>1, <2>4, TokenFound
  <2>5. CASE ConsumeToken(k) \/ \E i \in Invites : CreateInvite(k, i)
    BY <1>1, <2>5, ConsumeSteps, InviteSteps
  <2>6. CASE DeleteResetToken(k) \/ \E t \in Resets : CreateResetToken(k, t)
    BY <1>1, <2>6, ResetSteps
  <2>7. CASE AddressTaken(k) \/ IdentTaken(k) \/ Welcome(k) \/ TaskFails(k)
    BY <1>1, <2>7, FinishSteps DEF AddressTaken, IdentTaken, Welcome, TaskFails, TablesKept
  <2>. QED
    BY <1>1, <2>1, <2>2, <2>3, <2>4, <2>5, <2>6, <2>7 DEF AccountSteps
<1>2. ASSUME AccountsInv, UNCHANGED accountVars PROVE AccountsInv'
  BY <1>2, AccountParts, TablesKeep
     DEF accountVars, userVars, inviteVars, resetVars, TablesKept, TaskTypes, CallsPart, At
<1>3. AccountsInv /\ [AccountsNext]_accountVars => AccountsInv'
  BY <1>1, <1>2, AccountCallsBegin, ExpirySteps DEF AccountsNext
<1>. QED
  BY <1>3, AccountsInitially, PTL DEF AccountsSpec

\* A call past the check of its token acts for the user of that token.
Holding(k) ==
  \/ task[k].op = "accept" /\ phase[k] \in {"read", "write", "consume", "welcome"}
  \/ task[k].op = "reset" /\ phase[k] \in {"read", "write", "delete"}
HoldersKnown == \A k \in Tasks : Holding(k) => MayRewrite(k)

\* A token keeps its user and never comes back.
LEMMA TokensStandStep ==
  ASSUME AccountsInv, [AccountsNext]_accountVars
  PROVE  TokensStand
<1>1. InviteTypes /\ ResetTypes
  BY AccountParts
<1>2. ASSUME UNCHANGED <<inviteVars, resetVars>>, users \subseteq users' PROVE TokensStand
  BY <1>2 DEF TokensStand, inviteVars, resetVars
<1>3. ASSUME TablesKept PROVE TokensStand
  BY <1>2, <1>3 DEF TablesKept, userVars
<1>4. ASSUME NEW k \in Tasks, AccountCallBegins(k) PROVE TokensStand
  BY <1>2, <1>4 DEF AccountCallBegins, TaskBegins, userVars
<1>5. ASSUME NEW k \in Tasks,
             \/ CheckAddress(k) \/ CheckLimit(k) \/ NoLimit(k) \/ FindUser(k) \/ FindFails(k)
             \/ AddressTaken(k) \/ ReadForChange(k) \/ ValidateToken(k) \/ ReadUser(k)
             \/ IdentTaken(k) \/ FindResetToken(k) \/ TaskFails(k)
      PROVE  TokensStand
  BY <1>3, <1>5 DEF CheckAddress, CheckLimit, NoLimit, FindUser, FindFails, AddressTaken,
     ReadForChange, ValidateToken, ReadUser, IdentTaken, FindResetToken, TaskFails
<1>6. ASSUME NEW k \in Tasks,
             CreateUser(k) \/ ChangePassword(k) \/ LinkIdentity(k) \/ ResetPassword(k) \/ Welcome(k)
      PROVE  TokensStand
  BY <1>2, <1>6 DEF CreateUser, ChangePassword, LinkIdentity, ResetPassword, Welcome, WriteRow,
     userVars
<1>7. ASSUME NEW k \in Tasks, NEW i \in Invites, CreateInvite(k, i) PROVE TokensStand
  <2>1. /\ invState[i] = "none" /\ invState' = [invState EXCEPT ![i] = "pending"]
        /\ invUser' = [invUser EXCEPT ![i] = task[k].user] /\ UNCHANGED <<users, resetVars>>
    BY <1>7 DEF CreateInvite, userVars
  <2>. QED
    BY <1>1, <2>1 DEF TokensStand, InviteTypes, resetVars
<1>8. ASSUME NEW k \in Tasks, ConsumeToken(k) PROVE TokensStand
  <2>1. /\ invState' = invState \/ invState' = [invState EXCEPT ![task[k].inv] = "consumed"]
        /\ invUser' = invUser /\ UNCHANGED <<users, resetVars>>
    BY <1>8 DEF ConsumeToken, userVars
  <2>. QED
    BY <1>1, <2>1 DEF TokensStand, InviteTypes, resetVars
<1>9. ASSUME NEW k \in Tasks, NEW t \in Resets, CreateResetToken(k, t) PROVE TokensStand
  <2>1. /\ rstState[t] = "none" /\ rstState' = [rstState EXCEPT ![t] = "valid"]
        /\ rstUser' = [rstUser EXCEPT ![t] = task[k].user] /\ UNCHANGED <<users, inviteVars>>
    BY <1>9 DEF CreateResetToken, userVars
  <2>. QED
    BY <1>1, <2>1 DEF TokensStand, ResetTypes, inviteVars
<1>10. ASSUME NEW t, rstState' = [rstState EXCEPT ![t] = "gone"],
              UNCHANGED <<users, inviteVars, rstUser>>
       PROVE  TokensStand
  BY <1>1, <1>10 DEF TokensStand, ResetTypes, inviteVars
<1>11. ASSUME NEW k \in Tasks, DeleteResetToken(k) PROVE TokensStand
  BY <1>10, <1>11 DEF DeleteResetToken, userVars
<1>12. ASSUME NEW t \in Resets, ResetExpires(t) PROVE TokensStand
  BY <1>10, <1>12 DEF ResetExpires, userVars
<1>13. ASSUME NEW i \in Invites, InviteExpires(i) PROVE TokensStand
  BY <1>13 DEF InviteExpires, TokensStand, userVars, resetVars
<1>14. CASE UNCHANGED accountVars
  BY <1>2, <1>14 DEF accountVars, userVars
<1>. QED
  BY <1>4, <1>5, <1>6, <1>7, <1>8, <1>9, <1>11, <1>12, <1>13, <1>14
  DEF AccountsNext, AccountSteps

\* Who holds a token goes on holding it.
LEMMA HoldersStep ==
  ASSUME AccountsInv, HoldersKnown, [AccountsNext]_accountVars
  PROVE  HoldersKnown'
<1>1. TaskTypes /\ TokensStand /\ InviteTypes /\ ResetTypes
  BY AccountParts, TokensStandStep
<1>2. ASSUME \A j \in Tasks : Holding(j)' => Holding(j) /\ task'[j] = task[j]
      PROVE  HoldersKnown'
  <2> SUFFICES ASSUME NEW j \in Tasks, Holding(j)' PROVE MayRewrite(j)'
    BY DEF HoldersKnown
  <2>1. MayRewrite(j) /\ task'[j] = task[j] /\ task[j].inv \in Invites /\ task[j].rst \in Resets
    BY <1>1, <1>2 DEF HoldersKnown, TaskTypes, TaskReqs
  <2>. QED
    BY <1>1, <2>1 DEF MayRewrite, TokensStand
<1>3. ASSUME NEW k \in Tasks, Finishes(k) PROVE HoldersKnown'
  BY <1>1, <1>2, <1>3, FinishKeeps DEF Holding
<1>4. ASSUME NEW k \in Tasks, NEW p \in TaskPhases, Then(k, p),
             \/ p \notin {"read", "write", "consume", "welcome", "delete"}
             \/ task[k].op \notin {"accept", "reset"}
             \/ Holding(k)
      PROVE  HoldersKnown'
  <2>1. task' = task /\ \A j \in Tasks : phase'[j] = IF j = k THEN p ELSE phase[j]
    BY <1>1, <1>4, ThenKeeps
  <2>. QED
    BY <1>2, <1>4, <2>1 DEF Holding
<1>5. TaskPhases = {"idle", "limit", "check", "find", "create", "read", "write", "insert",
                    "consume", "delete", "welcome"}
  BY DEF TaskPhases
<1>6. ASSUME NEW k \in Tasks, AccountCallBegins(k) PROVE HoldersKnown'
  <2>1. PICK q : /\ task' = [task EXCEPT ![k] = q]
                 /\ phase' = [phase EXCEPT ![k] = FirstPhase(q.op)]
    BY <1>6 DEF AccountCallBegins, TaskBegins
  <2>2. /\ task'[k] = q /\ phase'[k] = FirstPhase(q.op)
        /\ \A j \in Tasks \ {k} : task'[j] = task[j] /\ phase'[j] = phase[j]
    BY <1>1, <2>1 DEF TaskTypes
  <2>3. ~Holding(k)'
    BY <2>2 DEF Holding, FirstPhase
  <2>4. \A j \in Tasks : Holding(j)' => Holding(j) /\ task'[j] = task[j]
    BY <2>2, <2>3 DEF Holding
  <2>. QED
    BY <1>2, <2>4
<1>7. ASSUME NEW k \in Tasks,
             \/ CheckAddress(k) \/ CheckLimit(k) \/ NoLimit(k) \/ FindUser(k) \/ FindFails(k)
             \/ CreateUser(k)
      PROVE  HoldersKnown'
  <2>1. Finishes(k) \/ Then(k, "create") \/ Then(k, "find") \/ Then(k, "insert")
    BY <1>7 DEF CheckAddress, CheckLimit, NoLimit, FindUser, FindFails, CreateUser
  <2>. QED
    BY <1>3, <1>4, <1>5, <2>1
<1>8. ASSUME NEW k \in Tasks,
             \/ ReadForChange(k) \/ ReadUser(k) \/ LinkIdentity(k) \/ ConsumeToken(k)
             \/ ResetPassword(k)
      PROVE  HoldersKnown'
  <2>1. \/ Finishes(k)
        \/ Then(k, "write") /\ (task[k].op = "change" \/ Holding(k))
        \/ (Then(k, "consume") \/ Then(k, "welcome") \/ Then(k, "delete")) /\ Holding(k)
    BY <1>8 DEF ReadForChange, ReadUser, LinkIdentity, ConsumeToken, ResetPassword, At, Holding
  <2>. QED
    BY <1>3, <1>4, <1>5, <2>1
<1>9. ASSUME NEW k \in Tasks, ValidateToken(k) \/ FindResetToken(k) PROVE HoldersKnown'
  <2>1. CASE Finishes(k)
    BY <1>3, <2>1
  <2>2. CASE ~Finishes(k)
    <3>1. /\ UNCHANGED <<invState, invUser, rstState, rstUser>>
          /\ \E u : /\ task' = [task EXCEPT ![k].user = u]
                    /\ phase' = [phase EXCEPT ![k] = "read"]
                    /\ \/ /\ task[k].op = "accept" /\ invState[task[k].inv] = "pending"
                          /\ u = invUser[task[k].inv]
                       \/ /\ task[k].op = "reset" /\ rstState[task[k].rst] = "valid"
                          /\ u = rstUser[task[k].rst]
      BY <1>9, <2>2 DEF ValidateToken, FindResetToken, At, TablesKept, inviteVars, resetVars
    <3>2. /\ task'[k].op = task[k].op /\ task'[k].inv = task[k].inv /\ task'[k].rst = task[k].rst
          /\ \A j \in Tasks \ {k} : task'[j] = task[j] /\ phase'[j] = phase[j]
      BY <1>1, <3>1 DEF TaskTypes, TaskReqs
    <3>3. MayRewrite(k)'
      BY <1>1, <3>1, <3>2 DEF MayRewrite, TaskTypes, TaskReqs
    <3>4. \A j \in Tasks \ {k} : Holding(j)' => MayRewrite(j)'
      BY <3>1, <3>2 DEF Holding, MayRewrite, HoldersKnown
    <3>. QED
      BY <3>3, <3>4 DEF HoldersKnown
  <2>. QED
    BY <2>1, <2>2
<1>10. ASSUME NEW k \in Tasks,
              \/ AddressTaken(k) \/ IdentTaken(k) \/ Welcome(k) \/ TaskFails(k)
              \/ ChangePassword(k) \/ DeleteResetToken(k)
              \/ \E i \in Invites : CreateInvite(k, i)
              \/ \E t \in Resets : CreateResetToken(k, t)
       PROVE  HoldersKnown'
  BY <1>3, <1>10 DEF AddressTaken, IdentTaken, Welcome, TaskFails, ChangePassword,
     DeleteResetToken, CreateInvite, CreateResetToken
<1>11. CASE \/ \E i \in Invites : InviteExpires(i)
            \/ \E t \in Resets : ResetExpires(t)
            \/ UNCHANGED accountVars
  <2>1. UNCHANGED <<phase, task>>
    BY <1>11 DEF InviteExpires, ResetExpires, accountVars
  <2>. QED
    BY <1>2, <2>1 DEF Holding
<1>. QED
  BY <1>6, <1>7, <1>8, <1>9, <1>10, <1>11 DEF AccountsNext, AccountSteps

\* Whose calls rewrite a row: only LinkIdentity, ChangePassword and
\* ResetPassword do, each for the user its call acts for.
LEMMA RewritesStep ==
  ASSUME AccountsInv, HoldersKnown, [AccountsNext]_accountVars
  PROVE  RewrittenByHolder
<1>1. UserTypes
  BY AccountParts
<1>2. ASSUME UNCHANGED <<hash, authType, central>> PROVE RewrittenByHolder
  BY <1>2 DEF RewrittenByHolder, AccountOf
<1>3. ASSUME TablesKept PROVE RewrittenByHolder
  BY <1>2, <1>3 DEF TablesKept, userVars
<1>4. ASSUME NEW k \in Tasks, NEW pw, NEW type, NEW id, WriteRow(task[k].user, pw, type, id),
             phase[k] = "write", task[k].op = "change" \/ Holding(k)
      PROVE  RewrittenByHolder
  <2>1. MayRewrite(k)
    BY <1>4 DEF HoldersKnown, MayRewrite
  <2>2. \A u \in users \ {task[k].user} : AccountOf(u)' = AccountOf(u)
    BY <1>1, <1>4 DEF WriteRow, UserTypes, AccountOf
  <2>. QED
    BY <1>4, <2>1, <2>2 DEF RewrittenByHolder
<1>5. ASSUME NEW k \in Tasks, ChangePassword(k) \/ LinkIdentity(k) \/ ResetPassword(k)
      PROVE  RewrittenByHolder
  BY <1>4, <1>5 DEF ChangePassword, LinkIdentity, ResetPassword, At, Holding
<1>6. ASSUME NEW k \in Tasks, CreateUser(k) PROVE RewrittenByHolder
  <2>1. /\ task[k].user \notin users /\ UNCHANGED <<authType, central>>
        /\ \E p : hash' = [hash EXCEPT ![task[k].user] = p]
    BY <1>6 DEF CreateUser
  <2>. QED
    BY <1>1, <2>1 DEF RewrittenByHolder, AccountOf, UserTypes
<1>7. ASSUME NEW k \in Tasks, AccountCallBegins(k) PROVE RewrittenByHolder
  BY <1>2, <1>7 DEF AccountCallBegins, TaskBegins, userVars
<1>8. ASSUME NEW k \in Tasks,
             \/ CheckAddress(k) \/ CheckLimit(k) \/ NoLimit(k) \/ FindUser(k) \/ FindFails(k)
             \/ AddressTaken(k) \/ ReadForChange(k) \/ ValidateToken(k) \/ ReadUser(k)
             \/ IdentTaken(k) \/ FindResetToken(k) \/ TaskFails(k)
      PROVE  RewrittenByHolder
  BY <1>3, <1>8 DEF CheckAddress, CheckLimit, NoLimit, FindUser, FindFails, AddressTaken,
     ReadForChange, ValidateToken, ReadUser, IdentTaken, FindResetToken, TaskFails
<1>9. ASSUME NEW k \in Tasks,
             \/ Welcome(k) \/ ConsumeToken(k) \/ DeleteResetToken(k)
             \/ \E i \in Invites : CreateInvite(k, i)
             \/ \E t \in Resets : CreateResetToken(k, t)
      PROVE  RewrittenByHolder
  BY <1>2, <1>9 DEF Welcome, ConsumeToken, DeleteResetToken, CreateInvite, CreateResetToken,
     userVars
<1>10. CASE \/ \E i \in Invites : InviteExpires(i)
            \/ \E t \in Resets : ResetExpires(t)
            \/ UNCHANGED accountVars
  BY <1>2, <1>10 DEF InviteExpires, ResetExpires, accountVars, userVars
<1>. QED
  BY <1>5, <1>6, <1>7, <1>8, <1>9, <1>10 DEF AccountsNext, AccountSteps

\* No overlap of calls, expiries and failures lets one user's token or
\* password change another user's row, though every call reads a token and
\* writes the row in statements of their own; and tokens, once used up, stay
\* so.  (auth_service.go ChangePassword and ResetPassword, invite_service.go
\* AcceptInvite)
THEOREM RowsKeepTheirOwners == AccountsSpec => RowsKeepOwners
<1>1. AccountsInit => HoldersKnown
  BY DEF AccountsInit, HoldersKnown, Holding
<1>2. AccountsInv /\ HoldersKnown /\ [AccountsNext]_accountVars => HoldersKnown'
  BY HoldersStep
<1>3. AccountsInv /\ HoldersKnown /\ [AccountsNext]_accountVars
        => [TokensStand /\ RewrittenByHolder]_accountVars
  BY TokensStandStep, RewritesStep
<1>. QED
  BY <1>1, <1>2, <1>3, AccountsAgree, PTL DEF AccountsSpec, RowsKeepOwners

-----------------------------------------------------------------------------
(* Provisioning *)

LEMMA InsertsAre ==
  /\ LastInsert = 10 /\ Inserts[1] = "user" /\ Inserts[2] = "agent" /\ Inserts[3] = "apikey"
  /\ Inserts[4] = "subscription" /\ Inserts[9] = "channel"
  /\ \A i, j \in 1..10 : Inserts[i] = Inserts[j] => i = j
  /\ \A q \in BootReqs : \A i \in {1, 2, 3, 4, 9} : Wants(q, Inserts[i])
<1>1. /\ Inserts[1] = "user" /\ Inserts[2] = "agent" /\ Inserts[3] = "apikey"
      /\ Inserts[4] = "subscription" /\ Inserts[5] = "agent2" /\ Inserts[6] = "apikey2"
      /\ Inserts[7] = "human" /\ Inserts[8] = "invite" /\ Inserts[9] = "channel"
      /\ Inserts[10] = "member" /\ LastInsert = 10
  BY DEF Inserts, LastInsert
<1>2. \A i \in 1..10 : i \in {1, 2, 3, 4, 5, 6, 7, 8, 9, 10}
  OBVIOUS
<1>3. \A i, j \in 1..10 : Inserts[i] = Inserts[j] => i = j
  BY <1>1, <1>2
<1>4. \A q \in BootReqs : \A i \in {1, 2, 3, 4, 9} : Wants(q, Inserts[i])
  BY <1>1 DEF Wants
<1>. QED
  BY <1>1, <1>3, <1>4

LEMMA BootInitially == BootInit => BootInv
<1> SUFFICES ASSUME BootInit PROVE BootInv
  OBVIOUS
<1>1. (CHOOSE q \in BootReqs : TRUE) \in BootReqs
  <2>1. PICK m \in Mails, w \in Words, c \in ChannelNames : TRUE
    BY BootsOK DEF BootsOK
  <2>2. [email |-> m, password |-> w, more |-> FALSE, human |-> NoMail, channel |-> c] \in BootReqs
    BY <2>1 DEF BootReqs
  <2>. QED
    BY <2>2
<1>2. BootTypes
  BY <1>1 DEF BootInit, BootTypes, LastInsert
<1>3. InOrderOfInserts
  BY DEF BootInit, InOrderOfInserts
<1>4. FoundStays /\ NamesUnique /\ AnswersTrue
  BY DEF BootInit, FoundStays, NamesUnique, AnswersTrue
<1>. QED
  BY <1>2, <1>3, <1>4 DEF BootInv

\* What success names follows from the rest of the invariant.
RecoveredPaid ==
  \A b \in Boots : bpc[b] = "recovered" => "subscription" \in rows[bfound[b]]
LEMMA AnswersFollow ==
  BootTypes /\ InOrderOfInserts /\ FoundStays /\ NamesUnique /\ RecoveredPaid => AnswersTrue
<1> SUFFICES ASSUME BootTypes, InOrderOfInserts, FoundStays, NamesUnique, RecoveredPaid
             PROVE  AnswersTrue
  OBVIOUS
<1>1. ASSUME NEW b \in Boots, bpc[b] = "full"
      PROVE  \A i \in 1..LastInsert : Wants(breq[b], Inserts[i]) => Inserts[i] \in rows[b]
  BY <1>1 DEF InOrderOfInserts
<1>2. ASSUME NEW b \in Boots, bpc[b] = "recovered"
      PROVE  {"user", "agent", "apikey", "subscription"} \subseteq rows[bfound[b]]
  <2>. DEFINE c == bfound[b]
  <2>1. bfound[b] # NoBoot
    BY <1>2 DEF InOrderOfInserts
  <2>2. c \in Boots /\ "user" \in rows[c] /\ "agent" \in rows[c] /\ "subscription" \in rows[c]
    BY <1>2, <2>1 DEF BootTypes, FoundStays, RecoveredPaid, IsPrimary
  <2>3. bfound[c] = NoBoot
    BY <2>2 DEF InOrderOfInserts
  <2>4. 4 < bstep[c] \/ bpc[c] = "full"
    BY <2>2, <2>3, InsertsAre DEF InOrderOfInserts
  <2>5. bstep[c] \in 1..10 /\ breq[c] \in BootReqs
    BY <2>2, InsertsAre DEF BootTypes
  <2>6. "apikey" \in rows[c]
    BY <2>2, <2>3, <2>4, <2>5, InsertsAre DEF InOrderOfInserts
  <2>. QED
    BY <2>2, <2>6
<1>3. ASSUME NEW b \in Boots, NEW c \in Boots, bpc[b] = "full", bpc[c] = "full", b # c
      PROVE  breq[b].channel # breq[c].channel
  <2>1. breq[b] \in BootReqs /\ breq[c] \in BootReqs
    BY DEF BootTypes
  <2>2. "channel" \in rows[b] /\ "channel" \in rows[c]
    BY <1>1, <1>3, <2>1, InsertsAre
  <2>. QED
    BY <1>3, <2>2 DEF NamesUnique
<1>. QED
  BY <1>1, <1>2, <1>3 DEF AnswersTrue

LEMMA AnswersFollowNext ==
  (BootTypes /\ InOrderOfInserts /\ FoundStays /\ NamesUnique /\ RecoveredPaid)' => AnswersTrue'
  BY AnswersFollow, PTL

\* Steps that write no row.
LEMMA BootReads ==
  ASSUME BootInv, NEW b \in Boots, UNCHANGED <<breq, bstep, rows>>,
         \/ \E c \in Boots : LookUpFinds(b, c)
         \/ LookUpFindsNone(b) \/ CountUsers(b) \/ InsertConflicts(b)
         \/ ListAgents(b) \/ FindSubscription(b) \/ BootFails(b)
  PROVE  BootInv'
<1>1. BootTypes /\ InOrderOfInserts /\ FoundStays /\ NamesUnique /\ AnswersTrue
  BY DEF BootInv
<1>2. BootTypes'
  <2>1. bfound' \in [Boots -> Boots \cup {NoBoot}]
    BY <1>1 DEF BootTypes, LookUpFinds, LookUpFindsNone, CountUsers, InsertConflicts, ListAgents,
       FindSubscription, BootFails
  <2>2. bpc' \in [Boots -> Under \cup {"idle", "refused", "failed", "full", "recovered"}]
    BY <1>1 DEF BootTypes, Under, BootGoes, LookUpFinds, LookUpFindsNone, CountUsers,
       InsertConflicts, ListAgents, FindSubscription, BootFails
  <2>. QED
    BY <1>1, <2>1, <2>2 DEF BootTypes
<1>3. \A c \in Boots \ {b} : bpc'[c] = bpc[c] /\ bfound'[c] = bfound[c]
  BY <1>1 DEF BootTypes, BootGoes, LookUpFinds, LookUpFindsNone, CountUsers, InsertConflicts,
     ListAgents, FindSubscription, BootFails
<1>4. \/ /\ bpc[b] = "lookup" /\ bpc'[b] = "agents" /\ bfound'[b] \in Boots
         /\ IsPrimary(bfound'[b], breq[b].email)
         /\ breq[bfound'[b]].password = breq[b].password
      \/ /\ bfound'[b] = bfound[b] /\ bpc[b] \in Under
         /\ \/ bpc'[b] \in {"refused", "failed"}
            \/ bpc[b] = "lookup" /\ bpc'[b] = "count"
            \/ bpc[b] = "count" /\ bpc'[b] = "insert"
            \/ bpc[b] = "agents" /\ bpc'[b] = "newkey" /\ "agent" \in rows[bfound[b]]
            \/ bpc[b] = "plan" /\ bpc'[b] = "recovered" /\ "subscription" \in rows[bfound[b]]
  BY <1>1 DEF BootTypes, BootGoes, Under, LookUpFinds, LookUpFindsNone, CountUsers,
     InsertConflicts, ListAgents, FindSubscription, BootFails
<1>5. NoBoot \notin Boots
  BY BootsOK DEF BootsOK
<1>6. InOrderOfInserts'
  <2> SUFFICES ASSUME NEW c \in Boots
      PROVE  /\ bpc'[c] \in {"idle", "lookup", "count"} => rows'[c] = {} /\ bstep'[c] = 1
             /\ bfound'[c] = NoBoot =>
                  \A i \in 1..LastInsert :
                    /\ Inserts[i] \in rows'[c] => i < bstep'[c] \/ bpc'[c] = "full"
                    /\ i < bstep'[c] \/ bpc'[c] = "full" =>
                         (Inserts[i] \in rows'[c] <=> Wants(breq'[c], Inserts[i]))
             /\ bpc'[c] \in {"agents", "newkey", "plan", "recovered"} => bfound'[c] # NoBoot
             /\ bpc'[c] \in {"idle", "lookup", "count", "insert", "full"} => bfound'[c] = NoBoot
             /\ bfound'[c] # NoBoot => rows'[c] \subseteq {"apikey"}
    BY DEF InOrderOfInserts
  <2>1. CASE c # b
    BY <1>1, <1>3, <2>1 DEF InOrderOfInserts
  <2>2. CASE c = b
    <3>1. bpc'[b] # "full" /\ bpc[b] # "full"
      BY <1>4 DEF Under
    <3>. QED
      BY <1>1, <1>4, <1>5, <2>2, <3>1 DEF InOrderOfInserts, Under
  <2>. QED
    BY <2>1, <2>2
<1>7. FoundStays'
  BY <1>1, <1>3, <1>4 DEF FoundStays, IsPrimary, InOrderOfInserts
<1>8. NamesUnique'
  BY <1>1 DEF NamesUnique
<1>9. RecoveredPaid'
  BY <1>1, <1>3, <1>4 DEF AnswersTrue, RecoveredPaid
<1>. QED
  BY <1>2, <1>6, <1>7, <1>8, <1>9, AnswersFollowNext DEF BootInv

\* A call begins: nothing of its own is there yet, and nobody has found it.
LEMMA BootCallsBegin ==
  ASSUME BootInv, NEW b \in Boots, NEW q \in BootReqs, BootBegins(b, q)
  PROVE  BootInv'
<1>1. BootTypes /\ InOrderOfInserts /\ FoundStays /\ NamesUnique /\ AnswersTrue
  BY DEF BootInv
<1>2. rows[b] = {} /\ bfound[b] = NoBoot /\ bstep[b] = 1 /\ bpc[b] = "idle"
  BY <1>1 DEF BootBegins, InOrderOfInserts
<1>3. /\ bpc'[b] = "lookup" /\ UNCHANGED <<bstep, bfound, rows>>
      /\ \A c \in Boots \ {b} : bpc'[c] = bpc[c] /\ breq'[c] = breq[c]
  BY <1>1 DEF BootBegins, BootGoes, BootTypes
<1>4. BootTypes'
  BY <1>1 DEF BootBegins, BootGoes, BootTypes, Under
<1>5. InOrderOfInserts'
  <2> SUFFICES ASSUME NEW c \in Boots
      PROVE  /\ bpc'[c] \in {"idle", "lookup", "count"} => rows'[c] = {} /\ bstep'[c] = 1
             /\ bfound'[c] = NoBoot =>
                  \A i \in 1..LastInsert :
                    /\ Inserts[i] \in rows'[c] => i < bstep'[c] \/ bpc'[c] = "full"
                    /\ i < bstep'[c] \/ bpc'[c] = "full" =>
                         (Inserts[i] \in rows'[c] <=> Wants(breq'[c], Inserts[i]))
             /\ bpc'[c] \in {"agents", "newkey", "plan", "recovered"} => bfound'[c] # NoBoot
             /\ bpc'[c] \in {"idle", "lookup", "count", "insert", "full"} => bfound'[c] = NoBoot
             /\ bfound'[c] # NoBoot => rows'[c] \subseteq {"apikey"}
    BY DEF InOrderOfInserts
  <2>1. CASE c # b
    BY <1>1, <1>3, <2>1 DEF InOrderOfInserts
  <2>2. CASE c = b
    BY <1>2, <1>3, <2>2, InsertsAre
  <2>. QED
    BY <2>1, <2>2
<1>6. \A c \in Boots : bfound[c] # NoBoot => bfound[c] # b /\ c # b
  BY <1>1, <1>2 DEF FoundStays, IsPrimary
<1>7. FoundStays'
  <2>1. \A c \in Boots : bfound[c] # NoBoot => bfound[c] \in Boots
    BY <1>1 DEF BootTypes
  <2>. QED
    BY <1>1, <1>3, <1>6, <2>1 DEF FoundStays, IsPrimary
<1>8. NamesUnique'
  BY <1>1, <1>2, <1>3 DEF NamesUnique
<1>9. RecoveredPaid'
  BY <1>1, <1>3 DEF AnswersTrue, RecoveredPaid
<1>. QED
  BY <1>4, <1>5, <1>7, <1>8, <1>9, AnswersFollowNext DEF BootInv

\* A recovery writes a key, beside which it has no row.
LEMMA RecoveryKeeps ==
  ASSUME BootInv, NEW b \in Boots, RecoveryKey(b)
  PROVE  BootInv'
<1>1. BootTypes /\ InOrderOfInserts /\ FoundStays /\ NamesUnique /\ AnswersTrue
  BY DEF BootInv
<1>2. bpc[b] = "newkey" /\ bfound[b] # NoBoot /\ rows[b] \subseteq {"apikey"}
  BY <1>1 DEF RecoveryKey, InOrderOfInserts
<1>3. /\ bpc'[b] = "plan" /\ rows'[b] = {"apikey"} /\ UNCHANGED <<breq, bstep, bfound>>
      /\ \A c \in Boots \ {b} : bpc'[c] = bpc[c] /\ rows'[c] = rows[c]
  BY <1>1, <1>2 DEF RecoveryKey, BootGoes, BootTypes
<1>4. BootTypes'
  <2>1. "apikey" \in {Inserts[i] : i \in 1..LastInsert}
    BY InsertsAre
  <2>. QED
    BY <1>1, <2>1 DEF RecoveryKey, BootGoes, BootTypes, Under
<1>5. InOrderOfInserts'
  BY <1>1, <1>2, <1>3 DEF InOrderOfInserts
<1>6. FoundStays'
  <2>1. \A c \in Boots : bfound[c] # NoBoot => bfound[c] \in Boots \ {b} /\ (c = b => bpc[c] = "newkey")
    BY <1>1, <1>2 DEF BootTypes, FoundStays, IsPrimary
  <2>. QED
    BY <1>1, <1>2, <1>3, <2>1 DEF FoundStays, IsPrimary
<1>7. NamesUnique'
  BY <1>1, <1>2, <1>3 DEF NamesUnique
<1>8. RecoveredPaid'
  <2>1. \A c \in Boots : bpc[c] = "recovered" => bfound[c] \in Boots
    BY <1>1 DEF BootTypes, InOrderOfInserts
  <2>. QED
    BY <1>1, <1>2, <1>3, <2>1 DEF AnswersTrue, RecoveredPaid
<1>. QED
  BY <1>4, <1>5, <1>6, <1>7, <1>8, AnswersFollowNext DEF BootInv

\* The next row is written.
LEMMA InsertKeeps ==
  ASSUME BootInv, NEW b \in Boots, Insert(b)
  PROVE  BootInv'
<1>. DEFINE x == Inserts[bstep[b]]
<1>1. BootTypes /\ InOrderOfInserts /\ FoundStays /\ NamesUnique /\ AnswersTrue
  BY DEF BootInv
<1>2. bpc[b] = "insert" /\ bfound[b] = NoBoot /\ bstep[b] \in 1..10 /\ ~Conflict(b)
  BY <1>1, InsertsAre DEF Insert, InOrderOfInserts, BootTypes
<1>3. /\ UNCHANGED <<breq, bfound>>
      /\ rows'[b] = IF Wants(breq[b], x) THEN rows[b] \cup {x} ELSE rows[b]
      /\ \A c \in Boots \ {b} : bpc'[c] = bpc[c] /\ rows'[c] = rows[c] /\ bstep'[c] = bstep[c]
      /\ \/ bstep[b] = 10 /\ bpc'[b] = "full" /\ bstep'[b] = bstep[b]
         \/ bstep[b] # 10 /\ bpc'[b] = "insert" /\ bstep'[b] = bstep[b] + 1
  BY <1>1, <1>2, InsertsAre DEF Insert, BootGoes, BootTypes
<1>4. BootTypes'
  <2>1. x \in {Inserts[i] : i \in 1..LastInsert}
    BY <1>2, InsertsAre
  <2>2. rows' \in [Boots -> SUBSET {Inserts[i] : i \in 1..LastInsert}]
    BY <1>1, <2>1 DEF Insert, BootTypes
  <2>3. bpc' \in [Boots -> Under \cup {"idle", "refused", "failed", "full", "recovered"}]
    BY <1>1 DEF Insert, BootGoes, BootTypes
  <2>4. bstep' \in [Boots -> 1..LastInsert]
    BY <1>1, <1>2, InsertsAre DEF Insert, BootTypes
  <2>. QED
    BY <1>1, <1>3, <2>2, <2>3, <2>4 DEF BootTypes
<1>5. InOrderOfInserts'
  <2>1. ASSUME NEW i \in 1..10
        PROVE  /\ Inserts[i] \in rows'[b] => i < bstep'[b] \/ bpc'[b] = "full"
               /\ i < bstep'[b] \/ bpc'[b] = "full" =>
                    (Inserts[i] \in rows'[b] <=> Wants(breq[b], Inserts[i]))
    <3>1. /\ Inserts[i] \in rows[b] => i < bstep[b]
          /\ i < bstep[b] => (Inserts[i] \in rows[b] <=> Wants(breq[b], Inserts[i]))
      BY <1>1, <1>2, InsertsAre DEF InOrderOfInserts
    <3>2. CASE i = bstep[b]
      BY <1>2, <1>3, <3>1, <3>2
    <3>3. CASE i # bstep[b]
      <4>1. Inserts[i] # x
        BY <1>2, <3>3, InsertsAre
      <4>2. Inserts[i] \in rows'[b] <=> Inserts[i] \in rows[b]
        BY <1>3, <4>1
      <4>3. i < bstep'[b] \/ bpc'[b] = "full" => i < bstep[b]
        BY <1>2, <1>3, <3>3
      <4>4. i < bstep[b] => i < bstep'[b] \/ bpc'[b] = "full"
        BY <1>2, <1>3
      <4>. QED
        BY <3>1, <4>2, <4>3, <4>4
    <3>. QED
      BY <3>2, <3>3
  <2> SUFFICES ASSUME NEW c \in Boots
      PROVE  /\ bpc'[c] \in {"idle", "lookup", "count"} => rows'[c] = {} /\ bstep'[c] = 1
             /\ bfound'[c] = NoBoot =>
                  \A i \in 1..LastInsert :
                    /\ Inserts[i] \in rows'[c] => i < bstep'[c] \/ bpc'[c] = "full"
                    /\ i < bstep'[c] \/ bpc'[c] = "full" =>
                         (Inserts[i] \in rows'[c] <=> Wants(breq'[c], Inserts[i]))
             /\ bpc'[c] \in {"agents", "newkey", "plan", "recovered"} => bfound'[c] # NoBoot
             /\ bpc'[c] \in {"idle", "lookup", "count", "insert", "full"} => bfound'[c] = NoBoot
             /\ bfound'[c] # NoBoot => rows'[c] \subseteq {"apikey"}
    BY DEF InOrderOfInserts
  <2>2. CASE c # b
    BY <1>1, <1>3, <2>2 DEF InOrderOfInserts
  <2>3. CASE c = b
    BY <1>2, <1>3, <2>1, <2>3, InsertsAre
  <2>. QED
    BY <2>2, <2>3
<1>6. \A c \in Boots : rows[c] \subseteq rows'[c]
  <2>1. rows[b] \subseteq rows'[b]
    BY <1>3
  <2>2. \A c \in Boots \ {b} : rows'[c] = rows[c]
    BY <1>3
  <2>. QED
    BY <2>1, <2>2
<1>7. FoundStays'
  <2>1. \A c \in Boots : bfound[c] # NoBoot => bfound[c] \in Boots /\ c # b
    BY <1>1, <1>2 DEF BootTypes
  <2>. QED
    BY <1>1, <1>3, <1>6, <2>1 DEF FoundStays, IsPrimary
<1>8. NamesUnique'
  <2>1. ASSUME NEW c \in Boots, "channel" \in rows'[c]
        PROVE  "channel" \in rows[c] \/ (c = b /\ x = "channel")
    <3>1. CASE c # b
      BY <1>3, <2>1, <3>1
    <3>2. CASE c = b
      BY <1>3, <2>1, <3>2
    <3>. QED
      BY <3>1, <3>2
  <2>2. x = "channel" => ~ChannelTaken(breq[b].channel)
    BY <1>2 DEF Conflict
  <2>. QED
    BY <1>1, <1>3, <2>1, <2>2 DEF NamesUnique, ChannelTaken
<1>9. RecoveredPaid'
  <2>1. \A c \in Boots : bpc[c] = "recovered" => bfound[c] \in Boots
    BY <1>1 DEF BootTypes, InOrderOfInserts
  <2>. QED
    BY <1>1, <1>3, <1>6, <2>1 DEF AnswersTrue, RecoveredPaid
<1>. QED
  BY <1>4, <1>5, <1>7, <1>8, <1>9, AnswersFollowNext DEF BootInv

\* However calls overlap, fail and are repeated: an answer of success names
\* rows that exist, and of calls for one channel at most one is carried out
\* (bootstrap_service.go:204, :347).
THEOREM BootstrapAnswersTrue == BootSpec => []BootInv
<1>1. ASSUME BootInv, NEW b \in Boots, NEW c \in Boots, LookUpFinds(b, c) PROVE BootInv'
  BY <1>1, BootReads DEF LookUpFinds
<1>2. ASSUME BootInv, NEW b \in Boots,
             \/ LookUpFindsNone(b) \/ CountUsers(b) \/ InsertConflicts(b)
             \/ ListAgents(b) \/ FindSubscription(b) \/ BootFails(b)
      PROVE  BootInv'
  BY <1>2, BootReads DEF LookUpFindsNone, CountUsers, InsertConflicts, ListAgents,
     FindSubscription, BootFails
<1>3. ASSUME BootInv, UNCHANGED bootVars PROVE BootInv'
  BY <1>3 DEF bootVars, BootInv, BootTypes, InOrderOfInserts, FoundStays, NamesUnique,
     AnswersTrue, IsPrimary
<1>4. BootInv /\ [BootNext]_bootVars => BootInv'
  BY <1>1, <1>2, <1>3, BootCallsBegin, RecoveryKeeps, InsertKeeps DEF BootNext
<1>. QED
  BY <1>4, BootInitially, PTL DEF BootSpec

-----------------------------------------------------------------------------
(* Deliveries *)

\* What the invariant says of one event.
OfEvent(e) ==
  /\ Busy(e) => /\ serving[e] \in Hooks \ (waiting[e] \cup skipped[e])
                /\ posts[e][serving[e]] = IF dpc[e] = "attempt" THEN tries[e] - 1 ELSE tries[e]
                /\ tries[e] > 0 /\ outcome[e] # "none"
                /\ serving[e] \in accepted[e] <=> outcome[e] = "success"
                /\ dpc[e] \in {"attempt", "backoff"} => outcome[e] # "success"
                /\ hook[serving[e]] = "there" => row[e][serving[e]] # NoDelivery
  /\ dpc[e] \in {"update", "backoff"} => outcome[e] # "pending"
  /\ dpc[e] = "backoff" => tries[e] < MaxTries
  /\ waiting[e] \cap skipped[e] = {}
  /\ dpc[e] \in {"idle", "list"} => skipped[e] = {}
OfDelivery(e, h) ==
  /\ h \in waiting[e] \cup skipped[e] \/ dpc[e] \in {"idle", "list"} \/ hook[h] = "new" =>
       posts[e][h] = 0 /\ row[e][h] = NoDelivery /\ h \notin accepted[e] \cup stale[e]
  /\ hook[h] = "new" => h \notin waiting[e] \cup {serving[e]}
  /\ row[e][h] # NoDelivery => hook[h] = "there"
  /\ row[e][h] = NoDelivery => row[e][h].count = 0
  /\ posts[e][h] <= MaxTries
  /\ h \in accepted[e] => ~(serving[e] = h /\ dpc[e] \in {"attempt", "backoff"})
  /\ h \in skipped[e] => posts[e][h] = 0
  /\ posts[e][h] > 0 /\ dpc[e] # "lost" /\ ~(Busy(e) /\ serving[e] = h) =>
       h \in accepted[e] \/ posts[e][h] = MaxTries
  /\ row[e][h].status = "success" => h \in accepted[e]
  /\ row[e][h].count <= posts[e][h]
  /\ (posts[e][h] > 0 /\ hook[h] = "there" /\ h \notin stale[e] /\ dpc[e] # "lost"
        /\ ~(Busy(e) /\ serving[e] = h)) =>
       /\ row[e][h].count = posts[e][h]
       /\ row[e][h].status = IF h \in accepted[e] THEN "success" ELSE "failed"

LEMMA DeliveryParts ==
  DeliveryInv <=> /\ HookTypes
                  /\ \A e \in Events : OfEvent(e) /\ \A h \in Hooks : OfDelivery(e, h)
  BY DEF DeliveryInv, ServingKnown, UntouchedWaiting, SkippedApart, RowsHaveHooks, NeverTooOften,
     RowsTellTruth, OfEvent, OfDelivery
LEMMA DeliveryPartsNext ==
  (HookTypes /\ \A e \in Events : OfEvent(e) /\ \A h \in Hooks : OfDelivery(e, h))' => DeliveryInv'
  BY DeliveryParts, PTL

\* The event and its goroutine are as they were.
Same(e) ==
  /\ dpc'[e] = dpc[e] /\ waiting'[e] = waiting[e] /\ serving'[e] = serving[e]
  /\ tries'[e] = tries[e] /\ outcome'[e] = outcome[e] /\ row'[e] = row[e]
  /\ posts'[e] = posts[e] /\ accepted'[e] = accepted[e] /\ skipped'[e] = skipped[e]
  /\ stale'[e] = stale[e]

\* A step of one goroutine.
LEMMA EventStep ==
  ASSUME DeliveryInv, NEW e \in Events, hook' = hook, \A d \in Events \ {e} : Same(d),
         HookTypes', OfEvent(e)', \A h \in Hooks : OfDelivery(e, h)'
  PROVE  DeliveryInv'
<1>1. ASSUME NEW d \in Events \ {e} PROVE OfEvent(d)' /\ \A h \in Hooks : OfDelivery(d, h)'
  BY DeliveryParts DEF Same, OfEvent, OfDelivery, Busy
<1>. QED
  BY <1>1, DeliveryPartsNext

LEMMA HooksInitially == HookInit => DeliveryInv
<1> SUFFICES ASSUME HookInit PROVE DeliveryInv
  OBVIOUS
<1>1. HookTypes
  BY HooksOK DEF HookInit, HookTypes, HooksOK, Statuses, NoDelivery
<1>2. \A e \in Events : OfEvent(e) /\ \A h \in Hooks : OfDelivery(e, h)
  BY HooksOK DEF HookInit, OfEvent, OfDelivery, Busy, NoDelivery, HooksOK
<1>. QED
  BY <1>1, <1>2, DeliveryParts

LEMMA WebhooksChange ==
  ASSUME DeliveryInv, NEW g \in Hooks, CreateWebhook(g) \/ DeleteWebhook(g)
  PROVE  DeliveryInv'
<1>1. UNCHANGED <<goVars, logVars, faults, deaths>>
  BY DEF CreateWebhook, DeleteWebhook
<1>2. CASE CreateWebhook(g)
  <2>1. HookTypes'
    BY <1>1, <1>2, DeliveryParts DEF CreateWebhook, HookTypes, goVars, logVars
  <2>2. hook[g] = "new" /\ row' = row /\ \A h \in Hooks : hook'[h] = IF h = g THEN "there" ELSE hook[h]
    BY <1>2, DeliveryParts DEF CreateWebhook, HookTypes
  <2>3. \A e \in Events : OfEvent(e)'
    BY <1>1, <2>2, DeliveryParts DEF OfEvent, OfDelivery, Busy, goVars, logVars
  <2>4. \A e \in Events, h \in Hooks : OfDelivery(e, h)'
    BY <1>1, <2>2, DeliveryParts DEF OfDelivery, Busy, goVars, logVars
  <2>. QED
    BY <2>1, <2>3, <2>4, DeliveryPartsNext
<1>3. CASE DeleteWebhook(g)
  <2>1. HookTypes'
    <3>1. HookTypes /\ NoDelivery \in [status : Statuses, count : 0..MaxTries]
      BY DeliveryParts, HooksOK DEF NoDelivery, Statuses, HooksOK
    <3>2. row' \in [Events -> [Hooks -> [status : Statuses, count : 0..MaxTries]]]
      BY <1>3, <3>1 DEF DeleteWebhook, HookTypes
    <3>. QED
      BY <1>1, <1>3, <3>1, <3>2 DEF DeleteWebhook, HookTypes, goVars, logVars
  <2>2. /\ \A h \in Hooks : hook'[h] = IF h = g THEN "gone" ELSE hook[h]
        /\ \A e \in Events, h \in Hooks : row'[e][h] = IF h = g THEN NoDelivery ELSE row[e][h]
    BY <1>3, DeliveryParts DEF DeleteWebhook, HookTypes
  <2>3. \A e \in Events : OfEvent(e)'
    BY <1>1, <2>2, DeliveryParts DEF OfEvent, Busy, goVars, logVars
  <2>4. \A e \in Events, h \in Hooks : posts[e][h] \in Nat
    BY DeliveryParts DEF HookTypes
  <2>5. \A e \in Events, h \in Hooks : OfDelivery(e, h)'
    BY <1>1, <2>2, <2>4, DeliveryParts DEF OfDelivery, Busy, NoDelivery, goVars, logVars
  <2>. QED
    BY <2>1, <2>3, <2>5, DeliveryPartsNext
<1>. QED
  BY <1>2, <1>3

\* The goroutine starts, finds its webhooks or none, and comes to an end.
LEMMA ListSteps ==
  ASSUME DeliveryInv, NEW e \in Events,
         DispatchEvent(e) \/ ListWebhooks(e) \/ ListFails(e) \/ DispatchEnds(e) \/ BackoffEnds(e)
  PROVE  DeliveryInv'
<1>1. HookTypes
  BY DeliveryParts
<1>2. /\ UNCHANGED <<hook, serving, tries, outcome, row, logVars, deaths>>
      /\ faults' \in 0..MaxRowFaults
  BY <1>1, HooksOK
     DEF HookTypes, HooksOK, DispatchEvent, ListWebhooks, ListFails, DispatchEnds, BackoffEnds
<1>3. /\ dpc' = [dpc EXCEPT ![e] = dpc'[e]]
      /\ \/ dpc[e] = "idle" /\ dpc'[e] = "list" /\ waiting' = waiting
         \/ dpc[e] = "list" /\ dpc'[e] = "next"
            /\ waiting' = [waiting EXCEPT ![e] = {h \in Hooks : hook[h] = "there"}]
         \/ dpc[e] \in {"list", "next"} /\ dpc'[e] = "done" /\ waiting' = waiting
         \/ dpc[e] = "backoff" /\ dpc'[e] = "update" /\ waiting' = waiting
  BY <1>1
     DEF HookTypes, DispatchEvent, ListWebhooks, ListFails, DispatchEnds, BackoffEnds
<1>4. HookTypes'
  <2>1. dpc' \in [Events -> {"idle", "list", "next", "attempt", "backoff", "update", "done", "lost"}]
    BY <1>1, <1>3 DEF HookTypes
  <2>2. waiting' \in [Events -> SUBSET Hooks]
    BY <1>1, <1>3 DEF HookTypes
  <2>. QED
    BY <1>1, <1>2, <2>1, <2>2 DEF HookTypes, logVars
<1>5. \A d \in Events \ {e} : Same(d)
  BY <1>1, <1>2, <1>3 DEF HookTypes, Same, logVars
<1>6. \/ waiting'[e] = waiting[e]
      \/ dpc[e] = "list" /\ waiting'[e] = {h \in Hooks : hook[h] = "there"}
  BY <1>1, <1>3 DEF HookTypes
<1>7. OfEvent(e)'
  <2>1. OfEvent(e)
    BY DeliveryParts
  <2>. QED
    BY <1>2, <1>3, <1>6, <2>1 DEF OfEvent, Busy, logVars
<1>8. ASSUME NEW h \in Hooks PROVE OfDelivery(e, h)'
  <2>1. OfDelivery(e, h) /\ OfEvent(e)
    BY DeliveryParts
  <2>. QED
    BY <1>2, <1>3, <1>6, <2>1 DEF OfDelivery, OfEvent, Busy, logVars
<1>. QED
  BY <1>2, <1>4, <1>5, <1>7, <1>8, EventStep

\* The next webhook: a row for it, or none.
LEMMA CreateSteps ==
  ASSUME DeliveryInv, NEW e \in Events, NEW g \in Hooks, CreateDelivery(e, g)
  PROVE  DeliveryInv'
<1>1. HookTypes /\ OfEvent(e) /\ OfDelivery(e, g)
  BY DeliveryParts
<1>. DEFINE new == [status |-> "pending", count |-> 0]
<1>2. new \in [status : Statuses, count : 0..MaxTries] /\ new # NoDelivery
      /\ new.status = "pending" /\ new.count = 0
  BY HooksOK DEF HooksOK, Statuses, NoDelivery
<1>3. /\ dpc[e] = "next" /\ g \in waiting[e] /\ hook[g] = "there"
      /\ dpc'[e] = "attempt" /\ waiting'[e] = waiting[e] \ {g} /\ serving'[e] = g
      /\ tries'[e] = 1 /\ outcome'[e] = "pending" /\ UNCHANGED <<hook, logVars, faults, deaths>>
      /\ \A h \in Hooks : row'[e][h] = IF h = g THEN new ELSE row[e][h]
  BY <1>1 DEF HookTypes, CreateDelivery, IsNext
<1>4. HookTypes'
  <2>1. row' \in [Events -> [Hooks -> [status : Statuses, count : 0..MaxTries]]]
    BY <1>1, <1>2 DEF HookTypes, CreateDelivery
  <2>2. 1 \in 0..MaxTries /\ "pending" \in Statuses
    BY HooksOK DEF HooksOK, Statuses
  <2>. QED
    BY <1>1, <2>1, <2>2 DEF HookTypes, CreateDelivery, logVars
<1>5. \A d \in Events \ {e} : Same(d)
  BY <1>1 DEF HookTypes, CreateDelivery, Same, logVars
<1>6. posts[e][g] = 0 /\ g \notin accepted[e] \cup skipped[e]
  BY <1>1, <1>3 DEF OfDelivery, OfEvent
<1>7. OfEvent(e)'
  BY <1>1, <1>2, <1>3, <1>6 DEF OfEvent, Busy, logVars
<1>8. ASSUME NEW h \in Hooks PROVE OfDelivery(e, h)'
  <2>1. OfDelivery(e, h)
    BY DeliveryParts
  <2>2. CASE h = g
    BY <1>2, <1>3, <1>6, <2>1, <2>2 DEF OfDelivery, Busy, logVars, NoDelivery
  <2>3. CASE h # g
    BY <1>3, <2>1, <2>3 DEF OfDelivery, Busy, logVars
  <2>. QED
    BY <2>2, <2>3
<1>. QED
  BY <1>3, <1>4, <1>5, <1>7, <1>8, EventStep
LEMMA SkipSteps ==
  ASSUME DeliveryInv, NEW e \in Events, NEW g \in Hooks,
         CreateDeliveryRefused(e, g) \/ CreateDeliveryFails(e, g)
  PROVE  DeliveryInv'
<1>1. HookTypes /\ OfEvent(e)
  BY DeliveryParts
<1>2. Skip(e, g) /\ dpc[e] = "next" /\ g \in waiting[e] /\ faults' \in 0..MaxRowFaults
  BY <1>1, HooksOK DEF HookTypes, HooksOK, CreateDeliveryRefused, CreateDeliveryFails, IsNext
<1>3. waiting'[e] = waiting[e] \ {g} /\ skipped'[e] = skipped[e] \cup {g}
      /\ UNCHANGED <<hook, dpc, serving, tries, outcome, row, posts, accepted, stale, deaths>>
  BY <1>1, <1>2 DEF HookTypes, Skip
<1>4. HookTypes' /\ \A d \in Events \ {e} : Same(d)
  BY <1>1, <1>2 DEF HookTypes, Skip, Same
<1>5. OfEvent(e)'
  BY <1>1, <1>2, <1>3 DEF OfEvent, Busy
<1>6. ASSUME NEW h \in Hooks PROVE OfDelivery(e, h)'
  <2>1. OfDelivery(e, h)
    BY DeliveryParts
  <2>. QED
    BY <1>2, <1>3, <2>1 DEF OfDelivery, Busy
<1>. QED
  BY <1>3, <1>4, <1>5, <1>6, EventStep

\* A post.
LEMMA AttemptSteps ==
  ASSUME DeliveryInv, NEW e \in Events, AttemptSucceeds(e) \/ AttemptFails(e)
  PROVE  DeliveryInv'
<1>. DEFINE g == serving[e]
<1>1. HookTypes /\ OfEvent(e) /\ dpc[e] = "attempt"
  BY DeliveryParts DEF AttemptSucceeds, AttemptFails
<1>2. /\ g \in Hooks \ (waiting[e] \cup skipped[e]) /\ posts[e][g] = tries[e] - 1 /\ tries[e] > 0
      /\ tries[e] \in 0..MaxTries /\ MaxTries \in Nat
      /\ g \notin accepted[e] /\ (hook[g] = "there" => row[e][g] # NoDelivery)
  BY <1>1, HooksOK DEF OfEvent, Busy, HookTypes, HooksOK
<1>3. /\ UNCHANGED <<hook, waiting, serving, tries, row, skipped, stale, faults, deaths>>
      /\ posts' = [posts EXCEPT ![e][g] = @ + 1]
  BY DEF AttemptSucceeds, AttemptFails, Posted
<1>4. \/ dpc'[e] = "update" /\ outcome'[e] = "success" /\ accepted'[e] = accepted[e] \cup {g}
      \/ /\ outcome'[e] = "failed" /\ accepted' = accepted
         /\ dpc'[e] = IF tries[e] < MaxTries THEN "backoff" ELSE "update"
  BY <1>1 DEF HookTypes, AttemptSucceeds, AttemptFails
<1>5. /\ \A h \in Hooks : posts'[e][h] = IF h = g THEN tries[e] ELSE posts[e][h]
      /\ \A h \in Hooks : posts[e][h] \in Nat
  BY <1>1, <1>2, <1>3 DEF HookTypes
<1>6. HookTypes'
  <2>1. posts' \in [Events -> [Hooks -> Nat]]
    BY <1>1, <1>2, <1>3 DEF HookTypes
  <2>2. accepted' \in [Events -> SUBSET Hooks]
    <3>1. CASE AttemptSucceeds(e)
      BY <1>1, <1>2, <3>1 DEF HookTypes, AttemptSucceeds
    <3>2. CASE AttemptFails(e)
      BY <1>1, <3>2 DEF HookTypes, AttemptFails
    <3>. QED
      BY <3>1, <3>2
  <2>3. outcome' \in [Events -> Statuses]
    BY <1>1 DEF HookTypes, AttemptSucceeds, AttemptFails, Statuses
  <2>4. dpc' \in [Events -> {"idle", "list", "next", "attempt", "backoff", "update", "done", "lost"}]
    BY <1>1 DEF HookTypes, AttemptSucceeds, AttemptFails
  <2>. QED
    BY <1>1, <1>3, <2>1, <2>2, <2>3, <2>4 DEF HookTypes
<1>7. \A d \in Events \ {e} : Same(d)
  BY <1>1, <1>3 DEF HookTypes, Same, AttemptSucceeds, AttemptFails
<1>8. OfEvent(e)'
  BY <1>1, <1>2, <1>3, <1>4, <1>5 DEF OfEvent, Busy
<1>9. ASSUME NEW h \in Hooks PROVE OfDelivery(e, h)'
  <2>1. OfDelivery(e, h)
    BY DeliveryParts
  <2>2. CASE h = g
    <3>1. posts'[e][g] = tries[e] /\ tries[e] <= MaxTries /\ posts[e][g] \in Nat
          /\ row'[e][g] = row[e][g] /\ row[e][g].count <= posts'[e][g] /\ serving'[e] = g
          /\ hook' = hook /\ waiting' = waiting /\ skipped' = skipped /\ stale' = stale
      <4>1. row[e][g].count \in Nat /\ row[e][g].count <= posts[e][g]
        BY <1>1, <2>1, <2>2 DEF HookTypes, OfDelivery
      <4>. QED
        BY <1>2, <1>3, <1>5, <4>1
    <3>2. CASE dpc'[e] = "update" /\ outcome'[e] = "success" /\ accepted'[e] = accepted[e] \cup {g}
      BY <1>1, <1>2, <2>1, <2>2, <3>1, <3>2 DEF OfDelivery, Busy
    <3>3. CASE accepted' = accepted /\ dpc'[e] \in {"backoff", "update"}
      BY <1>1, <1>2, <2>1, <2>2, <3>1, <3>3 DEF OfDelivery, Busy
    <3>. QED
      BY <1>4, <3>2, <3>3
  <2>3. CASE h # g
    BY <1>1, <1>3, <1>4, <1>5, <2>1, <2>3 DEF OfDelivery, Busy
  <2>. QED
    BY <2>2, <2>3
<1>. QED
  BY <1>3, <1>6, <1>7, <1>8, <1>9, EventStep

\* The row is brought up to date, or not; then another attempt, or the next.
LEMMA UpdateSteps ==
  ASSUME DeliveryInv, NEW e \in Events, UpdateDelivery(e) \/ UpdateFails(e)
  PROVE  DeliveryInv'
<1>. DEFINE g == serving[e]
            told == [status |-> outcome[e], count |-> tries[e]]
<1>1. HookTypes /\ OfEvent(e) /\ dpc[e] = "update" /\ AfterUpdate(e)
  BY DeliveryParts DEF UpdateDelivery, UpdateFails
<1>2. /\ g \in Hooks \ (waiting[e] \cup skipped[e]) /\ posts[e][g] = tries[e] /\ tries[e] > 0
      /\ tries[e] \in 0..MaxTries /\ MaxTries \in Nat /\ outcome[e] \in {"success", "failed"}
      /\ g \in accepted[e] <=> outcome[e] = "success"
      /\ (hook[g] = "there" => row[e][g] # NoDelivery)
  BY <1>1, HooksOK DEF OfEvent, Busy, HookTypes, HooksOK, Statuses
<1>3. /\ UNCHANGED <<hook, waiting, outcome, posts, accepted, skipped, deaths>>
      /\ \/ /\ outcome[e] # "success" /\ tries[e] < MaxTries
            /\ dpc'[e] = "attempt" /\ tries'[e] = tries[e] + 1 /\ serving'[e] = g
         \/ /\ outcome[e] = "success" \/ tries[e] = MaxTries
            /\ dpc'[e] = "next" /\ tries' = tries /\ serving'[e] = NoHook
  <2>1. UNCHANGED <<hook, waiting, outcome, posts, accepted, skipped, deaths>>
    BY <1>1 DEF AfterUpdate
  <2>2. CASE outcome[e] # "success" /\ tries[e] < MaxTries
    BY <1>1, <2>1, <2>2 DEF AfterUpdate, HookTypes
  <2>3. CASE ~(outcome[e] # "success" /\ tries[e] < MaxTries)
    <3>1. outcome[e] = "success" \/ tries[e] = MaxTries
      BY <1>2, <2>3
    <3>. QED
      BY <1>1, <2>1, <2>3, <3>1 DEF AfterUpdate, HookTypes
  <2>. QED
    BY <2>2, <2>3
<1>4. told \in [status : Statuses, count : 0..MaxTries] /\ told # NoDelivery
      /\ told.status = outcome[e] /\ told.count = tries[e]
  BY <1>2 DEF Statuses, NoDelivery
<1>5. \/ /\ \A h \in Hooks : row'[e][h] = IF h = g /\ row[e][h] # NoDelivery THEN told ELSE row[e][h]
         /\ stale'[e] = stale[e] \ {g}
      \/ row' = row /\ stale'[e] = stale[e] \cup {g}
  BY <1>1, <1>2 DEF UpdateDelivery, UpdateFails, HookTypes
<1>6. HookTypes'
  <2>1. row' \in [Events -> [Hooks -> [status : Statuses, count : 0..MaxTries]]]
    <3>1. CASE UpdateDelivery(e)
      <4>1. row' = [row EXCEPT ![e][g] = IF @ = NoDelivery THEN @ ELSE told]
        BY <3>1 DEF UpdateDelivery
      <4>. QED
        BY <1>1, <1>2, <1>4, <4>1 DEF HookTypes
    <3>2. CASE UpdateFails(e)
      BY <1>1, <3>2 DEF UpdateFails, HookTypes
    <3>. QED
      BY <3>1, <3>2
  <2>2. stale' \in [Events -> SUBSET Hooks] /\ faults' \in 0..MaxRowFaults
    <3>1. CASE UpdateDelivery(e)
      BY <1>1, <3>1 DEF UpdateDelivery, HookTypes
    <3>2. CASE UpdateFails(e)
      BY <1>1, <1>2, <3>2, HooksOK DEF UpdateFails, HookTypes, HooksOK
    <3>. QED
      BY <3>1, <3>2
  <2>3. /\ tries' \in [Events -> 0..MaxTries] /\ serving' \in [Events -> Hooks \cup {NoHook}]
        /\ dpc' \in [Events -> {"idle", "list", "next", "attempt", "backoff", "update", "done", "lost"}]
    <3>1. CASE outcome[e] # "success" /\ tries[e] < MaxTries
      <4>1. tries[e] + 1 \in 0..MaxTries
        BY <1>2, <3>1
      <4>2. /\ dpc' = [dpc EXCEPT ![e] = "attempt"] /\ serving' = serving
            /\ tries' = [tries EXCEPT ![e] = tries[e] + 1]
        BY <1>1, <3>1 DEF AfterUpdate
      <4>. QED
        BY <1>1, <4>1, <4>2 DEF HookTypes
    <3>2. CASE ~(outcome[e] # "success" /\ tries[e] < MaxTries)
      BY <1>1, <1>2, <3>2 DEF AfterUpdate, HookTypes
    <3>. QED
      BY <3>1, <3>2
  <2>. QED
    BY <1>1, <1>3, <2>1, <2>2, <2>3 DEF HookTypes
<1>7. \A d \in Events \ {e} : Same(d)
  BY <1>1, <1>3 DEF HookTypes, Same, AfterUpdate, UpdateDelivery, UpdateFails
<1>8. NoHook \notin Hooks
  BY HooksOK DEF HooksOK
<1>9. OfEvent(e)'
  <2>1. hook[g] = "there" => row'[e][g] # NoDelivery
    BY <1>2, <1>4, <1>5
  <2>. QED
    BY <1>1, <1>2, <1>3, <2>1 DEF OfEvent, Busy
<1>10. ASSUME NEW h \in Hooks PROVE OfDelivery(e, h)'
  <2>1. OfDelivery(e, h)
    BY DeliveryParts
  <2>2. CASE h = g
    <3>1. CASE row' = row /\ stale'[e] = stale[e] \cup {g}
      BY <1>1, <1>2, <1>3, <1>8, <2>1, <2>2, <3>1 DEF OfDelivery, Busy
    <3>2. CASE row[e][g] = NoDelivery /\ row'[e][g] = row[e][g]
      BY <1>1, <1>2, <1>3, <1>8, <2>1, <2>2, <3>2 DEF OfDelivery, Busy
    <3>3. CASE row[e][g] # NoDelivery /\ row'[e][g] = told
      BY <1>1, <1>2, <1>3, <1>4, <1>8, <2>1, <2>2, <3>3 DEF OfDelivery, Busy
    <3>. QED
      BY <1>2, <1>5, <3>1, <3>2, <3>3
  <2>3. CASE h # g
    <3>1. row'[e][h] = row[e][h] /\ (h \in stale'[e] <=> h \in stale[e])
      BY <1>5, <2>3
    <3>2. serving'[e] # h
      BY <1>3, <1>8, <2>3
    <3>. QED
      BY <1>1, <1>3, <2>1, <2>3, <3>1, <3>2 DEF OfDelivery, Busy
  <2>. QED
    BY <2>2, <2>3
<1>. QED
  BY <1>3, <1>6, <1>7, <1>9, <1>10, EventStep

\* The process dies: what was under way is lost, and claims nothing any more.
LEMMA DeathSteps ==
  ASSUME DeliveryInv, ProcessDies
  PROVE  DeliveryInv'
<1>1. HookTypes
  BY DeliveryParts
<1>2. /\ UNCHANGED <<hook, waiting, serving, tries, outcome, row, logVars, faults>>
      /\ \A e \in Events : dpc'[e] = IF dpc[e] \in {"idle", "done"} THEN dpc[e] ELSE "lost"
  BY DEF ProcessDies
<1>3. HookTypes'
  <2>1. deaths' \in 0..MaxDeaths
    BY <1>1, HooksOK DEF ProcessDies, HookTypes, HooksOK
  <2>2. dpc' \in [Events -> {"idle", "list", "next", "attempt", "backoff", "update", "done", "lost"}]
    BY <1>1 DEF ProcessDies, HookTypes
  <2>. QED
    BY <1>1, <1>2, <2>1, <2>2 DEF HookTypes, logVars
<1>4. ASSUME NEW e \in Events PROVE OfEvent(e)' /\ \A h \in Hooks : OfDelivery(e, h)'
  BY <1>2, DeliveryParts DEF OfEvent, OfDelivery, Busy, logVars
<1>. QED
  BY <1>3, <1>4, DeliveryPartsNext

\* Whatever comes and goes, fails or dies: a webhook that accepted an event is
\* not sent it again, none more than MaxTries times, and rows tell the truth.
THEOREM DeliveriesTellTruth == HookSpec => []DeliveryInv
<1>1. ASSUME DeliveryInv, NEW e \in Events, GoroutineSteps(e) PROVE DeliveryInv'
  BY <1>1, ListSteps, CreateSteps, SkipSteps, AttemptSteps, UpdateSteps DEF GoroutineSteps
<1>2. ASSUME DeliveryInv, NEW e \in Events, DispatchEvent(e) PROVE DeliveryInv'
  BY <1>2, ListSteps
<1>3. ASSUME DeliveryInv, UNCHANGED hookVars PROVE DeliveryInv'
  <2>1. HookTypes'
    BY <1>3, DeliveryParts DEF hookVars, goVars, logVars, HookTypes
  <2>2. \A e \in Events : OfEvent(e)' /\ \A h \in Hooks : OfDelivery(e, h)'
    BY <1>3, DeliveryParts DEF hookVars, goVars, logVars, OfEvent, OfDelivery, Busy
  <2>. QED
    BY <2>1, <2>2, DeliveryPartsNext
<1>4. DeliveryInv /\ [HookNext]_hookVars => DeliveryInv'
  BY <1>1, <1>2, <1>3, WebhooksChange, DeathSteps DEF HookNext
<1>. QED
  BY <1>4, HooksInitially, PTL DEF HookSpec
=============================================================================
