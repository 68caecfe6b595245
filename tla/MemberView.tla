------------------------------ MODULE MemberView ------------------------------
(***************************************************************************)
(* The members of a stream and their names as a client sees them:          *)
(* streamStateView_Members.ts, streamStateView_Members_Membership.ts,      *)
(* streamStateView_UserMetadata.ts and userMetadata_*.ts of core/sdk/src.  *)
(* Events are appended when they arrive, confirmed when a miniblock header *)
(* has them, and decrypted at any time in any order; a restart loads a     *)
(* snapshot of the node and the events after it.  NFTs are kept as ENS     *)
(* addresses are.                                                          *)
(***************************************************************************)
EXTENDS Integers, SequencesExt

CONSTANTS Person, Me,    \* users, and the one of this client
          Name,          \* names and addresses
          NoName,
          MemberBounds

Op == {"join", "leave", "invite"}
Encrypted == {"username", "displayName"}
Metadata == Encrypted \cup {"ens"}

MemberBound ==
  [kinds : SUBSET (Op \cup Metadata), events : Nat,
   mismatch : BOOLEAN,     \* a username whose checksum is of another name
   restarts : Nat, locals : Nat]

ASSUME MemberAssumption ==
  MemberBounds \subseteq MemberBound /\ Me \in Person /\ NoName \notin Name

VARIABLES memberLog,     \* the events of the stream, in their order
          appended, confirmed,   \* how many the client has seen, and seen in miniblocks
          members,       \* the view
          cleartexts,    \* events whose text is stored
          setting,       \* the call of setUsername, or NoSetting
          localName,     \* the name that it has put on show
          memberRestarts, locals, memberBound

memberVars == <<memberLog, appended, confirmed, members, cleartexts, localName, setting,
                memberRestarts, locals>>

User(id) == memberLog[id].user
Kind(id) == memberLog[id].kind
Value(id) == memberLog[id].value
Claim(id) == memberLog[id].claim   \* the name that the checksum is of

(***************************************************************************)
(* The view.                                                               *)
(***************************************************************************)

EmptyView ==
  [joined |-> {}, joinedUsers |-> {}, invitedUsers |-> {}, leftUsers |-> {},
   pendingUsers |-> [op \in Op |-> {}], pendingMembershipEvents |-> {},
   eventOf |-> [k \in Metadata |-> [p \in Person |-> 0]],   \* userIdToEventId
   events |-> {}, pending |-> {},
   checksums |-> {}, confirmedUserIds |-> {},
   plaintext |-> [k \in Encrypted |-> [p \in Person |-> NoName]],
   confirmedEns |-> [p \in Person |-> NoName],
   newEncryptedContent |-> {}]

JoinedAfterLeave(v, p) == v.joinedUsers \ {p}

\* applyMembershipEvent
ApplyMembership(v, p, op, type) ==
  IF type = "pending" THEN [v EXCEPT !.pendingUsers[op] = @ \cup {p}]
  ELSE LET w == [v EXCEPT !.pendingUsers[op] = @ \ {p}]
       IN CASE op = "invite" -> [w EXCEPT !.invitedUsers = @ \cup {p}]
            [] op = "join" -> [w EXCEPT !.joinedUsers = @ \cup {p}]
            [] op = "leave" -> [w EXCEPT !.joinedUsers = JoinedAfterLeave(v, p),
                                         !.invitedUsers = @ \ {p}, !.leftUsers = @ \cup {p}]

RemoveEvent_KeepsEvent(v, id) == [v EXCEPT !.checksums = @ \ {Claim(id)}]

\* removeUsernameEventForUserId and its likes: the old name is free for others.
RemoveEvent(v, id) ==
  [v EXCEPT !.events = @ \ {id}, !.pending = @ \ {id},
            !.checksums = IF Kind(id) = "username" THEN @ \ {Claim(id)} ELSE @]

Available(v, id) == Claim(id) \notin v.checksums

\* The event takes the place of the user's earlier one of the kind.
Replace(v, id, isPending) ==
  LET old == v.eventOf[Kind(id)][User(id)]
      u == IF old = 0 THEN v ELSE RemoveEvent(v, old)
  IN [u EXCEPT !.eventOf[Kind(id)][User(id)] = id, !.events = @ \cup {id},
               !.pending = IF isPending THEN @ \cup {id} ELSE @]

\* addEncryptedData of display names: the text, if it is stored, or no name until it is decrypted.
AddDisplayName(v, id, isPending, text) ==
  [Replace(v, id, isPending) EXCEPT
     !.plaintext[Kind(id)][User(id)] = text,
     !.newEncryptedContent = IF text = NoName THEN @ \cup {id} ELSE @]

\* addEncryptedData of usernames: a name that is taken is ignored.
AddUsername(v, id, isPending, text) ==
  IF ~Available(v, id) THEN v
  ELSE [AddDisplayName(v, id, isPending, text) EXCEPT
          !.checksums = @ \cup {Claim(id)},
          !.confirmedUserIds = IF isPending THEN @ ELSE @ \cup {User(id)}]

AddMetadata(v, id, isPending, text) ==
  CASE Kind(id) = "username" -> AddUsername(v, id, isPending, text)
    [] Kind(id) = "displayName" -> AddDisplayName(v, id, isPending, text)
    [] Kind(id) = "ens" -> Replace(v, id, isPending)

\* What appendEvent checks of an event, or else throws: a join is of a user who is not in,
\* metadata is of a member.
PassesChecks(v, id) ==
  /\ Kind(id) = "join" => User(id) \notin v.joined
  /\ Kind(id) \in Metadata => User(id) \in v.joined

JoinedWith(v, id) ==
  CASE Kind(id) = "join" -> v.joined \cup {User(id)}
    [] Kind(id) = "leave" -> v.joined \ {User(id)}
    [] OTHER -> v.joined

\* An event that fails a check is logged (processAppendedEvent); a membership event is then
\* pending all the same.
AppendEvent(v, id, text) ==
  LET w == IF Kind(id) \in Op THEN [v EXCEPT !.pendingMembershipEvents = @ \cup {id}] ELSE v
  IN IF ~PassesChecks(v, id) THEN w
     ELSE IF Kind(id) \in Metadata THEN AddMetadata(w, id, TRUE, text)
     ELSE ApplyMembership([w EXCEPT !.joined = JoinedWith(v, id)], User(id), Kind(id), "pending")

\* An event that has been replaced is not known any more.
ConfirmMetadata(v, id) ==
  IF id \notin v.events THEN v
  ELSE [v EXCEPT !.pending = @ \ {id},
                 !.confirmedUserIds = IF Kind(id) = "username" THEN @ \cup {User(id)} ELSE @,
                 !.confirmedEns[User(id)] = IF Kind(id) = "ens" THEN Value(id) ELSE @]

ConfirmEvent(v, id) ==
  CASE Kind(id) \in Metadata -> ConfirmMetadata(v, id)
    [] id \in v.pendingMembershipEvents ->
         ApplyMembership([v EXCEPT !.pendingMembershipEvents = @ \ {id}], User(id), Kind(id), "confirmed")
    [] OTHER -> v

\* onDecryptedContent
DecryptedContent(v, id) ==
  IF id \in v.events /\ (Kind(id) = "username" => Claim(id) = Value(id))
  THEN [v EXCEPT !.plaintext[Kind(id)][User(id)] = Value(id)]
  ELSE v

(***************************************************************************)
(* The snapshot of the node after n events, and a view that is loaded.     *)
(***************************************************************************)

Before(n, ids) == {id \in 1 .. n : Kind(id) \in ids}

\* The users whose last join or leave is a join.
JoinedAt(n) ==
  {p \in Person : \E i \in Before(n, {"join"}) :
     User(i) = p /\ \A j \in Before(n, {"leave"}) : User(j) = p => j < i}

\* The last event of each kind of a member, since the user has joined.
InSnapshot(n) ==
  {id \in Before(n, Metadata) :
     /\ User(id) \in JoinedAt(n)
     /\ \A j \in id + 1 .. n : User(j) = User(id) => Kind(j) \notin {Kind(id), "leave"}}

Ascending(ids) == SetToSortSeq(ids, LAMBDA i, j : i < j)

Text(id) == IF id \in cleartexts THEN Value(id) ELSE NoName

FromSnapshot_NoContent(v, id) ==
  IF Kind(id) = "ens" THEN [v EXCEPT !.confirmedEns[User(id)] = Value(id)]
  ELSE [AddMetadata(v, id, FALSE, Text(id)) EXCEPT !.newEncryptedContent = {}]

\* Of an address the snapshot has no event.
FromSnapshot(v, id) ==
  IF Kind(id) = "ens" THEN [v EXCEPT !.confirmedEns[User(id)] = Value(id)]
  ELSE AddMetadata(v, id, FALSE, Text(id))

\* The oldest first, so "whoever claimed a username first gets it".
ApplySnapshot(n) ==
  FoldLeft(FromSnapshot,
           [EmptyView EXCEPT !.joined = JoinedAt(n), !.joinedUsers = JoinedAt(n)],
           Ascending(InSnapshot(n)))

\* The first a events of which c are in miniblocks, from the snapshot after n of them.
LoadView(n, c, a) ==
  LET AppendStored(v, id) == AppendEvent(v, id, Text(id))
      blocks == FoldLeft(AppendStored, ApplySnapshot(n), Ascending(n + 1 .. c))
      headers == FoldLeft(ConfirmEvent, blocks, Ascending(n + 1 .. c))
  IN FoldLeft(AppendStored, headers, Ascending(c + 1 .. a))

(***************************************************************************)
(* Actions.                                                                *)
(***************************************************************************)

NoSetting == [name |-> NoName, posted |-> FALSE]

MemberInit ==
  /\ memberBound \in MemberBounds
  /\ memberLog = <<>> /\ appended = 0 /\ confirmed = 0
  /\ members = EmptyView /\ cleartexts = {}
  /\ localName = NoName /\ setting = NoSetting
  /\ memberRestarts = 0 /\ locals = 0

\* The user's last join, leave or invite among the events of the stream, as GetMembership.
Membership(p) ==
  LET ids == {i \in DOMAIN memberLog : Kind(i) \in Op /\ User(i) = p}
  IN IF ids = {} THEN "none" ELSE Kind(Max(ids))

\* Events that the node accepts.
CanAdd(e) ==
  CASE e.kind \in Metadata -> Membership(e.user) = "join"
    [] e.kind = "leave" -> Membership(e.user) \in {"invite", "join"}
    [] OTHER -> Membership(e.user) # "join"   \* an invite is not in the snapshot, and may be repeated

Post(e) ==
  /\ Len(memberLog) < memberBound.events /\ CanAdd(e)
  /\ memberLog' = Append(memberLog, e)
  /\ UNCHANGED <<appended, confirmed, members, cleartexts, localName, setting, memberRestarts, locals>>

Events ==
  {e \in [user : Person, kind : memberBound.kinds, value : Name, claim : Name] :
     /\ e.kind \in Op => e.value = e.claim /\ e.value = CHOOSE x \in Name : TRUE
     /\ e.value # e.claim => e.kind = "username" /\ memberBound.mismatch}

AppendNext ==
  /\ appended < Len(memberLog) /\ appended' = appended + 1
  /\ members' = AppendEvent(members, appended', Text(appended'))
  /\ localName' = IF /\ Kind(appended') = "username" /\ User(appended') = Me
                     /\ PassesChecks(members, appended') /\ Available(members, appended')
                  THEN NoName ELSE localName
  /\ UNCHANGED <<memberLog, confirmed, cleartexts, setting, memberRestarts, locals>>

\* A miniblock header confirms events one after the other.
ConfirmNext ==
  /\ confirmed < appended /\ confirmed' = confirmed + 1
  /\ members' = ConfirmEvent(members, confirmed')
  /\ UNCHANGED <<memberLog, appended, cleartexts, localName, setting, memberRestarts, locals>>

Decrypt(id) ==
  /\ id \in members.newEncryptedContent
  /\ cleartexts' = cleartexts \cup {id}
  /\ members' = [DecryptedContent(members, id) EXCEPT !.newEncryptedContent = @ \ {id}]
  /\ UNCHANGED <<memberLog, appended, confirmed, localName, setting, memberRestarts, locals>>

\* The client starts again with what it has stored or with what a node sends.
RestartView ==
  /\ memberRestarts < memberBound.restarts /\ memberRestarts' = memberRestarts + 1
  /\ \E n \in 0 .. Len(memberLog) : \E c \in n .. Len(memberLog) : \E a \in c .. Len(memberLog) :
       members' = LoadView(n, c, a) /\ confirmed' = c /\ appended' = a
  /\ localName' = NoName /\ setting' = NoSetting
  /\ UNCHANGED <<memberLog, cleartexts, locals>>

\* setUsername shows the name at once,
SetLocalUsername ==
  /\ locals < memberBound.locals /\ locals' = locals + 1
  /\ setting = NoSetting /\ localName' \in Name /\ setting' = [NoSetting EXCEPT !.name = localName']
  /\ members' = [members EXCEPT !.plaintext["username"][Me] = localName']
  /\ UNCHANGED <<memberLog, appended, confirmed, cleartexts, memberRestarts>>

PostUsername ==
  LET e == [user |-> Me, kind |-> "username", value |-> setting.name, claim |-> setting.name]
  IN /\ setting # NoSetting /\ ~setting.posted /\ setting' = [setting EXCEPT !.posted = TRUE]
     /\ CanAdd(e) /\ memberLog' = Append(memberLog, e)
     /\ UNCHANGED <<appended, confirmed, members, cleartexts, localName, memberRestarts, locals>>

\* and takes it back when adding the event fails, which it may also do after the node has it.
ResetLocalUsername ==
  /\ setting # NoSetting /\ setting' = NoSetting /\ localName' = NoName
  /\ members' = [members EXCEPT !.plaintext["username"][Me] = NoName]
  /\ UNCHANGED <<memberLog, appended, confirmed, cleartexts, memberRestarts, locals>>

\* The event is added, or the encryption fails.
SetUsernameEnds ==
  /\ setting # NoSetting /\ setting' = NoSetting
  /\ UNCHANGED <<memberLog, appended, confirmed, members, cleartexts, localName, memberRestarts, locals>>

MemberNext ==
  /\ UNCHANGED memberBound
  /\ \/ \E e \in Events : Post(e)
     \/ AppendNext \/ ConfirmNext \/ RestartView
     \/ \E id \in 1 .. appended : Decrypt(id)
     \/ SetLocalUsername \/ PostUsername \/ ResetLocalUsername \/ SetUsernameEnds

(***************************************************************************)
(* Properties                                                              *)
(***************************************************************************)

\* A text that is decrypted late does not bring back an old name: the name that is shown is
\* that of the user's current event, or the one this client is setting; until a restart, no
\* username is shown whose checksum is of another name.  Two users never hold the same
\* username, and the names that are taken are those of the users' current events
\* (userMetadata_Usernames.ts:33-183, userMetadata_DisplayNames.ts:59-72).
CurrentName ==
  LET held == {id \in members.events : Kind(id) = "username"}
  IN /\ \A k \in Encrypted, p \in Person :
          LET shown == members.plaintext[k][p]
              id == members.eventOf[k][p]
          IN \/ shown = NoName
             \/ id # 0 /\ shown = Value(id) /\ (memberRestarts = 0 => shown = Claim(id))
             \/ k = "username" /\ p = Me /\ shown = localName
     /\ members.checksums = {Claim(id) : id \in held}
     /\ \A i, j \in held : Claim(i) = Claim(j) => i = j

\* A username has been claimed by two users.
Contested ==
  \E i, j \in Before(Len(memberLog), {"username"}) : Claim(i) = Claim(j) /\ User(i) # User(j)

\* When all events are confirmed and decrypted, a member has the name and the address of the
\* last such event since the user has joined, whether the client has seen the event or has
\* loaded a snapshot before or after it, unless two users have claimed a username
\* (streamStateView_UserMetadata.ts:28-90); and at any time the members are those of the events
\* and the confirmed ones those of the miniblocks (streamStateView_Members.ts:132-169).
LatestMetadata ==
  /\ members.joined = JoinedAt(appended) /\ members.joinedUsers = JoinedAt(confirmed)
  /\ (/\ confirmed = Len(memberLog) /\ members.newEncryptedContent = {}
      /\ ~Contested /\ ~memberBound.mismatch /\ locals = 0)
     => \A id \in InSnapshot(confirmed) :
          CASE Kind(id) = "ens" -> members.confirmedEns[User(id)] = Value(id)
            [] Kind(id) = "displayName" -> members.plaintext["displayName"][User(id)] = Value(id)
            [] Kind(id) = "username" -> /\ members.plaintext["username"][User(id)] = Value(id)
                                        /\ User(id) \in members.confirmedUserIds
=============================================================================
