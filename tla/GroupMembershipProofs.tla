------------------------ MODULE GroupMembershipProofs ------------------------
(***************************************************************************)
(* Theorems about GroupMembership, for any sets of groups, users, invites, *)
(* requests and sweepers and any cap.                                      *)
(***************************************************************************)
EXTENDS GroupMembership, FiniteSetTheorems, TLAPS

USE GroupMembershipAssumption

(* What a call record holds before and after a call is well typed.        *)
LEMMA IdleIsCall == Idle \in Call /\ NoInvite \in InviteRow
BY DEF Idle, Call, NoInvite, InviteRow, Pcs, Roles

(* Moving one call on keeps the type of the calls.                         *)
LEMMA CallMoves ==
    ASSUME TypeOK, NEW p \in Callers, NEW c \in Call, calls' = [calls EXCEPT ![p] = c]
    PROVE  calls' \in [Callers -> Call]
BY DEF TypeOK

(* So does a new pc.                                                       *)
LEMMA PcMoves ==
    ASSUME TypeOK, NEW p \in Callers, NEW pc \in Pcs, calls' = [calls EXCEPT ![p].pc = pc]
    PROVE  calls' \in [Callers -> Call]
BY DEF TypeOK, Call

(* So does a return.                                                       *)
LEMMA ReturnKeepsCalls ==
    ASSUME TypeOK, NEW p \in Callers, Returns(p)
    PROVE  calls' \in [Callers -> Call]
BY IdleIsCall, CallMoves DEF Returns

(* Deleting the row of a group, or failing to, keeps the type of groups.   *)
LEMMA DeleteGroupRowType ==
    ASSUME TypeOK, NEW g, DeleteGroupRow(g)
    PROVE  groups' \in [Groups -> [status : {"unused", "active", "pending_deletion", "gone"},
                                   by : Users \union {Null}]]
<1> DEFINE status == IF MembersOf(g) = {} /\ InvitesOf(g) = {} THEN "gone" ELSE groups[g].status
<1>1. groups' = [groups EXCEPT ![g].status = status]
  BY DEF DeleteGroupRow
<1>2. g \in Groups => status \in {"unused", "active", "pending_deletion", "gone"}
  BY DEF TypeOK
<1> HIDE DEF status
<1> QED BY <1>1, <1>2 DEF TypeOK

(* The handlers of memberships keep all types.                             *)
LEMMA MemberKeepsTypes ==
    ASSUME TypeOK, NEW p \in Callers, MemberNext(p)
    PROVE  TypeOK'
<1> USE DEF TypeOK, tables
<1>0. calls[p] \in Call /\ Idle \in Call
  BY IdleIsCall
<1>1. CASE InsertMember(p)
  <2>1. calls' \in [Callers -> Call]
    BY <1>1, ReturnKeepsCalls DEF InsertMember
  <2>2. [group |-> calls[p].group, user |-> calls[p].user, role |-> calls[p].role]
           \in [group : Groups, user : Users, role : Roles]
    BY <1>0, <1>1 DEF InsertMember, MayInsert, Exists, Call
  <2> QED BY <1>1, <2>1, <2>2 DEF InsertMember
<1>2. CASE JoinRejected(p)
  <2>0. failures' \in 0 .. MaxFailures
    BY <1>2 DEF JoinRejected
  <2>1. CASE Returns(p)
    BY <1>2, <2>0, <2>1, ReturnKeepsCalls DEF JoinRejected
  <2>2. CASE \E pc \in Pcs : calls' = [calls EXCEPT ![p].pc = pc]
    BY <1>2, <2>0, <2>2, PcMoves DEF JoinRejected
  <2> QED BY <1>2, <2>1, <2>2 DEF JoinRejected, AfterRefusal, Moves, Pcs
<1>3. ASSUME NEW u \in Users, CreateGroupCheck(p, u) PROVE TypeOK'
  <2>1. [Idle EXCEPT !.pc = "creating", !.user = u, !.role = "owner"] \in Call
    BY <1>0 DEF Call, Pcs, Roles
  <2> QED BY <1>3, <2>1 DEF CreateGroupCheck, Begins
<1>4. CASE CreateGroupInsert(p)
  <2>1. CASE Returns(p) /\ UNCHANGED groups
    BY <1>4, <2>1, ReturnKeepsCalls DEF CreateGroupInsert
  <2>2. ASSUME NEW g \in Groups,
               groups' = [groups EXCEPT ![g] = [status |-> "active", by |-> calls[p].user]],
               calls' = [calls EXCEPT ![p].pc = "founding", ![p].group = g]
        PROVE  TypeOK'
    <3>1. calls' \in [Callers -> Call]
      BY <1>0, <2>2 DEF Call, Pcs
    <3>2. [status |-> "active", by |-> calls[p].user]
             \in [status : {"unused", "active", "pending_deletion", "gone"}, by : Users \union {Null}]
      BY <1>0 DEF Call
    <3> QED BY <1>4, <2>2, <3>1, <3>2 DEF CreateGroupInsert
  <2> QED BY <1>4, <2>1, <2>2 DEF CreateGroupInsert
<1>5. CASE CreateGroupRollback(p)
  <2>1. calls' \in [Callers -> Call]
    BY <1>5, ReturnKeepsCalls DEF CreateGroupRollback
  <2> QED BY <1>5, <2>1, DeleteGroupRowType DEF CreateGroupRollback
<1>6. ASSUME NEW g \in Groups, NEW u \in Users, NEW role \in Roles, AdminAddMember(p, g, u, role)
      PROVE  TypeOK'
  <2>1. [Idle EXCEPT !.pc = "joining", !.group = g, !.user = u, !.role = role] \in Call
    BY <1>0 DEF Call, Pcs
  <2> QED BY <1>6, <2>1 DEF AdminAddMember, Begins
<1>7. ASSUME NEW m \in Rows, NEW pc \in {"leaving", "promoting"}, NEW role \in Roles,
             FindMember(p, m, pc, role)
      PROVE  TypeOK'
  <2>1. [Idle EXCEPT !.pc = pc, !.row = m, !.role = role] \in Call
    BY <1>0 DEF Call, Pcs
  <2> QED BY <1>7, <2>1 DEF FindMember, Begins
<1>8. CASE RemoveMember(p)
  <2>1. calls' \in [Callers -> Call]
    BY <1>8, ReturnKeepsCalls DEF RemoveMember
  <2> QED BY <1>8, <2>1 DEF RemoveMember
<1>9. CASE UpdateMemberRole(p)
  <2>1. calls' \in [Callers -> Call]
    BY <1>9, ReturnKeepsCalls DEF UpdateMemberRole
  <2>2. calls[p].role \in Roles
    BY <1>0 DEF Call
  <2>3. \/ members' = members
        \/ /\ members[calls[p].row] # NoRow
           /\ members' = [members EXCEPT ![calls[p].row].role = calls[p].role]
    BY <1>9 DEF UpdateMemberRole
  <2>4. members' \in [Rows -> [group : Groups, user : Users, role : Roles] \union {NoRow}]
    BY <2>2, <2>3
  <2> QED BY <1>9, <2>1, <2>4 DEF UpdateMemberRole
<1>10. "user" \in Roles
  BY DEF Roles
<1> QED BY <1>1, <1>2, <1>3, <1>4, <1>5, <1>6, <1>7, <1>8, <1>9, <1>10 DEF MemberNext, Join

(* A write of an invite, or its deletion, keeps the type of invites.       *)
LEMMA InviteWriteType ==
    ASSUME TypeOK
    PROVE  /\ \A i, row : row \in InviteRow /\ WriteInvite(i, row) => invites' \in [Invites -> InviteRow]
           /\ \A S : DeleteInvites(S) => invites' \in [Invites -> InviteRow]
<1>0. invites \in [Invites -> InviteRow]
  BY DEF TypeOK
<1>1. ASSUME NEW i, NEW row \in InviteRow, WriteInvite(i, row)
      PROVE  invites' \in [Invites -> InviteRow]
  BY <1>0, <1>1 DEF WriteInvite
<1>2. ASSUME NEW S, DeleteInvites(S) PROVE invites' \in [Invites -> InviteRow]
  <2>1. \A i \in Invites : [invites[i] EXCEPT !.status = "gone"] \in InviteRow
    BY <1>0 DEF InviteRow
  <2> QED BY <1>0, <1>2, <2>1 DEF DeleteInvites
<1> QED BY <1>1, <1>2

(* The handlers of invites keep all types.                                 *)
LEMMA RedeemKeepsTypes ==
    ASSUME TypeOK, NEW p \in Callers, RedeemNext(p)
    PROVE  TypeOK'
<1> USE DEF tables
<1>0. calls[p] \in Call /\ Idle \in Call /\ invites \in [Invites -> InviteRow]
  BY IdleIsCall DEF TypeOK
<1>a. ASSUME Returns(p), invites' \in [Invites -> InviteRow],
             UNCHANGED <<groups, members, audits, users, failures>>
      PROVE  TypeOK'
  BY <1>a, ReturnKeepsCalls DEF TypeOK
<1>1. ASSUME NEW i \in Invites, NEW u \in Users, AcceptRead(p, i, u) PROVE TypeOK'
  <2>1. invites[i].group \in Groups \union {Null}
    BY <1>0 DEF InviteRow
  <2>2. [Idle EXCEPT !.pc = "accepting", !.invite = i, !.copy = invites[i],
                     !.group = invites[i].group, !.user = u] \in Call
    BY <1>0, <2>1 DEF Call, Pcs
  <2> QED BY <1>1, <2>2, CallMoves DEF AcceptRead, Begins, TypeOK
<1>2. CASE AcceptMarkUsed(p)
  <2>1. CASE Returns(p) /\ UNCHANGED invites
    BY <1>0, <1>2, <1>a, <2>1 DEF AcceptMarkUsed
  <2>2. ASSUME calls[p].user \in users,
               invites' = [invites EXCEPT ![calls[p].invite].usedBy = calls[p].user],
               calls' = [calls EXCEPT ![p].pc = "joining"]
        PROVE  TypeOK'
    <3>1. calls' \in [Callers -> Call]
      BY <2>2, PcMoves DEF Pcs
    <3>2. calls[p].user \in Users
      BY <2>2 DEF TypeOK
    <3>3. invites' \in [Invites -> InviteRow]
      BY <1>0, <2>2, <3>2 DEF InviteRow
    <3> QED BY <1>2, <3>1, <3>3 DEF AcceptMarkUsed, TypeOK
  <2> QED BY <1>2, <2>1, <2>2 DEF AcceptMarkUsed, MayMarkUsed
<1>3. CASE AcceptRevert(p)
  <2>1. [calls[p].copy EXCEPT !.usedBy = Null] \in InviteRow
    BY <1>0 DEF Call, InviteRow
  <2> QED BY <1>3, <1>a, <2>1, InviteWriteType DEF AcceptRevert
<1>4. ASSUME NEW i \in Invites, NEW pc \in {"resending", "revoking"}, InviteRead(p, i, pc)
      PROVE  TypeOK'
  <2>1. [Idle EXCEPT !.pc = pc, !.invite = i, !.copy = invites[i]] \in Call
    BY <1>0 DEF Call, Pcs
  <2> QED BY <1>4, <2>1, CallMoves DEF InviteRead, Begins, TypeOK
<1>5. CASE ResendInvite(p)
  <2>1. [calls[p].copy EXCEPT !.expired = FALSE] \in InviteRow
    BY <1>0 DEF Call, InviteRow
  <2> QED BY <1>5, <1>a, <2>1, InviteWriteType DEF ResendInvite
<1>6. CASE RevokeInvite(p)
  BY <1>6, <1>a, InviteWriteType DEF RevokeInvite
<1> QED BY <1>1, <1>2, <1>3, <1>4, <1>5, <1>6 DEF RedeemNext

(* UpdateGroup and InitiateGroupDeletion keep all types.                   *)
LEMMA GroupKeepsTypes ==
    ASSUME TypeOK, NEW p \in Callers, GroupNext(p)
    PROVE  TypeOK'
<1> USE DEF TypeOK, tables
<1>1. ASSUME NEW g \in Groups, NEW pc \in {"updating", "ending"}, GroupRead(p, g, pc)
      PROVE  TypeOK'
  <2>1. [Idle EXCEPT !.pc = pc, !.group = g] \in Call
    BY IdleIsCall DEF Call, Pcs
  <2> QED BY <1>1, <2>1 DEF GroupRead, Begins
<1>2. CASE GroupWrite(p)
  <2>1. calls' \in [Callers -> Call]
    BY <1>2, ReturnKeepsCalls DEF GroupWrite
  <2>2. groups' \in [Groups -> [status : {"unused", "active", "pending_deletion", "gone"},
                                by : Users \union {Null}]]
    BY <1>2 DEF GroupWrite, Exists
  <2> QED BY <1>2, <2>1, <2>2 DEF GroupWrite
<1> QED BY <1>1, <1>2 DEF GroupNext

(* So does a purge.                                                        *)
LEMMA PurgeKeepsTypes ==
    ASSUME TypeOK, NEW p \in Callers, PurgeNext(p)
    PROVE  TypeOK'
<1> USE DEF tables
<1>0. calls[p] \in Call
  BY DEF TypeOK
<1>1. ASSUME NEW g \in Groups, PurgeSnapshot(p, g) PROVE TypeOK'
  <2>1. UsedInvitesOf(g) \subseteq Invites
    BY DEF UsedInvitesOf, InvitesOf
  <2>2. calls' \in [Callers -> Call]
    BY <1>0, <1>1 DEF PurgeSnapshot, Call, Pcs, TypeOK
  <2> QED BY <1>1, <2>1, <2>2 DEF PurgeSnapshot, TypeOK
<1>2. CASE PurgeDependents(p)
  <2>1. calls' \in [Callers -> Call]
    BY <1>2, PcMoves DEF PurgeDependents, Pcs
  <2> QED BY <1>2, <2>1 DEF PurgeDependents, TypeOK
<1>3. CASE PurgeInvites(p)
  <2>1. calls' \in [Callers -> Call]
    BY <1>3, PcMoves DEF PurgeInvites, Pcs
  <2> QED BY <1>3, <2>1, InviteWriteType DEF PurgeInvites, TypeOK
<1>4. CASE PurgeRow(p)
  <2>1. calls' \in [Callers -> Call]
    BY <1>4, PcMoves, ReturnKeepsCalls DEF PurgeRow, PurgeFailed, Pcs
  <2> QED BY <1>4, <2>1, DeleteGroupRowType DEF PurgeRow, TypeOK
<1> QED BY <1>1, <1>2, <1>3, <1>4 DEF PurgeNext

(* The worker's tick and the deletion of an account keep all types.        *)
LEMMA SweepKeepsTypes ==
    ASSUME TypeOK, NEW p \in Callers, SweepNext(p)
    PROVE  TypeOK'
<1> USE DEF tables
<1>1. CASE SweepList(p)
  <2> DEFINE c == [Idle EXCEPT !.pc = "purging",
                              !.todo = {g \in Groups : groups[g].status = "pending_deletion"}]
  <2>1. c \in Call
    BY IdleIsCall DEF Call, Pcs
  <2> QED BY <1>1, <2>1, CallMoves DEF SweepList, Begins, TypeOK
<1>2. CASE SweepDone(p)
  BY <1>2, ReturnKeepsCalls, InviteWriteType DEF SweepDone, TypeOK
<1> QED BY <1>1, <1>2, PurgeKeepsTypes DEF SweepNext

(* The deletion of an account keeps all types.                             *)
LEMMA AccountKeepsTypes ==
    ASSUME TypeOK, NEW p \in Callers, AccountNext(p)
    PROVE  TypeOK'
<1> USE DEF tables
<1>0. calls[p] \in Call
  BY DEF TypeOK
<1>1. ASSUME NEW u \in Users, DeleteAccountList(p, u) PROVE TypeOK'
  <2>1. {members[m].group : m \in SeatsOf(u)} \subseteq Groups
    BY DEF TypeOK, SeatsOf
  <2>2. [Idle EXCEPT !.pc = "classifying", !.user = u,
                     !.todo = {members[m].group : m \in SeatsOf(u)}] \in Call
    BY <2>1, IdleIsCall DEF Call, Pcs
  <2> QED BY <1>1, <2>2, CallMoves DEF DeleteAccountList, Begins, TypeOK
<1>2. ASSUME NEW g \in Groups, ClassifyGroup(p, g) PROVE TypeOK'
  <2>1. ASSUME NEW private \in SUBSET Groups,
               calls' = [calls EXCEPT ![p].todo = @ \ {g}, ![p].private = private]
        PROVE  calls' \in [Callers -> Call]
    BY <1>0, <2>1 DEF Call, TypeOK
  <2>2. calls[p].private \union {g} \in SUBSET Groups /\ calls[p].private \in SUBSET Groups
    BY <1>0 DEF Call
  <2>3. calls' \in [Callers -> Call]
    BY <1>2, <2>1, <2>2, ReturnKeepsCalls DEF ClassifyGroup
  <2> QED BY <1>2, <2>3 DEF ClassifyGroup, TypeOK
<1>3. CASE CheckRetained(p)
  <2>1. calls' \in [Callers -> Call]
    BY <1>0, <1>3, ReturnKeepsCalls DEF CheckRetained, Call, Pcs, TypeOK
  <2> QED BY <1>3, <2>1 DEF CheckRetained, TypeOK
<1>4. ASSUME NEW g \in Groups, PurgeLoadFails(p, g) PROVE TypeOK'
  BY <1>4, ReturnKeepsCalls DEF PurgeLoadFails, TypeOK
<1>5. CASE PurgeUserDependents(p)
  <2>1. calls' \in [Callers -> Call]
    BY <1>5, PcMoves DEF PurgeUserDependents, Pcs
  <2> QED BY <1>5, <2>1 DEF PurgeUserDependents, TypeOK
<1>6. CASE DeleteUser(p)
  BY <1>6, ReturnKeepsCalls DEF DeleteUser, TypeOK
<1> QED BY <1>1, <1>2, <1>3, <1>4, <1>5, <1>6 DEF AccountNext

(* So does every step.                                                     *)
LEMMA NextKeepsTypes ==
    ASSUME TypeOK, [Next]_vars
    PROVE  TypeOK'
<1> USE DEF tables
<1>1. ASSUME NEW i \in Invites, NEW g \in Groups, NEW u \in Users \union {Null}, CreateInvite(i, g, u)
      PROVE  TypeOK'
  BY <1>1 DEF CreateInvite, TypeOK, InviteRow
<1>2. ASSUME NEW i \in Invites, Expire(i) PROVE TypeOK'
  BY <1>2 DEF Expire, TypeOK, InviteRow
<1>3. ASSUME NEW p \in Requests, RequestNext(p) PROVE TypeOK'
  <2>1. CASE RequestFails(p)
    BY <2>1, ReturnKeepsCalls DEF RequestFails, Failing, TypeOK, Callers
  <2> QED
    BY <1>3, <2>1, MemberKeepsTypes, RedeemKeepsTypes, GroupKeepsTypes, AccountKeepsTypes,
       PurgeKeepsTypes DEF RequestNext, Callers
<1>4. ASSUME NEW p \in Sweepers, SweepNext(p) PROVE TypeOK'
  BY <1>4, SweepKeepsTypes DEF Callers
<1>5. ASSUME NEW p \in Callers, PurgeFails(p) PROVE TypeOK'
  <2>1. calls' \in [Callers -> Call]
    BY <1>5, PcMoves, ReturnKeepsCalls DEF PurgeFails, PurgeFailed, Pcs
  <2> QED BY <1>5, <2>1 DEF PurgeFails, Failing, TypeOK
<1>6. CASE UNCHANGED vars
  BY <1>6 DEF vars, TypeOK
<1> QED BY <1>1, <1>2, <1>3, <1>4, <1>5, <1>6 DEF Next, InviteNext

(* Every table and every call always has its shape (group_service.go,      *)
(* group_purge_service.go and account_deletion.go).                        *)
THEOREM MembershipTypes == Spec => []TypeOK
<1>1. Init => TypeOK
  BY IdleIsCall DEF Init, TypeOK
<1> QED BY <1>1, NextKeepsTypes, PTL DEF Spec
-----------------------------------------------------------------------------
(* The steps that change the memberships.                                  *)
LEMMA MemberSteps ==
    ASSUME [Next]_vars
    PROVE  \/ UNCHANGED members
           \/ \E p \in Requests : InsertMember(p)
           \/ \E p \in Requests : RemoveMember(p)
           \/ \E p \in Requests : UpdateMemberRole(p)
           \/ \E p \in Callers : PurgeDependents(p)
           \/ \E p \in Requests : PurgeUserDependents(p)
<1> USE DEF tables
<1>1. InviteNext => UNCHANGED members
  BY DEF InviteNext, CreateInvite, Expire
<1>2. ASSUME NEW p \in Callers, PurgeNext(p) PROVE UNCHANGED members \/ PurgeDependents(p)
  BY <1>2 DEF PurgeNext, PurgeSnapshot, PurgeInvites, PurgeRow
<1>3. ASSUME NEW p \in Requests, MemberNext(p)
      PROVE  UNCHANGED members \/ InsertMember(p) \/ RemoveMember(p) \/ UpdateMemberRole(p)
  BY <1>3 DEF MemberNext, Join, JoinRejected, CreateGroupCheck, CreateGroupInsert,
              CreateGroupRollback, AdminAddMember, FindMember
<1>4. ASSUME NEW p \in Requests, RedeemNext(p) \/ GroupNext(p) \/ RequestFails(p) PROVE UNCHANGED members
  BY <1>4 DEF RequestFails, RedeemNext, AcceptRead, AcceptMarkUsed, AcceptRevert, InviteRead, ResendInvite,
              RevokeInvite, GroupNext, GroupRead, GroupWrite
<1>5. ASSUME NEW p \in Requests, AccountNext(p)
      PROVE  UNCHANGED members \/ PurgeUserDependents(p)
  BY <1>5 DEF AccountNext, DeleteAccountList, ClassifyGroup, CheckRetained, PurgeLoadFails, DeleteUser
<1>6. ASSUME NEW p \in Sweepers, SweepNext(p) PROVE UNCHANGED members \/ PurgeDependents(p)
  BY <1>2, <1>6 DEF SweepNext, SweepList, SweepDone, Callers
<1>7. ASSUME NEW p \in Callers, PurgeFails(p) PROVE UNCHANGED members
  BY <1>7 DEF PurgeFails
<1>8. UNCHANGED vars => UNCHANGED members
  BY DEF vars
<1> QED BY <1>1, <1>2, <1>3, <1>4, <1>5, <1>6, <1>7, <1>8 DEF Next, RequestNext, Callers

(* A user's seats are finitely many.                                       *)
LEMMA SeatsFinite == \A u : IsFiniteSet(SeatsOf(u))
BY FS_Subset DEF SeatsOf

(* A step that gives no row to another user takes no seat.                 *)
LEMMA NoNewSeat ==
    ASSUME WithinCap,
           \A m \in Rows : members'[m] # NoRow => members[m] # NoRow /\ members'[m].user = members[m].user
    PROVE  WithinCap'
<1> SUFFICES ASSUME NEW u \in Users PROVE Cardinality(SeatsOf(u)') <= Cap
  BY DEF WithinCap
<1>1. SeatsOf(u)' \subseteq SeatsOf(u)
  BY DEF SeatsOf
<1>2. /\ Cardinality(SeatsOf(u)') <= Cardinality(SeatsOf(u))
      /\ Cardinality(SeatsOf(u)') \in Nat /\ Cardinality(SeatsOf(u)) \in Nat
  BY <1>1, SeatsFinite, FS_Subset, FS_CardinalityType
<1>3. Cardinality(SeatsOf(u)) <= Cap
  BY DEF WithinCap
<1> QED BY <1>2, <1>3

(* An insert gives the one row it adds to a user who has a seat left.      *)
LEMMA InsertTakesAFreeSeat ==
    ASSUME TypeOK, WithinCap, NEW p \in Requests, InsertMember(p)
    PROVE  WithinCap'
<1> SUFFICES ASSUME NEW u \in Users PROVE Cardinality(SeatsOf(u)') <= Cap
  BY DEF WithinCap
<1>1. PICK m \in Rows : /\ members[m] = NoRow
                        /\ members' = [members EXCEPT ![m] =
                              [group |-> calls[p].group, user |-> calls[p].user, role |-> calls[p].role]]
  BY DEF InsertMember, Fresh
<1>2. Cardinality(SeatsOf(u)) \in Nat /\ Cardinality(SeatsOf(u)) <= Cap /\ IsFiniteSet(SeatsOf(u))
  BY SeatsFinite, FS_CardinalityType DEF WithinCap
<1>3. CASE u = calls[p].user
  <2>1. SeatsOf(u)' \subseteq SeatsOf(u) \union {m} /\ m \notin SeatsOf(u)
    BY <1>1 DEF SeatsOf, TypeOK
  <2>2. /\ IsFiniteSet(SeatsOf(u) \union {m})
        /\ Cardinality(SeatsOf(u) \union {m}) = Cardinality(SeatsOf(u)) + 1
    BY <1>2, <2>1, FS_AddElement
  <2>3. /\ Cardinality(SeatsOf(u)') <= Cardinality(SeatsOf(u)) + 1
        /\ Cardinality(SeatsOf(u)') \in Nat
    BY <2>1, <2>2, FS_Subset, FS_CardinalityType
  <2>4. Cardinality(SeatsOf(u)) < Cap
    BY <1>3 DEF InsertMember, MayInsert
  <2> QED BY <1>2, <2>3, <2>4
<1>4. CASE u # calls[p].user
  <2>1. SeatsOf(u)' \subseteq SeatsOf(u)
    BY <1>1, <1>4 DEF SeatsOf, TypeOK
  <2>2. Cardinality(SeatsOf(u)') <= Cardinality(SeatsOf(u)) /\ Cardinality(SeatsOf(u)') \in Nat
    BY <1>2, <2>1, FS_Subset, FS_CardinalityType
  <2> QED BY <1>2, <2>2
<1> QED BY <1>3, <1>4

(* No step takes a user over the cap.                                      *)
LEMMA NextKeepsCap ==
    ASSUME TypeOK, WithinCap, [Next]_vars
    PROVE  WithinCap'
<1>1. CASE UNCHANGED members
  BY <1>1, NoNewSeat
<1>2. ASSUME NEW p \in Requests, RemoveMember(p) PROVE WithinCap'
  BY <1>2, NoNewSeat DEF RemoveMember, TypeOK
<1>3. ASSUME NEW p \in Requests, UpdateMemberRole(p) PROVE WithinCap'
  <2>1. \/ members' = members
        \/ /\ members[calls[p].row] # NoRow
           /\ members' = [members EXCEPT ![calls[p].row].role = calls[p].role]
    BY <1>3 DEF UpdateMemberRole
  <2>2. \A m \in Rows : members'[m] # NoRow =>
            members[m] # NoRow /\ members'[m].user = members[m].user
    BY <2>1 DEF TypeOK
  <2> QED BY <2>2, NoNewSeat
<1>4. ASSUME NEW p \in Callers, PurgeDependents(p) PROVE WithinCap'
  BY <1>4, NoNewSeat DEF PurgeDependents
<1>5. ASSUME NEW p \in Requests, PurgeUserDependents(p) PROVE WithinCap'
  BY <1>5, NoNewSeat DEF PurgeUserDependents
<1> QED BY <1>1, <1>2, <1>3, <1>4, <1>5, MemberSteps, InsertTakesAFreeSeat

(* No user ever holds more memberships than the cap, whatever requests     *)
(* race (CreateUnderCap's count under the lock on the user).               *)
THEOREM CapHolds == Spec => []WithinCap
<1>1. Init => WithinCap
  <2> SUFFICES ASSUME Init, NEW u \in Users PROVE Cardinality(SeatsOf(u)) <= Cap
    BY DEF WithinCap
  <2>1. SeatsOf(u) = {}
    BY DEF Init, SeatsOf
  <2> QED BY <2>1, FS_EmptySet
<1>2. TypeOK /\ WithinCap /\ [Next]_vars => WithinCap'
  BY NextKeepsCap
<1> QED BY <1>1, <1>2, MembershipTypes, PTL DEF Spec
-----------------------------------------------------------------------------
(* Taking one owner away leaves another unless it was the last.            *)
LEMMA AnotherOwner ==
    ASSUME NEW g, NEW m \in OwnersOf(g), ~LosesLastOwner(m, g)
    PROVE  \E n \in OwnersOf(g) : n # m
<1>1. IsFiniteSet(OwnersOf(g)) /\ Cardinality(OwnersOf(g)) \in Nat
  BY FS_Subset, FS_CardinalityType DEF OwnersOf, MembersOf
<1>2. Cardinality({m}) = 1
  BY FS_Singleton
<1>3. OwnersOf(g) # {m}
  BY <1>1, <1>2 DEF LosesLastOwner
<1> QED BY <1>3

(* No step but the deletion of an account takes the owners of a group away *)
(* and leaves members behind.                                              *)
LEMMA NextKeepsAnOwner ==
    ASSUME TypeOK, [Next]_vars, NEW g \in Groups, OwnersOf(g) # {}, MembersOf(g)' # {},
           \A p \in Requests : ~PurgeUserDependents(p)
    PROVE  OwnersOf(g)' # {}
<1> USE DEF OwnersOf, MembersOf
<1>0. /\ members \in [Rows -> [group : Groups, user : Users, role : Roles] \union {NoRow}]
      /\ \A m \in OwnersOf(g) : m \in Rows
  BY DEF TypeOK
<1>1. CASE UNCHANGED members
  BY <1>1
<1>2. ASSUME NEW p \in Requests, InsertMember(p) PROVE OwnersOf(g)' # {}
  BY <1>0, <1>2 DEF InsertMember, Fresh
<1>3. ASSUME NEW p \in Requests, RemoveMember(p) PROVE OwnersOf(g)' # {}
  <2> DEFINE m == calls[p].row
  <2>1. CASE members' = members
    BY <2>1
  <2>2. CASE ~LosesLastOwner(m, members[m].group) /\ members' = [members EXCEPT ![m] = NoRow]
    <3>1. PICK n \in OwnersOf(g) : n # m
      BY <2>2, AnotherOwner
    <3> QED BY <1>0, <2>2, <3>1
  <2> QED BY <1>3, <2>1, <2>2 DEF RemoveMember
<1>4. ASSUME NEW p \in Requests, UpdateMemberRole(p) PROVE OwnersOf(g)' # {}
  <2> DEFINE m == calls[p].row
  <2>1. CASE members' = members
    BY <2>1
  <2>2. CASE /\ members[m] # NoRow
             /\ calls[p].role # "owner" => ~LosesLastOwner(m, members[m].group)
             /\ members' = [members EXCEPT ![m].role = calls[p].role]
    <3>1. CASE calls[p].role = "owner"
      BY <1>0, <2>2, <3>1
    <3>2. CASE calls[p].role # "owner"
      <4>1. PICK n \in OwnersOf(g) : n # m
        BY <2>2, <3>2, AnotherOwner
      <4> QED BY <1>0, <2>2, <4>1
    <3> QED BY <3>1, <3>2
  <2> QED BY <1>4, <2>1, <2>2 DEF UpdateMemberRole
<1>5. ASSUME NEW p \in Callers, PurgeDependents(p) PROVE OwnersOf(g)' # {}
  BY <1>0, <1>5 DEF PurgeDependents
<1> QED BY <1>1, <1>2, <1>3, <1>4, <1>5, MemberSteps

(* A group with members that has an owner keeps one, whatever leaves and   *)
(* demotions race; only the deletion of an account may take the last away  *)
(* (RemoveMember and UpdateMemberRole under the lock on the group).        *)
THEOREM AnOwnerStays == Spec => KeepsAnOwner
<1>1. TypeOK /\ [Next]_vars =>
        [\A g \in Groups : OwnersOf(g) # {} /\ MembersOf(g)' # {} =>
            \/ OwnersOf(g)' # {}
            \/ \E p \in Requests : PurgeUserDependents(p)]_vars
  BY NextKeepsAnOwner
<1> QED BY <1>1, MembershipTypes, PTL DEF Spec, KeepsAnOwner
-----------------------------------------------------------------------------
(* What an accept relies on between its steps, given Calm: nobody else     *)
(* touches the mark it has put on its invite.                              *)

(* A call that will write its invite back, or has marked it.               *)
HoldsInvite(c) ==
    \/ c.pc \in {"accepting", "resending", "reverting"}
    \/ c.pc = "joining" /\ c.invite # Null

(* A call whose mark is on the invite it holds.                            *)
Redeems(c) == c.pc \in {"joining", "reverting"} /\ c.invite # Null

(* The invite a call holds has been created, and was live when it was read.*)
InvitesHeld ==
    \A p \in Requests : HoldsInvite(calls[p]) =>
        /\ calls[p].invite \in Invites /\ calls[p].copy.status = "live"
        /\ invites[calls[p].invite].status # "unused"

(* The mark is that of the caller's user, and of no other call.            *)
MarkedForOne ==
    /\ \A p \in Requests : Redeems(calls[p]) =>
          calls[p].user \in Users /\ invites[calls[p].invite].usedBy = calls[p].user
    /\ \A p, q \in Requests :
          Redeems(calls[p]) /\ Redeems(calls[q]) /\ calls[p].invite = calls[q].invite => p = q

(* The founder of a group is a member without an invite.                   *)
Founds(c) == c.pc \in {"creating", "founding"}

FoundersHaveNone == \A p \in Requests : Founds(calls[p]) => calls[p].invite = Null

CalmInv == TypeOK /\ Calm /\ InvitesHeld /\ MarkedForOne /\ FoundersHaveNone

(* No caller touches the record of another.                                *)
LEMMA OthersKeepACall ==
    ASSUME TypeOK, NEW p \in Callers, NEW q \in Callers, q # p,
           RequestNext(q) \/ SweepNext(q) \/ PurgeFails(q)
    PROVE  calls'[p] = calls[p]
<1>0. calls \in [Callers -> Call]
  BY DEF TypeOK
<1> USE <1>0 DEF Begins, Moves, Returns
<1>1. CASE MemberNext(q)
  <2>1. CASE Join(q) \/ JoinRejected(q) \/ CreateGroupRollback(q) \/ RemoveMember(q) \/ UpdateMemberRole(q)
    BY <2>1 DEF Join, InsertMember, JoinRejected, CreateGroupRollback, RemoveMember, UpdateMemberRole
  <2>2. CASE ~(Join(q) \/ JoinRejected(q) \/ CreateGroupRollback(q) \/ RemoveMember(q) \/ UpdateMemberRole(q))
    BY <1>1, <2>2 DEF MemberNext, CreateGroupCheck, CreateGroupInsert, AdminAddMember, FindMember
  <2> QED BY <2>1, <2>2
<1>2. CASE RedeemNext(q)
  BY <1>2 DEF RedeemNext, AcceptRead, AcceptMarkUsed, AcceptRevert, InviteRead, ResendInvite, RevokeInvite
<1>3. CASE GroupNext(q)
  BY <1>3 DEF GroupNext, GroupRead, GroupWrite
<1>4. CASE AccountNext(q)
  BY <1>4 DEF AccountNext, DeleteAccountList, ClassifyGroup, CheckRetained, PurgeLoadFails,
              PurgeUserDependents, DeleteUser
<1>5. CASE PurgeNext(q) \/ PurgeFails(q)
  BY <1>5 DEF PurgeNext, PurgeSnapshot, PurgeDependents, PurgeInvites, PurgeRow, PurgeFails, PurgeFailed
<1>6. CASE SweepList(q) \/ SweepDone(q) \/ RequestFails(q)
  BY <1>6 DEF SweepList, SweepDone, RequestFails
<1> QED BY <1>1, <1>2, <1>3, <1>4, <1>5, <1>6 DEF RequestNext, SweepNext

(* A call that holds an invite after a step of its own has just read it,   *)
(* marked it, or failed to join on it.                                     *)
LEMMA HolderSteps ==
    ASSUME TypeOK, NEW p \in Requests, RequestNext(p) \/ PurgeFails(p), HoldsInvite(calls'[p])
    PROVE  \/ \E i \in Invites :
                 /\ Usable(i) /\ calls'[p].invite = i /\ calls'[p].copy = invites[i]
                 /\ calls'[p].pc \in {"accepting", "resending"} /\ UNCHANGED invites
           \/ /\ AcceptMarkUsed(p) /\ calls'[p] = [calls[p] EXCEPT !.pc = "joining"]
              /\ MayMarkUsed(calls[p].invite, calls[p].user)
              /\ invites' = [invites EXCEPT ![calls[p].invite].usedBy = calls[p].user]
           \/ /\ calls[p].pc = "joining" /\ calls[p].invite # Null
              /\ calls'[p] = [calls[p] EXCEPT !.pc = "reverting"]
              /\ UNCHANGED invites
<1> DEFINE Read == \E i \in Invites :
                      /\ Usable(i) /\ calls'[p].invite = i /\ calls'[p].copy = invites[i]
                      /\ calls'[p].pc \in {"accepting", "resending"} /\ UNCHANGED invites
<1>0. /\ p \in Callers /\ calls \in [Callers -> Call] /\ calls[p] \in Call
      /\ p \notin Sweepers
  BY DEF TypeOK, Callers
<1>1. ~Returns(p)
  BY <1>0 DEF Returns, HoldsInvite, Idle
<1>2. \A pc : calls' = [calls EXCEPT ![p].pc = pc] =>
         pc \in {"accepting", "resending", "reverting", "joining"}
  BY <1>0 DEF HoldsInvite, Call
<1>3. ASSUME NEW c, Begins(p, c)
      PROVE  calls'[p] = c
  BY <1>0, <1>3 DEF Begins
<1>4. CASE JoinRejected(p)
  <2>1. \/ calls[p].pc = "joining" /\ calls[p].invite # Null /\ calls' = [calls EXCEPT ![p].pc = "reverting"]
        \/ calls' = [calls EXCEPT ![p].pc = "unfounding"]
    BY <1>1, <1>4 DEF JoinRejected, AfterRefusal, Moves
  <2>2. UNCHANGED invites
    BY <1>4 DEF JoinRejected, tables
  <2> QED BY <1>0, <1>2, <2>1, <2>2
<1>5. CASE MemberNext(p) /\ ~JoinRejected(p)
  <2>1. CASE Join(p) \/ CreateGroupRollback(p) \/ RemoveMember(p) \/ UpdateMemberRole(p)
    BY <1>1, <2>1 DEF Join, InsertMember, CreateGroupRollback, RemoveMember, UpdateMemberRole
  <2>2. ASSUME NEW u \in Users, CreateGroupCheck(p, u) PROVE FALSE
    BY <1>3, <2>2 DEF CreateGroupCheck, HoldsInvite, Idle
  <2>3. CASE CreateGroupInsert(p)
    BY <1>0, <1>1, <2>3 DEF CreateGroupInsert, HoldsInvite, Call
  <2>4. ASSUME NEW g, NEW u, NEW role, AdminAddMember(p, g, u, role) PROVE FALSE
    BY <1>3, <2>4 DEF AdminAddMember, HoldsInvite, Idle
  <2>5. ASSUME NEW m, NEW pc \in {"leaving", "promoting"}, NEW role, FindMember(p, m, pc, role) PROVE FALSE
    BY <1>3, <2>5 DEF FindMember, HoldsInvite, Idle
  <2> QED BY <1>5, <2>1, <2>2, <2>3, <2>4, <2>5 DEF MemberNext
<1>6. CASE RedeemNext(p)
  <2>1. ASSUME NEW i \in Invites, NEW u \in Users, AcceptRead(p, i, u) PROVE Read
    <3>1. calls'[p] = [Idle EXCEPT !.pc = "accepting", !.invite = i, !.copy = invites[i],
                                   !.group = invites[i].group, !.user = u]
      BY <1>3, <2>1 DEF AcceptRead
    <3> QED BY <2>1, <3>1 DEF AcceptRead, Idle, tables
  <2>2. CASE AcceptMarkUsed(p)
    <3>1. /\ MayMarkUsed(calls[p].invite, calls[p].user)
          /\ invites' = [invites EXCEPT ![calls[p].invite].usedBy = calls[p].user]
          /\ calls' = [calls EXCEPT ![p].pc = "joining"]
      BY <1>1, <2>2 DEF AcceptMarkUsed
    <3> QED BY <1>0, <2>2, <3>1
  <2>3. ASSUME NEW i \in Invites, NEW pc \in {"resending", "revoking"}, InviteRead(p, i, pc) PROVE Read
    <3>1. calls'[p] = [Idle EXCEPT !.pc = pc, !.invite = i, !.copy = invites[i]]
      BY <1>3, <2>3 DEF InviteRead
    <3> QED BY <2>3, <3>1 DEF InviteRead, Idle, tables, HoldsInvite
  <2>4. CASE AcceptRevert(p) \/ ResendInvite(p) \/ RevokeInvite(p)
    BY <1>1, <2>4 DEF AcceptRevert, ResendInvite, RevokeInvite
  <2> QED BY <1>6, <2>1, <2>2, <2>3, <2>4 DEF RedeemNext
<1>7. CASE GroupNext(p)
  <2>1. ASSUME NEW g, NEW pc \in {"updating", "ending"}, GroupRead(p, g, pc) PROVE FALSE
    BY <1>3, <2>1 DEF GroupRead, HoldsInvite, Idle
  <2> QED BY <1>1, <1>7, <2>1 DEF GroupNext, GroupWrite
<1>8. CASE AccountNext(p)
  <2>1. ASSUME NEW u, DeleteAccountList(p, u) PROVE FALSE
    BY <1>3, <2>1 DEF DeleteAccountList, HoldsInvite, Idle
  <2>2. ASSUME NEW g, ClassifyGroup(p, g) PROVE FALSE
    BY <1>0, <1>1, <2>2 DEF ClassifyGroup, HoldsInvite, Call
  <2>3. CASE CheckRetained(p)
    BY <1>0, <1>1, <2>3 DEF CheckRetained, HoldsInvite, Call
  <2>4. CASE PurgeUserDependents(p)
    <3>1. calls' = [calls EXCEPT ![p].pc = "leftAll"]
      BY <2>4 DEF PurgeUserDependents
    <3> QED BY <1>0, <3>1 DEF HoldsInvite, Call
  <2>5. ASSUME NEW g, PurgeLoadFails(p, g) PROVE FALSE
    BY <1>1, <2>5 DEF PurgeLoadFails
  <2>6. ~DeleteUser(p)
    BY <1>1 DEF DeleteUser
  <2> QED BY <1>8, <2>1, <2>2, <2>3, <2>4, <2>5, <2>6 DEF AccountNext
<1>9. CASE PurgeNext(p) \/ PurgeFails(p)
  <2>1. ASSUME NEW g, PurgeSnapshot(p, g) PROVE FALSE
    BY <1>0, <2>1 DEF PurgeSnapshot, HoldsInvite, Call
  <2>2. CASE PurgeDependents(p) \/ PurgeInvites(p)
    BY <1>2, <2>2 DEF PurgeDependents, PurgeInvites
  <2>3. CASE PurgeRow(p) \/ PurgeFails(p)
    BY <1>0, <1>1, <1>2, <2>3 DEF PurgeRow, PurgeFails, PurgeFailed
  <2> QED BY <1>9, <2>1, <2>2, <2>3 DEF PurgeNext
<1>10. ~RequestFails(p)
  BY <1>1 DEF RequestFails
<1> QED BY <1>4, <1>5, <1>6, <1>7, <1>8, <1>9, <1>10 DEF RequestNext

(* An invite that was created stays so, and keeps the mark it has unless a *)
(* call that holds it writes it back.                                      *)
LEMMA InviteStays ==
    ASSUME TypeOK, InvitesHeld, [Next]_vars, NEW i \in Invites, invites[i].status # "unused"
    PROVE  /\ invites'[i].status # "unused"
           /\ \/ invites[i].usedBy = Null
              \/ invites'[i].usedBy = invites[i].usedBy
              \/ \E q \in Requests : calls[q].invite = i /\ (AcceptRevert(q) \/ ResendInvite(q))
<1> DEFINE Stays == /\ invites'[i].status # "unused"
                    /\ \/ invites[i].usedBy = Null
                       \/ invites'[i].usedBy = invites[i].usedBy
                       \/ \E q \in Requests : calls[q].invite = i /\ (AcceptRevert(q) \/ ResendInvite(q))
<1>0. /\ invites \in [Invites -> InviteRow]
      /\ calls \in [Callers -> Call]
      /\ Requests \subseteq Callers
  BY DEF TypeOK, Callers
<1>1. CASE UNCHANGED invites
  BY <1>1
<1>2. ASSUME NEW S, DeleteInvites(S) PROVE Stays
  BY <1>0, <1>2 DEF DeleteInvites, InviteRow
<1>3. CASE InviteNext
  <2>1. ASSUME NEW j \in Invites, NEW g, NEW u, CreateInvite(j, g, u) PROVE Stays
    BY <1>0, <2>1 DEF CreateInvite
  <2>2. ASSUME NEW j \in Invites, Expire(j) PROVE Stays
    BY <1>0, <2>2 DEF Expire, InviteRow
  <2> QED BY <1>3, <2>1, <2>2 DEF InviteNext
<1>4. ASSUME NEW q \in Requests, AcceptMarkUsed(q) PROVE Stays
  <2>1. CASE UNCHANGED invites
    BY <1>1, <2>1
  <2>2. CASE /\ MayMarkUsed(calls[q].invite, calls[q].user)
             /\ invites' = [invites EXCEPT ![calls[q].invite].usedBy = calls[q].user]
    BY <1>0, <2>2 DEF MayMarkUsed, Usable, InviteRow
  <2> QED BY <1>4, <2>1, <2>2 DEF AcceptMarkUsed
<1>5. ASSUME NEW q \in Requests, AcceptRevert(q) \/ ResendInvite(q) PROVE Stays
  <2>1. calls[q].copy.status = "live" /\ calls[q].copy \in InviteRow
    BY <1>0, <1>5 DEF InvitesHeld, HoldsInvite, AcceptRevert, ResendInvite, Call
  <2>2. PICK row : /\ row \in { [calls[q].copy EXCEPT !.usedBy = Null], [calls[q].copy EXCEPT !.expired = FALSE] }
                   /\ WriteInvite(calls[q].invite, row)
    BY <1>5 DEF AcceptRevert, ResendInvite
  <2>3. row.status = "live"
    BY <2>1, <2>2 DEF InviteRow
  <2> QED BY <1>0, <1>5, <2>2, <2>3 DEF WriteInvite
<1>6. ASSUME NEW q \in Requests, RevokeInvite(q) PROVE Stays
  BY <1>2, <1>6 DEF RevokeInvite
<1>7. ASSUME NEW q \in Callers, PurgeNext(q) \/ SweepNext(q) \/ PurgeFails(q)
      PROVE  Stays
  <2>1. (\E S : DeleteInvites(S)) \/ UNCHANGED invites
    BY <1>7 DEF PurgeNext, SweepNext, SweepList, SweepDone, PurgeSnapshot, PurgeDependents,
                PurgeInvites, PurgeRow, PurgeFails, tables
  <2> QED BY <1>1, <1>2, <2>1
<1>8. ASSUME NEW q \in Requests, MemberNext(q) \/ GroupNext(q) \/ AccountNext(q) \/ RequestFails(q)
      PROVE  UNCHANGED invites
  <2>1. CASE MemberNext(q)
    BY <2>1 DEF MemberNext, Join, InsertMember, JoinRejected, CreateGroupCheck, CreateGroupInsert,
       CreateGroupRollback, AdminAddMember, FindMember, RemoveMember, UpdateMemberRole, tables
  <2>2. CASE GroupNext(q) \/ AccountNext(q) \/ RequestFails(q)
    BY <2>2 DEF RequestFails, GroupNext, GroupRead, GroupWrite, AccountNext, DeleteAccountList, ClassifyGroup,
       CheckRetained, PurgeLoadFails, PurgeUserDependents, DeleteUser, tables
  <2> QED BY <1>8, <2>1, <2>2
<1>9. ASSUME NEW q \in Requests, RedeemNext(q)
      PROVE  \/ UNCHANGED invites
             \/ AcceptMarkUsed(q) \/ AcceptRevert(q) \/ ResendInvite(q) \/ RevokeInvite(q)
  BY <1>9 DEF RedeemNext, AcceptRead, InviteRead, tables
<1>10. UNCHANGED vars => UNCHANGED invites
  BY DEF vars, tables
<1>11. ASSUME NEW q \in Requests, RequestNext(q) PROVE Stays
  BY <1>0, <1>1, <1>4, <1>5, <1>6, <1>7, <1>8, <1>9, <1>11 DEF RequestNext
<1> QED BY <1>0, <1>1, <1>3, <1>7, <1>10, <1>11 DEF Next, Callers

(* An invite one call has marked is not written back by another.           *)
LEMMA MarkIsLeftAlone ==
    ASSUME CalmInv, NEW p \in Requests, Redeems(calls[p]), NEW q \in Requests,
           calls[q].invite = calls[p].invite, AcceptRevert(q) \/ ResendInvite(q)
    PROVE  p = q /\ calls'[p] = Idle
<1>1. CASE ResendInvite(q)
  BY <1>1 DEF CalmInv, Calm, Redeems, ResendInvite
<1>2. CASE AcceptRevert(q)
  <2>1. Redeems(calls[q])
    BY <1>2 DEF AcceptRevert, Redeems
  <2>2. p = q
    BY <2>1 DEF CalmInv, MarkedForOne
  <2> QED BY <1>2, <2>2 DEF AcceptRevert, Returns, CalmInv, TypeOK, Callers
<1> QED BY <1>1, <1>2

(* The record of a request after any step: its own step, or as before.     *)
LEMMA CallSteps ==
    ASSUME TypeOK, [Next]_vars, NEW p \in Requests, calls'[p] # calls[p]
    PROVE  RequestNext(p) \/ PurgeFails(p)
<1>1. CASE InviteNext \/ UNCHANGED vars
  BY <1>1 DEF InviteNext, CreateInvite, Expire, vars
<1>2. ASSUME NEW q \in Callers, q # p, RequestNext(q) \/ SweepNext(q) \/ PurgeFails(q)
      PROVE  FALSE
  BY <1>2, OthersKeepACall DEF Callers
<1>3. p \in Callers /\ p \notin Sweepers
  BY DEF Callers
<1> QED BY <1>1, <1>2, <1>3 DEF Next, Callers

(* A call that creates a group has just begun, or goes on.                 *)
LEMMA FounderSteps ==
    ASSUME TypeOK, NEW p \in Requests, RequestNext(p) \/ PurgeFails(p), Founds(calls'[p])
    PROVE  \/ calls'[p].invite = Null
           \/ Founds(calls[p]) /\ calls'[p].invite = calls[p].invite
<1>0. /\ p \in Callers /\ calls \in [Callers -> Call] /\ calls[p] \in Call
      /\ p \notin Sweepers
  BY DEF TypeOK, Callers
<1>1. ~Returns(p)
  BY <1>0 DEF Returns, Founds, Idle
<1>2. ~HoldsInvite(calls'[p])
  BY DEF Founds, HoldsInvite
<1>3. ASSUME NEW c, Begins(p, c)
      PROVE  calls'[p] = c
  BY <1>0, <1>3 DEF Begins
<1>4. CASE MemberNext(p)
  <2>1. CASE Join(p) \/ CreateGroupRollback(p) \/ RemoveMember(p) \/ UpdateMemberRole(p)
    BY <1>1, <2>1 DEF Join, InsertMember, CreateGroupRollback, RemoveMember, UpdateMemberRole
  <2>2. ASSUME NEW u \in Users, CreateGroupCheck(p, u) PROVE calls'[p].invite = Null
    BY <1>3, <2>2 DEF CreateGroupCheck, Idle
  <2>3. CASE CreateGroupInsert(p)
    BY <1>0, <1>1, <2>3 DEF CreateGroupInsert, Founds, Call
  <2>4. ASSUME NEW g, NEW u, NEW role, AdminAddMember(p, g, u, role) PROVE calls'[p].invite = Null
    BY <1>3, <2>4 DEF AdminAddMember, Idle
  <2>5. ASSUME NEW m, NEW pc, NEW role, FindMember(p, m, pc, role) PROVE calls'[p].invite = Null
    BY <1>3, <2>5 DEF FindMember, Idle
  <2>6. CASE JoinRejected(p)
    BY <1>0, <1>1, <2>6 DEF JoinRejected, AfterRefusal, Moves, Founds, Call
  <2> QED BY <1>4, <2>1, <2>2, <2>3, <2>4, <2>5, <2>6 DEF MemberNext
<1>5. CASE RedeemNext(p)
  <2>1. ASSUME NEW i, NEW u, AcceptRead(p, i, u) PROVE FALSE
    BY <1>3, <2>1 DEF AcceptRead, Founds, Idle
  <2>2. CASE AcceptMarkUsed(p)
    BY <1>0, <1>1, <2>2 DEF AcceptMarkUsed, Founds, Call
  <2>3. ASSUME NEW i, NEW pc \in {"resending", "revoking"}, InviteRead(p, i, pc) PROVE FALSE
    BY <1>3, <2>3 DEF InviteRead, Founds, Idle
  <2>4. CASE AcceptRevert(p) \/ ResendInvite(p) \/ RevokeInvite(p)
    BY <1>1, <2>4 DEF AcceptRevert, ResendInvite, RevokeInvite
  <2> QED BY <1>5, <2>1, <2>2, <2>3, <2>4 DEF RedeemNext
<1>6. CASE GroupNext(p)
  <2>1. ASSUME NEW g, NEW pc \in {"updating", "ending"}, GroupRead(p, g, pc) PROVE FALSE
    BY <1>3, <2>1 DEF GroupRead, Founds, Idle
  <2> QED BY <1>1, <1>6, <2>1 DEF GroupNext, GroupWrite
<1>7. CASE AccountNext(p)
  <2>1. ASSUME NEW u, DeleteAccountList(p, u) PROVE FALSE
    BY <1>3, <2>1 DEF DeleteAccountList, Founds, Idle
  <2>2. ASSUME NEW g, ClassifyGroup(p, g) PROVE FALSE
    BY <1>0, <1>1, <2>2 DEF ClassifyGroup, Founds, Call
  <2>3. CASE CheckRetained(p)
    BY <1>0, <1>1, <2>3 DEF CheckRetained, Founds, Call
  <2>4. CASE PurgeUserDependents(p)
    <3>1. calls' = [calls EXCEPT ![p].pc = "leftAll"]
      BY <2>4 DEF PurgeUserDependents
    <3> QED BY <1>0, <3>1 DEF Founds, Call
  <2>5. ASSUME NEW g, PurgeLoadFails(p, g) PROVE FALSE
    BY <1>1, <2>5 DEF PurgeLoadFails
  <2>6. ~DeleteUser(p)
    BY <1>1 DEF DeleteUser
  <2> QED BY <1>7, <2>1, <2>2, <2>3, <2>4, <2>5, <2>6 DEF AccountNext
<1>8. CASE PurgeNext(p) \/ PurgeFails(p)
  <2>1. ASSUME NEW g, PurgeSnapshot(p, g) PROVE FALSE
    BY <1>0, <2>1 DEF PurgeSnapshot, Founds, Call
  <2>2. CASE PurgeDependents(p) \/ PurgeInvites(p)
    BY <1>0, <2>2 DEF PurgeDependents, PurgeInvites, Founds, Call
  <2>3. CASE PurgeRow(p) \/ PurgeFails(p)
    BY <1>0, <1>1, <2>3 DEF PurgeRow, PurgeFails, PurgeFailed, Founds, Call
  <2> QED BY <1>8, <2>1, <2>2, <2>3 DEF PurgeNext
<1>9. ~RequestFails(p)
  BY <1>1 DEF RequestFails
<1> QED BY <1>4, <1>5, <1>6, <1>7, <1>8, <1>9 DEF RequestNext

(* The invariant is inductive under the assumption.                        *)
LEMMA CalmKeeps ==
    ASSUME CalmInv, [Next /\ Calm']_vars
    PROVE  CalmInv'
<1>0. [Next]_vars /\ TypeOK /\ Calm /\ InvitesHeld /\ MarkedForOne /\ FoundersHaveNone
  BY DEF CalmInv
<1>1. TypeOK'
  BY <1>0, NextKeepsTypes
<1>2. Calm'
  BY <1>0 DEF Calm, vars
<1>3. \A i \in Invites : Usable(i) => invites[i].status = "live" /\ invites[i].usedBy = Null
  BY DEF Usable
<1>4. ASSUME NEW p \in Requests, HoldsInvite(calls'[p])
      PROVE  /\ calls'[p].invite \in Invites /\ calls'[p].copy.status = "live"
             /\ invites[calls'[p].invite].status # "unused"
             /\ invites'[calls'[p].invite].status # "unused"
  <2>0. calls[p] \in Call
    BY <1>0 DEF TypeOK, Callers
  <2>1. /\ calls'[p].invite \in Invites /\ calls'[p].copy.status = "live"
        /\ invites[calls'[p].invite].status # "unused"
    <3>1. CASE calls'[p] = calls[p]
      BY <1>0, <1>4, <3>1 DEF InvitesHeld
    <3>2. CASE calls'[p] # calls[p]
      <4>1. RequestNext(p) \/ PurgeFails(p)
        BY <1>0, <3>2, CallSteps
      <4>2. CASE \E i \in Invites : Usable(i) /\ calls'[p].invite = i /\ calls'[p].copy = invites[i]
        BY <1>3, <4>2
      <4>3. CASE /\ HoldsInvite(calls[p])
                 /\ calls'[p].invite = calls[p].invite /\ calls'[p].copy = calls[p].copy
        BY <1>0, <4>3 DEF InvitesHeld
      <4>4. CASE AcceptMarkUsed(p) /\ calls'[p] = [calls[p] EXCEPT !.pc = "joining"]
        BY <2>0, <4>3, <4>4 DEF AcceptMarkUsed, HoldsInvite, Call
      <4>5. CASE /\ calls[p].pc = "joining" /\ calls[p].invite # Null
                 /\ calls'[p] = [calls[p] EXCEPT !.pc = "reverting"]
        BY <2>0, <4>3, <4>5 DEF HoldsInvite, Call
      <4> QED BY <1>0, <1>4, <4>1, <4>2, <4>4, <4>5, HolderSteps
    <3> QED BY <3>1, <3>2
  <2> QED BY <1>0, <2>1, InviteStays
<1>5. ASSUME NEW p \in Requests, Redeems(calls'[p])
      PROVE  \/ /\ Redeems(calls[p]) /\ calls'[p].invite = calls[p].invite
                /\ calls'[p].user = calls[p].user
                /\ invites'[calls[p].invite].usedBy = calls[p].user
             \/ /\ calls[p].invite \in Invites /\ invites[calls[p].invite].usedBy = Null
                /\ calls'[p].invite = calls[p].invite /\ calls'[p].user = calls[p].user
                /\ calls[p].user \in Users
                /\ invites'[calls[p].invite].usedBy = calls[p].user
                /\ AcceptMarkUsed(p)
  <2>0. calls[p] \in Call /\ invites \in [Invites -> InviteRow] /\ HoldsInvite(calls'[p])
    BY <1>0, <1>5 DEF TypeOK, Callers, Redeems, HoldsInvite
  <2>1. ASSUME Redeems(calls[p]), calls'[p].invite = calls[p].invite, calls'[p].user = calls[p].user
        PROVE  invites'[calls[p].invite].usedBy = calls[p].user
    <3>1. /\ calls[p].invite \in Invites /\ invites[calls[p].invite].status # "unused"
          /\ invites[calls[p].invite].usedBy = calls[p].user /\ calls[p].user # Null
      BY <1>0, <2>1 DEF InvitesHeld, MarkedForOne, Redeems, HoldsInvite
    <3>2. \A q \in Requests : calls[q].invite = calls[p].invite => ~(AcceptRevert(q) \/ ResendInvite(q))
      <4>1. ~Redeems(Idle)
        BY DEF Redeems, Idle
      <4> QED BY <1>5, <2>1, <4>1, MarkIsLeftAlone
    <3> QED BY <1>0, <3>1, <3>2, InviteStays
  <2>2. CASE calls'[p] = calls[p]
    BY <1>5, <2>1, <2>2
  <2>3. CASE calls'[p] # calls[p]
    <3>1. RequestNext(p) \/ PurgeFails(p)
      BY <1>0, <2>3, CallSteps
    <3>2. CASE /\ AcceptMarkUsed(p) /\ calls'[p] = [calls[p] EXCEPT !.pc = "joining"]
               /\ MayMarkUsed(calls[p].invite, calls[p].user)
               /\ invites' = [invites EXCEPT ![calls[p].invite].usedBy = calls[p].user]
      <4>1. calls[p].invite \in Invites
        BY <1>0, <3>2 DEF InvitesHeld, HoldsInvite, AcceptMarkUsed
      <4>2. calls[p].user \in Users /\ invites[calls[p].invite].usedBy = Null
        BY <1>0, <3>2 DEF MayMarkUsed, Usable, TypeOK
      <4>3. invites'[calls[p].invite].usedBy = calls[p].user
        BY <2>0, <3>2, <4>1 DEF InviteRow
      <4>4. calls'[p].invite = calls[p].invite /\ calls'[p].user = calls[p].user
        BY <2>0, <3>2 DEF Call
      <4> QED BY <3>2, <4>1, <4>2, <4>3, <4>4
    <3>3. CASE /\ calls[p].pc = "joining" /\ calls[p].invite # Null
               /\ calls'[p] = [calls[p] EXCEPT !.pc = "reverting"]
      <4>1. calls'[p].invite = calls[p].invite /\ calls'[p].user = calls[p].user
        BY <2>0, <3>3 DEF Call
      <4>2. Redeems(calls[p])
        BY <3>3 DEF Redeems
      <4> QED BY <2>1, <4>1, <4>2
    <3>4. calls'[p].pc \notin {"accepting", "resending"}
      BY <1>5 DEF Redeems
    <3> QED BY <1>0, <2>0, <3>1, <3>2, <3>3, <3>4, HolderSteps
  <2> QED BY <2>2, <2>3
<1>6. InvitesHeld'
  BY <1>4 DEF InvitesHeld
<1>7. MarkedForOne'
  <2>1. ASSUME NEW p \in Requests, Redeems(calls'[p])
        PROVE  calls'[p].user \in Users /\ invites'[calls'[p].invite].usedBy = calls'[p].user
    BY <1>0, <1>5, <2>1 DEF MarkedForOne
  <2>2. ASSUME NEW p \in Requests, NEW q \in Requests, p # q,
               Redeems(calls'[p]), Redeems(calls'[q]), calls'[p].invite = calls'[q].invite
        PROVE  FALSE
    <3>1. ASSUME NEW r \in Requests, NEW s \in Requests, r # s, Redeems(calls[r]),
                 AcceptMarkUsed(s), invites[calls[s].invite].usedBy = Null
          PROVE  calls[r].invite # calls[s].invite
      BY <1>0, <3>1 DEF MarkedForOne
    <3>2. ~(AcceptMarkUsed(p) /\ AcceptMarkUsed(q) /\ calls'[p] # calls[p] /\ calls'[q] # calls[q])
      <4>1. AcceptMarkUsed(p) => RequestNext(p)
        BY DEF RequestNext, RedeemNext
      <4> QED BY <1>0, <2>2, <4>1, OthersKeepACall DEF Callers
    <3>3. \A r \in Requests : AcceptMarkUsed(r) /\ Redeems(calls'[r]) => calls'[r] # calls[r]
      BY DEF AcceptMarkUsed, Redeems
    <3> QED BY <1>0, <1>5, <2>2, <3>1, <3>2, <3>3 DEF MarkedForOne
  <2> QED BY <2>1, <2>2 DEF MarkedForOne
<1>8. FoundersHaveNone'
  BY <1>0, CallSteps, FounderSteps DEF FoundersHaveNone
<1> QED BY <1>1, <1>2, <1>6, <1>7, <1>8 DEF CalmInv

(* While no resend overlaps an accept of the same invite, an accept holds  *)
(* the only mark on the invite it redeems.                                 *)
THEOREM CalmInvariance == CalmSpec => []CalmInv
<1>1. Init => CalmInv
  <2> SUFFICES ASSUME Init PROVE CalmInv
    OBVIOUS
  <2>1. TypeOK
    BY IdleIsCall DEF Init, TypeOK
  <2>2. \A p \in Requests : calls[p].pc = "idle"
    BY DEF Init, Callers, Idle
  <2> QED BY <2>1, <2>2 DEF CalmInv, Calm, InvitesHeld, MarkedForOne, FoundersHaveNone, HoldsInvite,
         Redeems, Founds
<1>2. CalmInv /\ [Next /\ Calm']_vars => CalmInv'
  BY CalmKeeps
<1> QED BY <1>1, <1>2, PTL DEF CalmSpec

(* Then whoever joins on an invite is the one it is marked as used by: two *)
(* accepts of one invite do not both end in a membership.                  *)
THEOREM OneRedeems == CalmSpec => RedeemedByOne
<1> DEFINE One == \A p \in Requests : Join(p) /\ calls[p].invite # Null =>
                     invites[calls[p].invite].usedBy = calls[p].user
<1>1. ASSUME CalmInv, NEW p \in Requests, Join(p), calls[p].invite # Null
      PROVE  invites[calls[p].invite].usedBy = calls[p].user
  BY <1>1 DEF CalmInv, MarkedForOne, FoundersHaveNone, Founds, Redeems, Join
<1>2. CalmInv /\ [Next /\ Calm']_vars => [One]_vars
  BY <1>1
<1>3. CalmSpec => [][One]_vars
  BY <1>2, CalmInvariance, PTL DEF CalmSpec
<1> QED BY <1>3 DEF RedeemedByOne

(* A call that has marked an invite joins, is rejected, takes the mark back*)
(* or fails.                                                               *)
LEMMA RedeemerSteps ==
    ASSUME TypeOK, [Next]_vars, NEW p \in Requests, calls[p].pc \in {"joining", "reverting"},
           calls'[p] # calls[p]
    PROVE  Join(p) \/ JoinRejected(p) \/ AcceptRevert(p) \/ RequestFails(p)
<1>1. RequestNext(p) \/ PurgeFails(p)
  BY CallSteps
<1>2. CASE MemberNext(p)
  BY <1>2 DEF MemberNext, CreateGroupCheck, CreateGroupInsert, CreateGroupRollback, AdminAddMember,
     FindMember, RemoveMember, UpdateMemberRole, Begins
<1>3. CASE RedeemNext(p)
  BY <1>3 DEF RedeemNext, AcceptRead, AcceptMarkUsed, InviteRead, ResendInvite, RevokeInvite, Begins
<1>4. ~GroupNext(p) /\ ~AccountNext(p)
  BY DEF GroupNext, GroupRead, GroupWrite, AccountNext, DeleteAccountList, ClassifyGroup,
     CheckRetained, PurgeLoadFails, PurgeUserDependents, DeleteUser, Begins
<1>5. ~PurgeNext(p) /\ ~PurgeFails(p)
  BY DEF PurgeNext, PurgeSnapshot, PurgeDependents, PurgeInvites, PurgeRow, PurgeFails
<1> QED BY <1>1, <1>2, <1>3, <1>4, <1>5 DEF RequestNext

(* Then an accept that ends without a membership leaves no mark of it on   *)
(* the invite (AcceptInvite's compensating revert), unless the request     *)
(* failed before the revert or in it.                                      *)
THEOREM NoMarkInVain == CalmSpec => NotUsedInVain
<1> DEFINE Clean(p) ==
      LET call == calls[p]
      IN  call.pc \in {"joining", "reverting"} /\ call.invite # Null /\ calls'[p] = Idle =>
            \/ \E m \in Rows : members'[m].group = call.group /\ members'[m].user = call.user
            \/ invites'[call.invite].status = "gone"
            \/ invites'[call.invite].usedBy # call.user
            \/ RequestFails(p)
<1>1. ASSUME CalmInv, [Next]_vars, NEW p \in Requests
      PROVE  Clean(p)
  <2> SUFFICES ASSUME calls[p].pc \in {"joining", "reverting"}, calls[p].invite # Null,
                      calls'[p] = Idle
               PROVE  \/ \E m \in Rows : members'[m].group = calls[p].group
                                         /\ members'[m].user = calls[p].user
                      \/ invites'[calls[p].invite].status = "gone"
                      \/ invites'[calls[p].invite].usedBy # calls[p].user
                      \/ RequestFails(p)
    OBVIOUS
  <2>0. /\ TypeOK /\ p \in Callers /\ calls \in [Callers -> Call] /\ calls[p] \in Call
        /\ members = [m \in Rows |-> members[m]]
        /\ invites \in [Invites -> InviteRow]
    BY <1>1 DEF CalmInv, TypeOK, Callers
  <2>1. Idle.pc = "idle"
    BY DEF Idle
  <2>2. Join(p) \/ JoinRejected(p) \/ AcceptRevert(p) \/ RequestFails(p)
    BY <1>1, <2>0, <2>1, RedeemerSteps
  <2>3. CASE Join(p)
    <3>1. PICK m \in Rows : members' = [members EXCEPT ![m] =
             [group |-> calls[p].group, user |-> calls[p].user, role |-> calls[p].role]]
      BY <2>3 DEF Join, InsertMember
    <3> QED BY <2>0, <3>1
  <2>4. CASE JoinRejected(p)
    <3>1. calls[p].pc = "joining" /\ calls' = [calls EXCEPT ![p].pc = "reverting"]
      <4>1. calls[p].pc = "joining"
        BY <1>1, <2>4 DEF JoinRejected
      <4> QED BY <2>4, <4>1 DEF JoinRejected, AfterRefusal, Moves
    <3> QED BY <2>0, <2>1, <3>1 DEF Call
  <2>5. CASE AcceptRevert(p)
    <3>1. /\ calls[p].invite \in Invites /\ invites[calls[p].invite].status # "unused"
          /\ calls[p].user # Null
      BY <1>1, <2>5 DEF CalmInv, InvitesHeld, MarkedForOne, HoldsInvite, Redeems, AcceptRevert
    <3>2. PICK row : row = [calls[p].copy EXCEPT !.usedBy = Null]
      OBVIOUS
    <3>3. row.usedBy = Null /\ WriteInvite(calls[p].invite, row)
      BY <2>0, <2>5, <3>2 DEF Call, InviteRow, AcceptRevert
    <3> QED BY <2>0, <3>1, <3>3 DEF WriteInvite, InviteRow
  <2> QED BY <2>2, <2>3, <2>4, <2>5
<1>2. CalmInv /\ [Next /\ Calm']_vars => [\A p \in Requests : Clean(p)]_vars
  BY <1>1
<1>3. CalmSpec => [][\A p \in Requests : Clean(p)]_vars
  BY <1>2, CalmInvariance, PTL DEF CalmSpec
<1> QED BY <1>3 DEF NotUsedInVain
==============================================================================
