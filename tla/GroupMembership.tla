-------------------------- MODULE GroupMembership --------------------------
(***************************************************************************)
(* Who belongs to a group, and how groups and accounts end: the handlers   *)
(* of services/group_service.go, the purge of a deleted group              *)
(* (services/group_purge_service.go) and the deletion of an account        *)
(* (services/account_deletion.go), over the tables location_groups,        *)
(* group_memberships, group_invites, group_invites_audit and users.        *)
(*                                                                         *)
(* Every database transaction is one action.  A call record carries what   *)
(* the code carries in local variables from one transaction to the next.   *)
(* One tenant is modelled, and no default_group_id.                        *)
(***************************************************************************)
EXTENDS Integers, FiniteSets

CONSTANTS
    Groups, Users, Invites, Rows,  \* ids of the rows of the four tables
    Requests,      \* request handlers, each serving any call
    Sweepers,      \* group purge workers
    Cap,           \* MaxGroupMembershipsPerUser
    MaxFailures,   \* bound: failures of the object store or the database
    Null

Callers == Requests \union Sweepers

ASSUME GroupMembershipAssumption ==
    /\ Cap \in Nat \ {0} /\ MaxFailures \in Nat
    /\ IsFiniteSet(Rows) /\ Requests \intersect Sweepers = {}
    /\ Null \notin Groups \union Users \union Invites \union Rows

VARIABLES
    groups,    \* location_groups: status and created_by
    members,   \* group_memberships, by id
    invites,   \* group_invites, by id
    audits,    \* group_invites_audit: the invites redemptions were kept of
    users,     \* the ids of users
    calls,     \* what each handler and purge worker is doing
    failures

tables == <<groups, members, invites, audits, users>>
vars   == <<tables, calls, failures>>

(* An admin or a viewer is subject to the same rules as a user.            *)
Roles == {"owner", "user"}

NoRow == [group |-> Null, user |-> Null, role |-> "none"]

NoInvite == [status |-> "unused", group |-> Null, invitee |-> Null, usedBy |-> Null,
             expired |-> FALSE]

(* A call between two transactions.  group, user, row and invite are the   *)
(* ids it works on, role the one to give, copy the invite it read, todo    *)
(* the groups still to look at, and private those found private.           *)
Idle == [pc |-> "idle", group |-> Null, user |-> Null, row |-> Null, invite |-> Null,
         role |-> "user", copy |-> NoInvite, todo |-> {}, private |-> {}]

Exists(g) == g \in Groups /\ groups[g].status \in {"active", "pending_deletion"}

MembersOf(g) == {m \in Rows : members[m] # NoRow /\ members[m].group = g}

OwnersOf(g) == {m \in MembersOf(g) : members[m].role = "owner"}

SeatsOf(u) == {m \in Rows : members[m] # NoRow /\ members[m].user = u}

InvitesOf(g) == {i \in Invites : invites[i].status = "live" /\ invites[i].group = g}

UsedInvitesOf(g) == {i \in InvitesOf(g) : invites[i].usedBy # Null}

IsMember(g, u) == \E m \in MembersOf(g) : members[m].user = u

Init ==
    /\ groups = [g \in Groups |-> [status |-> "unused", by |-> Null]]
    /\ members = [m \in Rows |-> NoRow]
    /\ invites = [i \in Invites |-> NoInvite]
    /\ audits = {}
    /\ users = Users
    /\ calls = [p \in Callers |-> Idle]
    /\ failures = 0

-----------------------------------------------------------------------------
(* A request comes in, moves on, or returns.                               *)

Begins(p, call) == calls[p].pc = "idle" /\ calls' = [calls EXCEPT ![p] = call]

Moves(p, from, to) == calls[p].pc = from /\ calls' = [calls EXCEPT ![p].pc = to]

Returns(p) == calls' = [calls EXCEPT ![p] = Idle]

-----------------------------------------------------------------------------
(* Memberships.                                                            *)

(* Mutant: the count is not repeated under the lock.                       *)
MayInsertUncapped(g, u) == Exists(g) /\ u \in users /\ ~IsMember(g, u)

(* What CreateUnderCap needs, under the lock on the user: a seat, no row   *)
(* of the same group and user (there is an unique index, too), and the     *)
(* rows its foreign keys point at.                                         *)
MayInsert(g, u) ==
    /\ Exists(g) /\ u \in users
    /\ ~IsMember(g, u)
    /\ Cardinality(SeatsOf(u)) < Cap

(* An id nobody remembers stands for one that was never given out.         *)
Fresh(m) == members[m] = NoRow /\ \A p \in Callers : calls[p].row # m

(* createMembershipUnderCap at the end of CreateGroup, AdminAddMember and  *)
(* AcceptInvite; the latter two differ in what they do when it fails.      *)
InsertMember(p) ==
    LET call == calls[p]
    IN  /\ MayInsert(call.group, call.user)
        /\ \E m \in Rows :
              /\ Fresh(m)
              /\ members' = [members EXCEPT ![m] =
                    [group |-> call.group, user |-> call.user, role |-> call.role]]
        /\ Returns(p)
        /\ UNCHANGED <<groups, invites, audits, users, failures>>

Join(p) == calls[p].pc \in {"founding", "joining"} /\ InsertMember(p)

(* What a caller does about a membership that is refused: CreateGroup takes*)
(* the group back, AcceptInvite the mark on the invite, AdminAddMember has *)
(* nothing to take back.  Mutant: AcceptInvite has neither.                *)
AfterRefusalUncompensated(call) == IF call.pc = "founding" THEN "unfounding" ELSE "idle"
AfterRefusal(call) ==
    IF call.pc = "founding" THEN "unfounding"
    ELSE IF call.invite # Null THEN "reverting"
    ELSE "idle"

Failing == failures < MaxFailures /\ failures' = failures + 1

(* The transaction refuses the row, or fails though there is a seat; the   *)
(* caller does the same about either.                                      *)
JoinRejected(p) ==
    /\ calls[p].pc \in {"founding", "joining"}
    /\ IF AfterRefusal(calls[p]) = "idle" THEN Returns(p)
       ELSE Moves(p, calls[p].pc, AfterRefusal(calls[p]))
    /\ UNCHANGED <<tables, failures>>

(* CreateGroup, up to its pre-check, its insert, and the rollback of that. *)
CreateGroupCheck(p, u) ==
    /\ u \in users
    /\ Cardinality(SeatsOf(u)) < Cap
    /\ Begins(p, [Idle EXCEPT !.pc = "creating", !.user = u, !.role = "owner"])
    /\ UNCHANGED <<tables, failures>>

CreateGroupInsert(p) ==
    /\ calls[p].pc = "creating"
    /\ \/ /\ calls[p].user \in users
          /\ \E g \in Groups :
                /\ groups[g].status = "unused"
                /\ groups' = [groups EXCEPT ![g] = [status |-> "active", by |-> calls[p].user]]
                /\ calls' = [calls EXCEPT ![p].pc = "founding", ![p].group = g]
       \/ /\ calls[p].user \notin users \/ \A g \in Groups : groups[g].status # "unused"
          /\ Returns(p)
          /\ UNCHANGED groups
    /\ UNCHANGED <<members, invites, audits, users, failures>>

(* The row goes unless another row references it: the memberships and the  *)
(* invites of the group have foreign keys without a cascade.               *)
DeleteGroupRow(g) ==
    groups' = [groups EXCEPT ![g].status =
        IF MembersOf(g) = {} /\ InvitesOf(g) = {} THEN "gone" ELSE @]

CreateGroupRollback(p) ==
    /\ calls[p].pc = "unfounding"
    /\ DeleteGroupRow(calls[p].group)
    /\ Returns(p)
    /\ UNCHANGED <<members, invites, audits, users, failures>>

AdminAddMember(p, g, u, role) ==
    /\ Exists(g) /\ u \in users
    /\ ~IsMember(g, u)
    /\ Begins(p, [Idle EXCEPT !.pc = "joining", !.group = g, !.user = u, !.role = role])
    /\ UNCHANGED <<tables, failures>>

(* RemoveMember, LeaveGroup and UpdateMemberRole look the row up ...       *)
FindMember(p, m, pc, role) ==
    /\ members[m] # NoRow
    /\ Begins(p, [Idle EXCEPT !.pc = pc, !.row = m, !.role = role])
    /\ UNCHANGED <<tables, failures>>

(* Mutant: the role was read before the lock was taken.                    *)
LosesLastOwnerUnlocked(m, g) == FALSE

(* ... and check under the lock on the group that an owner stays.          *)
LosesLastOwner(m, g) == m \in OwnersOf(g) /\ Cardinality(OwnersOf(g)) <= 1

RemoveMember(p) ==
    LET m == calls[p].row
        g == members[m].group
        refused == \/ members[m] = NoRow
                   \/ LosesLastOwner(m, g)
                   \/ Cardinality(MembersOf(g)) <= 1
    IN  /\ calls[p].pc = "leaving"
        /\ members' = IF refused THEN members ELSE [members EXCEPT ![m] = NoRow]
        /\ Returns(p)
        /\ UNCHANGED <<groups, invites, audits, users, failures>>

UpdateMemberRole(p) ==
    LET m == calls[p].row
        g == members[m].group
        refused == members[m] = NoRow \/ (calls[p].role # "owner" /\ LosesLastOwner(m, g))
    IN  /\ calls[p].pc = "promoting"
        /\ members' = IF refused THEN members ELSE [members EXCEPT ![m].role = calls[p].role]
        /\ Returns(p)
        /\ UNCHANGED <<groups, invites, audits, users, failures>>

-----------------------------------------------------------------------------
(* Invites.                                                                *)

(* An owner is never invited: the request is refused.                      *)
CreateInvite(i, g, invitee) ==
    /\ invites[i].status = "unused"
    /\ Exists(g)
    /\ invites' = [invites EXCEPT ![i] =
          [status |-> "live", group |-> g, invitee |-> invitee,
           usedBy |-> Null, expired |-> FALSE]]
    /\ UNCHANGED <<groups, members, audits, users, calls, failures>>

Usable(i) == invites[i].status = "live" /\ invites[i].usedBy = Null

(* Mutant: the empty role of an invite of old is given to the member.      *)
AcceptReadLegacy(p, i, u) ==
    /\ Usable(i) /\ u \in users
    /\ Begins(p, [Idle EXCEPT !.pc = "accepting", !.invite = i, !.copy = invites[i],
                              !.group = invites[i].group, !.user = u, !.role = "none"])
    /\ UNCHANGED <<tables, failures>>

(* AcceptInvite up to its pre-checks.  What these read is not used again.  *)
AcceptRead(p, i, u) ==
    /\ Usable(i) /\ ~invites[i].expired
    /\ invites[i].invitee \in {Null, u}
    /\ u \in users
    /\ ~IsMember(invites[i].group, u)
    /\ Cardinality(SeatsOf(u)) < Cap
    /\ Begins(p, [Idle EXCEPT !.pc = "accepting", !.invite = i, !.copy = invites[i],
                              !.group = invites[i].group, !.user = u])
    /\ UNCHANGED <<tables, failures>>

(* Mutant: without the compare-and-swap.                                   *)
MayMarkUsedUnchecked(i, u) == invites[i].status = "live" /\ u \in users

MayMarkUsed(i, u) == Usable(i) /\ u \in users

AcceptMarkUsed(p) ==
    LET i == calls[p].invite
    IN  /\ calls[p].pc = "accepting"
        /\ \/ /\ MayMarkUsed(i, calls[p].user)
              /\ invites' = [invites EXCEPT ![i].usedBy = calls[p].user]
              /\ calls' = [calls EXCEPT ![p].pc = "joining"]
           \/ /\ ~MayMarkUsed(i, calls[p].user)
              /\ Returns(p)
              /\ UNCHANGED invites
        /\ UNCHANGED <<groups, members, audits, users, failures>>

(* A write of every column of the row that was read, if it is still there. *)
WriteInvite(i, row) ==
    invites' = IF invites[i].status = "live" THEN [invites EXCEPT ![i] = row] ELSE invites

AcceptRevert(p) ==
    /\ calls[p].pc = "reverting"
    /\ WriteInvite(calls[p].invite, [calls[p].copy EXCEPT !.usedBy = Null])
    /\ Returns(p)
    /\ UNCHANGED <<groups, members, audits, users, failures>>

(* ResendInvite and RevokeInviteForGroup read the invite ...               *)
InviteRead(p, i, pc) ==
    /\ Usable(i)
    /\ pc = "resending" => invites[i].invitee # Null
    /\ Begins(p, [Idle EXCEPT !.pc = pc, !.invite = i, !.copy = invites[i]])
    /\ UNCHANGED <<tables, failures>>

(* ... and write it back with a new expiry and token, or delete it.        *)
ResendInvite(p) ==
    /\ calls[p].pc = "resending"
    /\ WriteInvite(calls[p].invite, [calls[p].copy EXCEPT !.expired = FALSE])
    /\ Returns(p)
    /\ UNCHANGED <<groups, members, audits, users, failures>>

DeleteInvites(S) ==
    invites' = [i \in Invites |->
        IF i \in S THEN [invites[i] EXCEPT !.status = "gone"] ELSE invites[i]]

RevokeInvite(p) ==
    /\ calls[p].pc = "revoking"
    /\ DeleteInvites({calls[p].invite})
    /\ Returns(p)
    /\ UNCHANGED <<groups, members, audits, users, failures>>

Expire(i) ==
    /\ Usable(i) /\ ~invites[i].expired
    /\ invites' = [invites EXCEPT ![i].expired = TRUE]
    /\ UNCHANGED <<groups, members, audits, users, calls, failures>>

-----------------------------------------------------------------------------
(* UpdateGroup and InitiateGroupDeletion: Get, then an Update of every     *)
(* column, of which only the status is modelled.                           *)

GroupRead(p, g, pc) ==
    /\ Exists(g)
    /\ pc = "updating" => groups[g].status = "active"
    /\ Begins(p, [Idle EXCEPT !.pc = pc, !.group = g])
    /\ UNCHANGED <<tables, failures>>

GroupWrite(p) ==
    LET g == calls[p].group
        status == IF calls[p].pc = "updating" THEN "active" ELSE "pending_deletion"
    IN  /\ calls[p].pc \in {"updating", "ending"}
        /\ groups' = IF Exists(g) THEN [groups EXCEPT ![g].status = status] ELSE groups
        /\ Returns(p)
        /\ UNCHANGED <<members, invites, audits, users, failures>>

-----------------------------------------------------------------------------
(* purgeGroup, run by the purge worker for every group pending deletion,   *)
(* and by DeleteAccount for every private group: pc goes from "purging" to *)
(* "snapshot", "wiped", "uninvited" and back to "purging".                 *)

SweepList(p) ==
    /\ p \in Sweepers
    /\ Begins(p, [Idle EXCEPT !.pc = "purging",
                              !.todo = {g \in Groups : groups[g].status = "pending_deletion"}])
    /\ UNCHANGED <<tables, failures>>

(* snapshotUsedInvites.  DeleteAccount looks the group up first, and stops *)
(* when it is gone.                                                        *)
PurgeSnapshot(p, g) ==
    /\ calls[p].pc = "purging"
    /\ g \in calls[p].todo
    /\ p \in Requests => Exists(g)
    /\ audits' = audits \union UsedInvitesOf(g)
    /\ calls' = [calls EXCEPT ![p].pc = "snapshot", ![p].group = g, ![p].todo = @ \ {g}]
    /\ UNCHANGED <<groups, members, invites, users, failures>>

(* The blobs and, in one transaction, everything the group owns.           *)
PurgeDependents(p) ==
    /\ calls[p].pc = "snapshot"
    /\ members' = [m \in Rows |-> IF m \in MembersOf(calls[p].group) THEN NoRow ELSE members[m]]
    /\ calls' = [calls EXCEPT ![p].pc = "wiped"]
    /\ UNCHANGED <<groups, invites, audits, users, failures>>

(* Mutant: only the unused invites are deleted.                            *)
PurgeInvitesUnused(p) ==
    /\ calls[p].pc = "wiped"
    /\ DeleteInvites(InvitesOf(calls[p].group) \ UsedInvitesOf(calls[p].group))
    /\ calls' = [calls EXCEPT ![p].pc = "uninvited"]
    /\ UNCHANGED <<groups, members, audits, users, failures>>

PurgeInvites(p) ==
    /\ calls[p].pc = "wiped"
    /\ DeleteInvites(InvitesOf(calls[p].group))
    /\ calls' = [calls EXCEPT ![p].pc = "uninvited"]
    /\ UNCHANGED <<groups, members, audits, users, failures>>

(* The purge of a group has failed: the worker goes on with the next one,  *)
(* the deletion of an account ends.                                        *)
PurgeFailed(p) == IF p \in Sweepers THEN calls' = [calls EXCEPT ![p].pc = "purging"] ELSE Returns(p)

PurgeRow(p) ==
    LET g == calls[p].group
    IN  /\ calls[p].pc = "uninvited"
        /\ DeleteGroupRow(g)
        /\ IF Exists(g) /\ groups'[g].status = "gone" THEN calls' = [calls EXCEPT ![p].pc = "purging"]
           ELSE PurgeFailed(p)
        /\ UNCHANGED <<members, invites, audits, users, failures>>

PurgeFails(p) ==
    /\ calls[p].pc \in {"snapshot", "wiped", "uninvited"}
    /\ Failing
    /\ PurgeFailed(p)
    /\ UNCHANGED tables

(* The tick ends with CleanExpiredInvites.                                 *)
SweepDone(p) ==
    /\ p \in Sweepers
    /\ calls[p].pc = "purging" /\ calls[p].todo = {}
    /\ DeleteInvites({i \in Invites : Usable(i) /\ invites[i].expired})
    /\ Returns(p)
    /\ UNCHANGED <<groups, members, audits, users, failures>>

-----------------------------------------------------------------------------
(* DeleteAccount.                                                          *)

DeleteAccountList(p, u) ==
    /\ u \in users
    /\ Begins(p, [Idle EXCEPT !.pc = "classifying", !.user = u,
                              !.todo = {members[m].group : m \in SeatsOf(u)}])
    /\ UNCHANGED <<tables, failures>>

IsPrivate(g, u) == IsMember(g, u) /\ Cardinality(MembersOf(g)) = 1

SoleOwnerOfShared(g, u) ==
    /\ Cardinality(MembersOf(g)) > 1
    /\ \E m \in OwnersOf(g) : members[m].user = u /\ OwnersOf(g) = {m}

(* classifyGroups looks at one group after the other.                      *)
ClassifyGroup(p, g) ==
    LET u == calls[p].user
    IN  /\ calls[p].pc = "classifying"
        /\ g \in calls[p].todo
        /\ IF SoleOwnerOfShared(g, u) THEN Returns(p)
           ELSE calls' = [calls EXCEPT ![p].todo = @ \ {g},
                             ![p].private = IF IsPrivate(g, u) THEN @ \union {g} ELSE @]
        /\ UNCHANGED <<tables, failures>>

RetainsGroup(u, private) == \E g \in Groups \ private : Exists(g) /\ groups[g].by = u

(* HasRetainedOwnedContent; what the user wrote elsewhere is not modelled, *)
(* so it may always say yes.                                               *)
CheckRetained(p) ==
    /\ calls[p].pc = "classifying" /\ calls[p].todo = {}
    /\ \/ Returns(p)
       \/ /\ ~RetainsGroup(calls[p].user, calls[p].private)
          /\ calls' = [calls EXCEPT ![p].pc = "purging", ![p].todo = calls[p].private]
    /\ UNCHANGED <<tables, failures>>

PurgeLoadFails(p, g) ==
    /\ p \in Requests
    /\ calls[p].pc = "purging"
    /\ g \in calls[p].todo /\ ~Exists(g)
    /\ Returns(p)
    /\ UNCHANGED <<tables, failures>>

(* The audits of the invites it created go as well; who that is, is not    *)
(* modelled.                                                               *)
PurgeUserDependents(p) ==
    LET u == calls[p].user
    IN  /\ p \in Requests
        /\ calls[p].pc = "purging" /\ calls[p].todo = {}
        /\ members' = [m \in Rows |-> IF m \in SeatsOf(u) THEN NoRow ELSE members[m]]
        /\ \E created \in SUBSET audits :
              audits' = {i \in audits \ created : invites[i].usedBy # u}
        /\ calls' = [calls EXCEPT ![p].pc = "leftAll"]
        /\ UNCHANGED <<groups, invites, users, failures>>

(* The row goes unless a foreign key holds it, of the tables modelled or   *)
(* of the invites and the content the user created.                        *)
DeleteUser(p) ==
    LET u == calls[p].user
        held == \/ SeatsOf(u) # {}
                \/ RetainsGroup(u, {})
                \/ \E i \in Invites :
                      invites[i].usedBy = u /\ (invites[i].status = "live" \/ i \in audits)
    IN  /\ calls[p].pc = "leftAll"
        /\ users' \in IF held THEN {users} ELSE {users, users \ {u}}
        /\ Returns(p)
        /\ UNCHANGED <<groups, members, invites, audits, failures>>

(* A request ends where it is: its process dies, or a transaction fails of *)
(* a call that returns then.  CreateGroup and AcceptInvite do what they can*)
(* to take back what they did; when that fails it stays.                   *)
RequestFails(p) ==
    /\ calls[p].pc # "idle"
    /\ Failing
    /\ Returns(p)
    /\ UNCHANGED tables

-----------------------------------------------------------------------------
InviteNext ==
    \/ \E i \in Invites, g \in Groups, u \in Users \union {Null} : CreateInvite(i, g, u)
    \/ \E i \in Invites : Expire(i)

MemberNext(p) ==
    \/ Join(p) \/ JoinRejected(p)
    \/ \E u \in Users : CreateGroupCheck(p, u)
    \/ CreateGroupInsert(p) \/ CreateGroupRollback(p)
    \/ \E g \in Groups, u \in Users, role \in Roles : AdminAddMember(p, g, u, role)
    \/ \E m \in Rows : FindMember(p, m, "leaving", "user")
    \/ \E m \in Rows, role \in Roles : FindMember(p, m, "promoting", role)
    \/ RemoveMember(p) \/ UpdateMemberRole(p)

RedeemNext(p) ==
    \/ \E i \in Invites, u \in Users : AcceptRead(p, i, u)
    \/ AcceptMarkUsed(p) \/ AcceptRevert(p)
    \/ \E i \in Invites, pc \in {"resending", "revoking"} : InviteRead(p, i, pc)
    \/ ResendInvite(p) \/ RevokeInvite(p)

GroupNext(p) ==
    \/ \E g \in Groups, pc \in {"updating", "ending"} : GroupRead(p, g, pc)
    \/ GroupWrite(p)

PurgeNext(p) ==
    \/ \E g \in Groups : PurgeSnapshot(p, g)
    \/ PurgeDependents(p) \/ PurgeInvites(p) \/ PurgeRow(p)

SweepNext(p) == SweepList(p) \/ PurgeNext(p) \/ SweepDone(p)

AccountNext(p) ==
    \/ \E u \in Users : DeleteAccountList(p, u)
    \/ \E g \in Groups : ClassifyGroup(p, g)
    \/ CheckRetained(p)
    \/ \E g \in Groups : PurgeLoadFails(p, g)
    \/ PurgeUserDependents(p) \/ DeleteUser(p)

RequestNext(p) ==
    \/ MemberNext(p) \/ RedeemNext(p) \/ GroupNext(p) \/ AccountNext(p) \/ PurgeNext(p)
    \/ RequestFails(p)

Next ==
    \/ InviteNext
    \/ \E p \in Requests : RequestNext(p)
    \/ \E p \in Sweepers : SweepNext(p)
    \/ \E p \in Callers : PurgeFails(p)

Spec == Init /\ [][Next]_vars

(* The purge worker is restarted when it stops, ticks for ever and is not  *)
(* paused for good; nothing is asked of the requests.                      *)
Fairness == \A p \in Sweepers : WF_vars(SweepNext(p))

FairSpec == Spec /\ Fairness

(* Assumption: no ResendInvite overlaps an accept of the same invite, whose*)
(* mark its stale write would remove; nothing in the code prevents it.     *)
Calm ==
    \A p, q \in Requests :
        /\ calls[p].pc = "resending"
        /\ calls[q].pc \in {"accepting", "joining", "reverting"}
        => calls[p].invite # calls[q].invite

CalmSpec == Init /\ [][Next /\ Calm']_vars

-----------------------------------------------------------------------------
(* Every table and every call has its shape.                               *)
Pcs == {"idle", "creating", "founding", "unfounding", "joining", "reverting", "accepting",
        "leaving", "promoting", "resending", "revoking", "updating", "ending", "purging",
        "snapshot", "wiped", "uninvited", "classifying", "leftAll"}

InviteRow == [status : {"unused", "live", "gone"}, group : Groups \union {Null},
              invitee : Users \union {Null}, usedBy : Users \union {Null}, expired : BOOLEAN]

Call == [pc : Pcs, group : Groups \union {Null}, user : Users \union {Null},
         row : Rows \union {Null}, invite : Invites \union {Null}, role : Roles,
         copy : InviteRow, todo : SUBSET Groups, private : SUBSET Groups]

TypeOK ==
    /\ groups \in [Groups -> [status : {"unused", "active", "pending_deletion", "gone"},
                               by : Users \union {Null}]]
    /\ members \in [Rows -> [group : Groups, user : Users, role : Roles] \union {NoRow}]
    /\ invites \in [Invites -> InviteRow]
    /\ audits \subseteq Invites
    /\ users \subseteq Users
    /\ calls \in [Callers -> Call]
    /\ failures \in 0..MaxFailures

(* No user holds more memberships than the cap, however many groups they   *)
(* create, invites they accept and administrators add them at once         *)
(* (CreateUnderCap's count under the lock).                                *)
WithinCap == \A u \in Users : Cardinality(SeatsOf(u)) <= Cap

(* A group that has an owner keeps one as long as it has members, whatever *)
(* leaves and demotions race; only the deletion of an account is exempt    *)
(* (RemoveMember and UpdateMemberRole under the lock on the group).        *)
KeepsAnOwner ==
    [][\A g \in Groups : OwnersOf(g) # {} /\ MembersOf(g)' # {} =>
         \/ OwnersOf(g)' # {}
         \/ \E p \in Requests : PurgeUserDependents(p)]_vars

(* Whoever joins on an invite is the one it is marked as used by: two      *)
(* accepts of one invite do not both end in a membership (MarkUsed).       *)
RedeemedByOne ==
    [][\A p \in Requests : Join(p) /\ calls[p].invite # Null =>
         invites[calls[p].invite].usedBy = calls[p].user]_vars

(* An accept that ends without a membership leaves no mark of it on the    *)
(* invite (AcceptInvite's compensating revert), unless the request failed  *)
(* before the revert or in it.                                             *)
NotUsedInVain ==
    [][\A p \in Requests :
         LET call == calls[p]
         IN  call.pc \in {"joining", "reverting"} /\ call.invite # Null /\ calls'[p] = Idle =>
               \/ \E m \in Rows : members'[m].group = call.group /\ members'[m].user = call.user
               \/ invites'[call.invite].status = "gone"
               \/ invites'[call.invite].usedBy # call.user
               \/ RequestFails(p)]_vars

(* A group marked for deletion is purged, through failures of the object   *)
(* store and whatever joins and invites come between the steps of the      *)
(* purge (or an UpdateGroup that read it before revives it).               *)
PurgeEnds ==
    \A g \in Groups : groups[g].status = "pending_deletion" ~> groups[g].status # "pending_deletion"
=============================================================================
