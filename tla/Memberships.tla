---------------------------- MODULE Memberships ----------------------------
(***************************************************************************)
(* The team of one organization (backend/organizations) or of one vendor   *)
(* business (backend/vendors).  Both packages have the same operations;    *)
(* they differ in their roles, so `kind' says which of the two this is.    *)
(*                                                                         *)
(* Every write locks the team's row before it reads anything, so each      *)
(* operation is one step.  The exception is accept_invitation, which looks *)
(* the link up first and locks the team of the row it found.               *)
(*                                                                         *)
(* A user stands for a person and the address of its account.  An address  *)
(* never changes.  The audit trail, names and e-mails are left out.        *)
(***************************************************************************)
EXTENDS Integers, FiniteSets

CONSTANTS
  User,         \* people, each with one address
  Founder,      \* who created the team
  Nobody,       \* the address and inviter of a row that does not exist
  Invitation,   \* rows of the invitation table
  InviteFor,    \* INVITATION_MAX_AGE
  MaxResends,   \* how often a run rotates the token of one row
  MaxOpened,    \* how many accept requests a run has in flight at once
  MaxTime       \* the last instant a run looks at

ASSUME TeamAssumption ==
  /\ Founder \in User
  /\ Nobody \notin User
  /\ InviteFor \in Nat \ {0}
  /\ MaxResends \in Nat
  /\ MaxOpened \in Nat
  /\ MaxTime \in Nat

VARIABLES
  kind,         \* "organization" or "vendor"
  member,       \* the role of each user in the team
  invitation,   \* the invitation rows
  opened,       \* the link each user's accept request has looked up
  active,       \* users whose account is confirmed and active
  now           \* the clock the transactions read

vars == <<kind, member, invitation, opened, active, now>>

InvitationStatus == {"NONE", "PENDING", "ACCEPTED", "REVOKED", "EXPIRED"}

\* The roles each role may invite, remove and manage the invitations of.
OrganizationManages == [OWNER |-> {"ADMIN", "STAFF"}, ADMIN |-> {"STAFF"}, STAFF |-> {}]
VendorManages == [OWNER |-> {"MEMBER"}, MEMBER |-> {}]
MANAGED_ROLES == [organization |-> OrganizationManages, vendor |-> VendorManages]

Role == DOMAIN MANAGED_ROLES[kind]
Invitable == Role \ {"OWNER"}

\* What the owner becomes when ownership moves on.
FormerOwner == IF kind = "organization" THEN "ADMIN" ELSE "MEMBER"

\* The link held by an accept request: the row found and the digest looked up.
NoLink == [inv |-> Nobody, digest |-> 0]

NoInvitation == [status |-> "NONE", email |-> Nobody, role |-> "NONE",
                 invited_by |-> Nobody, expires |-> 0, digest |-> 0]

-----------------------------------------------------------------------------
(* Reads *)

IsMember(u) == member[u] # "NONE"

\* membership_for finds the caller's row and the role manages r.
Manages(u, r) ==
  /\ u \in active
  /\ IsMember(u)
  /\ r \in MANAGED_ROLES[kind][member[u]]

IsOwner(u) == u \in active /\ member[u] = "OWNER"

Pending(i) == invitation[i].status = "PENDING"

is_usable(i) == Pending(i) /\ invitation[i].expires > now

\* The inviter is still an active member who may grant the role.
Vouched(row) ==
  row.invited_by \in User /\ Manages(row.invited_by, row.role)

\* Mutant: the row is trusted as it was found before the lock.
Acceptable_AsFound(u) ==
  LET row == invitation[opened[u].inv]
  IN  is_usable(opened[u].inv) /\ row.email = u /\ Vouched(row)

\* What accept_invitation rechecks under the lock.
Acceptable(u) ==
  LET row == invitation[opened[u].inv]
  IN  /\ row.digest = opened[u].digest
      /\ is_usable(opened[u].inv)
      /\ row.email = u
      /\ Vouched(row)

-----------------------------------------------------------------------------
(* Members *)

TeamInit ==
  /\ kind \in {"organization", "vendor"}
  /\ member = [u \in User |-> IF u = Founder THEN "OWNER" ELSE "NONE"]
  /\ invitation = [i \in Invitation |-> NoInvitation]
  /\ opened = [u \in User |-> NoLink]
  /\ active \in {a \in SUBSET User : Founder \in a}
  /\ now = 0

ChangeRole(p, u, r) ==
  /\ kind = "organization"
  /\ IsOwner(p)
  /\ member[u] \in Invitable \ {r}
  /\ r \in Invitable
  /\ member' = [member EXCEPT ![u] = r]
  /\ UNCHANGED <<kind, invitation, opened, active, now>>

RemoveMember(p, u) ==
  /\ IsMember(u)
  /\ u # p
  /\ Manages(p, member[u])
  /\ member' = [member EXCEPT ![u] = "NONE"]
  /\ UNCHANGED <<kind, invitation, opened, active, now>>

\* Mutant: the owner may simply leave.
Leave_Anyone(u) ==
  /\ u \in active
  /\ IsMember(u)
  /\ member' = [member EXCEPT ![u] = "NONE"]
  /\ UNCHANGED <<kind, invitation, opened, active, now>>

Leave(u) ==
  /\ u \in active
  /\ member[u] \in Invitable
  /\ member' = [member EXCEPT ![u] = "NONE"]
  /\ UNCHANGED <<kind, invitation, opened, active, now>>

TransferOwnership(p, u) ==
  /\ IsOwner(p)
  /\ IsMember(u)
  /\ u # p
  /\ u \in active
  /\ member' = [member EXCEPT ![p] = FormerOwner, ![u] = "OWNER"]
  /\ UNCHANGED <<kind, invitation, opened, active, now>>

-----------------------------------------------------------------------------
(* Invitations *)

\* Mutant: members are not looked up when somebody is invited.
MayInvite_AnyAddress(u) ==
  ~\E j \in Invitation : invitation[j].email = u /\ is_usable(j)

\* Only an outsider without a usable invitation can be invited.
MayInvite(u) ==
  /\ ~IsMember(u)
  /\ ~\E j \in Invitation : invitation[j].email = u /\ is_usable(j)

\* A stale pending row of the same address is closed in the same transaction.
CreateInvitation(p, u, r, i) ==
  /\ Manages(p, r)
  /\ MayInvite(u)
  /\ invitation[i].status = "NONE"
  /\ invitation' =
       [j \in Invitation |->
          IF j = i
          THEN [status |-> "PENDING", email |-> u, role |-> r, invited_by |-> p,
                expires |-> now + InviteFor, digest |-> 0]
          ELSE IF invitation[j].email = u /\ Pending(j)
               THEN [invitation[j] EXCEPT !.status = "EXPIRED"]
               ELSE invitation[j]]
  /\ UNCHANGED <<kind, member, opened, active, now>>

\* The token is replaced and the expiry restarts; the inviter stays who it was.
ResendInvitation(p, i) ==
  /\ Pending(i)
  /\ Manages(p, invitation[i].role)
  /\ invitation[i].digest < MaxResends
  /\ invitation' = [invitation EXCEPT ![i].digest = invitation[i].digest + 1,
                                      ![i].expires = now + InviteFor]
  /\ UNCHANGED <<kind, member, opened, active, now>>

\* Mutant: any invitation can be revoked, also one that was accepted.
RevokeInvitation_AnyStatus(p, i) ==
  /\ invitation[i].status # "NONE"
  /\ Manages(p, invitation[i].role)
  /\ invitation' = [invitation EXCEPT ![i].status = "REVOKED"]
  /\ UNCHANGED <<kind, member, opened, active, now>>

RevokeInvitation(p, i) ==
  /\ Pending(i)
  /\ Manages(p, invitation[i].role)
  /\ invitation' = [invitation EXCEPT ![i].status = "REVOKED"]
  /\ UNCHANGED <<kind, member, opened, active, now>>

\* accept_invitation up to the lock: a link that is still current is found.
\* Links get forwarded, so anybody may open one.
OpenLink(u, i) ==
  /\ u \in active
  /\ opened[u] = NoLink
  /\ Cardinality({v \in User : opened[v] # NoLink}) < MaxOpened
  /\ invitation[i].status # "NONE"
  /\ opened' = [opened EXCEPT ![u] = [inv |-> i, digest |-> invitation[i].digest]]
  /\ UNCHANGED <<kind, member, invitation, active, now>>

\* accept_invitation under the lock.  A member keeps its role.
AcceptInvitation(u) ==
  /\ opened[u] # NoLink
  /\ Acceptable(u)
  /\ LET i == opened[u].inv
     IN  /\ member' = [member EXCEPT ![u] =
                         IF IsMember(u) THEN member[u] ELSE invitation[i].role]
         /\ invitation' = [invitation EXCEPT ![i].status = "ACCEPTED"]
  /\ opened' = [opened EXCEPT ![u] = NoLink]
  /\ UNCHANGED <<kind, active, now>>

RefuseLink(u) ==
  /\ opened[u] # NoLink
  /\ ~Acceptable(u)
  /\ opened' = [opened EXCEPT ![u] = NoLink]
  /\ UNCHANGED <<kind, member, invitation, active, now>>

-----------------------------------------------------------------------------
(* Accounts and time *)

\* An account is confirmed (verify_email), or switched off or on by an
\* administrator.
AccountChanges(u) ==
  /\ active' = IF u \in active THEN active \ {u} ELSE active \cup {u}
  /\ UNCHANGED <<kind, member, invitation, opened, now>>

Tick ==
  /\ now < MaxTime
  /\ now' = now + 1
  /\ UNCHANGED <<kind, member, invitation, opened, active>>

TeamNext ==
  \/ \E p, u \in User :
       \/ RemoveMember(p, u)
       \/ TransferOwnership(p, u)
       \/ \E r \in Invitable :
            \/ ChangeRole(p, u, r)
            \/ \E i \in Invitation : CreateInvitation(p, u, r, i)
  \/ \E p \in User, i \in Invitation :
       \/ ResendInvitation(p, i)
       \/ RevokeInvitation(p, i)
       \/ OpenLink(p, i)
  \/ \E u \in User : Leave(u) \/ AcceptInvitation(u) \/ RefuseLink(u) \/ AccountChanges(u)
  \/ Tick

TeamSpec == TeamInit /\ [][TeamNext]_vars

-----------------------------------------------------------------------------
(* Properties *)

InvitationRow ==
  [status: InvitationStatus, email: User \cup {Nobody}, role: Invitable \cup {"NONE"},
   invited_by: User \cup {Nobody}, expires: Nat, digest: Nat]

Link == {NoLink} \cup [inv: Invitation, digest: Nat]

\* Shape of the state; a row that exists has an address and an inviter among
\* the users and never invites an owner.
TeamTypeOK ==
  /\ kind \in {"organization", "vendor"}
  /\ member \in [User -> Role \cup {"NONE"}]
  /\ invitation \in [Invitation -> InvitationRow]
  /\ \A i \in Invitation : invitation[i].status # "NONE" =>
       invitation[i].email \in User /\ invitation[i].invited_by \in User
  /\ opened \in [User -> Link]
  /\ active \subseteq User
  /\ now \in Nat

\* A team has exactly one owner, whatever order its members are invited,
\* promoted, removed and handed the team.  The table's index only forbids a
\* second one.
OneOwner ==
  \E u \in User : \A v \in User : member[v] = "OWNER" <=> v = u

\* A pending invitation is for somebody outside, and an address has at most
\* one: so nobody who is removed or leaves has a link at hand to come back
\* with, and accept_invitation never meets a member.
PendingAreOutsiders ==
  \A i \in Invitation : Pending(i) =>
    /\ ~IsMember(invitation[i].email)
    /\ \A j \in Invitation :
         Pending(j) /\ invitation[j].email = invitation[i].email => j = i

\* Nobody joins except through the newest link of a pending, unexpired
\* invitation to its own address, from an inviter who may still grant the
\* role, though the link was looked up before the lock; and that uses it up.
JoinsAreInvited ==
  [][\A u \in User : member[u] = "NONE" /\ member'[u] # "NONE" =>
       \E i \in Invitation :
         /\ invitation[i].email = u
         /\ is_usable(i)
         /\ opened[u] = [inv |-> i, digest |-> invitation[i].digest]
         /\ Manages(invitation[i].invited_by, member'[u])
         /\ invitation'[i].status = "ACCEPTED"]_vars

\* An invitation that was accepted, revoked or replaced stays so, and the
\* link of its row is not changed any more.
EndedInvitationsStay ==
  [][\A i \in Invitation :
       invitation[i].status \in {"ACCEPTED", "REVOKED", "EXPIRED"} =>
         invitation'[i] = invitation[i]]_vars

\* What resend_invitation promises ("Send a fresh link."): the link it mails
\* is one its recipient could accept.
FreshLinksWork ==
  [][\A p \in User, i \in Invitation :
       ResendInvitation(p, i) => Vouched(invitation[i])]_vars
=============================================================================
