-------------------------- MODULE MembershipsProofs --------------------------
(* What holds of every team, however many people and invitations it has, and
   that a vendor business is one. *)
EXTENDS Memberships, VendorTeam, TLAPS

-----------------------------------------------------------------------------
(* Type correctness *)

\* The roles a role manages are invitable ones: never the owner's.
LEMMA ManagedAreInvitable ==
  ASSUME TeamTypeOK, NEW p \in User, NEW r, Manages(p, r)
  PROVE  r \in Invitable
<1>1. CASE kind = "organization"
  BY <1>1 DEF TeamTypeOK, Manages, IsMember, Invitable, Role, MANAGED_ROLES,
             OrganizationManages
<1>2. CASE kind = "vendor"
  BY <1>2 DEF TeamTypeOK, Manages, IsMember, Invitable, Role, MANAGED_ROLES,
             VendorManages
<1>3. QED
  BY <1>1, <1>2 DEF TeamTypeOK

\* The role the former owner is left with is one of the team's, and not OWNER.
LEMMA FormerOwnerInvitable ==
  ASSUME TeamTypeOK
  PROVE  FormerOwner \in Invitable /\ "OWNER" \in Role /\ "NONE" \notin Role
  BY DEF TeamTypeOK, FormerOwner, Invitable, Role, MANAGED_ROLES,
         OrganizationManages, VendorManages

\* Replacing one user's role by a role of the team, or by none, keeps the type.
LEMMA MemberStep ==
  ASSUME TeamTypeOK, kind' = kind, NEW u \in User, NEW r \in Role \cup {"NONE"},
         member' = [member EXCEPT ![u] = r]
  PROVE  member' \in [User -> Role' \cup {"NONE"}]
<1>1. Role' = Role
  BY DEF Role
<1>2. member \in [User -> Role \cup {"NONE"}]
  BY DEF TeamTypeOK
<1>3. QED
  BY <1>1, <1>2

\* A row of the invitation table, the ones that exist with address and inviter.
RowOK(row) ==
  /\ row \in InvitationRow
  /\ row.status # "NONE" => row.email \in User /\ row.invited_by \in User

\* If every row is such a row afterwards, the table keeps its type.
LEMMA TableStep ==
  ASSUME TeamTypeOK, kind' = kind,
         invitation' = [i \in Invitation |-> invitation'[i]],
         \A i \in Invitation : RowOK(invitation'[i])
  PROVE  /\ invitation' \in [Invitation -> InvitationRow']
         /\ \A i \in Invitation : invitation'[i].status # "NONE" =>
              invitation'[i].email \in User /\ invitation'[i].invited_by \in User
<1>1. InvitationRow' = InvitationRow
  BY DEF InvitationRow, Invitable, Role
<1>2. invitation' \in [Invitation -> InvitationRow]
  BY DEF RowOK
<1>3. QED
  BY <1>1, <1>2 DEF RowOK

\* A row keeps its shape when its status changes, or its token and expiry.
LEMMA RowStep ==
  ASSUME TeamTypeOK, NEW i \in Invitation
  PROVE  /\ RowOK(invitation[i])
         /\ \A s \in InvitationStatus \ {"NONE"} :
              Pending(i) => RowOK([invitation[i] EXCEPT !.status = s])
         /\ \A d, e \in Nat : RowOK([invitation[i] EXCEPT !.digest = d, !.expires = e])
<1> DEFINE row == invitation[i]
<1>1. RowOK(row)
  BY DEF TeamTypeOK, RowOK
<1>2. row \in InvitationRow
  BY <1>1 DEF RowOK
<1>3. ASSUME NEW s \in InvitationStatus \ {"NONE"}, Pending(i)
      PROVE  RowOK([row EXCEPT !.status = s])
  BY <1>1, <1>2, <1>3 DEF RowOK, InvitationRow, Pending, InvitationStatus
<1>4. ASSUME NEW d \in Nat, NEW e \in Nat
      PROVE  RowOK([row EXCEPT !.digest = d, !.expires = e])
  BY <1>1, <1>2 DEF RowOK, InvitationRow
<1>5. QED
  BY <1>1, <1>3, <1>4

\* The row an accepted link belongs to: pending, for the acceptor, from an
\* inviter who manages its role.
LEMMA AcceptedRow ==
  ASSUME TeamTypeOK, NEW u \in User, AcceptInvitation(u)
  PROVE  LET i == opened[u].inv
         IN  /\ i \in Invitation
             /\ Pending(i)
             /\ invitation[i].email = u
             /\ invitation[i].role \in Invitable
<1>1. opened[u] \in Link /\ opened[u] # NoLink
  BY DEF TeamTypeOK, AcceptInvitation
<1>2. opened[u].inv \in Invitation
  BY <1>1 DEF Link
<1>3. Acceptable(u)
  BY DEF AcceptInvitation
<1>4. invitation[opened[u].inv].role \in Invitable
  BY <1>3, ManagedAreInvitable DEF Acceptable, Vouched
<1>5. QED
  BY <1>2, <1>3, <1>4 DEF Acceptable, is_usable

\* Every step of a team keeps the type.
LEMMA TypeStep ==
  ASSUME TeamTypeOK, [TeamNext]_vars
  PROVE  TeamTypeOK'
<1> USE TeamAssumption
<1>t. /\ member \in [User -> Role \cup {"NONE"}]
      /\ kind \in {"organization", "vendor"}
      /\ opened \in [User -> Link]
      /\ active \subseteq User
      /\ now \in Nat
  BY DEF TeamTypeOK
<1>i. Invitable \subseteq Role
  BY DEF Invitable
<1>r. \A i \in Invitation : RowOK(invitation[i])
  BY RowStep
<1>f. invitation = [i \in Invitation |-> invitation[i]]
  BY DEF TeamTypeOK
<1>m. \* Only a role changes.
      ASSUME NEW u \in User, NEW r \in Role \cup {"NONE"},
             member' = [member EXCEPT ![u] = r],
             UNCHANGED <<kind, invitation, opened, active, now>>
      PROVE  TeamTypeOK'
  <2>1. member' \in [User -> Role' \cup {"NONE"}]
    BY <1>m, MemberStep
  <2>2. InvitationRow' = InvitationRow
    BY <1>m DEF InvitationRow, Invitable, Role
  <2>3. QED
    BY <1>m, <2>1, <2>2 DEF TeamTypeOK
<1>v. \* Only the table changes, into well-formed rows.
      ASSUME invitation' = [i \in Invitation |-> invitation'[i]],
             \A i \in Invitation : RowOK(invitation'[i]),
             UNCHANGED <<kind, member, opened, active, now>>
      PROVE  TeamTypeOK'
  <2>1. /\ invitation' \in [Invitation -> InvitationRow']
        /\ \A i \in Invitation : invitation'[i].status # "NONE" =>
             invitation'[i].email \in User /\ invitation'[i].invited_by \in User
    BY <1>v, TableStep
  <2>2. Role' = Role
    BY <1>v DEF Role
  <2>3. QED
    BY <1>v, <1>t, <2>1, <2>2 DEF TeamTypeOK
<1>o. \* Roles and table stay.
      ASSUME UNCHANGED <<kind, member, invitation>>,
             opened' \in [User -> Link],
             active' \subseteq User,
             now' \in Nat
      PROVE  TeamTypeOK'
  <2>1. Role' = Role /\ InvitationRow' = InvitationRow
    BY <1>o DEF InvitationRow, Invitable, Role
  <2>2. QED
    BY <1>o, <2>1 DEF TeamTypeOK
<1>1. ASSUME NEW p \in User, NEW u \in User, RemoveMember(p, u)
      PROVE  TeamTypeOK'
  BY <1>1, <1>m DEF RemoveMember
<1>2. ASSUME NEW p \in User, NEW u \in User, TransferOwnership(p, u)
      PROVE  TeamTypeOK'
  <2> DEFINE demoted == [member EXCEPT ![p] = FormerOwner]
  <2>1. FormerOwner \in Role /\ "OWNER" \in Role
    BY FormerOwnerInvitable, <1>i
  <2>2. member' \in [User -> Role \cup {"NONE"}]
    BY <1>2, <1>t, <2>1 DEF TransferOwnership
  <2>3. Role' = Role /\ InvitationRow' = InvitationRow
    BY <1>2 DEF TransferOwnership, InvitationRow, Invitable, Role
  <2>4. QED
    BY <1>2, <2>2, <2>3 DEF TransferOwnership, TeamTypeOK
<1>3. ASSUME NEW p \in User, NEW u \in User, NEW r \in Invitable, ChangeRole(p, u, r)
      PROVE  TeamTypeOK'
  BY <1>3, <1>m, <1>i DEF ChangeRole
<1>4. ASSUME NEW p \in User, NEW u \in User, NEW r \in Invitable, NEW i \in Invitation,
             CreateInvitation(p, u, r, i)
      PROVE  TeamTypeOK'
  <2>1. ASSUME NEW j \in Invitation
        PROVE  RowOK(invitation'[j])
    <3>1. CASE j = i
      BY <1>4, <1>t, <3>1 DEF CreateInvitation, RowOK, InvitationRow, InvitationStatus
    <3>2. CASE j # i /\ invitation[j].email = u /\ Pending(j)
      <4>1. invitation'[j] = [invitation[j] EXCEPT !.status = "EXPIRED"]
        BY <1>4, <3>2 DEF CreateInvitation
      <4>2. RowOK([invitation[j] EXCEPT !.status = "EXPIRED"])
        BY <3>2, RowStep DEF InvitationStatus
      <4>3. QED
        BY <4>1, <4>2
    <3>3. CASE j # i /\ ~(invitation[j].email = u /\ Pending(j))
      BY <1>4, <1>r, <3>3 DEF CreateInvitation
    <3>4. QED
      BY <3>1, <3>2, <3>3
  <2>2. invitation' = [j \in Invitation |-> invitation'[j]]
    BY <1>4 DEF CreateInvitation
  <2>3. UNCHANGED <<kind, member, opened, active, now>>
    BY <1>4 DEF CreateInvitation
  <2>4. QED
    BY <1>v, <2>1, <2>2, <2>3
<1>5. ASSUME NEW p \in User, NEW i \in Invitation, ResendInvitation(p, i)
      PROVE  TeamTypeOK'
  <2>1. invitation[i].digest + 1 \in Nat /\ now + InviteFor \in Nat
    BY <1>r, <1>t DEF RowOK, InvitationRow
  <2>2. RowOK([invitation[i] EXCEPT !.digest = invitation[i].digest + 1,
                                    !.expires = now + InviteFor])
    BY <2>1, RowStep
  <2>3. \A j \in Invitation : RowOK(invitation'[j])
    BY <1>5, <1>r, <1>f, <2>2 DEF ResendInvitation
  <2>4. invitation' = [j \in Invitation |-> invitation'[j]]
    BY <1>5, <1>f DEF ResendInvitation
  <2>5. UNCHANGED <<kind, member, opened, active, now>>
    BY <1>5 DEF ResendInvitation
  <2>6. QED
    BY <1>v, <2>3, <2>4, <2>5
<1>6. ASSUME NEW p \in User, NEW i \in Invitation, RevokeInvitation(p, i)
      PROVE  TeamTypeOK'
  <2>1. RowOK([invitation[i] EXCEPT !.status = "REVOKED"])
    BY <1>6, RowStep DEF RevokeInvitation, InvitationStatus
  <2>2. \A j \in Invitation : RowOK(invitation'[j])
    BY <1>6, <1>r, <1>f, <2>1 DEF RevokeInvitation
  <2>3. invitation' = [j \in Invitation |-> invitation'[j]]
    BY <1>6, <1>f DEF RevokeInvitation
  <2>4. UNCHANGED <<kind, member, opened, active, now>>
    BY <1>6 DEF RevokeInvitation
  <2>5. QED
    BY <1>v, <2>2, <2>3, <2>4
<1>7. ASSUME NEW u \in User, NEW i \in Invitation, OpenLink(u, i)
      PROVE  TeamTypeOK'
  <2>1. invitation[i].digest \in Nat
    BY <1>r DEF RowOK, InvitationRow
  <2>2. opened' \in [User -> Link]
    BY <1>7, <1>t, <2>1 DEF OpenLink, Link
  <2>3. QED
    BY <1>7, <1>t, <1>o, <2>2 DEF OpenLink
<1>8. ASSUME NEW u \in User, Leave(u)
      PROVE  TeamTypeOK'
  BY <1>8, <1>m DEF Leave
<1>9. ASSUME NEW u \in User, AcceptInvitation(u)
      PROVE  TeamTypeOK'
  <2> DEFINE i == opened[u].inv
             joined == IF IsMember(u) THEN member[u] ELSE invitation[i].role
  <2>1. i \in Invitation /\ Pending(i)
    BY <1>9, AcceptedRow
  <2>2. joined \in Role \cup {"NONE"}
    BY <1>t, <1>i, <1>r, <2>1 DEF IsMember, RowOK, InvitationRow
  <2>3. RowOK([invitation[i] EXCEPT !.status = "ACCEPTED"])
    BY <2>1, RowStep DEF InvitationStatus
  <2>4. /\ member' = [member EXCEPT ![u] = joined]
        /\ invitation' = [invitation EXCEPT ![i].status = "ACCEPTED"]
        /\ opened' = [opened EXCEPT ![u] = NoLink]
        /\ UNCHANGED <<kind, active, now>>
    BY <1>9 DEF AcceptInvitation
  <2> HIDE DEF i, joined
  <2>5. member' \in [User -> Role' \cup {"NONE"}]
    BY <2>2, <2>4, MemberStep
  <2>6. \A j \in Invitation : RowOK(invitation'[j])
    BY <1>r, <1>f, <2>1, <2>3, <2>4
  <2>7. invitation' = [j \in Invitation |-> invitation'[j]]
    BY <1>f, <2>4
  <2>8. /\ invitation' \in [Invitation -> InvitationRow']
        /\ \A j \in Invitation : invitation'[j].status # "NONE" =>
             invitation'[j].email \in User /\ invitation'[j].invited_by \in User
    BY <2>4, <2>6, <2>7, TableStep
  <2>9. opened' \in [User -> Link']
    BY <1>t, <2>4 DEF Link, NoLink
  <2>10. QED
    BY <1>t, <2>4, <2>5, <2>8, <2>9 DEF TeamTypeOK
<1>10. ASSUME NEW u \in User, RefuseLink(u)
       PROVE  TeamTypeOK'
  <2>1. opened' \in [User -> Link]
    BY <1>10, <1>t DEF RefuseLink, Link
  <2>2. QED
    BY <1>10, <1>t, <1>o, <2>1 DEF RefuseLink
<1>11. ASSUME NEW u \in User, AccountChanges(u)
       PROVE  TeamTypeOK'
  BY <1>11, <1>t, <1>o DEF AccountChanges
<1>12. CASE Tick
  BY <1>12, <1>t, <1>o DEF Tick
<1>13. CASE UNCHANGED vars
  BY <1>13, <1>t, <1>o DEF vars
<1>14. QED
  BY <1>1, <1>2, <1>3, <1>4, <1>5, <1>6, <1>7, <1>8, <1>9, <1>10, <1>11, <1>12, <1>13
     DEF TeamNext

\* The state always has its type.
THEOREM TeamTypeInvariant == TeamSpec => []TeamTypeOK
<1>1. TeamInit => TeamTypeOK
  <2> SUFFICES ASSUME TeamInit PROVE TeamTypeOK
    OBVIOUS
  <2>1. kind \in {"organization", "vendor"} /\ "OWNER" \in Role
    BY DEF TeamInit, Role, MANAGED_ROLES, OrganizationManages, VendorManages
  <2>2. NoInvitation \in InvitationRow
    BY DEF NoInvitation, InvitationRow, InvitationStatus
  <2>3. QED
    BY <2>1, <2>2, TeamAssumption DEF TeamInit, TeamTypeOK, NoInvitation, Link
<1>2. TeamTypeOK /\ [TeamNext]_vars => TeamTypeOK'
  BY TypeStep
<1>3. QED
  BY <1>1, <1>2, PTL DEF TeamSpec

-----------------------------------------------------------------------------
(* One owner *)

\* Roles that change from invitable to invitable, or come and go, leave the
\* owner alone.
LEMMA OwnerUntouched ==
  ASSUME TeamTypeOK, OneOwner, NEW u \in User, NEW r, r # "OWNER",
         member[u] # "OWNER", member' = [member EXCEPT ![u] = r]
  PROVE  OneOwner'
<1>1. \A v \in User : member'[v] = "OWNER" <=> member[v] = "OWNER"
  BY DEF TeamTypeOK
<1>2. QED
  BY <1>1 DEF OneOwner

\* Every step keeps exactly one owner.
LEMMA OwnerStep ==
  ASSUME TeamTypeOK, OneOwner, [TeamNext]_vars
  PROVE  OneOwner'
<1>s. ASSUME UNCHANGED member PROVE OneOwner'
  BY <1>s DEF OneOwner
<1>1. ASSUME NEW p \in User, NEW u \in User, RemoveMember(p, u)
      PROVE  OneOwner'
  <2>1. member[u] # "OWNER"
    BY <1>1, ManagedAreInvitable DEF RemoveMember, Invitable
  <2>2. QED
    BY <1>1, <2>1, OwnerUntouched DEF RemoveMember
<1>2. ASSUME NEW p \in User, NEW u \in User, TransferOwnership(p, u)
      PROVE  OneOwner'
  <2>1. p # u /\ member[p] = "OWNER" /\ FormerOwner # "OWNER"
    BY <1>2, FormerOwnerInvitable DEF TransferOwnership, IsOwner, Invitable
  <2>2. \A v \in User : member[v] = "OWNER" => v = p
    BY <2>1 DEF OneOwner
  <2>3. \A v \in User : member'[v] = "OWNER" <=> v = u
    BY <1>2, <2>1, <2>2 DEF TransferOwnership, TeamTypeOK
  <2>4. QED
    BY <2>3 DEF OneOwner
<1>3. ASSUME NEW p \in User, NEW u \in User, NEW r \in Invitable, ChangeRole(p, u, r)
      PROVE  OneOwner'
  BY <1>3, OwnerUntouched DEF ChangeRole, Invitable
<1>4. ASSUME NEW u \in User, Leave(u)
      PROVE  OneOwner'
  BY <1>4, OwnerUntouched DEF Leave, Invitable
<1>5. ASSUME NEW u \in User, AcceptInvitation(u)
      PROVE  OneOwner'
  <2>1. CASE IsMember(u)
    <3>1. member' = [member EXCEPT ![u] = member[u]]
      BY <1>5, <2>1 DEF AcceptInvitation
    <3>2. QED
      BY <3>1, <1>s DEF TeamTypeOK
  <2>2. CASE ~IsMember(u)
    <3> DEFINE r == invitation[opened[u].inv].role
    <3>1. r # "OWNER"
      BY <1>5, AcceptedRow DEF Invitable
    <3>2. member' = [member EXCEPT ![u] = r]
      BY <1>5, <2>2 DEF AcceptInvitation
    <3>3. member[u] # "OWNER"
      BY <2>2 DEF IsMember
    <3> HIDE DEF r
    <3>4. QED
      BY <3>1, <3>2, <3>3, OwnerUntouched
  <2>3. QED
    BY <2>1, <2>2
<1>6. QED
  BY <1>s, <1>1, <1>2, <1>3, <1>4, <1>5
     DEF TeamNext, vars, CreateInvitation, ResendInvitation, RevokeInvitation, OpenLink,
         RefuseLink, AccountChanges, Tick

\* A team always has exactly one owner.
THEOREM TeamsHaveOneOwner == TeamSpec => []OneOwner
<1>1. TeamInit => OneOwner
  BY TeamAssumption DEF TeamInit, OneOwner
<1>2. TeamTypeOK /\ OneOwner /\ [TeamNext]_vars => OneOwner'
  BY OwnerStep
<1>3. QED
  BY <1>1, <1>2, TeamTypeInvariant, PTL DEF TeamSpec

-----------------------------------------------------------------------------
(* Pending invitations *)

\* If no row becomes pending and nobody with a pending row joins, pending
\* invitations stay those of outsiders.
LEMMA PendingStep ==
  ASSUME PendingAreOutsiders,
         \A i \in Invitation : Pending(i)' =>
           Pending(i) /\ invitation'[i].email = invitation[i].email,
         \A i \in Invitation :
           Pending(i)' /\ ~IsMember(invitation[i].email) => ~IsMember(invitation[i].email)'
  PROVE  PendingAreOutsiders'
  BY DEF PendingAreOutsiders, Pending, IsMember

\* Every step keeps pending invitations to outsiders, one per address.
LEMMA OutsiderStep ==
  ASSUME TeamTypeOK, PendingAreOutsiders, [TeamNext]_vars
  PROVE  PendingAreOutsiders'
<1>t. /\ member = [u \in User |-> member[u]]
      /\ invitation = [i \in Invitation |-> invitation[i]]
      /\ \A i \in Invitation : Pending(i) => invitation[i].email \in User
  BY DEF TeamTypeOK, Pending
<1>s. ASSUME UNCHANGED <<member, invitation>> PROVE PendingAreOutsiders'
  BY <1>s DEF PendingAreOutsiders, Pending, IsMember
<1>m. \* A role changes or ends: nobody from outside joins.
      ASSUME \A u \in User : ~IsMember(u) => ~IsMember(u)', UNCHANGED invitation
      PROVE  PendingAreOutsiders'
  BY <1>m, <1>t, PendingStep DEF Pending, IsMember
<1>1. ASSUME NEW p \in User, NEW u \in User, RemoveMember(p, u)
      PROVE  PendingAreOutsiders'
  BY <1>1, <1>t, <1>m DEF RemoveMember, IsMember
<1>2. ASSUME NEW p \in User, NEW u \in User, TransferOwnership(p, u)
      PROVE  PendingAreOutsiders'
  BY <1>2, <1>t, <1>m DEF TransferOwnership, IsMember, IsOwner
<1>3. ASSUME NEW p \in User, NEW u \in User, NEW r \in Invitable, ChangeRole(p, u, r)
      PROVE  PendingAreOutsiders'
  <2>1. member[u] # "NONE"
    BY <1>3, FormerOwnerInvitable DEF ChangeRole, Invitable
  <2>2. QED
    BY <1>3, <1>t, <1>m, <2>1 DEF ChangeRole, IsMember
<1>4. ASSUME NEW u \in User, Leave(u)
      PROVE  PendingAreOutsiders'
  BY <1>4, <1>t, <1>m DEF Leave, IsMember
<1>5. ASSUME NEW p \in User, NEW u \in User, NEW r \in Invitable, NEW i \in Invitation,
             CreateInvitation(p, u, r, i)
      PROVE  PendingAreOutsiders'
  <2>1. ~IsMember(u) /\ UNCHANGED member
    BY <1>5 DEF CreateInvitation, MayInvite
  <2>2. Pending(i)' /\ invitation'[i].email = u
    BY <1>5 DEF CreateInvitation, Pending
  <2>3. ASSUME NEW j \in Invitation, j # i, Pending(j)'
        PROVE  Pending(j) /\ invitation'[j].email = invitation[j].email
               /\ invitation[j].email # u
    <3>1. CASE invitation[j].email = u /\ Pending(j)
      <4>1. invitation'[j] = [invitation[j] EXCEPT !.status = "EXPIRED"]
        BY <1>5, <2>3, <3>1 DEF CreateInvitation
      <4>2. invitation[j] \in InvitationRow
        BY DEF TeamTypeOK
      <4>3. invitation'[j].status = "EXPIRED"
        BY <4>1, <4>2 DEF InvitationRow
      <4>4. QED
        BY <2>3, <4>3 DEF Pending
    <3>2. CASE ~(invitation[j].email = u /\ Pending(j))
      <4>1. invitation'[j] = invitation[j]
        BY <1>5, <2>3, <3>2 DEF CreateInvitation
      <4>2. QED
        BY <2>3, <3>2, <4>1 DEF Pending
    <3>3. QED
      BY <3>1, <3>2
  <2>4. QED
    BY <2>1, <2>2, <2>3 DEF PendingAreOutsiders, Pending, IsMember
<1>6. ASSUME NEW p \in User, NEW i \in Invitation, ResendInvitation(p, i)
      PROVE  PendingAreOutsiders'
  <2>1. \A j \in Invitation : /\ invitation'[j].status = invitation[j].status
                              /\ invitation'[j].email = invitation[j].email
    BY <1>6, <1>t DEF ResendInvitation, TeamTypeOK, InvitationRow
  <2>2. QED
    BY <1>6, <2>1, PendingStep DEF ResendInvitation, Pending, IsMember
<1>7. ASSUME NEW p \in User, NEW i \in Invitation, RevokeInvitation(p, i)
      PROVE  PendingAreOutsiders'
  <2>1. \A j \in Invitation \ {i} : invitation'[j] = invitation[j]
    BY <1>7, <1>t DEF RevokeInvitation
  <2>2. invitation'[i].status = "REVOKED"
    BY <1>7, <1>t DEF RevokeInvitation, TeamTypeOK, InvitationRow
  <2>3. QED
    BY <1>7, <2>1, <2>2, PendingStep DEF RevokeInvitation, Pending, IsMember
<1>8. ASSUME NEW u \in User, AcceptInvitation(u)
      PROVE  PendingAreOutsiders'
  <2> DEFINE i == opened[u].inv
  <2>1. i \in Invitation /\ Pending(i) /\ invitation[i].email = u
    BY <1>8, AcceptedRow
  <2>2. /\ invitation' = [invitation EXCEPT ![i].status = "ACCEPTED"]
        /\ \A v \in User : v # u => member'[v] = member[v]
    BY <1>8, <1>t DEF AcceptInvitation
  <2> HIDE DEF i
  <2>3. \A j \in Invitation \ {i} : invitation'[j] = invitation[j]
    BY <1>t, <2>2
  <2>4. invitation'[i].status = "ACCEPTED"
    BY <1>t, <2>1, <2>2 DEF TeamTypeOK, InvitationRow
  <2>5. \A j \in Invitation \ {i} : Pending(j) => invitation[j].email # u
    BY <2>1 DEF PendingAreOutsiders
  <2>6. ASSUME NEW j \in Invitation, Pending(j)'
        PROVE  j # i /\ Pending(j) /\ invitation'[j].email = invitation[j].email
    BY <2>3, <2>4, <2>6 DEF Pending
  <2>7. ASSUME NEW j \in Invitation, Pending(j)', ~IsMember(invitation[j].email)
        PROVE  ~IsMember(invitation[j].email)'
    <3>1. j # i /\ Pending(j)
      BY <2>6, <2>7
    <3>2. invitation[j].email \in User /\ invitation[j].email # u
      BY <3>1, <1>t, <2>5
    <3>3. invitation'[j] = invitation[j]
      BY <3>1, <2>3
    <3>4. QED
      BY <2>2, <2>7, <3>2, <3>3 DEF IsMember
  <2>8. QED
    BY <2>6, <2>7, PendingStep
<1>9. QED
  BY <1>s, <1>1, <1>2, <1>3, <1>4, <1>5, <1>6, <1>7, <1>8
     DEF TeamNext, vars, OpenLink, RefuseLink, AccountChanges, Tick

\* Pending invitations are always for outsiders, one for each address.
THEOREM InvitationsAreForOutsiders == TeamSpec => []PendingAreOutsiders
<1>1. TeamInit => PendingAreOutsiders
  BY DEF TeamInit, PendingAreOutsiders, Pending, NoInvitation
<1>2. TeamTypeOK /\ PendingAreOutsiders /\ [TeamNext]_vars => PendingAreOutsiders'
  BY OutsiderStep
<1>3. QED
  BY <1>1, <1>2, TeamTypeInvariant, PTL DEF TeamSpec

-----------------------------------------------------------------------------
(* What a step may never do *)

\* Nobody joins without a live link of its own and an inviter who may invite.
THEOREM JoiningNeedsAnInvitation == TeamSpec => JoinsAreInvited
<1> DEFINE Invited(u) ==
      \E i \in Invitation :
        /\ invitation[i].email = u
        /\ is_usable(i)
        /\ opened[u] = [inv |-> i, digest |-> invitation[i].digest]
        /\ Manages(invitation[i].invited_by, member'[u])
        /\ invitation'[i].status = "ACCEPTED"
<1>1. ASSUME TeamTypeOK, TeamNext, NEW u \in User, member[u] = "NONE", member'[u] # "NONE"
      PROVE  Invited(u)
  <2>t. member = [v \in User |-> member[v]]
    BY <1>1 DEF TeamTypeOK
  <2>1. ASSUME NEW p \in User, NEW w \in User,
               RemoveMember(p, w) \/ TransferOwnership(p, w)
        PROVE  FALSE
    BY <1>1, <2>t, <2>1 DEF RemoveMember, TransferOwnership, IsMember, IsOwner
  <2>2. ASSUME NEW p \in User, NEW w \in User, NEW r \in Invitable, ChangeRole(p, w, r)
        PROVE  FALSE
    BY <1>1, <2>t, <2>2, FormerOwnerInvitable DEF ChangeRole, Invitable
  <2>3. ASSUME NEW w \in User, Leave(w)
        PROVE  FALSE
    BY <1>1, <2>t, <2>3 DEF Leave
  <2>4. ASSUME NEW w \in User, AcceptInvitation(w)
        PROVE  Invited(u)
    <3> DEFINE i == opened[w].inv
    <3>1. w = u
      BY <1>1, <2>t, <2>4 DEF AcceptInvitation
    <3>2. i \in Invitation /\ invitation[i].email = u
      BY <1>1, <2>4, <3>1, AcceptedRow
    <3>3. /\ is_usable(i)
          /\ invitation[i].digest = opened[u].digest
          /\ Manages(invitation[i].invited_by, invitation[i].role)
      BY <2>4, <3>1 DEF AcceptInvitation, Acceptable, Vouched
    <3>4. member'[u] = invitation[i].role
      BY <1>1, <2>t, <2>4, <3>1 DEF AcceptInvitation, IsMember
    <3>5. opened[u] = [inv |-> i, digest |-> invitation[i].digest]
      <4>1. opened[u] \in [inv: Invitation, digest: Nat]
        BY <1>1, <2>4, <3>1 DEF TeamTypeOK, Link, AcceptInvitation
      <4>2. QED
        BY <3>1, <3>3, <4>1
    <3>6. invitation' = [invitation EXCEPT ![i].status = "ACCEPTED"]
      BY <2>4 DEF AcceptInvitation
    <3> HIDE DEF i
    <3>7. invitation'[i].status = "ACCEPTED"
      BY <1>1, <3>2, <3>6 DEF TeamTypeOK, InvitationRow
    <3>8. QED
      BY <3>2, <3>3, <3>4, <3>5, <3>7
  <2>5. QED
    BY <1>1, <2>1, <2>2, <2>3, <2>4
       DEF TeamNext, CreateInvitation, ResendInvitation, RevokeInvitation, OpenLink,
           RefuseLink, AccountChanges, Tick
<1>2. TeamTypeOK /\ [TeamNext]_vars =>
        [\A u \in User : member[u] = "NONE" /\ member'[u] # "NONE" => Invited(u)]_vars
  BY <1>1
<1>3. QED
  BY <1>2, TeamTypeInvariant, PTL DEF TeamSpec, JoinsAreInvited

\* Invitations that ended are never touched again.
THEOREM EndedInvitationsAreFinal == TeamSpec => EndedInvitationsStay
<1> DEFINE Ended(i) == invitation[i].status \in {"ACCEPTED", "REVOKED", "EXPIRED"}
<1>1. ASSUME TeamTypeOK, TeamNext, NEW j \in Invitation, Ended(j)
      PROVE  invitation'[j] = invitation[j]
  <2>t. invitation = [i \in Invitation |-> invitation[i]]
    BY <1>1 DEF TeamTypeOK
  <2>0. ~Pending(j) /\ invitation[j].status # "NONE"
    BY <1>1 DEF Pending
  <2>1. ASSUME NEW p \in User, NEW u \in User, NEW r \in Invitable, NEW i \in Invitation,
               CreateInvitation(p, u, r, i)
        PROVE  invitation'[j] = invitation[j]
    BY <2>0, <2>1 DEF CreateInvitation
  <2>2. ASSUME NEW p \in User, NEW i \in Invitation,
               ResendInvitation(p, i) \/ RevokeInvitation(p, i)
        PROVE  invitation'[j] = invitation[j]
    BY <2>0, <2>t, <2>2 DEF ResendInvitation, RevokeInvitation
  <2>3. ASSUME NEW u \in User, AcceptInvitation(u)
        PROVE  invitation'[j] = invitation[j]
    <3>1. opened[u].inv # j
      BY <1>1, <2>0, <2>3, AcceptedRow
    <3>2. QED
      BY <2>t, <2>3, <3>1 DEF AcceptInvitation
  <2>4. QED
    BY <1>1, <2>1, <2>2, <2>3
       DEF TeamNext, RemoveMember, TransferOwnership, ChangeRole, Leave, OpenLink,
           RefuseLink, AccountChanges, Tick
<1>2. TeamTypeOK /\ [TeamNext]_vars =>
        [\A i \in Invitation : Ended(i) => invitation'[i] = invitation[i]]_vars
  BY <1>1
<1>3. QED
  BY <1>2, TeamTypeInvariant, PTL DEF TeamSpec, EndedInvitationsStay

-----------------------------------------------------------------------------
(* A vendor business is a team *)

InviteRow ==
  [status : {"NONE", "PENDING", "ACCEPTED", "REVOKED", "EXPIRED"},
   email : Person \cup {NoPerson}, invited_by : Person \cup {NoPerson}, token_digest : Nat,
   expires_at : Nat, accepted_by : Person \cup {NoPerson}]

BusinessTypeOK ==
  /\ profile \in Profile
  /\ role \in [Person -> {"OWNER", "MEMBER", "NONE"}]
  /\ invite \in [Invite -> InviteRow]
  /\ lookup \in [Person -> {NoLookup} \cup [inv : Invite, digest : Nat]]
  /\ enabled \subseteq Person /\ confirmed \subseteq Person
  /\ clock \in Nat

\* Who has a role, or is about to get one, has a confirmed address.  (No
\* operation asks a member for it, and none takes it away.)
ConfirmedOnly ==
  \A p \in Person : role[p] # "NONE" \/ lookup[p] # NoLookup => p \in confirmed

RowsNamePeople ==
  \A i \in Invite : invite[i].status # "NONE" =>
    /\ invite[i].email \in Person
    /\ invite[i].invited_by \in Person

BusinessInv == BusinessTypeOK /\ ConfirmedOnly /\ RowsNamePeople

LEMMA BusinessStarts == create_business => BusinessInv /\ Team!TeamInit
<1> SUFFICES ASSUME create_business PROVE BusinessInv /\ Team!TeamInit
  OBVIOUS
<1>1. BusinessInv
  BY VendorAssumption DEF create_business, NewTeam, BusinessInv, BusinessTypeOK, ConfirmedOnly,
     RowsNamePeople, InviteRow, NoInvite
<1>2. [i \in Invite |-> InviteWithRole(i)] = [i \in Invite |-> Team!NoInvitation]
  BY DEF create_business, InviteWithRole, NoInvite, Team!NoInvitation
<1>3. enabled \cap confirmed \in {a \in SUBSET Person : Creator \in a}
  BY DEF create_business
<1>4. Team!TeamInit
  BY <1>2, <1>3 DEF create_business, NewTeam, Team!TeamInit, NoLookup, Team!NoLink
<1> QED
  BY <1>1, <1>4

\* What the operations ask, in the words of a team.
LEMMA SameQuestions ==
  ASSUME BusinessInv
  PROVE  /\ Team!Invitable = {"MEMBER"}
         /\ \A p \in Person : Team!IsMember(p) <=> role[p] # "NONE"
         /\ \A p \in Person : require_owner(p) <=> Team!IsOwner(p)
         /\ \A p \in Person : Team!Manages(p, "MEMBER") <=> require_owner(p)
         /\ \A p \in Person : membership_for(p) <=> p \in enabled \cap confirmed /\ role[p] # "NONE"
<1>1. /\ Team!MANAGED_ROLES["vendor"]["OWNER"] = {"MEMBER"}
      /\ Team!MANAGED_ROLES["vendor"]["MEMBER"] = {}
      /\ DOMAIN Team!MANAGED_ROLES["vendor"] = {"OWNER", "MEMBER"}
  BY DEF Team!MANAGED_ROLES, Team!VendorManages
<1>2. \A p \in Person : role[p] \in {"OWNER", "MEMBER", "NONE"}
  BY DEF BusinessInv, BusinessTypeOK
<1>3. \A p \in Person : role[p] # "NONE" => p \in confirmed
  BY DEF BusinessInv, ConfirmedOnly
<1>4. Team!Invitable = {"MEMBER"}
  BY <1>1 DEF Team!Invitable, Team!Role
<1>5. \A p \in Person : Team!Manages(p, "MEMBER") <=> require_owner(p)
  BY <1>1, <1>2, <1>3 DEF Team!Manages, Team!IsMember, require_owner, membership_for
<1> QED
  BY <1>2, <1>3, <1>4, <1>5 DEF Team!IsMember, Team!IsOwner, require_owner, membership_for

\* The rows of the table, in the words of a team.
LEMMA SameRows ==
  ASSUME BusinessInv, NEW i \in Invite
  PROVE  /\ InviteWithRole(i).status = invite[i].status
         /\ InviteWithRole(i).email = invite[i].email
         /\ InviteWithRole(i).invited_by = invite[i].invited_by
         /\ InviteWithRole(i).expires = invite[i].expires_at
         /\ InviteWithRole(i).digest = invite[i].token_digest
         /\ invite[i].status # "NONE" => InviteWithRole(i).role = "MEMBER"
         /\ Team!Pending(i) <=> invite[i].status = "PENDING"
         /\ Team!is_usable(i) <=> usable(i)
BY DEF InviteWithRole, Team!Pending, Team!is_usable, usable

LEMMA RolesKept ==
  ASSUME BusinessInv, NEW p \in Person, NEW r \in {"MEMBER", "NONE", "OWNER"},
         role' = [role EXCEPT ![p] = r], r # "NONE" => p \in confirmed,
         UNCHANGED <<profile, invite, lookup, enabled, confirmed, clock>>
  PROVE  BusinessInv'
BY DEF BusinessInv, BusinessTypeOK, ConfirmedOnly, RowsNamePeople, InviteRow

LEMMA InvitesKept ==
  ASSUME BusinessInv, NEW i \in Invite, NEW row,
         row \in InviteRow, row.status # "NONE" => row.email \in Person /\ row.invited_by \in Person,
         invite' = [invite EXCEPT ![i] = row],
         UNCHANGED <<profile, role, lookup, enabled, confirmed, clock>>
  PROVE  BusinessInv'
<1>1. invite' \in [Invite -> InviteRow]
  BY DEF BusinessInv, BusinessTypeOK
<1>2. \A j \in Invite : invite'[j] = IF j = i THEN row ELSE invite[j]
  BY DEF BusinessInv, BusinessTypeOK
<1>3. RowsNamePeople'
  BY <1>2 DEF RowsNamePeople, BusinessInv
<1> QED
  BY <1>1, <1>3 DEF BusinessInv, BusinessTypeOK, ConfirmedOnly, InviteRow

\* Each operation of vendors/services.py keeps the invariant.
LEMMA BusinessInvStep ==
  ASSUME BusinessInv, [BusinessNext]_businessVars
  PROVE  BusinessInv'
<1>1. ASSUME NEW p \in Person, NEW values \in Profile, update_business(p, values) PROVE BusinessInv'
  BY <1>1 DEF update_business, BusinessInv, BusinessTypeOK, ConfirmedOnly, RowsNamePeople, InviteRow
<1>2. ASSUME NEW p \in Person, NEW u \in Person, remove_member(p, u) PROVE BusinessInv'
  BY <1>2, RolesKept DEF remove_member
<1>3. ASSUME NEW p \in Person, NEW u \in Person, transfer_ownership(p, u) PROVE BusinessInv'
  <2>1. p \in confirmed /\ u \in confirmed
    BY <1>3 DEF transfer_ownership, require_owner, membership_for, BusinessInv, ConfirmedOnly
  <2>2. role' \in [Person -> {"OWNER", "MEMBER", "NONE"}]
    BY <1>3 DEF transfer_ownership, BusinessInv, BusinessTypeOK
  <2>3. \A q \in Person : role'[q] # "NONE" => q \in confirmed
    BY <1>3, <2>1 DEF transfer_ownership, BusinessInv, BusinessTypeOK, ConfirmedOnly
  <2> QED
    BY <1>3, <2>2, <2>3 DEF transfer_ownership, BusinessInv, BusinessTypeOK, ConfirmedOnly,
       RowsNamePeople, InviteRow
<1>4. ASSUME NEW p \in Person, NEW u \in Person, NEW i \in Invite, create_invitation(p, u, i)
      PROVE  BusinessInv'
  <2> DEFINE new == [status |-> "PENDING", email |-> u, invited_by |-> p, token_digest |-> 0,
                     expires_at |-> clock + INVITATION_MAX_AGE, accepted_by |-> NoPerson]
  <2>1. new \in InviteRow
    BY VendorAssumption DEF BusinessInv, BusinessTypeOK, InviteRow
  <2>2. \A j \in Invite :
          /\ invite[j] \in InviteRow
          /\ [invite[j] EXCEPT !.status = "EXPIRED"] \in InviteRow
          /\ [invite[j] EXCEPT !.status = "EXPIRED"].email = invite[j].email
          /\ [invite[j] EXCEPT !.status = "EXPIRED"].invited_by = invite[j].invited_by
    BY DEF BusinessInv, BusinessTypeOK, InviteRow
  <2>3. \A j \in Invite : \/ invite'[j] = new
                          \/ invite'[j] = invite[j]
                          \/ invite[j].status = "PENDING"
                             /\ invite'[j] = [invite[j] EXCEPT !.status = "EXPIRED"]
    BY <1>4 DEF create_invitation
  <2>4. invite' = [j \in Invite |-> invite'[j]]
    BY <1>4 DEF create_invitation
  <2>5. invite' \in [Invite -> InviteRow]
    <3> HIDE DEF new
    <3> QED
      BY <2>1, <2>2, <2>3, <2>4
  <2>6. ASSUME NEW j \in Invite, invite'[j].status # "NONE"
        PROVE  invite'[j].email \in Person /\ invite'[j].invited_by \in Person
    <3>1. CASE invite'[j] = new
      BY <3>1
    <3>2. CASE invite'[j] = invite[j]
      BY <2>6, <3>2 DEF BusinessInv, RowsNamePeople
    <3>3. CASE invite[j].status = "PENDING" /\ invite'[j] = [invite[j] EXCEPT !.status = "EXPIRED"]
      BY <2>2, <3>3 DEF BusinessInv, RowsNamePeople
    <3> QED
      BY <2>3, <3>1, <3>2, <3>3
  <2> QED
    BY <1>4, <2>5, <2>6 DEF create_invitation, BusinessInv, BusinessTypeOK, ConfirmedOnly,
       RowsNamePeople, InviteRow
<1>5. ASSUME NEW p \in Person, NEW i \in Invite, resend_invitation(p, i) PROVE BusinessInv'
  <2> DEFINE n == invite[i].token_digest + 1
             e == clock + INVITATION_MAX_AGE
             row == [invite[i] EXCEPT !.token_digest = n, !.expires_at = e]
  <2>1. invite[i] \in InviteRow /\ invite[i].token_digest \in Nat /\ e \in Nat
    BY VendorAssumption DEF BusinessInv, BusinessTypeOK, InviteRow
  <2>2. n \in Nat
    BY <2>1
  <2>3. row \in InviteRow /\ row.email = invite[i].email /\ row.invited_by = invite[i].invited_by
        /\ row.status = invite[i].status
    BY <2>1, <2>2 DEF InviteRow
  <2>4. invite' = [invite EXCEPT ![i] = row]
    BY <1>5 DEF resend_invitation, BusinessInv, BusinessTypeOK
  <2>5. row.status # "NONE" => row.email \in Person /\ row.invited_by \in Person
    BY <2>3 DEF BusinessInv, RowsNamePeople
  <2> HIDE DEF row
  <2> QED
    BY <1>5, <2>3, <2>4, <2>5, InvitesKept DEF resend_invitation
<1>6. ASSUME NEW p \in Person, NEW i \in Invite, revoke_invitation(p, i) PROVE BusinessInv'
  <2> DEFINE row == [invite[i] EXCEPT !.status = "REVOKED"]
  <2>1. invite[i] \in InviteRow
    BY DEF BusinessInv, BusinessTypeOK
  <2>2. row \in InviteRow /\ row.email = invite[i].email /\ row.invited_by = invite[i].invited_by
    BY <2>1 DEF InviteRow
  <2>3. row.email \in Person /\ row.invited_by \in Person
    BY <1>6, <2>2 DEF BusinessInv, RowsNamePeople, revoke_invitation, owned_pending
  <2>4. invite' = [invite EXCEPT ![i] = row]
    BY <1>6 DEF revoke_invitation
  <2> HIDE DEF row
  <2> QED
    BY <1>6, <2>2, <2>3, <2>4, InvitesKept DEF revoke_invitation
<1>7. ASSUME NEW p \in Person, NEW i \in Invite, find_invitation(p, i) PROVE BusinessInv'
  <2>1. invite[i].token_digest \in Nat
    BY DEF BusinessInv, BusinessTypeOK, InviteRow
  <2> QED
    BY <1>7, <2>1 DEF find_invitation, BusinessInv, BusinessTypeOK, ConfirmedOnly, RowsNamePeople, InviteRow
<1>8. ASSUME NEW p \in Person, leave_business(p) PROVE BusinessInv'
  BY <1>8, RolesKept DEF leave_business
<1>9. ASSUME NEW p \in Person, accept_invitation(p) PROVE BusinessInv'
  <2> DEFINE i == lookup[p].inv
             row == [invite[i] EXCEPT !.status = "ACCEPTED", !.accepted_by = p]
  <2>1. i \in Invite /\ p \in confirmed
    BY <1>9 DEF accept_invitation, BusinessInv, BusinessTypeOK, ConfirmedOnly
  <2>2. invite[i] \in InviteRow
    BY <2>1 DEF BusinessInv, BusinessTypeOK
  <2>3. row \in InviteRow /\ row.email = invite[i].email /\ row.invited_by = invite[i].invited_by
    BY <2>2 DEF InviteRow
  <2>4. invite' = [invite EXCEPT ![i] = row]
    BY <1>9, <2>1 DEF accept_invitation, BusinessInv, BusinessTypeOK
  <2>5. row.email \in Person /\ row.invited_by \in Person
    BY <1>9, <2>1, <2>3 DEF BusinessInv, RowsNamePeople, accept_invitation, acceptable, usable
  <2>6. role' \in [Person -> {"OWNER", "MEMBER", "NONE"}]
        /\ \A q \in Person : role'[q] # "NONE" => q \in confirmed
    BY <1>9, <2>1 DEF accept_invitation, BusinessInv, BusinessTypeOK, ConfirmedOnly
  <2> HIDE DEF row, i
  <2>7. invite' \in [Invite -> InviteRow]
        /\ \A j \in Invite : invite'[j] = IF j = i THEN row ELSE invite[j]
    BY <2>3, <2>4 DEF BusinessInv, BusinessTypeOK
  <2>8. RowsNamePeople'
    BY <2>5, <2>7 DEF BusinessInv, RowsNamePeople
  <2> QED
    BY <1>9, <2>6, <2>7, <2>8 DEF accept_invitation, BusinessInv, BusinessTypeOK, ConfirmedOnly, InviteRow
<1>10. ASSUME NEW p \in Person, refuse_invitation(p) PROVE BusinessInv'
  BY <1>10 DEF refuse_invitation, BusinessInv, BusinessTypeOK, ConfirmedOnly, RowsNamePeople, InviteRow
<1>11. ASSUME NEW p \in Person, verify_email(p) \/ switch_account(p) PROVE BusinessInv'
  BY <1>11 DEF verify_email, switch_account, BusinessInv, BusinessTypeOK, ConfirmedOnly, RowsNamePeople, InviteRow
<1>12. CASE clock_ticks \/ UNCHANGED businessVars
  BY <1>12 DEF clock_ticks, businessVars, BusinessInv, BusinessTypeOK, ConfirmedOnly, RowsNamePeople, InviteRow
<1> QED
  BY <1>1, <1>2, <1>3, <1>4, <1>5, <1>6, <1>7, <1>8, <1>9, <1>10, <1>11, <1>12 DEF BusinessNext

LEMMA SameTable ==
  ASSUME UNCHANGED invite
  PROVE  UNCHANGED [i \in Invite |-> InviteWithRole(i)]
BY DEF InviteWithRole

\* A team's table after one row of the business's changed.
LEMMA SameChange ==
  ASSUME BusinessInv, BusinessInv', NEW i \in Invite,
         \A j \in Invite : j # i => invite'[j] = invite[j]
  PROVE  [j \in Invite |-> InviteWithRole(j)]'
           = [[j \in Invite |-> InviteWithRole(j)] EXCEPT ![i] = InviteWithRole(i)']
BY DEF InviteWithRole

\* Two fields of a row change, one after the other.
LEMMA TwoFields ==
  ASSUME NEW i \in Invite, NEW n \in Nat, NEW e \in Nat, BusinessInv
  PROVE  [InviteWithRole(i) EXCEPT !.digest = n, !.expires = e] =
           [status |-> invite[i].status, email |-> invite[i].email,
            role |-> IF invite[i].status = "NONE" THEN "NONE" ELSE "MEMBER",
            invited_by |-> invite[i].invited_by, expires |-> e, digest |-> n]
<1> DEFINE TeamRow == [status : {"NONE", "PENDING", "ACCEPTED", "REVOKED", "EXPIRED"},
                       email : Person \cup {NoPerson}, role : {"NONE", "MEMBER"},
                       invited_by : Person \cup {NoPerson}, expires : Nat, digest : Nat]
<1>1. invite[i] \in InviteRow
  BY DEF BusinessInv, BusinessTypeOK
<1>2. InviteWithRole(i) \in TeamRow
  BY <1>1 DEF InviteWithRole, InviteRow
<1>3. [InviteWithRole(i) EXCEPT !.digest = n, !.expires = e] \in TeamRow
  BY <1>2
<1>4. LET row == [InviteWithRole(i) EXCEPT !.digest = n, !.expires = e]
      IN  /\ row.status = invite[i].status /\ row.email = invite[i].email
          /\ row.role = InviteWithRole(i).role /\ row.invited_by = invite[i].invited_by
          /\ row.expires = e /\ row.digest = n
  BY <1>2, SameRows
<1>5. PICK row \in TeamRow : row = [InviteWithRole(i) EXCEPT !.digest = n, !.expires = e]
  BY <1>3
<1>6. row = [status |-> row.status, email |-> row.email, role |-> row.role,
             invited_by |-> row.invited_by, expires |-> row.expires, digest |-> row.digest]
  OBVIOUS
<1>7. InviteWithRole(i).role = IF invite[i].status = "NONE" THEN "NONE" ELSE "MEMBER"
  BY DEF InviteWithRole
<1> QED
  BY <1>4, <1>5, <1>6, <1>7, Zenon

LEMMA TeamStep ==
  ASSUME BusinessInv, BusinessInv', [BusinessNext]_businessVars
  PROVE  UNCHANGED Team!vars \/ Team!TeamNext
<1> DEFINE table == [i \in Invite |-> InviteWithRole(i)]
<1>0. Team!Invitable = {"MEMBER"} /\ NoLookup = Team!NoLink
  BY SameQuestions DEF NoLookup, Team!NoLink
<1>1. ASSUME NEW p \in Person, NEW values \in Profile, update_business(p, values)
      PROVE  UNCHANGED Team!vars
  BY <1>1, SameTable DEF update_business, Team!vars
<1>2. ASSUME NEW p \in Person, NEW u \in Person, remove_member(p, u)
      PROVE  Team!RemoveMember(p, u)
  BY <1>2, SameQuestions, SameTable DEF remove_member, require_owner, Team!RemoveMember
<1>3. ASSUME NEW p \in Person, NEW u \in Person, transfer_ownership(p, u)
      PROVE  Team!TransferOwnership(p, u)
  BY <1>3, SameQuestions, SameTable DEF transfer_ownership, Team!TransferOwnership, Team!FormerOwner
<1>4. ASSUME NEW p \in Person, NEW u \in Person, NEW i \in Invite, create_invitation(p, u, i)
      PROVE  Team!CreateInvitation(p, u, "MEMBER", i)
  <2>1. Team!MayInvite(u)
    BY <1>4, SameQuestions, SameRows DEF create_invitation, Team!MayInvite
  <2>2. InviteWithRole(i).status = "NONE" /\ Team!Manages(p, "MEMBER")
    BY <1>4, SameQuestions, SameRows DEF create_invitation
  <2>3. ASSUME NEW j \in Invite
        PROVE  InviteWithRole(j)' =
                 IF j = i
                 THEN [status |-> "PENDING", email |-> u, role |-> "MEMBER", invited_by |-> p,
                       expires |-> clock + INVITATION_MAX_AGE, digest |-> 0]
                 ELSE IF table[j].email = u /\ Team!Pending(j)
                      THEN [table[j] EXCEPT !.status = "EXPIRED"] ELSE table[j]
    <3>1. CASE j = i
      BY <1>4, <3>1 DEF create_invitation, InviteWithRole
    <3>2. CASE j # i /\ invite[j].email = u /\ invite[j].status = "PENDING"
      <4>1. invite[j] \in InviteRow /\ invite'[j] = [invite[j] EXCEPT !.status = "EXPIRED"]
        BY <1>4, <3>2 DEF create_invitation, BusinessInv, BusinessTypeOK
      <4>2. /\ invite'[j].status = "EXPIRED" /\ invite'[j].email = invite[j].email
            /\ invite'[j].invited_by = invite[j].invited_by
            /\ invite'[j].expires_at = invite[j].expires_at
            /\ invite'[j].token_digest = invite[j].token_digest
        BY <4>1 DEF InviteRow
      <4> QED
        BY <3>2, <4>2 DEF InviteWithRole, Team!Pending
    <3>3. CASE j # i /\ ~(invite[j].email = u /\ invite[j].status = "PENDING")
      <4>1. invite'[j] = invite[j]
        BY <1>4, <3>3 DEF create_invitation
      <4> QED
        BY <3>3, <4>1, SameRows DEF InviteWithRole
    <3> QED
      BY <3>1, <3>2, <3>3
  <2>4. UNCHANGED <<role, lookup, enabled, confirmed, clock>>
    BY <1>4 DEF create_invitation
  <2> QED
    BY <2>1, <2>2, <2>3, <2>4 DEF Team!CreateInvitation
<1>5. ASSUME NEW p \in Person, NEW i \in Invite, resend_invitation(p, i)
      PROVE  Team!ResendInvitation(p, i)
  <2>0. PICK n \in Nat, e \in Nat :
               n = invite[i].token_digest + 1 /\ e = clock + INVITATION_MAX_AGE
    BY VendorAssumption DEF BusinessInv, BusinessTypeOK, InviteRow
  <2>1. invite[i] \in InviteRow /\ \A j \in Invite : j # i => invite'[j] = invite[j]
    BY <1>5 DEF resend_invitation, BusinessInv, BusinessTypeOK
  <2>2. invite'[i] = [invite[i] EXCEPT !.token_digest = n, !.expires_at = e]
    BY <1>5, <2>0 DEF resend_invitation, BusinessInv, BusinessTypeOK
  <2>3. InviteWithRole(i)' = [InviteWithRole(i) EXCEPT !.digest = n, !.expires = e]
    <3>1. /\ invite'[i].status = invite[i].status /\ invite'[i].email = invite[i].email
          /\ invite'[i].invited_by = invite[i].invited_by
          /\ invite'[i].expires_at = e /\ invite'[i].token_digest = n
      BY <2>1, <2>2 DEF InviteRow
    <3>2. InviteWithRole(i)' =
            [status |-> invite[i].status, email |-> invite[i].email,
             role |-> IF invite[i].status = "NONE" THEN "NONE" ELSE "MEMBER",
             invited_by |-> invite[i].invited_by, expires |-> e, digest |-> n]
      BY <3>1 DEF InviteWithRole
    <3> QED
      BY <3>2, TwoFields, Zenon
  <2>4. table' = [table EXCEPT ![i] = InviteWithRole(i)']
    BY <2>1, SameChange
  <2>5. table' = [table EXCEPT ![i].digest = table[i].digest + 1,
                               ![i].expires = clock + INVITATION_MAX_AGE]
    BY <2>0, <2>3, <2>4, SameRows
  <2> QED
    BY <1>5, <2>5, SameRows, SameQuestions DEF resend_invitation, owned_pending, Team!ResendInvitation
<1>6. ASSUME NEW p \in Person, NEW i \in Invite, revoke_invitation(p, i)
      PROVE  Team!RevokeInvitation(p, i)
  <2>1. invite[i] \in InviteRow /\ \A j \in Invite : j # i => invite'[j] = invite[j]
    BY <1>6 DEF revoke_invitation, BusinessInv, BusinessTypeOK
  <2>2. invite'[i] = [invite[i] EXCEPT !.status = "REVOKED"]
    BY <1>6 DEF revoke_invitation, BusinessInv, BusinessTypeOK
  <2>3. InviteWithRole(i)' = [InviteWithRole(i) EXCEPT !.status = "REVOKED"]
    BY <1>6, <2>1, <2>2 DEF InviteWithRole, InviteRow, revoke_invitation, owned_pending
  <2>4. table' = [table EXCEPT ![i] = InviteWithRole(i)']
    BY <2>1, SameChange
  <2> QED
    BY <1>6, <2>3, <2>4, SameRows, SameQuestions
       DEF revoke_invitation, owned_pending, Team!RevokeInvitation
<1>7. ASSUME NEW p \in Person, NEW i \in Invite, find_invitation(p, i)
      PROVE  Team!OpenLink(p, i)
  <2>1. InviteWithRole(i).status # "NONE"
        /\ lookup' = [lookup EXCEPT ![p] = [inv |-> i, digest |-> InviteWithRole(i).digest]]
    BY <1>7, SameRows DEF find_invitation
  <2>2. UNCHANGED <<role, table, enabled, confirmed, clock>>
    BY <1>7, SameTable DEF find_invitation
  <2> QED
    <3>1. p \in enabled \cap confirmed /\ lookup[p] = Team!NoLink
          /\ Cardinality({v \in Person : lookup[v] # Team!NoLink}) < MaxLookups
      BY <1>0, <1>7 DEF find_invitation
    <3>2. table[i].status # "NONE"
          /\ lookup' = [lookup EXCEPT ![p] = [inv |-> i, digest |-> table[i].digest]]
      BY <2>1
    <3> HIDE DEF table
    <3> QED
      BY <2>2, <3>1, <3>2 DEF Team!OpenLink, table, Cardinality, Team!Cardinality
<1>8. ASSUME NEW p \in Person, leave_business(p)
      PROVE  Team!Leave(p)
  <2>1. role[p] = "MEMBER" /\ p \in enabled \cap confirmed
    BY <1>8, SameQuestions DEF leave_business, membership_for, BusinessInv, BusinessTypeOK
  <2> QED
    BY <1>0, <1>8, <2>1, SameTable DEF leave_business, Team!Leave
<1>9. ASSUME NEW p \in Person, lookup[p] # NoLookup
      PROVE  lookup[p].inv \in Invite /\ (Team!Acceptable(p) <=> acceptable(p))
  <2> DEFINE i == lookup[p].inv
  <2>1. i \in Invite
    BY <1>9 DEF BusinessInv, BusinessTypeOK
  <2>2. ASSUME usable(i)
        PROVE  Team!Vouched(InviteWithRole(i)) <=> require_owner(invite[i].invited_by)
    <3>1. invite[i].status # "NONE" /\ invite[i].invited_by \in Person
      BY <2>1, <2>2 DEF usable, BusinessInv, RowsNamePeople
    <3> QED
      BY <2>1, <3>1, SameRows, SameQuestions DEF Team!Vouched
  <2>3. require_owner(invite[i].invited_by)
          <=> \E q \in enabled : q = invite[i].invited_by /\ role[q] = "OWNER"
    BY DEF require_owner, membership_for
  <2> QED
    BY <2>1, <2>2, <2>3, SameRows DEF Team!Acceptable, acceptable
<1>10. ASSUME NEW p \in Person, accept_invitation(p)
       PROVE  Team!AcceptInvitation(p)
  <2>0. PICK i \in Invite : i = lookup[p].inv
    BY <1>9, <1>10 DEF accept_invitation
  <2>1. i = lookup[p].inv /\ Team!Acceptable(p) /\ lookup[p] # NoLookup
    BY <1>9, <1>10, <2>0 DEF accept_invitation
  <2>2. invite[i] \in InviteRow /\ \A j \in Invite : j # i => invite'[j] = invite[j]
    BY <1>10, <2>1 DEF accept_invitation, BusinessInv, BusinessTypeOK
  <2>3. invite'[i] = [invite[i] EXCEPT !.status = "ACCEPTED", !.accepted_by = p]
    BY <1>10, <2>1 DEF accept_invitation, BusinessInv, BusinessTypeOK
  <2>4. invite[i].status = "PENDING" /\ InviteWithRole(i).role = "MEMBER"
    BY <1>10, <2>1, SameRows DEF accept_invitation, acceptable, usable
  <2>5. InviteWithRole(i)' = [InviteWithRole(i) EXCEPT !.status = "ACCEPTED"]
    <3>1. /\ invite'[i].status = "ACCEPTED" /\ invite'[i].email = invite[i].email
          /\ invite'[i].invited_by = invite[i].invited_by
          /\ invite'[i].expires_at = invite[i].expires_at
          /\ invite'[i].token_digest = invite[i].token_digest
      BY <2>2, <2>3 DEF InviteRow
    <3> QED
      BY <2>4, <3>1 DEF InviteWithRole
  <2>6. table' = [table EXCEPT ![i] = InviteWithRole(i)']
    BY <2>1, <2>2, SameChange
  <2>7. role' = [role EXCEPT ![p] = IF Team!IsMember(p) THEN role[p] ELSE table[i].role]
    BY <1>10, <2>1, <2>4, SameQuestions DEF accept_invitation
  <2>8. lookup' = [lookup EXCEPT ![p] = Team!NoLink] /\ lookup[p] # Team!NoLink
        /\ UNCHANGED <<enabled, confirmed, clock>>
    BY <1>10, <2>1 DEF accept_invitation, NoLookup, Team!NoLink
  <2>9. table' = [table EXCEPT ![i].status = "ACCEPTED"]
    BY <2>1, <2>5, <2>6
  <2> QED
    BY <2>1, <2>7, <2>8, <2>9 DEF Team!AcceptInvitation
<1>11. ASSUME NEW p \in Person, refuse_invitation(p)
       PROVE  Team!RefuseLink(p)
  BY <1>9, <1>11, SameTable DEF refuse_invitation, Team!RefuseLink, NoLookup, Team!NoLink
<1>12. ASSUME NEW p \in Person, verify_email(p) \/ switch_account(p)
       PROVE  UNCHANGED Team!vars \/ Team!AccountChanges(p)
  <2>1. UNCHANGED <<role, lookup, clock, table>>
    BY <1>12, SameTable DEF verify_email, switch_account
  <2>2. CASE verify_email(p) \/ p \in confirmed
    BY <1>12, <2>1, <2>2 DEF verify_email, switch_account, Team!AccountChanges
  <2>3. CASE switch_account(p) /\ p \notin confirmed
    BY <2>1, <2>3 DEF switch_account, Team!vars
  <2> QED
    BY <1>12, <2>2, <2>3
<1>13. CASE clock_ticks
  BY <1>13, SameTable DEF clock_ticks, Team!TeamNext, Team!Tick
<1>14. CASE UNCHANGED businessVars
  BY <1>14, SameTable DEF businessVars, Team!vars
<1> QED
  BY <1>0, <1>1, <1>2, <1>3, <1>4, <1>5, <1>6, <1>7, <1>8, <1>10, <1>11, <1>12, <1>13, <1>14
     DEF BusinessNext, Team!TeamNext

\* A vendor business is a team: every operation of vendors/services.py does
\* what one of a team does, or changes nothing a team shows.
THEOREM BusinessesAreTeams == BusinessSpec => ImplementsTeam
<1>1. create_business => BusinessInv /\ Team!TeamInit
  BY BusinessStarts
<1>2. BusinessInv /\ [BusinessNext]_businessVars => BusinessInv'
  BY BusinessInvStep
<1>3. BusinessInv /\ BusinessInv' /\ [BusinessNext]_businessVars
        => [UNCHANGED businessVars \/ Team!TeamNext]_(Team!vars)
  BY TeamStep
<1> QED
  BY <1>1, <1>2, <1>3, PTL DEF BusinessSpec, ImplementsTeam

LEMMA OwnerMoves ==
  ASSUME BusinessInv, Team!OneOwner, [BusinessNext]_businessVars
  PROVE  Team!OneOwner'
<1>1. role \in [Person -> {"OWNER", "MEMBER", "NONE"}]
  BY DEF BusinessInv, BusinessTypeOK
<1>2. ASSUME NEW p \in Person, role[p] # "OWNER", NEW r \in {"MEMBER", "NONE"},
             role' = [role EXCEPT ![p] = r]
      PROVE  Team!OneOwner'
  <2>1. \A v \in Person : role'[v] = "OWNER" <=> role[v] = "OWNER"
    BY <1>1, <1>2
  <2> QED
    BY <2>1 DEF Team!OneOwner
<1>3. ASSUME NEW p \in Person, NEW u \in Person, transfer_ownership(p, u)
      PROVE  Team!OneOwner'
  <2>1. \A v \in Person : role[v] = "OWNER" <=> v = p
    BY <1>3 DEF transfer_ownership, require_owner, Team!OneOwner
  <2>2. \A v \in Person : role'[v] = "OWNER" <=> v = u
    BY <1>1, <1>3, <2>1 DEF transfer_ownership
  <2> QED
    BY <2>2 DEF Team!OneOwner
<1>4. CASE UNCHANGED role
  BY <1>4 DEF Team!OneOwner
<1>5. ASSUME NEW p \in Person, accept_invitation(p)
      PROVE  UNCHANGED role
             \/ (role[p] = "NONE" /\ role' = [role EXCEPT ![p] = "MEMBER"])
  BY <1>1, <1>5 DEF accept_invitation
<1> QED
  BY <1>1, <1>2, <1>3, <1>4, <1>5 DEF BusinessNext, businessVars, update_business, remove_member,
     leave_business, create_invitation, resend_invitation, revoke_invitation, find_invitation,
     refuse_invitation, verify_email, switch_account, clock_ticks

\* A vendor business has exactly one owner, whatever its people do
\* (vendors/services.py); the index of VendorMembership only forbids a second.
THEOREM BusinessesHaveOneOwner == BusinessSpec => []Team!OneOwner
<1>1. create_business => BusinessInv /\ Team!OneOwner
  BY BusinessStarts, VendorAssumption DEF create_business, NewTeam, Team!OneOwner
<1>2. BusinessInv /\ Team!OneOwner /\ [BusinessNext]_businessVars
        => BusinessInv' /\ Team!OneOwner'
  BY BusinessInvStep, OwnerMoves
<1> QED
  BY <1>1, <1>2, PTL DEF BusinessSpec
=============================================================================
