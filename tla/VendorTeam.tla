----------------------------- MODULE VendorTeam -----------------------------
(***************************************************************************)
(* One vendor business and the people who run it (backend/vendors): an     *)
(* OWNER, MEMBERs who may only look, and invitations, which have no role.  *)
(*                                                                         *)
(* Everything that changes memberships, invitations or the profile locks   *)
(* the business first and reads only then, so it is one step; only         *)
(* accept_invitation looks a link up before the lock.  A person stands for *)
(* the address of its account.  The business is created, by a person with  *)
(* a confirmed address, in the initial state.                              *)
(*                                                                         *)
(* Memberships says what a team promises; ImplementsTeam, at the end, that *)
(* a business is such a team.                                              *)
(***************************************************************************)
EXTENDS Integers, FiniteSets

CONSTANTS
  Person,       \* people, each with one address
  Creator,      \* who created the business
  NoPerson,     \* where a row names nobody
  Invite,       \* rows of the invitation table
  Profile,      \* what the editable fields may say
  INVITATION_MAX_AGE,
  MaxRotations, \* how often a run replaces the token of one row
  MaxLookups,   \* how many accept requests a run has in flight at once
  LastInstant   \* the last instant a run looks at

ASSUME VendorAssumption ==
  /\ Creator \in Person
  /\ NoPerson \notin Person
  /\ INVITATION_MAX_AGE \in Nat \ {0}
  /\ {MaxRotations, MaxLookups, LastInstant} \subseteq Nat

VARIABLES
  profile,    \* the editable fields of the business
  role,       \* the role of each person, "NONE" without a membership row
  invite,     \* the invitation rows
  lookup,     \* what each person's accept request has found before the lock
  enabled,    \* people whose account is active
  confirmed,  \* people whose address is verified
  clock       \* the time the transactions read

businessVars == <<profile, role, invite, lookup, enabled, confirmed, clock>>

NoLookup == [inv |-> NoPerson, digest |-> 0]

NoInvite == [status |-> "NONE", email |-> NoPerson, invited_by |-> NoPerson,
             token_digest |-> 0, expires_at |-> 0, accepted_by |-> NoPerson]

\* The membership rows of a new business: its creator's.
NewTeam == [p \in Person |-> IF p = Creator THEN "OWNER" ELSE "NONE"]

-----------------------------------------------------------------------------
(* What an operation asks first, under the lock *)

\* membership_for: a membership of a person whose account is active.
membership_for(p) == p \in enabled /\ role[p] # "NONE"

require_owner(p) == membership_for(p) /\ role[p] = "OWNER"

usable(i) == invite[i].status = "PENDING" /\ invite[i].expires_at > clock

owned_pending(p, i) == require_owner(p) /\ invite[i].status = "PENDING"

-----------------------------------------------------------------------------
(* The business and its members *)

create_business ==
  /\ profile \in Profile
  /\ role = NewTeam
  /\ invite = [i \in Invite |-> NoInvite]
  /\ lookup = [p \in Person |-> NoLookup]
  /\ enabled \in SUBSET Person /\ confirmed \in SUBSET Person
  /\ Creator \in enabled \cap confirmed
  /\ clock = 0

update_business(p, values) ==
  /\ require_owner(p)
  /\ profile' = values
  /\ UNCHANGED <<role, invite, lookup, enabled, confirmed, clock>>

remove_member(p, u) ==
  /\ require_owner(p)
  /\ role[u] = "MEMBER"
  /\ role' = [role EXCEPT ![u] = "NONE"]
  /\ UNCHANGED <<profile, invite, lookup, enabled, confirmed, clock>>

leave_business(p) ==
  /\ membership_for(p)
  /\ role[p] # "OWNER"
  /\ role' = [role EXCEPT ![p] = "NONE"]
  /\ UNCHANGED <<profile, invite, lookup, enabled, confirmed, clock>>

\* The owner becomes a member in the same transaction.
transfer_ownership(p, u) ==
  /\ require_owner(p)
  /\ role[u] # "NONE" /\ u # p
  /\ u \in enabled \cap confirmed
  /\ role' = [role EXCEPT ![p] = "MEMBER", ![u] = "OWNER"]
  /\ UNCHANGED <<profile, invite, lookup, enabled, confirmed, clock>>

-----------------------------------------------------------------------------
(* Invitations *)

\* A pending row of the address that has expired is closed on the way.
create_invitation(p, u, i) ==
  /\ require_owner(p)
  /\ role[u] = "NONE"
  /\ \A j \in Invite : invite[j].email = u => ~usable(j)
  /\ invite[i].status = "NONE"
  /\ invite' =
       [j \in Invite |->
          IF j = i
          THEN [status |-> "PENDING", email |-> u, invited_by |-> p, token_digest |-> 0,
                expires_at |-> clock + INVITATION_MAX_AGE, accepted_by |-> NoPerson]
          ELSE IF invite[j].email = u /\ invite[j].status = "PENDING"
               THEN [invite[j] EXCEPT !.status = "EXPIRED"]
               ELSE invite[j]]
  /\ UNCHANGED <<profile, role, lookup, enabled, confirmed, clock>>

resend_invitation(p, i) ==
  /\ owned_pending(p, i)
  /\ invite[i].token_digest < MaxRotations
  /\ invite' = [invite EXCEPT ![i].token_digest = invite[i].token_digest + 1,
                              ![i].expires_at = clock + INVITATION_MAX_AGE]
  /\ UNCHANGED <<profile, role, lookup, enabled, confirmed, clock>>

revoke_invitation(p, i) ==
  /\ owned_pending(p, i)
  /\ invite' = [invite EXCEPT ![i].status = "REVOKED"]
  /\ UNCHANGED <<profile, role, lookup, enabled, confirmed, clock>>

\* accept_invitation before the lock: by a person with a session and a
\* confirmed address, whoever the invitation is for.
find_invitation(p, i) ==
  /\ p \in enabled \cap confirmed
  /\ lookup[p] = NoLookup
  /\ Cardinality({q \in Person : lookup[q] # NoLookup}) < MaxLookups
  /\ invite[i].status # "NONE"
  /\ lookup' = [lookup EXCEPT ![p] = [inv |-> i, digest |-> invite[i].token_digest]]
  /\ UNCHANGED <<profile, role, invite, enabled, confirmed, clock>>

\* Mutant: whoever sent the invitation, it is still good.
acceptable_AnyInviter(p) ==
  LET i == lookup[p].inv
  IN  /\ invite[i].token_digest = lookup[p].digest
      /\ usable(i)
      /\ invite[i].email = p

\* Under the lock; whether p's own account is still active is not asked again.
acceptable(p) ==
  LET i == lookup[p].inv
  IN  /\ invite[i].token_digest = lookup[p].digest
      /\ usable(i)
      /\ invite[i].email = p
      /\ \E q \in enabled : q = invite[i].invited_by /\ role[q] = "OWNER"

\* A member keeps its role and only uses the invitation up.
accept_invitation(p) ==
  /\ lookup[p] # NoLookup
  /\ acceptable(p)
  /\ role' = [role EXCEPT ![p] = IF role[p] = "NONE" THEN "MEMBER" ELSE role[p]]
  /\ invite' = [invite EXCEPT ![lookup[p].inv].status = "ACCEPTED",
                              ![lookup[p].inv].accepted_by = p]
  /\ lookup' = [lookup EXCEPT ![p] = NoLookup]
  /\ UNCHANGED <<profile, enabled, confirmed, clock>>

refuse_invitation(p) ==
  /\ lookup[p] # NoLookup
  /\ ~acceptable(p)
  /\ lookup' = [lookup EXCEPT ![p] = NoLookup]
  /\ UNCHANGED <<profile, role, invite, enabled, confirmed, clock>>

-----------------------------------------------------------------------------
(* Accounts and time *)

\* accounts/services.py verify_email: once, for an active account.
verify_email(p) ==
  /\ p \in enabled \ confirmed
  /\ confirmed' = confirmed \cup {p}
  /\ UNCHANGED <<profile, role, invite, lookup, enabled, clock>>

\* An administrator switches an account off or on.
switch_account(p) ==
  /\ enabled' = IF p \in enabled THEN enabled \ {p} ELSE enabled \cup {p}
  /\ UNCHANGED <<profile, role, invite, lookup, confirmed, clock>>

clock_ticks ==
  /\ clock < LastInstant
  /\ clock' = clock + 1
  /\ UNCHANGED <<profile, role, invite, lookup, enabled, confirmed>>

BusinessNext ==
  \/ \E p \in Person :
       \/ \E values \in Profile : update_business(p, values)
       \/ \E u \in Person :
            \/ remove_member(p, u)
            \/ transfer_ownership(p, u)
            \/ \E i \in Invite : create_invitation(p, u, i)
       \/ \E i \in Invite :
            \/ resend_invitation(p, i)
            \/ revoke_invitation(p, i)
            \/ find_invitation(p, i)
       \/ leave_business(p)
       \/ accept_invitation(p)
       \/ refuse_invitation(p)
       \/ verify_email(p)
       \/ switch_account(p)
  \/ clock_ticks

BusinessSpec == create_business /\ [][BusinessNext]_businessVars

-----------------------------------------------------------------------------
(* A business is a team *)

\* The invitation rows with the one role they invite to.
InviteWithRole(i) ==
  [status |-> invite[i].status, email |-> invite[i].email,
   role |-> IF invite[i].status = "NONE" THEN "NONE" ELSE "MEMBER",
   invited_by |-> invite[i].invited_by, expires |-> invite[i].expires_at,
   digest |-> invite[i].token_digest]

Team == INSTANCE Memberships WITH
  User <- Person, Founder <- Creator, Nobody <- NoPerson, Invitation <- Invite,
  InviteFor <- INVITATION_MAX_AGE, MaxResends <- MaxRotations, MaxOpened <- MaxLookups,
  MaxTime <- LastInstant,
  kind <- "vendor", member <- role, invitation <- [i \in Invite |-> InviteWithRole(i)],
  opened <- lookup, active <- enabled \cap confirmed, now <- clock

\* Everything a vendor business does is something a team does: so it has one
\* owner, and nobody joins but by a current invitation, though operations only
\* ask for an active account where a team asks for a confirmed one as well.
\* This is Team!TeamSpec, with the steps of nothing named before the others.
ImplementsTeam ==
  Team!TeamInit /\ [][UNCHANGED businessVars \/ Team!TeamNext]_(Team!vars)
=============================================================================
