------------------------------ MODULE Membership ----------------------------
(***************************************************************************)
(* Members, invitations and sessions of one organization: owners and       *)
(* admins invite, remove and change roles; the invited accept or register; *)
(* members sign in and out and reset their passwords.  A handler reads in  *)
(* one statement and writes by id in a later one, so that requests         *)
(* interleave.                                                             *)
(*                                                                         *)
(* A user has one home organization for good, the one of the registration. *)
(* Sessions are of the home organization, so that a member whose home is   *)
(* elsewhere never acts here.  Users who are disabled by hand are left out. *)
(***************************************************************************)
EXTENDS Naturals, FiniteSets

CONSTANTS
    People,    \* users and e-mail addresses
    Founders,  \* those who are members at first, one of them as owner
    Invitees,  \* those who are invited
    Requests,  \* requests that are handled at the same time
    Granted,   \* the roles that invitations and role changes give
    SignIns,   \* whose sessions are modelled; the others have one at any time
    MaxResets, MaxSessions,  \* bounds of the resets and the sessions of a person
    None

ASSUME MembershipConstants ==
    /\ Founders \subseteq People /\ Invitees \subseteq People /\ None \notin People
    /\ Granted \subseteq {"OWNER", "ADMIN", "VIEWER"}
    /\ SignIns \subseteq People \ Founders /\ MaxResets \in Nat /\ MaxSessions \in Nat

VARIABLES
    member,      \* the OrganizationMembership of each person
    invitation,  \* the Invitation of each address
    request,     \* the handlers between their read and their write
    home,        \* where each person's user has its home, if there is a user
    password,    \* how often the password of each person has been reset
    token,       \* who has a password-reset token that can be used
    live         \* the sessions of each person that are neither revoked nor expired

access == <<password, token, live>>
vars == <<member, invitation, request, home, access>>

Role == {"OWNER", "ADMIN", "VIEWER"}
Managers == {"OWNER", "ADMIN"}

Member == [status : {"NONE", "ACTIVE", "REMOVED"}, role : Role]
\* An invitation is withdrawn when it is revoked or has expired.  Only the token
\* issued last is stored, so that the earlier ones find no row.
Invitation == [status : {"NONE", "OPEN", "WITHDRAWN", "ACCEPTED"}, role : Role]
Request == [kind : {"none", "remove", "role", "invite", "accept", "register", "login", "reset"},
            person : People \cup {None}, role : Role, password : 0..MaxResets, fresh : BOOLEAN]
\* A session: the password that opened it, and whether that password or the
\* membership was gone by the time the session was stored.
Session == [password : 0..MaxResets, raced : BOOLEAN]

Nobody == [status |-> "NONE", role |-> "VIEWER"]
NoInvitation == [status |-> "NONE", role |-> "VIEWER"]
NoRequest == [kind |-> "none", person |-> None, role |-> "VIEWER", password |-> 0, fresh |-> FALSE]

IsActive(p) == member[p].status = "ACTIVE"
Owners == {p \in People : IsActive(p) /\ member[p].role = "OWNER"}

Init ==
    /\ \E owner \in Founders, role \in Granted :
         member = [p \in People |-> IF p = owner THEN [status |-> "ACTIVE", role |-> "OWNER"]
                                    ELSE IF p \in Founders THEN [status |-> "ACTIVE", role |-> role]
                                    ELSE Nobody]
    /\ invitation = [p \in People |-> NoInvitation]
    /\ request = [q \in Requests |-> NoRequest]
    /\ home \in [People -> {"none", "here", "elsewhere"}]
    /\ \A p \in People : home[p] = "here" <=> p \in Founders
    /\ password = [p \in People |-> 0]
    /\ token = [p \in People |-> FALSE]
    /\ live = [p \in People |-> {}]
-----------------------------------------------------------------------------
(* A handler has read what it needs, and writes; every write makes what the *)
(* others have read old.                                                    *)

\* Mutant: a session is enough.
SignedInForGood(p) == home[p] = "here" /\ (p \in SignIns => live[p] # {})

\* requireAuth: a live session of the home organization and, each time, an
\* active membership there.
SignedIn(p) == home[p] = "here" /\ IsActive(p) /\ (p \in SignIns => live[p] # {})

MayManage(actor) == SignedIn(actor) /\ member[actor].role \in Managers

Pending(q, kind, p, role) ==
    /\ request[q].kind = "none"
    /\ request' = [request EXCEPT ![q] = [kind |-> kind, person |-> p, role |-> role,
                                          password |-> password[p], fresh |-> TRUE]]
    /\ UNCHANGED <<member, invitation, home, access>>

Outdated == [q \in Requests |-> [request[q] EXCEPT !.fresh = FALSE]]
Written(q) == request' = [Outdated EXCEPT ![q] = NoRequest]
-----------------------------------------------------------------------------
(* Removing members and changing roles.                                     *)

\* Mutant: the count is compared with zero.
LeavesNobody(p) == p \in Owners => Cardinality(Owners) > 0

\* The last owner may not go.  The membership and the count are two statements
\* of one handler; the model reads them together.
LeavesAnOwner(p) == p \in Owners => Cardinality(Owners) > 1

Remove(q, actor, p) ==
    /\ MayManage(actor) /\ p # actor /\ IsActive(p) /\ LeavesAnOwner(p)
    /\ Pending(q, "remove", p, NoRequest.role)

\* Mutant: the sessions are forgotten.
NotRevoked(p) == live

\* Every session of the person is revoked in one statement.
Revoked(p) == [live EXCEPT ![p] = {}]

Removed(q) ==
    /\ request[q].kind = "remove"
    /\ member' = [member EXCEPT ![request[q].person].status = "REMOVED"]
    /\ live' = Revoked(request[q].person)
    /\ Written(q) /\ UNCHANGED <<invitation, home, password, token>>

SetRole(q, actor, p, role) ==
    /\ MayManage(actor) /\ IsActive(p)
    /\ role = "OWNER" \/ LeavesAnOwner(p)
    /\ Pending(q, "role", p, role)

RoleSet(q) ==
    /\ request[q].kind = "role"
    /\ member' = [member EXCEPT ![request[q].person].role = request[q].role]
    /\ Written(q) /\ UNCHANGED <<invitation, home, access>>
-----------------------------------------------------------------------------
(* Invitations.                                                             *)

Invite(q, actor, p, role) ==
    /\ MayManage(actor) /\ p \in Invitees /\ ~IsActive(p)
    /\ Pending(q, "invite", p, role)

\* The row is created or renewed with another token.
Invited(q) ==
    LET p == request[q].person
    IN /\ request[q].kind = "invite"
       /\ invitation' = [invitation EXCEPT ![p] = [status |-> "OPEN", role |-> request[q].role]]
       /\ Written(q) /\ UNCHANGED <<member, home, access>>

Unaccepted(i) == i.status \in {"OPEN", "WITHDRAWN"}

\* Both are one conditional update: an accepted invitation stays as it is.
Resend(actor, p) ==
    /\ MayManage(actor)
    /\ Unaccepted(invitation[p])
    /\ invitation' = [invitation EXCEPT ![p].status = "OPEN"]
    /\ request' = Outdated /\ UNCHANGED <<member, home, access>>

Revoke(actor, p) ==
    /\ MayManage(actor)
    /\ Unaccepted(invitation[p])
    /\ invitation' = [invitation EXCEPT ![p].status = "WITHDRAWN"]
    /\ request' = Outdated /\ UNCHANGED <<member, home, access>>

Expire(p) ==
    /\ invitation[p].status = "OPEN"
    /\ invitation' = [invitation EXCEPT ![p].status = "WITHDRAWN"]
    /\ request' = Outdated /\ UNCHANGED <<member, home, access>>

\* Mutant: an invitation may be used again.
UsableAgain(i) == i.status \in {"OPEN", "ACCEPTED"}

\* An invitation that can be accepted.
Usable(i) == i.status = "OPEN"

\* A signed-in user, here or elsewhere, presents the stored token; the handler
\* keeps the role that the invitation has now.
Accept(q, p) ==
    /\ Usable(invitation[p]) /\ (home[p] = "elsewhere" \/ SignedIn(p))
    /\ Pending(q, "accept", p, invitation[p].role)

\* So does somebody without a user.
Register(q, p) ==
    /\ Usable(invitation[p]) /\ home[p] = "none"
    /\ Pending(q, "register", p, invitation[p].role)

\* The member is created or reactivated; who is one already stays as he is.
Admitted(p, role) ==
    IF IsActive(p) THEN member[p] ELSE [status |-> "ACTIVE", role |-> role]

\* The invitation is marked by id.
Joined(q) ==
    LET p == request[q].person
    IN /\ member' = [member EXCEPT ![p] = Admitted(p, request[q].role)]
       /\ invitation' = [invitation EXCEPT ![p].status = "ACCEPTED"]
       /\ Written(q) /\ UNCHANGED <<password, token>>

Accepted(q) == request[q].kind = "accept" /\ Joined(q) /\ UNCHANGED <<home, live>>

Opened(p, session) == [live EXCEPT ![p] = IF p \in SignIns THEN @ \cup {session} ELSE @]

\* The user is created with this home and a first session; an address that
\* has a user by now violates its uniqueness.
Registered(q) ==
    LET p == request[q].person
    IN /\ request[q].kind = "register" /\ home[p] = "none"
       /\ Joined(q)
       /\ home' = [home EXCEPT ![p] = "here"]
       /\ live' = Opened(p, [password |-> password[p], raced |-> FALSE])

\* Somebody registers without an invitation: a user with a home of his own.
FoundsWorkspace(p) ==
    /\ home[p] = "none"
    /\ home' = [home EXCEPT ![p] = "elsewhere"]
    /\ UNCHANGED <<member, invitation, request, access>>
-----------------------------------------------------------------------------
(* Sessions and passwords.                                                  *)

Done(q) == request' = [request EXCEPT ![q] = NoRequest]

\* The password and the membership of the home organization are checked ...
Login(q, p) ==
    /\ p \in SignIns /\ home[p] = "here" /\ IsActive(p)
    /\ Pending(q, "login", p, NoRequest.role)

\* ... and the session is created in a later transaction.
LoggedIn(q) ==
    LET p == request[q].person
    IN /\ request[q].kind = "login" /\ Cardinality(live[p]) < MaxSessions
       /\ live' = Opened(p, [password |-> request[q].password,
                             raced |-> request[q].password # password[p] \/ ~IsActive(p)])
       /\ Done(q) /\ UNCHANGED <<member, invitation, home, password, token>>

\* The user signs out, or the session expires.
Logout(p, session) ==
    /\ session \in live[p]
    /\ live' = [live EXCEPT ![p] = @ \ {session}]
    /\ UNCHANGED <<member, invitation, request, home, password, token>>

LogoutAll(p) ==
    /\ SignedIn(p)
    /\ live' = Revoked(p)
    /\ UNCHANGED <<member, invitation, request, home, password, token>>

\* A token is issued, or none can be used any more.
Forgot(p) ==
    /\ p \in SignIns /\ home[p] = "here" /\ password[p] < MaxResets
    /\ token' = [token EXCEPT ![p] = TRUE]
    /\ UNCHANGED <<member, invitation, request, home, password, live>>

Lapse(p) ==
    /\ token[p]
    /\ token' = [token EXCEPT ![p] = FALSE]
    /\ UNCHANGED <<member, invitation, request, home, password, live>>

\* The token is looked up and, statements later in the transaction, spent by
\* id: two resets may both have found it unspent.  Membership does not matter.
\* That another token may be left is the same as one that is issued afterwards.
Reset(q, p) ==
    /\ token[p]
    /\ Pending(q, "reset", p, NoRequest.role)

WasReset(q) ==
    LET p == request[q].person
    IN /\ request[q].kind = "reset" /\ password[p] < MaxResets
       /\ token' = [token EXCEPT ![p] = FALSE]
       /\ password' = [password EXCEPT ![p] = @ + 1]
       /\ live' = Revoked(p)
       /\ Done(q) /\ UNCHANGED <<member, invitation, home>>
-----------------------------------------------------------------------------
\* A statement throws.
Fail(q) ==
    /\ request[q].kind # "none"
    /\ Done(q)
    /\ UNCHANGED <<member, invitation, home, access>>

Write(q) ==
    \/ Removed(q) \/ RoleSet(q) \/ Invited(q) \/ Accepted(q) \/ Registered(q)
    \/ LoggedIn(q) \/ WasReset(q) \/ Fail(q)

Next ==
    \/ \E q \in Requests : Write(q)
    \/ \E q \in Requests, p \in People : Accept(q, p) \/ Register(q, p) \/ Login(q, p) \/ Reset(q, p)
    \/ \E q \in Requests, a, p \in People : Remove(q, a, p)
    \/ \E q \in Requests, a, p \in People, role \in Granted : SetRole(q, a, p, role) \/ Invite(q, a, p, role)
    \/ \E a, p \in People : Resend(a, p) \/ Revoke(a, p)
    \/ \E p \in People : Expire(p) \/ FoundsWorkspace(p) \/ LogoutAll(p) \/ Forgot(p) \/ Lapse(p)
    \/ \E p \in People, s \in Session : Logout(p, s)

Spec == Init /\ [][Next]_vars
-----------------------------------------------------------------------------
(* Properties.                                                              *)

\* Types: a request concerns a person exactly while it is under way, and whoever
\* has accepted an invitation has a membership.
TypeOK ==
    /\ member \in [People -> Member]
    /\ invitation \in [People -> Invitation]
    /\ request \in [Requests -> Request]
    /\ home \in [People -> {"none", "here", "elsewhere"}]
    /\ password \in [People -> 0..MaxResets] /\ token \in [People -> BOOLEAN]
    /\ live \in [People -> SUBSET Session]
    /\ \A q \in Requests : request[q].kind = "none" <=> request[q].person = None
    /\ \A p \in People : invitation[p].status = "ACCEPTED" => member[p].status # "NONE"

\* A session that can be used was opened with the password the user has now, by
\* somebody who is a member, or while that changed: neither a removal nor a
\* reset leaves an earlier session behind (the remove and reset routes).
SessionsAreCurrent ==
    \A p \in People : \A s \in live[p] :
        s.raced \/ (s.password = password[p] /\ IsActive(p))

Writes(q, kinds) == request[q].kind \in kinds /\ request'[q] = NoRequest

\* The organization loses its last owner only when two changes overlap: one of
\* them has counted the owners before the other wrote (the final-owner checks
\* of the remove and the role routes).
OwnerKept ==
    [][(Owners # {} /\ Owners' = {})
        => \E q \in Requests : Writes(q, {"remove", "role"}) /\ ~request[q].fresh]_vars

\* Somebody becomes a member, again or for the first time, with an invitation
\* that is issued to him, is neither used nor withdrawn, and has that role, or
\* it was changed after he had presented it (the accept and register routes).
JoinsAsInvited ==
    [][\A p \in People : (~IsActive(p) /\ IsActive(p)')
        => \E q \in Requests : /\ Writes(q, {"accept", "register"}) /\ request[q].person = p
                               /\ request[q].fresh =>
                                    /\ invitation[p].status = "OPEN"
                                    /\ member'[p].role = invitation[p].role]_vars

\* Who has his home here and is removed stays out, invited again or not: only an
\* accept request that was let in before the removal brings him back
\* (requireAuth of the accept route, the duplicate check of register).
RemovedStaysOut ==
    [][\A p \in People : (home[p] = "here" /\ member[p].status = "REMOVED" /\ IsActive(p)')
        => \E q \in Requests : /\ Writes(q, {"accept"}) /\ request[q].person = p
                               /\ ~request[q].fresh]_vars
=============================================================================
