--------------------------- MODULE MembershipProofs -------------------------
(***************************************************************************)
(* What Membership promises, for every number of people, founders and      *)
(* requests at a time, and for every bound of resets and sessions.         *)
(***************************************************************************)
EXTENDS Membership, FiniteSetTheorems, TLAPS

\* What a handler has read still holds while nobody has written since.
Grounded(q) ==
    LET p == request[q].person
    IN request[q].fresh =>
         /\ request[q].kind = "remove" => LeavesAnOwner(p)
         /\ (request[q].kind = "role" /\ request[q].role # "OWNER") => LeavesAnOwner(p)
         /\ request[q].kind \in {"accept", "register"} =>
              invitation[p].status = "OPEN" /\ invitation[p].role = request[q].role
         /\ (request[q].kind = "accept" /\ home[p] = "here") => IsActive(p)

RequestsAreGrounded == \A q \in Requests : Grounded(q)

IInv == TypeOK /\ RequestsAreGrounded /\ SessionsAreCurrent

\* A handler that has nothing under way.
LEMMA IdleRequest == NoRequest \in Request /\ NoRequest.kind = "none" /\ NoRequest.person = None
  BY MembershipConstants DEF NoRequest, Request, Role

LEMMA InitHolds == Init => IInv
<1> SUFFICES ASSUME Init PROVE IInv
  OBVIOUS
<1>1. TypeOK
  <2>1. member \in [People -> Member]
    BY MembershipConstants DEF Init, Member, Role, Nobody
  <2>2. /\ invitation \in [People -> Invitation]
        /\ \A p \in People : invitation[p].status # "ACCEPTED"
    BY DEF Init, NoInvitation, Invitation, Role
  <2>3. /\ request \in [Requests -> Request]
        /\ \A q \in Requests : request[q].kind = "none" /\ request[q].person = None
    BY IdleRequest DEF Init
  <2> QED
    BY <2>1, <2>2, <2>3, MembershipConstants DEF Init, TypeOK
<1>2. RequestsAreGrounded
  BY IdleRequest DEF Init, RequestsAreGrounded, Grounded
<1>3. SessionsAreCurrent
  BY DEF Init, SessionsAreCurrent
<1> QED
  BY <1>1, <1>2, <1>3 DEF IInv
-----------------------------------------------------------------------------
(* How the requests change.                                                 *)

\* A handler that has read leaves the rows and the other requests alone.
LEMMA PendingKeeps ==
    ASSUME IInv, NEW q \in Requests, NEW p \in People, NEW role \in Role,
           NEW kind \in {"remove", "role", "invite", "accept", "register", "login", "reset"},
           Pending(q, kind, p, role),
           kind = "remove" => LeavesAnOwner(p),
           (kind = "role" /\ role # "OWNER") => LeavesAnOwner(p),
           kind \in {"accept", "register"} => invitation[p].status = "OPEN" /\ invitation[p].role = role,
           (kind = "accept" /\ home[p] = "here") => IsActive(p)
    PROVE  IInv'
<1>0. TypeOK /\ RequestsAreGrounded /\ SessionsAreCurrent
  BY DEF IInv
<1> DEFINE new == [kind |-> kind, person |-> p, role |-> role, password |-> password[p], fresh |-> TRUE]
<1>1. /\ new \in Request /\ new.kind # "none" /\ new.person # None
      /\ UNCHANGED <<member, invitation, home, password, token, live>>
  BY <1>0, MembershipConstants DEF Request, TypeOK, Pending, access
<1>2. /\ request' \in [Requests -> Request] /\ request'[q] = new
      /\ \A r \in Requests : r # q => request'[r] = request[r]
  BY <1>0, <1>1 DEF Pending, TypeOK
<1>3. TypeOK'
  BY <1>0, <1>1, <1>2 DEF TypeOK
<1>4. RequestsAreGrounded'
  BY <1>0, <1>1, <1>2 DEF RequestsAreGrounded, Grounded, LeavesAnOwner, Owners, IsActive
<1>5. SessionsAreCurrent'
  BY <1>0, <1>1 DEF SessionsAreCurrent, IsActive
<1> QED
  BY <1>3, <1>4, <1>5 DEF IInv

\* What others have read is old, and is nobody's ground any more.
LEMMA OutdatedRequests ==
    ASSUME request \in [Requests -> Request]
    PROVE  /\ Outdated \in [Requests -> Request]
           /\ \A r \in Requests : /\ Outdated[r].kind = request[r].kind
                                  /\ Outdated[r].person = request[r].person
                                  /\ ~Outdated[r].fresh
  BY DEF Outdated, Request

\* After a write no request has grounds that could fail.
LEMMA AfterWrite ==
    ASSUME TypeOK, NEW q \in Requests, Written(q)
    PROVE  /\ request' \in [Requests -> Request]
           /\ request'[q] = NoRequest
           /\ \A r \in Requests : request'[r].kind = "none" <=> request'[r].person = None
           /\ RequestsAreGrounded'
<1>1. Outdated \in [Requests -> Request]
  BY OutdatedRequests DEF TypeOK
<1>2. /\ request' \in [Requests -> Request] /\ request'[q] = NoRequest
      /\ \A r \in Requests : r # q => request'[r] = Outdated[r]
  BY <1>1, IdleRequest DEF Written
<1>3. \A r \in Requests : request'[r].kind = "none" <=> request'[r].person = None
  BY <1>2, IdleRequest, OutdatedRequests DEF TypeOK
<1>4. \A r \in Requests : request'[r].fresh => request'[r].kind = "none"
  BY <1>2, IdleRequest, OutdatedRequests DEF TypeOK
<1>5. RequestsAreGrounded'
  BY <1>4 DEF RequestsAreGrounded, Grounded
<1> QED
  BY <1>2, <1>3, <1>5

\* So does a change that no handler under way has made.
LEMMA AfterOutdated ==
    ASSUME TypeOK, request' = Outdated
    PROVE  /\ request' \in [Requests -> Request]
           /\ \A r \in Requests : request'[r].kind = "none" <=> request'[r].person = None
           /\ RequestsAreGrounded'
  BY OutdatedRequests DEF TypeOK, RequestsAreGrounded, Grounded

\* A request that ends where the rows the others rest on stay.
LEMMA AfterDone ==
    ASSUME IInv, NEW q \in Requests, Done(q), UNCHANGED <<member, invitation, home>>
    PROVE  /\ request' \in [Requests -> Request]
           /\ request'[q] = NoRequest
           /\ \A r \in Requests : request'[r].kind = "none" <=> request'[r].person = None
           /\ RequestsAreGrounded'
<1>1. /\ request' \in [Requests -> Request] /\ request'[q] = NoRequest
      /\ \A r \in Requests : r # q => request'[r] = request[r]
  BY IdleRequest DEF Done, IInv, TypeOK
<1>2. \A r \in Requests : request'[r].kind = "none" <=> request'[r].person = None
  BY <1>1, IdleRequest DEF IInv, TypeOK
<1>3. RequestsAreGrounded'
  BY <1>1, IdleRequest DEF IInv, RequestsAreGrounded, Grounded, LeavesAnOwner, Owners, IsActive
<1> QED
  BY <1>1, <1>2, <1>3

\* Where the requests and what they rest on stay, the grounds do.
LEMMA GroundsStay ==
    ASSUME RequestsAreGrounded, UNCHANGED <<request, member, invitation, home>>
    PROVE  RequestsAreGrounded'
  BY DEF RequestsAreGrounded, Grounded, LeavesAnOwner, Owners, IsActive
-----------------------------------------------------------------------------
(* Members and invitations.                                                 *)

LEMMA RemovedKeeps ==
    ASSUME IInv, NEW q \in Requests, Removed(q)
    PROVE  IInv'
<1> DEFINE p == request[q].person
<1>0. TypeOK /\ SessionsAreCurrent
  BY DEF IInv
<1>1. p \in People
  BY <1>0 DEF Removed, TypeOK, Request
<1>2. /\ member' = [member EXCEPT ![p].status = "REMOVED"]
      /\ live' = [live EXCEPT ![p] = {}]
      /\ UNCHANGED <<invitation, home, password, token>>
  BY DEF Removed, Revoked
<1>3. /\ member' \in [People -> Member] /\ member'[p].status = "REMOVED"
      /\ \A x \in People : x # p => member'[x] = member[x]
  BY <1>0, <1>1, <1>2 DEF TypeOK, Member
<1>4. /\ live' \in [People -> SUBSET Session] /\ live'[p] = {}
      /\ \A x \in People : x # p => live'[x] = live[x]
  BY <1>0, <1>1, <1>2 DEF TypeOK
<1>5. TypeOK'
  BY <1>0, <1>2, <1>3, <1>4, AfterWrite DEF Removed, TypeOK
<1>6. SessionsAreCurrent'
  BY <1>0, <1>2, <1>3, <1>4 DEF SessionsAreCurrent, IsActive
<1> QED
  BY <1>0, <1>5, <1>6, AfterWrite DEF Removed, IInv

LEMMA RoleSetKeeps ==
    ASSUME IInv, NEW q \in Requests, RoleSet(q)
    PROVE  IInv'
<1> DEFINE p == request[q].person
<1>0. TypeOK /\ SessionsAreCurrent
  BY DEF IInv
<1>1. p \in People /\ request[q].role \in Role
  BY <1>0 DEF RoleSet, TypeOK, Request
<1>2. /\ member' = [member EXCEPT ![p].role = request[q].role]
      /\ UNCHANGED <<invitation, home, password, token, live>>
  BY DEF RoleSet, access
<1>3. /\ member' \in [People -> Member]
      /\ \A x \in People : member'[x].status = member[x].status
  BY <1>0, <1>1, <1>2 DEF TypeOK, Member
<1>4. TypeOK'
  BY <1>0, <1>2, <1>3, AfterWrite DEF RoleSet, TypeOK
<1>5. SessionsAreCurrent'
  BY <1>0, <1>2, <1>3 DEF SessionsAreCurrent, IsActive
<1> QED
  BY <1>0, <1>4, <1>5, AfterWrite DEF RoleSet, IInv

LEMMA InvitedKeeps ==
    ASSUME IInv, NEW q \in Requests, Invited(q)
    PROVE  IInv'
<1> DEFINE p == request[q].person
<1>0. TypeOK /\ SessionsAreCurrent
  BY DEF IInv
<1>1. p \in People /\ request[q].role \in Role
  BY <1>0 DEF Invited, TypeOK, Request
<1>2. /\ invitation' = [invitation EXCEPT ![p] = [status |-> "OPEN", role |-> request[q].role]]
      /\ UNCHANGED <<member, home, password, token, live>>
  BY DEF Invited, access
<1>3. /\ invitation' \in [People -> Invitation]
      /\ \A x \in People : invitation'[x].status = "ACCEPTED" => invitation[x].status = "ACCEPTED"
  BY <1>0, <1>1, <1>2 DEF TypeOK, Invitation
<1>4. TypeOK'
  BY <1>0, <1>2, <1>3, AfterWrite DEF Invited, TypeOK
<1>5. SessionsAreCurrent'
  BY <1>0, <1>2 DEF SessionsAreCurrent, IsActive
<1> QED
  BY <1>0, <1>4, <1>5, AfterWrite DEF Invited, IInv

\* Resend, Revoke and Expire are all of this form.
LEMMA StatusChanges ==
    ASSUME IInv, NEW p \in People, NEW status \in {"OPEN", "WITHDRAWN"},
           invitation' = [invitation EXCEPT ![p].status = status],
           request' = Outdated, UNCHANGED <<member, home, access>>
    PROVE  IInv'
<1>0. TypeOK /\ SessionsAreCurrent
  BY DEF IInv
<1>1. /\ invitation' \in [People -> Invitation]
      /\ \A x \in People : invitation'[x].status = "ACCEPTED" => invitation[x].status = "ACCEPTED"
  BY <1>0 DEF TypeOK, Invitation
<1>2. TypeOK'
  BY <1>0, <1>1, AfterOutdated DEF TypeOK, access
<1>3. SessionsAreCurrent'
  BY <1>0 DEF SessionsAreCurrent, IsActive, access
<1> QED
  BY <1>0, <1>2, <1>3, AfterOutdated DEF IInv

\* Whoever joins is a member; nobody else becomes or stops being one.
LEMMA JoinedRows ==
    ASSUME TypeOK, NEW q \in Requests, request[q].kind \in {"accept", "register"}, Joined(q)
    PROVE  LET p == request[q].person
           IN /\ p \in People
              /\ member' \in [People -> Member]
              /\ member'[p] = IF IsActive(p) THEN member[p]
                              ELSE [status |-> "ACTIVE", role |-> request[q].role]
              /\ member'[p].status = "ACTIVE"
              /\ \A x \in People : x # p => member'[x] = member[x]
              /\ invitation' \in [People -> Invitation]
              /\ \A x \in People : x # p => invitation'[x] = invitation[x]
              /\ UNCHANGED <<password, token>> /\ Written(q)
<1> DEFINE p == request[q].person
<1>1. p \in People /\ request[q].role \in Role
  BY DEF TypeOK, Request
<1>2. Admitted(p, request[q].role) \in Member /\ Admitted(p, request[q].role).status = "ACTIVE"
  BY <1>1 DEF Admitted, TypeOK, Member, IsActive
<1>3. /\ member' = [member EXCEPT ![p] = Admitted(p, request[q].role)]
      /\ invitation' = [invitation EXCEPT ![p].status = "ACCEPTED"]
      /\ Written(q) /\ UNCHANGED <<password, token>>
  BY DEF Joined
<1>4. /\ member' \in [People -> Member] /\ member'[p] = Admitted(p, request[q].role)
      /\ \A x \in People : x # p => member'[x] = member[x]
  BY <1>1, <1>2, <1>3 DEF TypeOK
<1>5. /\ invitation' \in [People -> Invitation]
      /\ \A x \in People : x # p => invitation'[x] = invitation[x]
  BY <1>1, <1>3 DEF TypeOK, Invitation
<1> QED
  BY <1>1, <1>2, <1>3, <1>4, <1>5 DEF Admitted

LEMMA AcceptedKeeps ==
    ASSUME IInv, NEW q \in Requests, Accepted(q)
    PROVE  IInv'
<1> DEFINE p == request[q].person
<1>0. TypeOK /\ SessionsAreCurrent /\ Joined(q) /\ request[q].kind = "accept" /\ UNCHANGED <<home, live>>
  BY DEF IInv, Accepted
<1>1. /\ Written(q) /\ UNCHANGED password
      /\ \A x \in People : IsActive(x) => IsActive(x)'
  BY <1>0, JoinedRows DEF IsActive
<1>2. TypeOK'
  BY <1>0, JoinedRows, AfterWrite DEF TypeOK
<1>3. SessionsAreCurrent'
  BY <1>0, <1>1 DEF SessionsAreCurrent
<1> QED
  BY <1>0, <1>1, <1>2, <1>3, AfterWrite DEF IInv

\* A session that is opened is one more of that person's.
LEMMA OpenedSessions ==
    ASSUME live \in [People -> SUBSET Session], NEW p \in People, NEW s \in Session
    PROVE  /\ Opened(p, s) \in [People -> SUBSET Session]
           /\ Opened(p, s)[p] \subseteq live[p] \cup {s}
           /\ \A x \in People : x # p => Opened(p, s)[x] = live[x]
<1>1. CASE p \in SignIns
  BY <1>1 DEF Opened
<1>2. CASE p \notin SignIns
  BY <1>2 DEF Opened
<1> QED
  BY <1>1, <1>2

LEMMA RegisteredKeeps ==
    ASSUME IInv, NEW q \in Requests, Registered(q)
    PROVE  IInv'
<1> DEFINE p == request[q].person
           s == [password |-> password[p], raced |-> FALSE]
<1>0. /\ TypeOK /\ SessionsAreCurrent /\ Joined(q) /\ request[q].kind = "register"
      /\ home' = [home EXCEPT ![p] = "here"] /\ live' = Opened(p, s)
  BY DEF IInv, Registered
<1>1. p \in People /\ s \in Session
  BY <1>0, JoinedRows DEF TypeOK, Session
<1>2. /\ live' \in [People -> SUBSET Session] /\ live'[p] \subseteq live[p] \cup {s}
      /\ \A x \in People : x # p => live'[x] = live[x]
  BY <1>0, <1>1, OpenedSessions DEF TypeOK
<1>3. home' \in [People -> {"none", "here", "elsewhere"}]
  BY <1>0, <1>1 DEF TypeOK
<1>4. /\ Written(q) /\ UNCHANGED <<password, token>>
      /\ member'[p].status = "ACTIVE" /\ \A x \in People : x # p => member'[x] = member[x]
  BY <1>0, JoinedRows
<1>5. /\ member' \in [People -> Member] /\ invitation' \in [People -> Invitation]
      /\ \A x \in People : invitation'[x].status = "ACCEPTED" => member'[x].status # "NONE"
  BY <1>0, JoinedRows DEF TypeOK
<1>6. TypeOK'
  BY <1>0, <1>2, <1>3, <1>4, <1>5, AfterWrite DEF TypeOK
<1>7. SessionsAreCurrent'
  <2>1. \A x \in People : live[x] # {} /\ IsActive(x) => member'[x].status = "ACTIVE"
    BY <1>4 DEF IsActive
  <2>2. \A x \in People : \A t \in live[x] : t.raced \/ (t.password = password'[x] /\ member'[x].status = "ACTIVE")
    BY <1>0, <1>4, <2>1 DEF SessionsAreCurrent
  <2>3. s.password = password'[p] /\ member'[p].status = "ACTIVE"
    BY <1>4
  <2> HIDE DEF s, p
  <2>4. \A x \in People : \A t \in live'[x] : t.raced \/ (t.password = password'[x] /\ member'[x].status = "ACTIVE")
    BY <1>2, <2>2, <2>3
  <2> QED
    BY <2>4 DEF SessionsAreCurrent, IsActive
<1> QED
  BY <1>0, <1>4, <1>6, <1>7, AfterWrite DEF IInv
-----------------------------------------------------------------------------
(* Sessions and passwords.                                                  *)

LEMMA LoggedInKeeps ==
    ASSUME IInv, NEW q \in Requests, LoggedIn(q)
    PROVE  IInv'
<1> DEFINE p == request[q].person
           s == [password |-> request[q].password,
                 raced |-> request[q].password # password[p] \/ ~IsActive(p)]
<1>0. /\ TypeOK /\ SessionsAreCurrent /\ Done(q) /\ live' = Opened(p, s)
      /\ UNCHANGED <<member, invitation, home, password, token>>
  BY DEF IInv, LoggedIn
<1>1. p \in People /\ s \in Session
  BY DEF IInv, LoggedIn, TypeOK, Request, Session
<1>2. /\ live' \in [People -> SUBSET Session] /\ live'[p] \subseteq live[p] \cup {s}
      /\ \A x \in People : x # p => live'[x] = live[x]
  BY <1>0, <1>1, OpenedSessions DEF TypeOK
<1>3. TypeOK'
  BY <1>0, <1>2, AfterDone DEF TypeOK
<1>4. s.raced \/ (s.password = password[p] /\ IsActive(p))
  OBVIOUS
<1>5. SessionsAreCurrent'
  BY <1>0, <1>2, <1>4 DEF SessionsAreCurrent, IsActive
<1> QED
  BY <1>0, <1>3, <1>5, AfterDone DEF IInv

LEMMA WasResetKeeps ==
    ASSUME IInv, NEW q \in Requests, WasReset(q)
    PROVE  IInv'
<1> DEFINE p == request[q].person
<1>0. /\ TypeOK /\ SessionsAreCurrent /\ Done(q) /\ password[p] < MaxResets
      /\ token' = [token EXCEPT ![p] = FALSE]
      /\ password' = [password EXCEPT ![p] = password[p] + 1]
      /\ live' = [live EXCEPT ![p] = {}]
      /\ UNCHANGED <<member, invitation, home>>
  BY DEF IInv, WasReset, Revoked
<1>1. p \in People
  BY DEF IInv, WasReset, TypeOK, Request
<1>2. password[p] + 1 \in 0..MaxResets
  BY <1>0, <1>1, MembershipConstants DEF TypeOK
<1>3. /\ password' \in [People -> 0..MaxResets] /\ token' \in [People -> BOOLEAN]
      /\ live' \in [People -> SUBSET Session] /\ live'[p] = {}
      /\ \A x \in People : x # p => live'[x] = live[x] /\ password'[x] = password[x]
  BY <1>0, <1>1, <1>2 DEF TypeOK
<1>4. TypeOK'
  BY <1>0, <1>3, AfterDone DEF TypeOK
<1>5. SessionsAreCurrent'
  BY <1>0, <1>3 DEF SessionsAreCurrent, IsActive
<1> QED
  BY <1>0, <1>4, <1>5, AfterDone DEF IInv

\* Sessions end, tokens come and go, somebody founds a workspace of his own.
LEMMA AccountSteps ==
    ASSUME IInv, NEW p \in People,
           \/ FoundsWorkspace(p) \/ LogoutAll(p) \/ Forgot(p) \/ Lapse(p)
           \/ \E s \in Session : Logout(p, s)
    PROVE  IInv'
<1>0. TypeOK /\ SessionsAreCurrent /\ RequestsAreGrounded
  BY DEF IInv
<1>1. CASE FoundsWorkspace(p)
  <2>1. home' \in [People -> {"none", "here", "elsewhere"}] /\ \A x \in People : home'[x] = "here" => home[x] = "here"
    BY <1>0, <1>1 DEF FoundsWorkspace, TypeOK
  <2>2. UNCHANGED <<member, invitation, request, password, token, live>>
    BY <1>1 DEF FoundsWorkspace, access
  <2>3. TypeOK' /\ SessionsAreCurrent'
    BY <1>0, <2>1, <2>2 DEF TypeOK, SessionsAreCurrent, IsActive
  <2>4. RequestsAreGrounded'
    <3> SUFFICES ASSUME NEW q \in Requests, request[q].fresh, request[q].kind # "none" PROVE Grounded(q)'
      BY <2>2 DEF RequestsAreGrounded, Grounded
    <3>1. request[q].person \in People /\ Grounded(q)
      BY <1>0 DEF TypeOK, Request, RequestsAreGrounded
    <3> QED
      BY <2>1, <2>2, <3>1 DEF Grounded, LeavesAnOwner, Owners, IsActive
  <2> QED
    BY <2>3, <2>4 DEF IInv
<1>2. CASE LogoutAll(p) \/ \E s \in Session : Logout(p, s)
  <2>1. /\ live' \in [People -> SUBSET Session] /\ \A x \in People : live'[x] \subseteq live[x]
        /\ UNCHANGED <<member, invitation, request, home, password, token>>
    BY <1>0, <1>2 DEF LogoutAll, Logout, Revoked, TypeOK
  <2>2. TypeOK' /\ SessionsAreCurrent'
    BY <1>0, <2>1 DEF TypeOK, SessionsAreCurrent, IsActive
  <2> QED
    BY <1>0, <2>1, <2>2, GroundsStay DEF IInv
<1>3. CASE Forgot(p) \/ Lapse(p)
  <2>1. /\ token' \in [People -> BOOLEAN]
        /\ UNCHANGED <<member, invitation, request, home, password, live>>
    BY <1>0, <1>3 DEF Forgot, Lapse, TypeOK
  <2>2. TypeOK' /\ SessionsAreCurrent'
    BY <1>0, <2>1 DEF TypeOK, SessionsAreCurrent, IsActive
  <2> QED
    BY <1>0, <2>1, <2>2, GroundsStay DEF IInv
<1> QED
  BY <1>1, <1>2, <1>3
-----------------------------------------------------------------------------
(* The invariant.                                                           *)

LEMMA WriteKeeps ==
    ASSUME IInv, NEW q \in Requests, Write(q)
    PROVE  IInv'
<1>1. CASE Fail(q)
  <2>1. TypeOK' /\ SessionsAreCurrent'
    BY <1>1, AfterDone DEF Fail, access, IInv, TypeOK, SessionsAreCurrent, IsActive
  <2> QED
    BY <1>1, <2>1, AfterDone DEF Fail, IInv
<1> QED
  BY <1>1, RemovedKeeps, RoleSetKeeps, InvitedKeeps, AcceptedKeeps, RegisteredKeeps, LoggedInKeeps,
     WasResetKeeps DEF Write

LEMMA ReadsKeep ==
    ASSUME IInv, NEW q \in Requests, NEW a \in People, NEW p \in People, NEW role \in Role,
           \/ Accept(q, p) \/ Register(q, p) \/ Login(q, p) \/ Reset(q, p)
           \/ Remove(q, a, p) \/ SetRole(q, a, p, role) \/ Invite(q, a, p, role)
    PROVE  IInv'
<1>0. NoRequest.role \in Role /\ invitation[p].role \in Role
  BY MembershipConstants DEF Role, NoRequest, IInv, TypeOK, Invitation
<1>1. CASE Accept(q, p)
  BY <1>0, <1>1, PendingKeeps DEF Accept, Usable, SignedIn
<1>2. CASE Register(q, p)
  BY <1>0, <1>2, PendingKeeps DEF Register, Usable
<1>3. CASE Login(q, p) \/ Reset(q, p) \/ Invite(q, a, p, role)
  BY <1>0, <1>3, PendingKeeps DEF Login, Reset, Invite
<1>4. CASE Remove(q, a, p)
  BY <1>0, <1>4, PendingKeeps DEF Remove
<1>5. CASE SetRole(q, a, p, role)
  BY <1>0, <1>5, PendingKeeps DEF SetRole
<1> QED
  BY <1>1, <1>2, <1>3, <1>4, <1>5

LEMMA NextKeeps == IInv /\ [Next]_vars => IInv'
<1> SUFFICES ASSUME IInv, [Next]_vars PROVE IInv'
  OBVIOUS
<1>1. CASE \E q \in Requests : Write(q)
  BY <1>1, WriteKeeps
<1>2. CASE \E q \in Requests, p \in People : Accept(q, p) \/ Register(q, p) \/ Login(q, p) \/ Reset(q, p)
  <2>1. "OWNER" \in Role
    BY DEF Role
  <2> QED
    BY <1>2, <2>1, ReadsKeep
<1>3. CASE \E q \in Requests, a, p \in People : Remove(q, a, p)
  <2>1. "OWNER" \in Role
    BY DEF Role
  <2> QED
    BY <1>3, <2>1, ReadsKeep
<1>4. CASE \E q \in Requests, a, p \in People, role \in Granted :
             SetRole(q, a, p, role) \/ Invite(q, a, p, role)
  BY <1>4, MembershipConstants, ReadsKeep DEF Role
<1>5. CASE \E a, p \in People : Resend(a, p) \/ Revoke(a, p)
  BY <1>5, StatusChanges DEF Resend, Revoke
<1>6. CASE \E p \in People : Expire(p)
  BY <1>6, StatusChanges DEF Expire
<1>7. CASE \/ \E p \in People : FoundsWorkspace(p) \/ LogoutAll(p) \/ Forgot(p) \/ Lapse(p)
           \/ \E p \in People, s \in Session : Logout(p, s)
  BY <1>7, AccountSteps
<1>8. CASE UNCHANGED vars
  <2>1. TypeOK' /\ SessionsAreCurrent'
    BY <1>8 DEF vars, access, IInv, TypeOK, SessionsAreCurrent, IsActive
  <2> QED
    BY <1>8, <2>1, GroundsStay DEF vars, IInv
<1> QED
  BY <1>1, <1>2, <1>3, <1>4, <1>5, <1>6, <1>7, <1>8 DEF Next

LEMMA MembershipInvariant == Spec => []IInv
  BY InitHolds, NextKeeps, PTL DEF Spec

\* Memberships, invitations, requests and sessions stay well typed, and whoever
\* has accepted an invitation has a membership.
THEOREM MembershipTypes == Spec => []TypeOK
<1>1. IInv => TypeOK
  BY DEF IInv
<1> QED
  BY <1>1, MembershipInvariant, PTL

\* No session survives a removal or a reset, except one whose sign-in had been
\* checked before (Removed and WasReset against LoggedIn).
THEOREM SessionsAreCurrentAlways == Spec => []SessionsAreCurrent
<1>1. IInv => SessionsAreCurrent
  BY DEF IInv
<1> QED
  BY <1>1, MembershipInvariant, PTL
-----------------------------------------------------------------------------
(* What a step may not do.  Memberships change in four writes only.         *)

LEMMA MemberWrites ==
    ASSUME IInv, [Next]_vars, member' # member
    PROVE  \E q \in Requests : Removed(q) \/ RoleSet(q) \/ Accepted(q) \/ Registered(q)
<1>1. CASE \E q \in Requests : Write(q)
  BY <1>1 DEF Write, Invited, LoggedIn, WasReset, Fail
<1>2. CASE \E q \in Requests, p \in People : Accept(q, p) \/ Register(q, p) \/ Login(q, p) \/ Reset(q, p)
  BY <1>2 DEF Accept, Register, Login, Reset, Pending
<1>3. CASE \/ \E q \in Requests, a, p \in People : Remove(q, a, p)
           \/ \E q \in Requests, a, p \in People, role \in Granted :
                SetRole(q, a, p, role) \/ Invite(q, a, p, role)
  BY <1>3 DEF Remove, SetRole, Invite, Pending
<1>4. CASE \/ \E a, p \in People : Resend(a, p) \/ Revoke(a, p)
           \/ \E p \in People : Expire(p) \/ FoundsWorkspace(p) \/ LogoutAll(p) \/ Forgot(p) \/ Lapse(p)
           \/ \E p \in People, s \in Session : Logout(p, s)
  BY <1>4 DEF Resend, Revoke, Expire, FoundsWorkspace, LogoutAll, Forgot, Lapse, Logout
<1>5. CASE UNCHANGED vars
  BY <1>5 DEF vars
<1> QED
  BY <1>1, <1>2, <1>3, <1>4, <1>5 DEF Next

\* A write ends its request.
LEMMA WriteEnds ==
    ASSUME TypeOK, NEW q \in Requests, Written(q)
    PROVE  request'[q] = NoRequest
  BY AfterWrite

\* Taking the owner role from one of several owners leaves another.
LEMMA OneOfSeveral ==
    ASSUME NEW p \in Owners, Cardinality(Owners) > 1
    PROVE  \E o \in Owners : o # p
<1> SUFFICES ASSUME \A o \in Owners : o = p PROVE FALSE
  OBVIOUS
<1>1. Owners = {p}
  OBVIOUS
<1>2. Cardinality({p}) = 1
  BY FS_Singleton
<1> QED
  BY <1>1, <1>2

\* A change that rests on its own count leaves an owner where there was one.
LEMMA CountedChange ==
    ASSUME IInv, NEW q \in Requests, Removed(q) \/ RoleSet(q), request[q].fresh, Owners # {}
    PROVE  Owners' # {}
<1> DEFINE p == request[q].person
<1>0. TypeOK /\ Grounded(q) /\ p \in People /\ request[q].kind \in {"remove", "role"}
  BY DEF IInv, RequestsAreGrounded, Removed, RoleSet, TypeOK, Request
<1>1. \A x \in People : x # p => member'[x] = member[x]
  BY <1>0 DEF Removed, RoleSet, TypeOK
<1>2. PICK o \in Owners : TRUE
  OBVIOUS
<1>3. CASE LeavesAnOwner(p)
  <2>1. PICK k \in Owners : k # p
    BY <1>2, <1>3, OneOfSeveral DEF LeavesAnOwner
  <2>2. k \in Owners'
    BY <1>1, <2>1 DEF Owners, IsActive
  <2> QED
    BY <2>2
<1>4. CASE request[q].kind = "role" /\ request[q].role = "OWNER"
  <2>1. /\ member'[p] = [member[p] EXCEPT !.role = "OWNER"] /\ member[p] \in Member
    BY <1>0, <1>4 DEF Removed, RoleSet, TypeOK
  <2>2. member'[p].status = member[p].status /\ member'[p].role = "OWNER"
    BY <2>1 DEF Member
  <2>3. o \in Owners'
    BY <1>1, <1>2, <2>2 DEF Owners, IsActive
  <2> QED
    BY <2>3
<1> QED
  BY <1>0, <1>3, <1>4 DEF Grounded

LEMMA JoiningKeepsOwners ==
    ASSUME IInv, NEW q \in Requests, Accepted(q) \/ Registered(q)
    PROVE  Owners \subseteq Owners'
<1>1. \A x \in Owners : member'[x] = member[x]
  BY JoinedRows DEF IInv, Accepted, Registered, Owners, IsActive
<1> QED
  BY <1>1 DEF Owners, IsActive

LEMMA OwnersAreKept ==
    ASSUME IInv, [Next]_vars, Owners # {}, Owners' = {}
    PROVE  \E q \in Requests : Writes(q, {"remove", "role"}) /\ ~request[q].fresh
<1>1. member' # member
  BY DEF Owners, IsActive
<1>2. PICK q \in Requests : Removed(q) \/ RoleSet(q)
  BY <1>1, MemberWrites, JoiningKeepsOwners
<1>3. request[q].kind \in {"remove", "role"} /\ request'[q] = NoRequest
  BY <1>2, WriteEnds DEF Removed, RoleSet, IInv
<1>4. ~request[q].fresh
  BY <1>2, CountedChange
<1> QED
  BY <1>3, <1>4 DEF Writes

\* The last owner is only lost to changes that overlap (the final-owner checks).
THEOREM OwnerKeptAlways == Spec => OwnerKept
<1>1. IInv /\ [Next]_vars
        => ((Owners # {} /\ Owners' = {})
             => \E q \in Requests : Writes(q, {"remove", "role"}) /\ ~request[q].fresh)
  BY OwnersAreKept
<1> QED
  BY <1>1, MembershipInvariant, PTL DEF Spec, OwnerKept

\* Whoever becomes a member does so in an accept or register request of his.
LEMMA JoiningSteps ==
    ASSUME IInv, [Next]_vars, NEW p \in People, ~IsActive(p), member'[p].status = "ACTIVE"
    PROVE  \E q \in Requests : /\ request[q].person = p /\ request'[q] = NoRequest
                               /\ \/ Accepted(q) /\ request[q].kind = "accept"
                                  \/ Registered(q) /\ request[q].kind = "register"
                               /\ member'[p].role = request[q].role
<1>0. TypeOK
  BY DEF IInv
<1>1. \A q \in Requests : Removed(q) \/ RoleSet(q) => member'[p].status # "ACTIVE"
  BY <1>0 DEF Removed, RoleSet, TypeOK, Member, Request, IsActive
<1>2. PICK q \in Requests : Accepted(q) \/ Registered(q)
  BY <1>1, MemberWrites DEF IsActive
<1>3. Joined(q) /\ request[q].kind \in {"accept", "register"}
  BY <1>2 DEF Accepted, Registered
<1>4. request[q].person = p /\ member'[p].role = request[q].role /\ Written(q)
  <2>1. request[q].person = p
    BY <1>0, <1>3, JoinedRows DEF IsActive
  <2>2. Written(q) /\ member'[p] = IF IsActive(p) THEN member[p]
                                  ELSE [status |-> "ACTIVE", role |-> request[q].role]
    BY <1>0, <1>3, <2>1, JoinedRows
  <2> QED
    BY <2>1, <2>2
<1> QED
  BY <1>0, <1>2, <1>4, WriteEnds DEF Accepted, Registered

LEMMA JoinersWereInvited ==
    ASSUME IInv, [Next]_vars, NEW p \in People, ~IsActive(p), IsActive(p)'
    PROVE  \E q \in Requests : /\ Writes(q, {"accept", "register"}) /\ request[q].person = p
                               /\ request[q].fresh =>
                                    /\ invitation[p].status = "OPEN"
                                    /\ member'[p].role = invitation[p].role
<1>1. member'[p].status = "ACTIVE"
  BY DEF IsActive
<1>2. PICK q \in Requests : /\ request[q].person = p /\ request'[q] = NoRequest
                           /\ request[q].kind \in {"accept", "register"}
                           /\ member'[p].role = request[q].role
  BY <1>1, JoiningSteps
<1>3. Grounded(q)
  BY DEF IInv, RequestsAreGrounded
<1> QED
  BY <1>2, <1>3 DEF Writes, Grounded

\* Membership is gained with an invitation that stands, in its role, unless it
\* was changed after it had been presented.
THEOREM JoinsAsInvitedAlways == Spec => JoinsAsInvited
<1>1. IInv /\ [Next]_vars
        => \A p \in People : (~IsActive(p) /\ IsActive(p)')
             => \E q \in Requests : /\ Writes(q, {"accept", "register"}) /\ request[q].person = p
                                    /\ request[q].fresh =>
                                         /\ invitation[p].status = "OPEN"
                                         /\ member'[p].role = invitation[p].role
  BY JoinersWereInvited
<1> QED
  BY <1>1, MembershipInvariant, PTL DEF Spec, JoinsAsInvited

\* Nobody who has a user registers.
LEMMA RegistersNewcomers ==
    ASSUME NEW q \in Requests, Registered(q)
    PROVE  home[request[q].person] = "none"
  BY DEF Registered

LEMMA TheRemovedStayOut ==
    ASSUME IInv, [Next]_vars, NEW p \in People,
           home[p] = "here", member[p].status = "REMOVED", IsActive(p)'
    PROVE  \E q \in Requests : /\ Writes(q, {"accept"}) /\ request[q].person = p
                               /\ ~request[q].fresh
<1>1. member'[p].status = "ACTIVE" /\ ~IsActive(p)
  BY DEF IsActive
<1>2. PICK q \in Requests : /\ request[q].person = p /\ request'[q] = NoRequest
                           /\ \/ Accepted(q) /\ request[q].kind = "accept"
                              \/ Registered(q) /\ request[q].kind = "register"
  BY <1>1, JoiningSteps
<1>3. request[q].kind = "accept"
  BY <1>2, RegistersNewcomers
<1>4. ~request[q].fresh
  BY <1>1, <1>2, <1>3 DEF IInv, RequestsAreGrounded, Grounded
<1> QED
  BY <1>2, <1>3, <1>4 DEF Writes

\* Removal is for good, except for an accept request that was let in before it
\* (requireAuth asks for the membership each time).
THEOREM RemovedStaysOutAlways == Spec => RemovedStaysOut
<1>1. IInv /\ [Next]_vars
        => \A p \in People : (home[p] = "here" /\ member[p].status = "REMOVED" /\ IsActive(p)')
             => \E q \in Requests : /\ Writes(q, {"accept"}) /\ request[q].person = p
                                    /\ ~request[q].fresh
  BY TheRemovedStayOut
<1> QED
  BY <1>1, MembershipInvariant, PTL DEF Spec, RemovedStaysOut
=============================================================================
