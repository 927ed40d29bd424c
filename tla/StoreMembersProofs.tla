-------------------------- MODULE StoreMembersProofs --------------------------
(***************************************************************************)
(* Theorems of StoreMembers, for any set of requests and any bounds.       *)
(***************************************************************************)
EXTENDS StoreMembers, TLAPS

-----------------------------------------------------------------------------
(* Data. *)

LEMMA AppendFacts ==
    ASSUME NEW S, NEW s \in Seq(S), NEW e \in S
    PROVE  /\ Append(s, e) \in Seq(S) /\ Len(Append(s, e)) = Len(s) + 1
           /\ \A i \in 1..Len(s) : Append(s, e)[i] = s[i]
           /\ Append(s, e)[Len(s) + 1] = e
OBVIOUS

LEMMA SequenceDomain ==
    ASSUME NEW S, NEW s \in Seq(S)
    PROVE  DOMAIN s = 1..Len(s) /\ Len(s) \in Nat /\ \A i \in 1..Len(s) : s[i] \in S
OBVIOUS

LEMMA ExceptFacts ==
    ASSUME NEW S, NEW s \in Seq(S), NEW i \in DOMAIN s, NEW e \in S
    PROVE  /\ [s EXCEPT ![i] = e] \in Seq(S) /\ Len([s EXCEPT ![i] = e]) = Len(s)
           /\ \A j \in 1..Len(s) : [s EXCEPT ![i] = e][j] = IF j = i THEN e ELSE s[j]
OBVIOUS

LEMMA MapFacts ==
    ASSUME NEW S, NEW n \in Nat, NEW f \in [1..n -> S]
    PROVE  f \in Seq(S) /\ Len(f) = n
OBVIOUS

LEMMA CancelledFacts ==
    ASSUME invites \in Seq(Invite), NEW S
    PROVE  /\ Cancelled(S) \in Seq(Invite) /\ Len(Cancelled(S)) = Len(invites)
           /\ \A i \in 1..Len(invites) :
                /\ Cancelled(S)[i] = [invites[i] EXCEPT !.state = Cancelled(S)[i].state]
                /\ Cancelled(S)[i].state = IF i \in S /\ invites[i].state = "pending"
                                           THEN "cancelled" ELSE invites[i].state
<1>1. DOMAIN invites = 1..Len(invites) /\ Len(invites) \in Nat /\ \A i \in 1..Len(invites) : invites[i] \in Invite
  BY SequenceDomain
<1>2. Cancelled(S) \in [1..Len(invites) -> Invite]
  BY <1>1 DEF Cancelled, Invite
<1>3. \A i \in 1..Len(invites) :
        /\ Cancelled(S)[i] = [invites[i] EXCEPT !.state = Cancelled(S)[i].state]
        /\ Cancelled(S)[i].state = IF i \in S /\ invites[i].state = "pending"
                                   THEN "cancelled" ELSE invites[i].state
  BY <1>1 DEF Cancelled, Invite
<1> QED BY <1>1, <1>2, <1>3, MapFacts

LEMMA RevokedFacts ==
    ASSUME devices \in Seq(Device), NEW S
    PROVE  /\ Revoked(S) \in Seq(Device) /\ Len(Revoked(S)) = Len(devices)
           /\ \A d \in 1..Len(devices) :
                /\ Revoked(S)[d] = [devices[d] EXCEPT !.live = Revoked(S)[d].live]
                /\ Revoked(S)[d].live = (d \notin S /\ devices[d].live)
<1>1. DOMAIN devices = 1..Len(devices) /\ Len(devices) \in Nat /\ \A d \in 1..Len(devices) : devices[d] \in Device
  BY SequenceDomain
<1>2. Revoked(S) \in [1..Len(devices) -> Device]
  BY <1>1 DEF Revoked, Device
<1>3. ASSUME NEW d \in 1..Len(devices)
      PROVE  /\ Revoked(S)[d] = [devices[d] EXCEPT !.live = Revoked(S)[d].live]
             /\ Revoked(S)[d].live = (d \notin S /\ devices[d].live)
  <2>1. devices[d] \in Device
    BY <1>1
  <2>2. CASE d \in S
    BY <2>1, <2>2, <1>1 DEF Revoked, Device
  <2>3. CASE d \notin S
    BY <2>1, <2>3, <1>1 DEF Revoked, Device
  <2> QED BY <2>2, <2>3
<1> QED BY <1>1, <1>2, <1>3, MapFacts

-----------------------------------------------------------------------------
(* Type correctness. *)

(* A request names what is there: who asks, the device, the invite it holds, the code; and a
   device's invite is for somebody. *)
Holds(r) == requests[r].at \in {"claimed", "found"}
Names(q) == /\ q.by <= Len(members) /\ q.device <= Len(devices)
            /\ q.invite <= Len(invites) /\ q.code <= codes
            /\ q.at = "asked" => q.by # Nobody /\ q.device # 0
            /\ q.at \in {"claimed", "found"} => q.invite # NoInvite
            /\ q.at = "found" => invites[q.invite].for # Nobody
            /\ q.at = "checked" => q.code # NoCode
Refers == /\ \A r \in Requests : Names(requests[r])
          /\ \A i \in DOMAIN invites : invites[i].kind = "device" => invites[i].for # Nobody

Typed == TypeOK /\ Refers

LEMMA Domains ==
    ASSUME TypeOK
    PROVE  /\ DOMAIN members = 1..Len(members) /\ Len(members) \in Nat
           /\ \A m \in 1..Len(members) : members[m] \in Standing
           /\ DOMAIN devices = 1..Len(devices) /\ Len(devices) \in Nat
           /\ \A d \in 1..Len(devices) : devices[d] \in Device /\ devices[d].of \in 1..Len(members)
           /\ DOMAIN invites = 1..Len(invites) /\ Len(invites) \in Nat
           /\ \A i \in 1..Len(invites) : invites[i] \in Invite
           /\ \A r \in Requests : requests[r] \in Request
<1>1. /\ DOMAIN members = 1..Len(members) /\ Len(members) \in Nat
      /\ \A m \in 1..Len(members) : members[m] \in Standing
  BY SequenceDomain DEF TypeOK
<1>2. /\ DOMAIN devices = 1..Len(devices) /\ Len(devices) \in Nat
      /\ \A d \in 1..Len(devices) : devices[d] \in Device
  BY SequenceDomain DEF TypeOK
<1>3. /\ DOMAIN invites = 1..Len(invites) /\ Len(invites) \in Nat
      /\ \A i \in 1..Len(invites) : invites[i] \in Invite
  BY SequenceDomain DEF TypeOK
<1>4. ASSUME NEW d \in 1..Len(devices) PROVE devices[d].of \in 1..Len(members)
  <2>1. devices[d].of <= Len(members)
    BY <1>2 DEF TypeOK
  <2>2. devices[d].of \in Nat /\ devices[d].of >= 1
    BY <1>2, ConstantsAssumption DEF Device, MemberId
  <2> QED BY <1>1, <2>1, <2>2
<1> QED BY <1>1, <1>2, <1>3, <1>4 DEF TypeOK

LEMMA MembersStep ==
    ASSUME Typed, [Next]_vars
    PROVE  /\ members' \in Seq(Standing) /\ Len(members') <= MaxMembers
           /\ Len(members) <= Len(members')
           /\ \A m \in 1..Len(members) : members[m] = "removed" => members'[m] = "removed"
<1> DEFINE Grown == /\ members' \in Seq(Standing) /\ Len(members') <= MaxMembers
                    /\ Len(members) <= Len(members')
                    /\ \A m \in 1..Len(members) : members[m] = "removed" => members'[m] = "removed"
<1> USE DEF Typed
<1>0. members \in Seq(Standing) /\ Len(members) \in Nat /\ Len(members) <= MaxMembers /\ MaxMembers \in Nat
  BY Domains, ConstantsAssumption DEF TypeOK
<1>1. ASSUME UNCHANGED members PROVE Grown
  BY <1>0, <1>1
<1>2. ASSUME NEW e \in Standing, members' = Append(members, e), Len(members) < MaxMembers PROVE Grown
  BY <1>0, <1>2, AppendFacts
<1>3. ASSUME NEW m \in DOMAIN members, NEW e \in Standing, members' = [members EXCEPT ![m] = e],
             e # "removed" => members[m] # "removed"
      PROVE  Grown
  BY <1>0, <1>3, ExceptFacts
<1>4. ASSUME NEW r \in Requests, Enter(r) PROVE Grown
  <2>1. requests[r].invite \in 1..Len(invites)
    BY <1>4, Domains DEF Enter, At, Refers, Names, Request, NoInvite
  <2>2. invites[requests[r].invite].role \in Standing
    BY <2>1, Domains DEF Invite, Standing
  <2> QED BY <1>2, <1>4, <2>2 DEF Enter
<1>5. ASSUME NEW r \in Requests, JoinOpen(r) PROVE Grown
  BY <1>1, <1>2, <1>5 DEF JoinOpen, Standing
<1>6. ASSUME NEW r \in Requests, RemoveAnonymous(r) PROVE Grown
  <2>1. members' \in [1..Len(members) -> Standing]
    BY <1>6, Domains DEF RemoveAnonymous, Standing
  <2>2. members' \in Seq(Standing) /\ Len(members') = Len(members)
    BY <1>0, <2>1, MapFacts
  <2>3. \A m \in 1..Len(members) : members[m] = "removed" => members'[m] = "removed"
    BY <1>6, Domains DEF RemoveAnonymous
  <2> QED BY <1>0, <2>2, <2>3
<1>7. ASSUME NEW r \in Requests, NEW d \in DOMAIN devices, Revoke(r, d) PROVE Grown
  <2>1. devices[d].of \in DOMAIN members
    BY Domains
  <2> QED BY <1>1, <1>3, <1>7, <2>1 DEF Revoke, Standing
<1>8. ASSUME NEW r \in Requests, SetRole(r) PROVE Grown
  <2>1. PICK m \in DOMAIN members, role \in Role :
          members[m] \in Role /\ members' = [members EXCEPT ![m] = role]
    BY <1>8 DEF SetRole
  <2> QED BY <1>3, <2>1 DEF Role, Standing
<1>9. ASSUME NEW r \in Requests, RemoveMember(r) PROVE Grown
  BY <1>3, <1>9 DEF RemoveMember, Standing
<1>10. ASSUME NEW r \in Requests, RevokeDevice(r) PROVE Grown
  <2>1. requests[r].device \in DOMAIN devices
    BY <1>10, Domains DEF RevokeDevice, At, Refers, Names, Request
  <2> QED BY <1>7, <1>10, <2>1 DEF RevokeDevice
<1> QED
  BY <1>1, <1>4, <1>5, <1>6, <1>7, <1>8, <1>9, <1>10
  DEF Next, vars, table, Authenticate, Cut, CreateInvite, CancelInvite, Claim, FindMember, AddDevice,
      Unowned, WithdrawOwnerInvites, OwnerInvite, SetOpen, CheckOpen, RevokeAnyDevice

LEMMA DevicesStep ==
    ASSUME Typed, [Next]_vars
    PROVE  /\ devices' \in Seq(Device) /\ Len(devices') <= MaxDevices
           /\ Len(devices) <= Len(devices')
           /\ \A d \in 1..Len(devices) :
                devices'[d].of = devices[d].of /\ devices'[d].invite = devices[d].invite
           /\ \A d \in (Len(devices) + 1)..Len(devices') :
                devices'[d].of <= Len(members') /\ devices'[d].invite <= Len(invites)
<1> DEFINE Grown == /\ devices' \in Seq(Device) /\ Len(devices') <= MaxDevices
                    /\ Len(devices) <= Len(devices')
                    /\ \A d \in 1..Len(devices) :
                         devices'[d].of = devices[d].of /\ devices'[d].invite = devices[d].invite
                    /\ \A d \in (Len(devices) + 1)..Len(devices') :
                         devices'[d].of <= Len(members') /\ devices'[d].invite <= Len(invites)
<1> USE DEF Typed
<1>0. /\ devices \in Seq(Device) /\ Len(devices) \in Nat /\ Len(devices) <= MaxDevices
      /\ MaxDevices \in Nat /\ MaxMembers \in Nat /\ MaxInvites \in Nat
      /\ Len(invites) \in Nat /\ Len(invites) <= MaxInvites
      /\ Len(members) \in Nat /\ Len(members) <= MaxMembers
  BY Domains, ConstantsAssumption DEF TypeOK
<1>1. ASSUME UNCHANGED devices PROVE Grown
  BY <1>0, <1>1
<1>2. ASSUME NEW m \in MemberId, NEW i \in 0..Len(invites), m <= Len(members'), Len(devices) < MaxDevices,
             devices' = Append(devices, NewDevice(m, i))
      PROVE  Grown
  <2>1. NewDevice(m, i) \in Device /\ NewDevice(m, i).of = m /\ NewDevice(m, i).invite = i
    BY <1>0 DEF NewDevice, Device
  <2> QED BY <1>0, <1>2, <2>1, AppendFacts
<1>3. ASSUME NEW S, devices' = Revoked(S) PROVE Grown
  <2>1. Len(devices') = Len(devices) /\ devices' \in Seq(Device)
    BY <1>0, <1>3, RevokedFacts
  <2>2. \A d \in 1..Len(devices) :
          devices'[d].of = devices[d].of /\ devices'[d].invite = devices[d].invite
    <3>1. SUFFICES ASSUME NEW d \in 1..Len(devices)
                   PROVE  devices'[d].of = devices[d].of /\ devices'[d].invite = devices[d].invite
      OBVIOUS
    <3>2. devices'[d] = [devices[d] EXCEPT !.live = devices'[d].live]
      BY <1>0, <1>3, RevokedFacts
    <3>3. devices[d] \in Device
      BY Domains
    <3> QED BY <3>2, <3>3 DEF Device
  <2>3. \A d \in (Len(devices) + 1)..Len(devices') : FALSE
    BY <1>0, <2>1
  <2> QED BY <1>0, <2>1, <2>2, <2>3
<1>4. ASSUME NEW r \in Requests, Enter(r) PROVE Grown
  <2>1. requests[r].invite \in 0..Len(invites)
    BY <1>4, Domains DEF Enter, At, Refers, Names, Request
  <2>2. Len(members') = Len(members) + 1
    BY <1>4, <1>0 DEF Enter
  <2>3. Len(members) + 1 \in MemberId
    BY <1>0, <1>4 DEF Enter, MemberId
  <2> QED BY <1>2, <1>4, <2>1, <2>2, <2>3, <1>0 DEF Enter
<1>5. ASSUME NEW r \in Requests, JoinOpen(r) PROVE Grown
  <2>1. CASE requests[r].code = open
    <3>1. Len(members') = Len(members) + 1 /\ Len(members) + 1 \in MemberId
      BY <1>5, <1>0, <2>1 DEF JoinOpen, MemberId
    <3> QED BY <1>2, <1>5, <2>1, <3>1, <1>0 DEF JoinOpen, NoInvite
  <2> QED BY <1>1, <1>5, <2>1 DEF JoinOpen
<1>6. ASSUME NEW r \in Requests, AddDevice(r) PROVE Grown
  <2>1. requests[r].invite \in 1..Len(invites) /\ invites[requests[r].invite].for # Nobody
    BY <1>6, Domains DEF AddDevice, At, Refers, Names, Request, NoInvite
  <2>2. invites[requests[r].invite].for \in 1..Len(members)
    BY <2>1, <1>0, Domains DEF TypeOK, Invite, Nobody
  <2> QED BY <1>2, <1>6, <2>1, <2>2, <1>0 DEF AddDevice, MemberId
<1>7. ASSUME NEW r \in Requests, NEW d \in DOMAIN devices, Revoke(r, d) PROVE Grown
  <2>1. /\ devices' = [devices EXCEPT ![d] = [devices[d] EXCEPT !.live = FALSE]]
        /\ [devices[d] EXCEPT !.live = FALSE] \in Device
    BY <1>7, Domains DEF Revoke, Device
  <2> QED BY <1>0, <2>1, ExceptFacts
<1>8. ASSUME NEW r \in Requests, RevokeDevice(r) PROVE Grown
  <2>1. requests[r].device \in DOMAIN devices
    BY <1>8, Domains DEF RevokeDevice, At, Refers, Names, Request
  <2> QED BY <1>7, <1>8, <2>1 DEF RevokeDevice
<1>9. ASSUME NEW r \in Requests, RemoveAnonymous(r) \/ RemoveMember(r) PROVE Grown
  BY <1>3, <1>9 DEF RemoveAnonymous, RemoveMember
<1> QED
  BY <1>1, <1>4, <1>5, <1>6, <1>7, <1>8, <1>9
  DEF Next, vars, table, Authenticate, Cut, CreateInvite, CancelInvite, Claim, FindMember,
      Unowned, WithdrawOwnerInvites, OwnerInvite, SetOpen, CheckOpen, RevokeAnyDevice, SetRole

LEMMA InvitesStep ==
    ASSUME Typed, [Next]_vars
    PROVE  /\ invites' \in Seq(Invite) /\ Len(invites') <= MaxInvites
           /\ Len(invites) <= Len(invites')
           /\ \A i \in 1..Len(invites) :
                /\ invites'[i] = [invites[i] EXCEPT !.state = invites'[i].state]
                /\ invites[i].state = "used" => invites'[i].state = "used"
           /\ \A i \in (Len(invites) + 1)..Len(invites') :
                /\ invites'[i].for <= Len(members) /\ invites'[i].by <= Len(members)
                /\ invites'[i].kind = "device" => invites'[i].for # Nobody
<1> DEFINE Grown ==
           /\ invites' \in Seq(Invite) /\ Len(invites') <= MaxInvites
           /\ Len(invites) <= Len(invites')
           /\ \A i \in 1..Len(invites) :
                /\ invites'[i] = [invites[i] EXCEPT !.state = invites'[i].state]
                /\ invites[i].state = "used" => invites'[i].state = "used"
           /\ \A i \in (Len(invites) + 1)..Len(invites') :
                /\ invites'[i].for <= Len(members) /\ invites'[i].by <= Len(members)
                /\ invites'[i].kind = "device" => invites'[i].for # Nobody
<1> USE DEF Typed
<1>0. /\ invites \in Seq(Invite) /\ Len(invites) \in Nat /\ Len(invites) <= MaxInvites
      /\ MaxInvites \in Nat /\ MaxMembers \in Nat
      /\ Len(members) \in Nat /\ Len(members) <= MaxMembers
      /\ DOMAIN invites = 1..Len(invites) /\ \A i \in 1..Len(invites) : invites[i] \in Invite
  BY Domains, ConstantsAssumption DEF TypeOK
<1>1. ASSUME UNCHANGED invites PROVE Grown
  BY <1>0, <1>1 DEF Invite
<1>2. ASSUME NEW e \in Invite, e.for <= Len(members), e.by <= Len(members), e.kind = "device" => e.for # Nobody,
             Len(invites) < MaxInvites, invites' = Append(invites, e)
      PROVE  Grown
  <2>1. /\ invites' \in Seq(Invite) /\ Len(invites') = Len(invites) + 1
        /\ \A i \in 1..Len(invites) : invites'[i] = invites[i]
        /\ invites'[Len(invites) + 1] = e
    BY <1>0, <1>2, AppendFacts
  <2> QED BY <1>0, <1>2, <2>1 DEF Invite
<1>3. ASSUME NEW S, invites' = Cancelled(S) PROVE Grown
  <2>1. \A i \in (Len(invites) + 1)..Len(invites') : FALSE
    BY <1>0, <1>3, CancelledFacts
  <2> QED BY <1>0, <1>3, <2>1, CancelledFacts
<1>4. ASSUME NEW i \in DOMAIN invites, NEW s \in {"used", "cancelled"}, invites[i].state = "pending",
             invites' = [invites EXCEPT ![i].state = s]
      PROVE  Grown
  <2>1. [invites[i] EXCEPT !.state = s] \in Invite
    BY <1>0 DEF Invite
  <2>2. invites' = [invites EXCEPT ![i] = [invites[i] EXCEPT !.state = s]]
    BY <1>4
  <2>3. /\ invites' \in Seq(Invite) /\ Len(invites') = Len(invites)
        /\ \A j \in 1..Len(invites) : invites'[j] = IF j = i THEN [invites[i] EXCEPT !.state = s] ELSE invites[j]
    BY <1>0, <2>1, <2>2, ExceptFacts
  <2>4. ASSUME NEW j \in 1..Len(invites)
        PROVE  /\ invites'[j] = [invites[j] EXCEPT !.state = invites'[j].state]
               /\ invites[j].state = "used" => invites'[j].state = "used"
    BY <1>0, <1>4, <2>3 DEF Invite
  <2> QED BY <1>0, <2>3, <2>4
<1>5. ASSUME NEW r \in Requests, CreateInvite(r) PROVE Grown
  <2>1. requests[r].by \in 1..Len(members)
    BY <1>5, Domains DEF CreateInvite, At, Refers, Names, Request, Nobody
  <2>2. ASSUME NEW role \in Role, invites' = Append(invites, NewInvite("member", role, Nobody, requests[r].by))
        PROVE  Grown
    <3>1. NewInvite("member", role, Nobody, requests[r].by) \in Invite
      BY <1>0, <2>1 DEF NewInvite, Invite, Nobody
    <3> QED BY <1>0, <1>2, <1>5, <2>1, <2>2, <3>1 DEF CreateInvite, NewInvite, Nobody
  <2>3. CASE invites' = Append(invites, NewInvite("device", "member", requests[r].by, requests[r].by))
    <3>1. NewInvite("device", "member", requests[r].by, requests[r].by) \in Invite
      BY <1>0, <2>1 DEF NewInvite, Invite, Role
    <3> QED BY <1>0, <1>2, <1>5, <2>1, <2>3, <3>1 DEF CreateInvite, NewInvite, Nobody
  <2> QED BY <1>5, <2>2, <2>3 DEF CreateInvite
<1>6. ASSUME NEW r \in Requests, OwnerInvite(r) PROVE Grown
  <2>1. NewInvite("member", "owner", Nobody, Nobody) \in Invite
    BY <1>0 DEF NewInvite, Invite, Nobody, Role
  <2> QED BY <1>0, <1>2, <1>6, <2>1 DEF OwnerInvite, NewInvite, Nobody
<1>7. ASSUME NEW r \in Requests, CancelInvite(r) \/ Claim(r) PROVE Grown
  BY <1>4, <1>7 DEF CancelInvite, Claim
<1>8. ASSUME NEW r \in Requests, WithdrawOwnerInvites(r) \/ RemoveMember(r) PROVE Grown
  BY <1>3, <1>8 DEF WithdrawOwnerInvites, RemoveMember
<1> QED
  BY <1>1, <1>5, <1>6, <1>7, <1>8
  DEF Next, vars, table, Authenticate, Cut, Enter, FindMember, AddDevice, Unowned, SetOpen, CheckOpen,
      JoinOpen, RemoveAnonymous, RevokeDevice, RevokeAnyDevice, Revoke, SetRole

LEMMA OpenStep ==
    ASSUME Typed, [Next]_vars
    PROVE  codes' \in codes..MaxCodes /\ open' \in {NoCode, codes'}
<1> USE DEF Typed
<1>0. codes \in 0..MaxCodes /\ open \in {NoCode, codes} /\ MaxCodes \in Nat
  BY ConstantsAssumption DEF TypeOK
<1>1. ASSUME UNCHANGED <<open, codes>> PROVE codes' \in codes..MaxCodes /\ open' \in {NoCode, codes'}
  BY <1>0, <1>1
<1>2. ASSUME NEW r \in Requests, SetOpen(r) PROVE codes' \in codes..MaxCodes /\ open' \in {NoCode, codes'}
  BY <1>0, <1>2 DEF SetOpen
<1> QED
  BY <1>1, <1>2
  DEF Next, vars, table, Authenticate, Cut, CreateInvite, CancelInvite, Claim, Enter, FindMember,
      AddDevice, Unowned, WithdrawOwnerInvites, OwnerInvite, CheckOpen, JoinOpen, RemoveAnonymous,
      RevokeDevice, RevokeAnyDevice, Revoke, SetRole, RemoveMember

(* What a step makes of a request: it stays, ends, or goes on by one of six ways. *)
Asks(q) == \E d \in DOMAIN devices :
    q = [Idle EXCEPT !.at = "asked", !.by = devices[d].of, !.device = d, !.role = members[devices[d].of]]
Claims(q) == \E i \in DOMAIN invites :
    /\ invites[i].state = "pending" /\ invites'[i].state = "used"
    /\ q = [Idle EXCEPT !.at = "claimed", !.invite = i]
Finds(p, q) == /\ p.at = "claimed" /\ invites[p.invite].kind = "device"
               /\ q = [p EXCEPT !.at = "found"]
Withdraws(p, q) == q = [p EXCEPT !.at = "unowned"] \/ q = [p EXCEPT !.at = "withdrawn"]
Checks(q) == open # NoCode /\ q = [Idle EXCEPT !.at = "checked", !.code = open]
GoesOn(p, q) == \/ q = Idle \/ Asks(q) \/ Claims(q) \/ Finds(p, q)
                \/ p.at \in {"idle", "unowned"} /\ Withdraws(p, q)
                \/ Checks(q)

LEMMA RequestsStep ==
    ASSUME Typed, [Next]_vars
    PROVE  \/ UNCHANGED requests
           \/ \E r \in Requests :
                /\ \E q : requests' = [requests EXCEPT ![r] = q] /\ GoesOn(requests[r], q)
<1> DEFINE Moved(r) == \E q : requests' = [requests EXCEPT ![r] = q] /\ GoesOn(requests[r], q)
<1> USE DEF Typed
<1>0. requests \in [Requests -> Request]
  BY DEF TypeOK
<1>1. ASSUME NEW r \in Requests, Ends(r) PROVE Moved(r)
  BY <1>1 DEF Ends, GoesOn
<1>2. ASSUME NEW r \in Requests, Authenticate(r) PROVE Moved(r)
  BY <1>2 DEF Authenticate, GoesOn, Asks
<1>3. ASSUME NEW r \in Requests, Claim(r) PROVE Moved(r)
  <2>1. PICK i \in DOMAIN invites :
          /\ invites[i].state = "pending"
          /\ invites' = [invites EXCEPT ![i].state = "used"]
          /\ requests' = [requests EXCEPT ![r] = [Idle EXCEPT !.at = "claimed", !.invite = i]]
    BY <1>3 DEF Claim
  <2>2. invites'[i].state = "used"
    BY <2>1, Domains DEF Invite
  <2> QED BY <2>1, <2>2 DEF GoesOn, Claims
<1>4. ASSUME NEW r \in Requests, FindMember(r) PROVE Moved(r)
  <2>1. CASE Ends(r)
    BY <1>1, <2>1
  <2>2. CASE Goes(r, "found")
    <3>1. requests' = [requests EXCEPT ![r] = [requests[r] EXCEPT !.at = "found"]]
      BY <1>0, <2>2 DEF Goes
    <3> QED BY <1>4, <3>1 DEF FindMember, At, GoesOn, Finds
  <2> QED BY <1>4, <2>1, <2>2 DEF FindMember
<1>5. ASSUME NEW r \in Requests, Unowned(r) PROVE Moved(r)
  <2>1. requests' = [requests EXCEPT ![r] = [requests[r] EXCEPT !.at = "unowned"]]
    BY <1>0, <1>5 DEF Unowned
  <2> QED BY <1>5, <2>1 DEF Unowned, At, GoesOn, Withdraws
<1>6. ASSUME NEW r \in Requests, WithdrawOwnerInvites(r) PROVE Moved(r)
  <2>1. requests' = [requests EXCEPT ![r] = [requests[r] EXCEPT !.at = "withdrawn"]]
    BY <1>0, <1>6 DEF WithdrawOwnerInvites, Goes
  <2> QED BY <1>6, <2>1 DEF WithdrawOwnerInvites, At, GoesOn, Withdraws
<1>7. ASSUME NEW r \in Requests, CheckOpen(r) PROVE Moved(r)
  BY <1>7 DEF CheckOpen, GoesOn, Checks
<1> QED
  BY <1>1, <1>2, <1>3, <1>4, <1>5, <1>6, <1>7
  DEF Next, vars, Cut, CreateInvite, CancelInvite, Enter, AddDevice, OwnerInvite, SetOpen, JoinOpen,
      RemoveAnonymous, RevokeDevice, RevokeAnyDevice, Revoke, SetRole, RemoveMember

LEMMA InitType == Init => Typed
BY ConstantsAssumption DEF Init, Typed, TypeOK, Refers, Names, Idle, Request, Stage, Standing, Role,
   Nobody, NoInvite, NoCode

LEMMA NextType == Typed /\ [Next]_vars => Typed'
<1> SUFFICES ASSUME Typed, [Next]_vars PROVE Typed'
  OBVIOUS
<1>1. /\ Len(members') \in Nat /\ Len(members) <= Len(members')
      /\ Len(devices') \in Nat /\ Len(devices) <= Len(devices') /\ DOMAIN devices' = 1..Len(devices')
      /\ Len(invites') \in Nat /\ Len(invites) <= Len(invites') /\ DOMAIN invites' = 1..Len(invites')
  BY MembersStep, DevicesStep, InvitesStep, SequenceDomain
<1>2. ASSUME NEW d \in DOMAIN devices'
      PROVE  devices'[d].of <= Len(members') /\ devices'[d].invite <= Len(invites')
  <2>1. CASE d \in 1..Len(devices)
    <3>1. devices[d].of <= Len(members) /\ devices[d].invite <= Len(invites)
      BY <2>1, Domains DEF Typed, TypeOK
    <3>2. devices'[d].of = devices[d].of /\ devices'[d].invite = devices[d].invite
      BY <2>1, DevicesStep
    <3>3. devices[d].of \in Nat /\ devices[d].invite \in Nat /\ Len(members) \in Nat /\ Len(invites) \in Nat
      BY <2>1, Domains, ConstantsAssumption DEF Typed, Device, MemberId
    <3> QED BY <1>1, <3>1, <3>2, <3>3
  <2>2. CASE d \in (Len(devices) + 1)..Len(devices')
    <3>1. devices'[d].of <= Len(members') /\ devices'[d].invite <= Len(invites)
      BY <2>2, DevicesStep
    <3>2. devices'[d] \in Device
      BY <1>2, <1>1, DevicesStep, SequenceDomain
    <3>3. devices'[d].invite \in Nat /\ Len(invites) \in Nat
      BY <3>2, Domains, ConstantsAssumption DEF Typed, Device
    <3> QED BY <1>1, <3>1, <3>3
  <2> QED BY <1>1, <1>2, <2>1, <2>2, Domains DEF Typed
<1>3. ASSUME NEW i \in DOMAIN invites'
      PROVE  /\ invites'[i].by <= Len(members') /\ invites'[i].for <= Len(members')
             /\ invites'[i].kind = "device" => invites'[i].for # Nobody
  <2>1. CASE i \in 1..Len(invites)
    <3>1. /\ invites[i].by <= Len(members) /\ invites[i].for <= Len(members)
          /\ invites[i].kind = "device" => invites[i].for # Nobody
          /\ invites[i] \in Invite
      BY <2>1, Domains DEF Typed, TypeOK, Refers
    <3>2. invites'[i].by = invites[i].by /\ invites'[i].for = invites[i].for /\ invites'[i].kind = invites[i].kind
      BY <2>1, <3>1, InvitesStep DEF Invite
    <3> QED BY <1>1, <3>1, <3>2, Domains, ConstantsAssumption DEF Invite, Typed
  <2>2. CASE i \in (Len(invites) + 1)..Len(invites')
    <3>1. invites'[i] \in Invite
      BY <1>1, <1>3, InvitesStep, SequenceDomain
    <3>2. /\ invites'[i].by <= Len(members) /\ invites'[i].for <= Len(members)
          /\ invites'[i].kind = "device" => invites'[i].for # Nobody
      BY <2>2, InvitesStep
    <3> QED BY <1>1, <3>1, <3>2, Domains, ConstantsAssumption DEF Invite, Typed
  <2> QED BY <1>1, <1>3, <2>1, <2>2, Domains DEF Typed
<1>4. ASSUME NEW q \in Request, Names(q) PROVE Names(q)'
  <2>1. /\ Len(members) \in Nat /\ Len(devices) \in Nat /\ Len(invites) \in Nat
        /\ codes \in Nat /\ codes' \in Nat /\ codes <= codes'
    BY OpenStep, Domains, ConstantsAssumption DEF Typed, TypeOK
  <2>2. /\ q.by <= Len(members') /\ q.device <= Len(devices') /\ q.invite <= Len(invites') /\ q.code <= codes'
        /\ q.at = "asked" => q.by # Nobody /\ q.device # 0
        /\ q.at \in {"claimed", "found"} => q.invite # NoInvite
        /\ q.at = "checked" => q.code # NoCode
    BY <1>1, <1>4, <2>1, ConstantsAssumption DEF Names, Request
  <2>3. q.at = "found" => invites'[q.invite].for # Nobody
    <3>1. SUFFICES ASSUME q.at = "found" PROVE invites'[q.invite].for # Nobody
      OBVIOUS
    <3>2. q.invite \in 1..Len(invites) /\ invites[q.invite].for # Nobody
      BY <1>4, <2>1, <3>1, ConstantsAssumption DEF Names, Request, NoInvite
    <3>3. invites[q.invite] \in Invite
      BY <3>2, Domains DEF Typed
    <3> QED BY <3>2, <3>3, InvitesStep DEF Invite
  <2> QED BY <2>2, <2>3 DEF Names
<1>5. ASSUME NEW r \in Requests, NEW q, GoesOn(requests[r], q) PROVE q \in Request /\ Names(q)
  <2>0. requests[r] \in Request /\ Names(requests[r])
    BY DEF Typed, TypeOK, Refers
  <2>1. /\ MaxMembers \in Nat /\ MaxDevices \in Nat /\ MaxInvites \in Nat /\ MaxCodes \in Nat
        /\ Len(members) \in 0..MaxMembers /\ Len(devices) \in 0..MaxDevices /\ Len(invites) \in 0..MaxInvites
        /\ codes \in 0..MaxCodes /\ open \in {NoCode, codes}
    BY Domains, ConstantsAssumption DEF Typed, TypeOK
  <2>2. CASE q = Idle
    BY <2>1, <2>2 DEF Idle, Request, Stage, Standing, Role, Names, Nobody, NoInvite, NoCode
  <2>3. CASE Asks(q)
    <3>1. PICK d \in DOMAIN devices : q = [Idle EXCEPT !.at = "asked", !.by = devices[d].of, !.device = d,
                                                       !.role = members[devices[d].of]]
      BY <2>3 DEF Asks
    <3>2. d \in 1..Len(devices) /\ devices[d].of \in 1..Len(members) /\ members[devices[d].of] \in Standing
      BY <3>1, Domains DEF Typed
    <3>3. q = [at |-> "asked", by |-> devices[d].of, role |-> members[devices[d].of], device |-> d,
               invite |-> NoInvite, code |-> NoCode]
      BY <3>1 DEF Idle
    <3>4. q \in Request
      BY <2>1, <3>2, <3>3 DEF Request, Stage, NoInvite, NoCode
    <3> QED BY <2>1, <3>2, <3>3, <3>4 DEF Names, Nobody, NoInvite, NoCode
  <2>4. CASE Claims(q)
    <3>1. PICK i \in 1..Len(invites) : q = [Idle EXCEPT !.at = "claimed", !.invite = i]
      BY <2>4, Domains DEF Claims, Typed
    <3>2. q = [at |-> "claimed", by |-> Nobody, role |-> "removed", device |-> 0,
               invite |-> i, code |-> NoCode]
      BY <3>1 DEF Idle
    <3>3. q \in Request
      BY <2>1, <3>2 DEF Request, Stage, Standing, Role, Nobody, NoCode
    <3> QED BY <2>1, <3>2, <3>3 DEF Names, Nobody, NoInvite, NoCode
  <2>5. CASE Finds(requests[r], q)
    <3>1. requests[r].invite \in 1..Len(invites)
      BY <2>0, <2>1, <2>5 DEF Finds, Names, Request, NoInvite
    <3>2. invites[requests[r].invite].for # Nobody
      BY <2>5, <3>1, Domains DEF Finds, Typed, Refers
    <3> QED BY <2>0, <2>1, <2>5, <3>1, <3>2 DEF Finds, Request, Stage, Names, NoInvite
  <2>6. CASE requests[r].at \in {"idle", "unowned"} /\ Withdraws(requests[r], q)
    <3>1. ASSUME NEW s \in {"unowned", "withdrawn"}, q = [requests[r] EXCEPT !.at = s]
          PROVE  q \in Request /\ Names(q)
      <4>1. q \in Request /\ q.at = s /\ q.by = requests[r].by /\ q.device = requests[r].device
            /\ q.invite = requests[r].invite /\ q.code = requests[r].code
        BY <2>0, <3>1 DEF Request, Stage
      <4> QED BY <2>0, <3>1, <4>1 DEF Names
    <3>2. CASE q = [requests[r] EXCEPT !.at = "unowned"]
      BY <3>1, <3>2
    <3>3. CASE q = [requests[r] EXCEPT !.at = "withdrawn"]
      BY <3>1, <3>3
    <3> QED BY <2>6, <3>2, <3>3 DEF Withdraws
  <2>7. CASE Checks(q)
    <3>1. q = [at |-> "checked", by |-> Nobody, role |-> "removed", device |-> 0,
               invite |-> NoInvite, code |-> open] /\ open # NoCode
      BY <2>7 DEF Checks, Idle
    <3>2. q \in Request
      BY <2>1, <3>1 DEF Request, Stage, Standing, Role, Nobody, NoInvite, NoCode
    <3> QED BY <2>1, <3>1, <3>2 DEF Names, Nobody, NoInvite, NoCode
  <2> QED BY <1>5, <2>2, <2>3, <2>4, <2>5, <2>6, <2>7 DEF GoesOn
<1>6. requests' \in [Requests -> Request] /\ \A r \in Requests : Names(requests'[r])
  <2>1. requests \in [Requests -> Request] /\ \A r \in Requests : Names(requests[r])
    BY DEF Typed, TypeOK, Refers
  <2> QED BY <1>5, <2>1, RequestsStep
<1>7. TypeOK'
  BY <1>2, <1>3, <1>6, MembersStep, DevicesStep, InvitesStep, OpenStep, ConstantsAssumption
     DEF TypeOK, Typed
<1>8. Refers'
  <2>1. ASSUME NEW r \in Requests PROVE Names(requests[r])'
    <3>1. Names(requests'[r]) /\ requests'[r] \in Request
      BY <1>6
    <3> QED BY <1>4, <3>1 DEF Names
  <2> QED BY <1>3, <2>1 DEF Refers
<1> QED BY <1>7, <1>8 DEF Typed

(* Every variable keeps its type, whatever requests cross. *)
THEOREM TypeCorrect == Spec => []TypeOK
<1>1. Typed => TypeOK
  BY DEF Typed
<1> QED BY InitType, NextType, <1>1, PTL DEF Spec

-----------------------------------------------------------------------------
(* One device for an invite. *)

(* An invite that let a device in, or that a request holds, is spent, and it is one of the two
   and once. *)
Spent == /\ \A d \in DOMAIN devices :
              devices[d].invite # NoInvite => invites[devices[d].invite].state = "used"
         /\ \A r \in Requests : Holds(r) =>
              /\ invites[requests[r].invite].state = "used"
              /\ \A d \in DOMAIN devices : devices[d].invite # requests[r].invite
         /\ \A r, q \in Requests : Holds(r) /\ Holds(q) /\ r # q
              => requests[r].invite # requests[q].invite
         /\ OneEntry

(* A step that spends no invite: who holds one held it, and who gets in needed none. *)
Quiet == /\ \A r \in Requests :
              Holds(r)' => Holds(r) /\ requests'[r].invite = requests[r].invite
         /\ \A d \in (Len(devices) + 1)..Len(devices') : devices'[d].invite = NoInvite

LEMMA QuietSteps ==
    ASSUME Typed, [Next]_vars
    PROVE  Quiet \/ \E r \in Requests : Claim(r) \/ Enter(r) \/ AddDevice(r)
<1> DEFINE SameDevices == \A d \in (Len(devices) + 1)..Len(devices') : devices'[d].invite = NoInvite
<1> USE DEF Typed
<1>0. /\ requests \in [Requests -> Request]
      /\ devices \in Seq(Device) /\ Len(devices) \in Nat
  BY Domains DEF TypeOK
<1>1. ASSUME Len(devices') = Len(devices) PROVE SameDevices
  BY <1>0, <1>1
<1>2. ASSUME UNCHANGED requests, SameDevices PROVE Quiet
  BY <1>2 DEF Quiet, Holds
<1>3. ASSUME NEW r \in Requests, NEW q, requests' = [requests EXCEPT ![r] = q],
             q.at \in {"claimed", "found"} => Holds(r) /\ q.invite = requests[r].invite, SameDevices
      PROVE  Quiet
  BY <1>0, <1>3 DEF Quiet, Holds
<1>4. ASSUME NEW r \in Requests, Ends(r), SameDevices PROVE Quiet
  BY <1>3, <1>4 DEF Ends, Idle
<1>5. ASSUME NEW r \in Requests, UNCHANGED devices,
             Authenticate(r) \/ Unowned(r) \/ WithdrawOwnerInvites(r) \/ FindMember(r) \/ CheckOpen(r)
      PROVE  Quiet
  <2>1. SameDevices
    BY <1>1, <1>5
  <2>2. CASE Authenticate(r)
    BY <1>3, <2>1, <2>2 DEF Authenticate, Idle
  <2>3. CASE Unowned(r)
    <3>1. requests' = [requests EXCEPT ![r] = [requests[r] EXCEPT !.at = "unowned"]]
      BY <1>0, <2>3 DEF Unowned
    <3>2. [requests[r] EXCEPT !.at = "unowned"].at = "unowned"
      BY <1>0 DEF Request
    <3> QED BY <1>3, <2>1, <3>1, <3>2
  <2>4. CASE WithdrawOwnerInvites(r)
    <3>1. requests' = [requests EXCEPT ![r] = [requests[r] EXCEPT !.at = "withdrawn"]]
      BY <1>0, <2>4 DEF WithdrawOwnerInvites, Goes
    <3>2. [requests[r] EXCEPT !.at = "withdrawn"].at = "withdrawn"
      BY <1>0 DEF Request
    <3> QED BY <1>3, <2>1, <3>1, <3>2
  <2>5. CASE FindMember(r)
    <3>1. CASE Ends(r)
      BY <1>4, <2>1, <3>1
    <3>2. CASE Goes(r, "found")
      <4>1. requests' = [requests EXCEPT ![r] = [requests[r] EXCEPT !.at = "found"]]
        BY <1>0, <3>2 DEF Goes
      <4>2. [requests[r] EXCEPT !.at = "found"].invite = requests[r].invite /\ Holds(r)
        BY <1>0, <2>5 DEF Request, Holds, FindMember, At
      <4> QED BY <1>3, <2>1, <4>1, <4>2
    <3> QED BY <2>5, <3>1, <3>2 DEF FindMember
  <2>6. CASE CheckOpen(r)
    BY <1>3, <2>1, <2>6 DEF CheckOpen, Idle
  <2> QED BY <1>5, <2>2, <2>3, <2>4, <2>5, <2>6
<1>6. ASSUME NEW r \in Requests, JoinOpen(r) PROVE Quiet
  <2>1. SameDevices
    <3>1. CASE requests[r].code = open
      <4>1. \A m \in MemberId : NewDevice(m, NoInvite) \in Device
        BY ConstantsAssumption DEF NewDevice, Device, NoInvite
      <4>2. Len(members) + 1 \in MemberId
        BY <1>6, <3>1, Domains, ConstantsAssumption DEF JoinOpen, MemberId
      <4>3. Len(devices') = Len(devices) + 1 /\ devices'[Len(devices) + 1] = NewDevice(Len(members) + 1, NoInvite)
        BY <1>0, <1>6, <3>1, <4>1, <4>2, AppendFacts DEF JoinOpen
      <4> QED BY <1>0, <4>3 DEF NewDevice
    <3> QED BY <1>1, <1>6, <3>1 DEF JoinOpen
  <2> QED BY <1>4, <1>6, <2>1 DEF JoinOpen
<1>7. ASSUME NEW r \in Requests, NEW d \in DOMAIN devices, Revoke(r, d) PROVE Quiet
  <2>1. Len(devices') = Len(devices)
    BY <1>0, <1>7 DEF Revoke
  <2> QED BY <1>1, <1>4, <1>7, <2>1 DEF Revoke
<1>8. ASSUME NEW r \in Requests, RevokeDevice(r) \/ RevokeAnyDevice(r) PROVE Quiet
  <2>1. At(r, "asked") => requests[r].device \in DOMAIN devices
    BY Domains DEF At, Refers, Names, Request
  <2> QED BY <1>7, <1>8, <2>1 DEF RevokeDevice, RevokeAnyDevice
<1>9. ASSUME NEW r \in Requests, RemoveAnonymous(r) \/ RemoveMember(r) PROVE Quiet
  <2>1. Len(devices') = Len(devices)
    <3>1. PICK S : devices' = Revoked(S)
      BY <1>9 DEF RemoveAnonymous, RemoveMember
    <3> QED BY <1>0, <3>1, RevokedFacts
  <2> QED BY <1>1, <1>4, <1>9, <2>1 DEF RemoveAnonymous, RemoveMember
<1>10. ASSUME NEW r \in Requests, UNCHANGED devices, Ends(r) PROVE Quiet
  BY <1>1, <1>4, <1>10
<1>11. ASSUME UNCHANGED vars PROVE Quiet
  BY <1>1, <1>2, <1>11 DEF vars, table
<1> QED
  BY <1>5, <1>6, <1>8, <1>9, <1>10, <1>11
  DEF Next, table, Authenticate, Cut, CreateInvite, CancelInvite, FindMember, Unowned,
      WithdrawOwnerInvites, OwnerInvite, SetOpen, CheckOpen, SetRole

LEMMA DeviceInvites ==
    ASSUME TypeOK, NEW d \in DOMAIN devices, devices[d].invite # NoInvite
    PROVE  devices[d].invite \in DOMAIN invites
<1>1. devices[d] \in Device /\ DOMAIN invites = 1..Len(invites) /\ Len(invites) \in Nat
  BY Domains
<1>2. devices[d].invite \in Nat /\ devices[d].invite <= Len(invites)
  BY <1>1, ConstantsAssumption DEF TypeOK, Device
<1> QED BY <1>1, <1>2 DEF NoInvite

LEMMA InitSpent == Init => Spent
BY DEF Init, Spent, OneEntry, Holds, Idle

LEMMA QuietKeepsSpent ==
    ASSUME Typed, [Next]_vars, Spent, Quiet
    PROVE  Spent'
<1>0. /\ DOMAIN devices = 1..Len(devices) /\ Len(devices) \in Nat
      /\ DOMAIN devices' = 1..Len(devices') /\ Len(devices') \in Nat
  BY Domains, DevicesStep, SequenceDomain DEF Typed
<1>1. ASSUME NEW d \in DOMAIN devices', devices'[d].invite # NoInvite
      PROVE  d \in DOMAIN devices /\ devices[d].invite = devices'[d].invite
  BY <1>0, <1>1, DevicesStep DEF Quiet
<1>2. ASSUME NEW i \in 1..Len(invites), invites[i].state = "used" PROVE invites'[i].state = "used"
  BY <1>2, InvitesStep
<1>3. ASSUME NEW d \in DOMAIN devices', devices'[d].invite # NoInvite
      PROVE  invites'[devices'[d].invite].state = "used"
  <2>1. devices[d].invite \in 1..Len(invites) /\ invites[devices[d].invite].state = "used"
    BY <1>1, <1>3, Domains, DeviceInvites DEF Typed, Spent
  <2> QED BY <1>1, <1>2, <1>3, <2>1
<1>4. ASSUME NEW r \in Requests, Holds(r)'
      PROVE  /\ invites'[requests'[r].invite].state = "used"
             /\ \A d \in DOMAIN devices' : devices'[d].invite # requests'[r].invite
  <2>1. Holds(r) /\ requests'[r].invite = requests[r].invite
    BY <1>4 DEF Quiet
  <2>2. requests[r].invite \in 1..Len(invites)
    BY <2>1, Domains, ConstantsAssumption DEF Typed, Refers, Names, Request, Holds, NoInvite
  <2> QED BY <1>1, <1>2, <2>1, <2>2 DEF Spent, NoInvite
<1>5. \A r, q \in Requests : Holds(r)' /\ Holds(q)' /\ r # q => requests'[r].invite # requests'[q].invite
  BY DEF Quiet, Spent
<1>6. OneEntry'
  BY <1>1 DEF OneEntry, Spent
<1> QED BY <1>3, <1>4, <1>5, <1>6 DEF Spent

LEMMA ClaimKeepsSpent ==
    ASSUME Typed, [Next]_vars, Spent, NEW r \in Requests, Claim(r)
    PROVE  Spent'
<1>1. PICK i \in DOMAIN invites :
        /\ invites[i].state = "pending"
        /\ invites' = [invites EXCEPT ![i].state = "used"]
        /\ requests' = [requests EXCEPT ![r] = [Idle EXCEPT !.at = "claimed", !.invite = i]]
        /\ UNCHANGED devices
  BY DEF Claim
<1>2. /\ requests'[r].invite = i
      /\ \A q \in Requests : q # r => requests'[q] = requests[q]
  BY <1>1 DEF Typed, TypeOK, Idle
<1>3. /\ invites'[i].state = "used"
      /\ \A j \in DOMAIN invites : j # i => invites'[j] = invites[j]
  BY <1>1, Domains DEF Invite, Typed
<1>4. \A d \in DOMAIN devices : devices[d].invite # i
  BY <1>1, Domains DEF Spent, NoInvite, Typed
<1>5. \A q \in Requests : Holds(q) => requests[q].invite # i
  BY <1>1 DEF Spent
<1>6. \A q \in Requests : q # r => (Holds(q)' <=> Holds(q))
  BY <1>2 DEF Holds
<1>7. \A d \in DOMAIN devices : devices[d].invite # NoInvite => devices[d].invite \in DOMAIN invites
  BY DeviceInvites DEF Typed
<1>8. \A q \in Requests : Holds(q) => requests[q].invite \in DOMAIN invites
  BY Domains, ConstantsAssumption DEF Typed, Refers, Names, Request, Holds, NoInvite
<1>9. \A d \in DOMAIN devices : devices[d].invite # NoInvite => invites'[devices[d].invite].state = "used"
  BY <1>3, <1>4, <1>7 DEF Spent
<1>10. ASSUME NEW q \in Requests, Holds(q)'
       PROVE  /\ invites'[requests'[q].invite].state = "used"
              /\ \A d \in DOMAIN devices : devices[d].invite # requests'[q].invite
  <2>1. CASE q = r
    BY <1>2, <1>3, <1>4, <2>1
  <2>2. CASE q # r
    BY <1>2, <1>3, <1>5, <1>6, <1>8, <1>10, <2>2 DEF Spent
  <2> QED BY <2>1, <2>2
<1>11. \A p, q \in Requests : Holds(p)' /\ Holds(q)' /\ p # q => requests'[p].invite # requests'[q].invite
  BY <1>2, <1>5, <1>6 DEF Spent
<1> QED BY <1>1, <1>9, <1>10, <1>11 DEF Spent, OneEntry

LEMMA EntryKeepsSpent ==
    ASSUME Typed, [Next]_vars, Spent, NEW r \in Requests, Enter(r) \/ AddDevice(r)
    PROVE  Spent'
<1> DEFINE i == requests[r].invite
<1>1. /\ Holds(r) /\ UNCHANGED invites
      /\ requests' = [requests EXCEPT ![r] = Idle]
  BY DEF Enter, AddDevice, Ends, Holds, At
<1>2. /\ Len(devices') = Len(devices) + 1 /\ devices'[Len(devices) + 1].invite = i
      /\ DOMAIN devices = 1..Len(devices) /\ Len(devices) \in Nat /\ DOMAIN devices' = 1..Len(devices')
      /\ \A d \in DOMAIN devices : devices'[d].invite = devices[d].invite
  <2>1. PICK m : devices' = Append(devices, NewDevice(m, i))
    BY DEF Enter, AddDevice
  <2>2. devices \in Seq(Device \cup {NewDevice(m, i)})
    BY DEF Typed, TypeOK
  <2> QED BY <2>1, <2>2, AppendFacts, SequenceDomain, DevicesStep DEF NewDevice
<1>3. /\ ~Holds(r)'
      /\ \A q \in Requests : q # r => requests'[q] = requests[q] /\ (Holds(q)' <=> Holds(q))
  BY <1>1 DEF Typed, TypeOK, Holds, Idle
<1>4. \A d \in DOMAIN devices' : devices'[d].invite # NoInvite => invites'[devices'[d].invite].state = "used"
  BY <1>1, <1>2 DEF Spent
<1>5. \A q \in Requests : Holds(q)' =>
        /\ invites'[requests'[q].invite].state = "used"
        /\ \A d \in DOMAIN devices' : devices'[d].invite # requests'[q].invite
  BY <1>1, <1>2, <1>3 DEF Spent
<1>6. \A p, q \in Requests : Holds(p)' /\ Holds(q)' /\ p # q => requests'[p].invite # requests'[q].invite
  BY <1>3 DEF Spent
<1>7. OneEntry'
  BY <1>1, <1>2 DEF OneEntry, Spent
<1> QED BY <1>4, <1>5, <1>6, <1>7 DEF Spent

(* An invite lets one device in, however many requests redeem it at once. *)
THEOREM InviteAdmitsOne == Spec => []OneEntry
<1>1. Typed /\ Spent /\ [Next]_vars => Spent'
  BY QuietSteps, QuietKeepsSpent, ClaimKeepsSpent, EntryKeepsSpent
<1>2. Spent => OneEntry
  BY DEF Spent
<1> QED BY InitType, NextType, InitSpent, <1>1, <1>2, PTL DEF Spec

-----------------------------------------------------------------------------
(* The removed, and those with no name. *)

LEMMA SpentBy ==
    ASSUME Typed, [Next]_vars, NEW i \in DOMAIN invites, invites[i].state # "used", invites'[i].state = "used"
    PROVE  invites[i].by # Nobody => Here(invites[i].by)
<1> USE DEF Typed
<1>0. /\ invites \in Seq(Invite) /\ DOMAIN invites = 1..Len(invites)
      /\ \A j \in DOMAIN invites : invites[j] \in Invite
  BY Domains DEF TypeOK
<1>1. ASSUME NEW r \in Requests, Claim(r) PROVE invites[i].by # Nobody => Here(invites[i].by)
  <2>1. PICK j \in DOMAIN invites :
          /\ invites[j].by # Nobody => Here(invites[j].by)
          /\ invites' = [invites EXCEPT ![j].state = "used"]
    BY <1>1 DEF Claim
  <2> QED BY <1>0, <2>1
<1>2. ASSUME UNCHANGED invites PROVE FALSE
  BY <1>2
<1>3. ASSUME NEW r \in Requests, CancelInvite(r) PROVE FALSE
  <2>1. PICK j \in DOMAIN invites : invites' = [invites EXCEPT ![j].state = "cancelled"]
    BY <1>3 DEF CancelInvite
  <2>2. CASE j = i
    BY <1>0, <2>1, <2>2 DEF Invite
  <2>3. CASE j # i
    BY <1>0, <2>1, <2>3
  <2> QED BY <2>2, <2>3
<1>4. ASSUME NEW S, invites' = Cancelled(S) PROVE FALSE
  BY <1>0, <1>4, CancelledFacts
<1>5. ASSUME NEW e \in Invite, invites' = Append(invites, e) PROVE FALSE
  BY <1>0, <1>5, AppendFacts
<1>6. ASSUME NEW r \in Requests, CreateInvite(r) \/ OwnerInvite(r) PROVE FALSE
  <2>1. PICK e : invites' = Append(invites, e)
    BY <1>6 DEF CreateInvite, OwnerInvite
  <2>2. invites \in Seq(Invite \cup {e}) /\ e \in Invite \cup {e}
    BY <1>0
  <2>3. invites'[i] = invites[i]
    BY <1>0, <2>1, <2>2, AppendFacts
  <2> QED BY <2>3
<1>7. ASSUME NEW r \in Requests, WithdrawOwnerInvites(r) \/ RemoveMember(r) PROVE FALSE
  BY <1>4, <1>7 DEF WithdrawOwnerInvites, RemoveMember
<1> QED
  BY <1>1, <1>2, <1>3, <1>6, <1>7
  DEF Next, vars, table, Authenticate, Cut, Enter, FindMember, AddDevice, Unowned, SetOpen, CheckOpen,
      JoinOpen, RemoveAnonymous, RevokeDevice, RevokeAnyDevice, Revoke, SetRole

(* What someone removed had invited stays out, and what a request of theirs invites yet. *)
THEOREM RemovedInviteNobody == Spec => NoEntryAfterRemoval
<1>1. Typed /\ [Next]_vars => [\A i \in DOMAIN invites :
          invites[i].by # Nobody /\ ~Here(invites[i].by) /\ invites[i].state # "used"
          => invites'[i].state # "used"]_vars
  BY SpentBy
<1> QED BY InitType, NextType, <1>1, PTL DEF Spec, NoEntryAfterRemoval

LEMMA NewAnonymous ==
    ASSUME Typed, [Next]_vars, NEW m \in DOMAIN members', members'[m] = "anonymous"
    PROVE  \/ m \in DOMAIN members /\ members[m] = "anonymous"
           \/ /\ m = Len(members) + 1
              /\ \E r \in Requests : JoinOpen(r) /\ requests[r].code = open
<1> DEFINE Known == m \in DOMAIN members /\ members[m] = "anonymous"
<1> USE DEF Typed
<1>0. /\ members \in Seq(Standing) /\ Len(members) \in Nat /\ DOMAIN members = 1..Len(members)
      /\ DOMAIN members' = 1..Len(members')
  BY Domains, MembersStep, SequenceDomain DEF TypeOK
<1>1. ASSUME UNCHANGED members PROVE Known
  BY <1>1
<1>2. ASSUME NEW n \in DOMAIN members, NEW e \in Standing \ {"anonymous"}, members' = [members EXCEPT ![n] = e]
      PROVE  Known
  BY <1>0, <1>2, ExceptFacts
<1>3. ASSUME NEW r \in Requests, Enter(r) PROVE Known
  <2>1. requests[r].invite \in 1..Len(invites)
    BY <1>3, Domains DEF Enter, At, Refers, Names, Request, NoInvite
  <2>2. invites[requests[r].invite].role \in Role
    BY <2>1, Domains DEF Invite
  <2>3. PICK e \in Role : members' = Append(members, e)
    BY <1>3, <2>2 DEF Enter
  <2>4. e \in Standing /\ e # "anonymous"
    BY DEF Role, Standing
  <2> QED BY <1>0, <2>3, <2>4, AppendFacts
<1>4. ASSUME NEW r \in Requests, JoinOpen(r), requests[r].code = open, ~Known
      PROVE  m = Len(members) + 1
  <2>1. members' = Append(members, "anonymous") /\ "anonymous" \in Standing
    BY <1>4 DEF JoinOpen, Standing
  <2> QED BY <1>0, <1>4, <2>1, AppendFacts
<1>5. ASSUME NEW r \in Requests, RemoveAnonymous(r) PROVE FALSE
  BY <1>0, <1>5 DEF RemoveAnonymous
<1>6. ASSUME NEW r \in Requests, NEW d \in DOMAIN devices, Revoke(r, d) PROVE Known
  BY <1>1, <1>2, <1>6, Domains DEF Revoke, Standing
<1>7. ASSUME NEW r \in Requests, RevokeDevice(r) \/ RevokeAnyDevice(r) PROVE Known
  <2>1. At(r, "asked") => requests[r].device \in DOMAIN devices
    BY Domains DEF At, Refers, Names, Request
  <2> QED BY <1>6, <1>7, <2>1 DEF RevokeDevice, RevokeAnyDevice
<1>8. ASSUME NEW r \in Requests, SetRole(r) PROVE Known
  <2>1. PICK n \in DOMAIN members, role \in Role : members' = [members EXCEPT ![n] = role]
    BY <1>8 DEF SetRole
  <2>2. role \in Standing \ {"anonymous"}
    BY DEF Role, Standing
  <2> QED BY <1>2, <2>1, <2>2
<1>9. ASSUME NEW r \in Requests, RemoveMember(r) PROVE Known
  BY <1>2, <1>9 DEF RemoveMember, Standing
<1> QED
  BY <1>1, <1>3, <1>4, <1>5, <1>7, <1>8, <1>9
  DEF Next, vars, table, Authenticate, Cut, CreateInvite, CancelInvite, Claim, FindMember, AddDevice,
      Unowned, WithdrawOwnerInvites, OwnerInvite, SetOpen, CheckOpen, JoinOpen

(* Nobody joins with a link the store no longer has. *)
THEOREM LinksEnd == Spec => OldLinkStaysDead
<1>1. ASSUME Typed, [Next]_vars, Len(members') > Len(members), members'[Len(members')] = "anonymous"
      PROVE  \E r \in Requests : requests[r].at = "checked" /\ requests[r].code = open
                                 /\ requests'[r] # requests[r]
  <2>1. Len(members') \in DOMAIN members' /\ Len(members') \notin DOMAIN members
    BY <1>1, Domains, MembersStep, SequenceDomain DEF Typed
  <2>2. PICK r \in Requests : JoinOpen(r) /\ requests[r].code = open
    BY <1>1, <2>1, NewAnonymous
  <2>3. requests[r].at = "checked" /\ requests'[r].at = "idle"
    BY <1>1, <2>2 DEF JoinOpen, At, Ends, Idle, Typed, TypeOK
  <2> QED BY <2>2, <2>3
<1>2. Typed /\ [Next]_vars => [Len(members') > Len(members) /\ members'[Len(members')] = "anonymous"
          => \E r \in Requests : requests[r].at = "checked" /\ requests[r].code = open
                                 /\ requests'[r] # requests[r]]_vars
  BY <1>1
<1> QED BY InitType, NextType, <1>2, PTL DEF Spec, OldLinkStaysDead

LEMMA DeviceStays ==
    ASSUME Typed, [Next]_vars, NEW d \in DOMAIN devices, devices[d].live,
           members'[devices[d].of] = "anonymous"
    PROVE  \E e \in DOMAIN devices' : devices'[e].of = devices[d].of /\ devices'[e].live
<1> DEFINE m    == devices[d].of
           Kept == \E e \in DOMAIN devices' : devices'[e].of = m /\ devices'[e].live
<1> USE DEF Typed
<1>0. /\ devices \in Seq(Device) /\ DOMAIN devices = 1..Len(devices) /\ Len(devices) \in Nat
      /\ DOMAIN devices' = 1..Len(devices') /\ Len(devices') \in Nat /\ Len(devices) <= Len(devices')
      /\ m \in DOMAIN members /\ \A e \in DOMAIN devices : devices[e] \in Device
      /\ \A e \in DOMAIN devices : devices'[e].of = devices[e].of
      /\ members \in Seq(Standing) /\ DOMAIN members = 1..Len(members)
  BY Domains, DevicesStep, SequenceDomain DEF TypeOK
<1>1. ASSUME devices'[d].live PROVE Kept
  BY <1>0, <1>1
<1>2. ASSUME UNCHANGED devices PROVE Kept
  BY <1>2
<1>3. ASSUME NEW e, devices' = Append(devices, e) PROVE Kept
  <2>1. devices \in Seq(Device \cup {e})
    BY <1>0
  <2>2. devices'[d] = devices[d]
    BY <1>0, <1>3, <2>1, AppendFacts
  <2> QED BY <1>1, <2>2
<1>4. ASSUME NEW r \in Requests, NEW c \in DOMAIN devices, Revoke(r, c) PROVE Kept
  <2>1. devices' = [devices EXCEPT ![c].live = FALSE]
    BY <1>4 DEF Revoke
  <2>2. CASE d # c
    BY <1>0, <1>1, <2>1, <2>2
  <2>3. CASE d = c
    <3>1. members[m] = "anonymous" => \E e \in DOMAIN devices \ {c} : devices[e].of = m /\ devices[e].live
      BY <1>0, <1>4, <2>3 DEF Revoke
    <3>2. members[m] = "anonymous"
      BY <1>0, <1>4, <2>3 DEF Revoke
    <3>3. PICK e \in DOMAIN devices \ {c} : devices[e].of = m /\ devices[e].live
      BY <3>1, <3>2
    <3>4. devices'[e] = devices[e] /\ e \in DOMAIN devices'
      BY <1>0, <2>1, <3>3
    <3> QED BY <3>3, <3>4
  <2> QED BY <2>2, <2>3
<1>5. ASSUME NEW r \in Requests, RevokeDevice(r) \/ RevokeAnyDevice(r) PROVE Kept
  <2>1. At(r, "asked") => requests[r].device \in DOMAIN devices
    BY Domains DEF At, Refers, Names, Request
  <2> QED BY <1>4, <1>5, <2>1 DEF RevokeDevice, RevokeAnyDevice
<1>6. ASSUME NEW r \in Requests, RemoveAnonymous(r) PROVE FALSE
  BY <1>0, <1>6 DEF RemoveAnonymous
<1>7. ASSUME NEW r \in Requests, RemoveMember(r) PROVE Kept
  <2>1. PICK n \in DOMAIN members :
          /\ members' = [members EXCEPT ![n] = "removed"]
          /\ devices' = Revoked({e \in DOMAIN devices : devices[e].of = n})
    BY <1>7 DEF RemoveMember
  <2>2. n # m
    BY <1>0, <2>1
  <2>3. devices'[d].live
    <3>1. d \in 1..Len(devices) /\ d \notin {e \in DOMAIN devices : devices[e].of = n}
      BY <1>0, <2>2
    <3>2. devices'[d].live = (d \notin {e \in DOMAIN devices : devices[e].of = n} /\ devices[d].live)
      BY <1>0, <2>1, <3>1, RevokedFacts
    <3> QED BY <3>1, <3>2
  <2> QED BY <1>1, <2>3
<1> QED
  BY <1>2, <1>3, <1>5, <1>6, <1>7
  DEF Next, vars, table, Authenticate, Cut, CreateInvite, CancelInvite, Claim, Enter, FindMember,
      AddDevice, Unowned, WithdrawOwnerInvites, OwnerInvite, SetOpen, CheckOpen, JoinOpen, SetRole

(* No member with no name is left with no way in. *)
THEOREM AnonymousKeepAWayIn == Spec => []AnonymousHasDevice
<1>1. Init => AnonymousHasDevice
  BY DEF Init, AnonymousHasDevice
<1>2. ASSUME Typed, AnonymousHasDevice, [Next]_vars PROVE AnonymousHasDevice'
  <2>1. SUFFICES ASSUME NEW m \in DOMAIN members', members'[m] = "anonymous"
                 PROVE  \E d \in DOMAIN devices' : devices'[d].of = m /\ devices'[d].live
    BY DEF AnonymousHasDevice
  <2>2. CASE m \in DOMAIN members /\ members[m] = "anonymous"
    <3>1. PICK d \in DOMAIN devices : devices[d].of = m /\ devices[d].live
      BY <1>2, <2>2 DEF AnonymousHasDevice
    <3> QED BY <1>2, <2>1, <3>1, DeviceStays
  <2>3. CASE m = Len(members) + 1 /\ \E r \in Requests : JoinOpen(r) /\ requests[r].code = open
    <3>1. devices' = Append(devices, NewDevice(m, NoInvite))
      BY <2>3 DEF JoinOpen
    <3>2. devices \in Seq(Device \cup {NewDevice(m, NoInvite)})
      BY <1>2 DEF Typed, TypeOK
    <3>3. /\ devices'[Len(devices) + 1] = NewDevice(m, NoInvite) /\ Len(devices') = Len(devices) + 1
          /\ DOMAIN devices' = 1..Len(devices') /\ Len(devices) \in Nat
      BY <1>2, <3>1, <3>2, AppendFacts, SequenceDomain
    <3> QED BY <3>3 DEF NewDevice
  <2> QED BY <1>2, <2>1, <2>2, <2>3, NewAnonymous
<1> QED BY InitType, NextType, <1>1, <1>2, PTL DEF Spec
=============================================================================
