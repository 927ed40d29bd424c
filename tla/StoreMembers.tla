----------------------------- MODULE StoreMembers -----------------------------
(***************************************************************************)
(* Who may use a hosted plugin store: invites, the open link, members and  *)
(* their devices (crates/anistream-store-core/src/store.rs, reached through *)
(* http.rs).                                                               *)
(*                                                                         *)
(* A request reads who is asking and then acts, each in statements of its  *)
(* own: one statement, or one batch, is a step, and the steps of requests  *)
(* interleave.  A request may be cut off between two of them.              *)
(***************************************************************************)
EXTENDS Integers, Sequences

CONSTANTS
    Requests,      \* the requests answered at one time
    MaxMembers,    \* bound: members ever, removed ones too
    MaxDevices,    \* bound: devices ever
    MaxInvites,    \* bound: invites ever
    MaxCodes       \* bound: open links ever

ASSUME ConstantsAssumption ==
    MaxMembers \in Nat /\ MaxDevices \in Nat /\ MaxInvites \in Nat /\ MaxCodes \in Nat

VARIABLES
    members,  \* Seq(Standing): everyone who ever joined, by id
    devices,  \* Seq(Device): a token each
    invites,  \* Seq(Invite)
    open,     \* the open link's code, or NoCode
    codes,    \* how many codes the open link has had
    requests  \* [Requests -> Request]

table == <<members, devices, invites, open, codes>>
vars  == <<table, requests>>

-----------------------------------------------------------------------------
(* An anonymous member is one with no name, who joined with the open link; the row of one
   that is removed is deleted, and an id is never given twice. *)
Role     == {"member", "owner"}
Standing == Role \cup {"anonymous", "removed"}

Nobody   == 0
NoInvite == 0
NoCode   == 0
MemberId == 1..MaxMembers
Device   == [of : MemberId, live : BOOLEAN, invite : 0..MaxInvites]
Invite   == [kind : {"member", "device"}, role : Role, for : 0..MaxMembers, by : 0..MaxMembers,
             state : {"pending", "used", "cancelled"}]

(* A request: where it is, who asks with what device and in what role it was read, the invite
   or the code it was given. *)
Stage   == {"idle", "asked", "claimed", "found", "checked", "unowned", "withdrawn"}
Request == [at : Stage, by : 0..MaxMembers, role : Standing, device : 0..MaxDevices,
            invite : 0..MaxInvites, code : 0..MaxCodes]
Idle    == [at |-> "idle", by |-> Nobody, role |-> "removed", device |-> 0,
            invite |-> NoInvite, code |-> NoCode]

Here(m)   == members[m] # "removed"
HasOwner  == \E m \in DOMAIN members : members[m] = "owner"
At(r, s)  == requests[r].at = s
Ends(r)   == requests' = [requests EXCEPT ![r] = Idle]
Goes(r, s) == requests' = [requests EXCEPT ![r].at = s]
Owner(r)  == At(r, "asked") /\ requests[r].role = "owner"

NewDevice(m, i) == [of |-> m, live |-> TRUE, invite |-> i]
NewInvite(k, role, for, by) ==
    [kind |-> k, role |-> role, for |-> for, by |-> by, state |-> "pending"]

(* The pending invites of a set, cancelled; the devices of a set, revoked. *)
Cancelled(S) == [i \in DOMAIN invites |->
    IF i \in S /\ invites[i].state = "pending" THEN [invites[i] EXCEPT !.state = "cancelled"]
                                               ELSE invites[i]]
Revoked(S) == [d \in DOMAIN devices |->
    IF d \in S THEN [devices[d] EXCEPT !.live = FALSE] ELSE devices[d]]

-----------------------------------------------------------------------------
(* authenticate: a device of someone who is still here. *)
Authenticate(r) ==
    /\ At(r, "idle")
    /\ \E d \in DOMAIN devices :
         /\ devices[d].live /\ Here(devices[d].of)
         /\ requests' = [requests EXCEPT ![r] =
                [Idle EXCEPT !.at = "asked", !.by = devices[d].of, !.device = d,
                             !.role = members[devices[d].of]]]
    /\ UNCHANGED table

(* A request is cut off. *)
Cut(r) == ~At(r, "idle") /\ Ends(r) /\ UNCHANGED table

-----------------------------------------------------------------------------
(* Invites. *)

(* create_invite: a device of one's own, unless one has no name; anyone, by an owner. *)
CreateInvite(r) ==
    LET by == requests[r].by IN
    /\ At(r, "asked") /\ Len(invites) < MaxInvites
    /\ \/ /\ requests[r].role # "anonymous"
          /\ invites' = Append(invites, NewInvite("device", "member", by, by))
       \/ /\ Owner(r)
          /\ \E role \in Role : invites' = Append(invites, NewInvite("member", role, Nobody, by))
    /\ Ends(r)
    /\ UNCHANGED <<members, devices, open, codes>>

CancelInvite(r) ==
    /\ Owner(r)
    /\ \E i \in DOMAIN invites :
         /\ invites[i].state = "pending"
         /\ invites' = [invites EXCEPT ![i].state = "cancelled"]
    /\ Ends(r)
    /\ UNCHANGED <<members, devices, open, codes>>

(* Mutation: the invite is read and spent with the entry. *)
ClaimUnspent(r) ==
    /\ At(r, "idle")
    /\ \E i \in DOMAIN invites :
         /\ invites[i].state = "pending" /\ (invites[i].by # Nobody => Here(invites[i].by))
         /\ requests' = [requests EXCEPT ![r] = [Idle EXCEPT !.at = "claimed", !.invite = i]]
    /\ UNCHANGED table

(* Mutation: whoever made it. *)
ClaimOfAnyone(r) ==
    /\ At(r, "idle")
    /\ \E i \in DOMAIN invites :
         /\ invites[i].state = "pending"
         /\ invites' = [invites EXCEPT ![i].state = "used"]
         /\ requests' = [requests EXCEPT ![r] = [Idle EXCEPT !.at = "claimed", !.invite = i]]
    /\ UNCHANGED <<members, devices, open, codes>>

(* redeem's first statement: a pending invite whose maker is still a member is spent. *)
Claim(r) ==
    /\ At(r, "idle")
    /\ \E i \in DOMAIN invites :
         /\ invites[i].state = "pending" /\ (invites[i].by # Nobody => Here(invites[i].by))
         /\ invites' = [invites EXCEPT ![i].state = "used"]
         /\ requests' = [requests EXCEPT ![r] = [Idle EXCEPT !.at = "claimed", !.invite = i]]
    /\ UNCHANGED <<members, devices, open, codes>>

(* Mutation: the device is added and the member is not. *)
EnterHalf(r) ==
    LET i == requests[r].invite IN
    /\ At(r, "claimed") /\ invites[i].kind = "member"
    /\ Len(members) < MaxMembers /\ Len(devices) < MaxDevices
    /\ devices' = Append(devices, NewDevice(Len(members) + 1, i))
    /\ Ends(r)
    /\ UNCHANGED <<members, invites, open, codes>>

(* A member's invite: the member and the device, in one batch. *)
Enter(r) ==
    LET i == requests[r].invite IN
    /\ At(r, "claimed") /\ invites[i].kind = "member"
    /\ Len(members) < MaxMembers /\ Len(devices) < MaxDevices
    /\ members' = Append(members, invites[i].role)
    /\ devices' = Append(devices, NewDevice(Len(members) + 1, i))
    /\ Ends(r)
    /\ UNCHANGED <<invites, open, codes>>

(* A device's: its member is looked up, and then the device is added. *)
FindMember(r) ==
    LET i == requests[r].invite IN
    /\ At(r, "claimed") /\ invites[i].kind = "device"
    /\ IF Here(invites[i].for) THEN Goes(r, "found") ELSE Ends(r)
    /\ UNCHANGED table

AddDevice(r) ==
    LET i == requests[r].invite IN
    /\ At(r, "found") /\ Len(devices) < MaxDevices
    /\ devices' = Append(devices, NewDevice(invites[i].for, i))
    /\ Ends(r)
    /\ UNCHANGED <<members, invites, open, codes>>

-----------------------------------------------------------------------------
(* fresh_owner_invite, as the store starts or is claimed with its setup code: nobody owns it,
   the owner invites of before are cancelled, one is made. *)

Unowned(r) ==
    /\ At(r, "idle") /\ ~HasOwner
    /\ requests' = [requests EXCEPT ![r].at = "unowned"]
    /\ UNCHANGED table

WithdrawOwnerInvites(r) ==
    /\ At(r, "unowned")
    /\ invites' = Cancelled({i \in DOMAIN invites : invites[i].role = "owner" /\ invites[i].by = Nobody})
    /\ Goes(r, "withdrawn")
    /\ UNCHANGED <<members, devices, open, codes>>

OwnerInvite(r) ==
    /\ At(r, "withdrawn") /\ Len(invites) < MaxInvites
    /\ invites' = Append(invites, NewInvite("member", "owner", Nobody, Nobody))
    /\ Ends(r)
    /\ UNCHANGED <<members, devices, open, codes>>

-----------------------------------------------------------------------------
(* The open link. *)

(* set_open: opening what is open keeps the link, and what was closed gets another. *)
SetOpen(r) ==
    /\ Owner(r)
    /\ \/ open' = NoCode /\ UNCHANGED codes
       \/ open # NoCode /\ UNCHANGED <<open, codes>>
       \/ open = NoCode /\ codes < MaxCodes /\ open' = codes + 1 /\ codes' = codes + 1
    /\ Ends(r)
    /\ UNCHANGED <<members, devices, invites>>

(* join_open: check_open reads the code in force. *)
CheckOpen(r) ==
    /\ At(r, "idle") /\ open # NoCode
    /\ requests' = [requests EXCEPT ![r] = [Idle EXCEPT !.at = "checked", !.code = open]]
    /\ UNCHANGED table

(* Mutation: the check was enough. *)
JoinChecked(r) ==
    /\ At(r, "checked")
    /\ Len(members) < MaxMembers /\ Len(devices) < MaxDevices
    /\ members' = Append(members, "anonymous")
    /\ devices' = Append(devices, NewDevice(Len(members) + 1, NoInvite))
    /\ Ends(r)
    /\ UNCHANGED <<invites, open, codes>>

(* The batch adds the member while the code is still the store's, and the device with them. *)
JoinOpen(r) ==
    /\ At(r, "checked")
    /\ IF requests[r].code = open
       THEN /\ Len(members) < MaxMembers /\ Len(devices) < MaxDevices
            /\ members' = Append(members, "anonymous")
            /\ devices' = Append(devices, NewDevice(Len(members) + 1, NoInvite))
       ELSE UNCHANGED <<members, devices>>
    /\ Ends(r)
    /\ UNCHANGED <<invites, open, codes>>

RemoveAnonymous(r) ==
    /\ Owner(r)
    /\ devices' = Revoked({d \in DOMAIN devices : members[devices[d].of] = "anonymous"})
    /\ members' = [m \in DOMAIN members |-> IF members[m] = "anonymous" THEN "removed" ELSE members[m]]
    /\ Ends(r)
    /\ UNCHANGED <<invites, open, codes>>

-----------------------------------------------------------------------------
(* Members and devices. *)

(* Mutation: the device alone. *)
RevokeAlone(r, d) ==
    /\ devices' = [devices EXCEPT ![d].live = FALSE]
    /\ Ends(r)
    /\ UNCHANGED <<members, invites, open, codes>>

(* revoke: an anonymous member goes with the last device. *)
Revoke(r, d) ==
    LET m    == devices[d].of
        last == \A e \in DOMAIN devices \ {d} : devices[e].of = m => ~devices[e].live
    IN
    /\ devices' = [devices EXCEPT ![d].live = FALSE]
    /\ members' = IF members[m] = "anonymous" /\ last THEN [members EXCEPT ![m] = "removed"]
                                                      ELSE members
    /\ Ends(r)
    /\ UNCHANGED <<invites, open, codes>>

(* DELETE /v1/me: the device asking; DELETE /v1/devices: anyone's, by an owner. *)
RevokeDevice(r)    == At(r, "asked") /\ Revoke(r, requests[r].device)
RevokeAnyDevice(r) == Owner(r) /\ \E d \in DOMAIN devices : devices[d].live /\ Revoke(r, d)

(* set_role: not one's own, nor an anonymous member's. *)
SetRole(r) ==
    /\ Owner(r)
    /\ \E m \in DOMAIN members, role \in Role :
         /\ m # requests[r].by /\ members[m] \in Role
         /\ members' = [members EXCEPT ![m] = role]
    /\ Ends(r)
    /\ UNCHANGED <<devices, invites, open, codes>>

(* remove_member: not oneself; their devices and every invite for them or by them go too. *)
RemoveMember(r) ==
    /\ Owner(r)
    /\ \E m \in DOMAIN members :
         /\ m # requests[r].by
         /\ members' = [members EXCEPT ![m] = "removed"]
         /\ devices' = Revoked({d \in DOMAIN devices : devices[d].of = m})
         /\ invites' = Cancelled({i \in DOMAIN invites : m \in {invites[i].for, invites[i].by}})
    /\ Ends(r)
    /\ UNCHANGED <<open, codes>>

-----------------------------------------------------------------------------
Init ==
    /\ members = <<>> /\ devices = <<>> /\ invites = <<>>
    /\ open = NoCode /\ codes = 0
    /\ requests = [r \in Requests |-> Idle]

Next == \E r \in Requests :
    \/ Authenticate(r) \/ Cut(r)
    \/ CreateInvite(r) \/ CancelInvite(r) \/ Claim(r) \/ Enter(r) \/ FindMember(r) \/ AddDevice(r)
    \/ Unowned(r) \/ WithdrawOwnerInvites(r) \/ OwnerInvite(r)
    \/ SetOpen(r) \/ CheckOpen(r) \/ JoinOpen(r) \/ RemoveAnonymous(r)
    \/ RevokeDevice(r) \/ RevokeAnyDevice(r) \/ SetRole(r) \/ RemoveMember(r)

Spec == Init /\ [][Next]_vars

-----------------------------------------------------------------------------
(* Properties. *)

(* Every variable holds values of its type, and names only what is there. *)
TypeOK ==
    /\ members \in Seq(Standing) /\ Len(members) <= MaxMembers
    /\ devices \in Seq(Device) /\ Len(devices) <= MaxDevices
    /\ \A d \in DOMAIN devices : devices[d].of <= Len(members) /\ devices[d].invite <= Len(invites)
    /\ invites \in Seq(Invite) /\ Len(invites) <= MaxInvites
    /\ \A i \in DOMAIN invites : invites[i].by <= Len(members) /\ invites[i].for <= Len(members)
    /\ codes \in 0..MaxCodes /\ open \in {NoCode, codes}
    /\ requests \in [Requests -> Request]

(* An invite lets one device in, however many redeem it at once (store.rs: "two devices racing
   for one invite cannot both get it"). *)
OneEntry == \A d, e \in DOMAIN devices :
    d # e /\ devices[d].invite # NoInvite => devices[e].invite # devices[d].invite

(* A member with no name has a device that works, whatever requests that revoke devices and
   remove members cross (store.rs: "no member with no name is left with no way in"). *)
AnonymousHasDevice == \A m \in DOMAIN members :
    members[m] = "anonymous" => \E d \in DOMAIN devices : devices[d].of = m /\ devices[d].live

(* What someone removed had invited stays out: the invites there were, and the one a request of
   theirs was making while they were removed. *)
NoEntryAfterRemoval == [][\A i \in DOMAIN invites :
    invites[i].by # Nobody /\ ~Here(invites[i].by) /\ invites[i].state # "used"
    => invites'[i].state # "used"]_vars

(* Nobody joins with a link that is no longer the store's, though it was when they asked
   (store.rs: "a join racing the owner closing the store, or opening it again with a new link,
   does not get in on the old one"). *)
OldLinkStaysDead == [][Len(members') > Len(members) /\ members'[Len(members')] = "anonymous"
    => \E r \in Requests : requests[r].at = "checked" /\ requests[r].code = open
                           /\ requests'[r] # requests[r]]_vars
=============================================================================
