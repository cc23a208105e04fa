------------------------------ MODULE Enrolment ------------------------------
(***************************************************************************)
(* How staff get an account, by registration or by invitation.             *)
(*                                                                         *)
(* An address is to have one account among all organizations, but no index *)
(* says so: invitations and their acceptance look for one first.  An       *)
(* acceptance saves the account, and then the invitation it read; an       *)
(* invitation that has expired is deleted and written anew.                *)
(***************************************************************************)
EXTENDS Desk

CONSTANTS
    Firms,        \* organizations
    Invitees,     \* e-mail addresses
    MaxInvite     \* bound: the invitations there will ever be

VARIABLES
    seat,         \* users: pairs of an organization and an address
    invitation,   \* invitations, by such pairs, which are unique
    invites,      \* the id of the last invitation
    guest,        \* per request: the operation, where it is, and what it has read
    spoilt,       \* history: pairs whose invitation was renewed during its acceptance, or which was cut off
    shared        \* history: addresses that registered, or that two accepted with at once

inviteVars == <<seat, invitation, invites, spoilt, shared>>
enrolmentVars == <<inviteVars, guest>>

ASSUME EnrolmentAssumption == MaxInvite \in Nat \ {0} /\ Firms # {} /\ Invitees # {}

-----------------------------------------------------------------------------
Pairs == Firms \X Invitees

Invitation == [id: 0..MaxInvite, accepted: BOOLEAN, live: BOOLEAN]
NoInvitation == [id |-> 0, accepted |-> FALSE, live |-> FALSE]

Guest == [at: {"idle", "look", "drop", "write", "check", "join", "close"},
          pair: Pairs, row: Invitation]
NoGuest == [at |-> "idle", pair |-> CHOOSE p \in Pairs : TRUE, row |-> NoInvitation]

GuestComes(r, new) ==
    /\ guest[r].at = "idle" /\ Comes("invites")
    /\ guest' = [guest EXCEPT ![r] = new]

GuestTurns(r, new) == guest' = [guest EXCEPT ![r] = new] /\ UNCHANGED left
GuestLeaves(r) == GuestTurns(r, NoGuest)

-----------------------------------------------------------------------------
\* Mutant: only within the organization, as the index has it.
TakenHere(p) == p \in seat

\* Anyone with the address, in whatever organization.
AddressTaken(p) == \E o \in Firms : <<o, p[2]>> \in seat

\* register does not look: it makes an organization, and its first account.
Register(p) ==
    /\ Comes("invites")
    /\ \A m \in Invitees : <<p[1], m>> \notin seat /\ invitation[p[1], m] = NoInvitation
    /\ \A r \in Clerks : guest[r].at # "idle" => guest[r].pair[1] # p[1]
    /\ seat' = seat \cup {p}
    /\ shared' = shared \cup {p[2]}
    /\ UNCHANGED <<invitation, invites, spoilt, guest>>

\* inviteUser looks for an account ...
AskInvite(r, p) ==
    /\ ~AddressTaken(p)
    /\ GuestComes(r, [NoGuest EXCEPT !.at = "look", !.pair = p])
    /\ UNCHANGED inviteVars

\* ... for an invitation that was not accepted, which must have expired ...
LookForInvitation(r) ==
    LET row == invitation[guest[r].pair]
        open == row.id # 0 /\ ~row.accepted
    IN  /\ guest[r].at = "look"
        /\ IF open /\ row.live THEN GuestLeaves(r)
           ELSE GuestTurns(r, [guest[r] EXCEPT !.at = IF open THEN "drop" ELSE "write", !.row = row])
        /\ UNCHANGED inviteVars

Inviting(p) == {r \in Clerks : guest[r].at \in {"drop", "write"} /\ guest[r].pair = p}
Accepting(p) == {r \in Clerks : guest[r].at \in {"check", "join", "close"} /\ guest[r].pair = p}

\* ... deletes that, by its id ...
DropInvitation(r) ==
    LET p == guest[r].pair
    IN  /\ guest[r].at = "drop"
        /\ invitation' = IF invitation[p].id = guest[r].row.id
                         THEN [invitation EXCEPT ![p] = NoInvitation] ELSE invitation
        /\ spoilt' = IF Accepting(p) = {} THEN spoilt ELSE spoilt \cup {p}
        /\ GuestTurns(r, [guest[r] EXCEPT !.at = "write"])
        /\ UNCHANGED <<seat, invites, shared>>

\* ... and writes one, unless the seats are taken, or there is one again; its mail may
\* fail.
WriteInvitation(r) ==
    LET p == guest[r].pair
    IN  /\ guest[r].at = "write"
        /\ \/ UNCHANGED <<invitation, invites>>
           \/ /\ invitation[p] = NoInvitation /\ invites < MaxInvite
              /\ invites' = invites + 1
              /\ invitation' = [invitation EXCEPT ![p] = [id |-> invites + 1, accepted |-> FALSE, live |-> TRUE]]
        /\ GuestLeaves(r)
        /\ UNCHANGED <<seat, spoilt, shared>>

InvitationExpires(p) ==
    /\ invitation[p].live /\ Comes("invites")
    /\ invitation' = [invitation EXCEPT ![p].live = FALSE]
    /\ UNCHANGED <<seat, invites, spoilt, shared, guest>>

\* acceptInvite reads the invitation ...
AskAccept(r, p) ==
    /\ invitation[p].live /\ ~invitation[p].accepted
    /\ GuestComes(r, [NoGuest EXCEPT !.at = "check", !.pair = p, !.row = invitation[p]])
    /\ UNCHANGED inviteVars

\* ... looks for an account, and whether there is a seat ...
CheckAccept(r) ==
    /\ guest[r].at = "check"
    /\ \/ GuestLeaves(r)
       \/ ~AddressTaken(guest[r].pair) /\ GuestTurns(r, [guest[r] EXCEPT !.at = "join"])
    /\ UNCHANGED inviteVars

\* ... saves the account, once per organization ...
Join(r) ==
    LET p == guest[r].pair
        others == {q \in Clerks \ {r} : guest[q].at = "join" /\ guest[q].pair[2] = p[2]}
    IN  /\ guest[r].at = "join"
        /\ IF p \in seat THEN GuestLeaves(r) ELSE GuestTurns(r, [guest[r] EXCEPT !.at = "close"])
        /\ seat' = seat \cup {p}
        /\ shared' = IF others = {} THEN shared ELSE shared \cup {p[2]}
        /\ UNCHANGED <<invitation, invites, spoilt>>

\* ... and the invitation, as accepted; one that was deleted is inserted again, unless
\* there is another.
CloseInvitation(r) ==
    LET p == guest[r].pair
        row == guest[r].row
    IN  /\ guest[r].at = "close"
        /\ invitation' = IF invitation[p].id \in {0, row.id}
                         THEN [invitation EXCEPT ![p] = [row EXCEPT !.accepted = TRUE]] ELSE invitation
        /\ spoilt' = IF Inviting(p) = {} THEN spoilt ELSE spoilt \cup {p}
        /\ GuestLeaves(r)
        /\ UNCHANGED <<seat, invites, shared>>

\* The account is there already.
CloseFails(r) ==
    /\ guest[r].at = "close" /\ Comes("chance")
    /\ guest' = [guest EXCEPT ![r] = NoGuest]
    /\ spoilt' = spoilt \cup {guest[r].pair}
    /\ UNCHANGED <<seat, invitation, invites, shared>>

-----------------------------------------------------------------------------
\* The process dies, with its requests.
GuestsDie ==
    /\ spoilt' = spoilt \cup {guest[r].pair : r \in {q \in Clerks : guest[q].at = "close"}}
    /\ guest' = [r \in Clerks |-> NoGuest]
    /\ UNCHANGED <<seat, invitation, invites, shared>>

\* Addresses that have an account, or an invitation, or neither.
EnrolmentInit ==
    /\ seat = {}
    /\ \E open \in SUBSET Pairs :
          invitation = [p \in Pairs |-> IF p \in open THEN [id |-> 1, accepted |-> FALSE, live |-> TRUE] ELSE NoInvitation]
    /\ invites = 1
    /\ guest = [r \in Clerks |-> NoGuest]
    /\ spoilt = {} /\ shared = {}

InviteStep(r) ==
    \/ May("invites") /\ \E p \in Pairs : AskInvite(r, p) \/ AskAccept(r, p)
    \/ LookForInvitation(r) \/ DropInvitation(r) \/ WriteInvitation(r)
    \/ CheckAccept(r) \/ Join(r) \/ CloseInvitation(r) \/ CloseFails(r)

EnrolmentNext ==
    \/ \E r \in Clerks : InviteStep(r)
    \/ May("invites") /\ \E p \in Pairs : Register(p) \/ InvitationExpires(p)

-----------------------------------------------------------------------------
EnrolmentTypeOK ==
    /\ seat \subseteq Pairs /\ spoilt \subseteq Pairs /\ shared \subseteq Invitees
    /\ invitation \in [Pairs -> Invitation] /\ invites \in Nat
    /\ guest \in [Clerks -> Guest]

\* An address whose accounts all came by invitation has one account, unless two
\* acceptances overlapped.
OneAccountEach ==
    \A m \in Invitees \ shared : \A o, p \in Firms : <<o, m>> \in seat /\ <<p, m>> \in seat => o = p

\* An accepted invitation has its account, and an account leaves no invitation open,
\* unless its acceptance was cut off, or the invitation was renewed meanwhile.
InvitationsClose ==
    \A p \in Pairs :
        /\ invitation[p].accepted => p \in seat
        /\ p \in seat /\ invitation[p].id # 0 /\ ~invitation[p].accepted =>
              p \in spoilt \/ \E r \in Accepting(p) : guest[r].at = "close"

EnrolmentHolds == OneAccountEach /\ InvitationsClose
=============================================================================
