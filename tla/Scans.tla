-------------------------------- MODULE Scans --------------------------------
(***************************************************************************)
(* What a contact owes, as the QR code on its card shows it to anyone, to  *)
(* the contact, or to staff.                                               *)
(*                                                                         *)
(* A view looks the code up by its token, records the scan, and reads the  *)
(* contact and then the payments.  Meanwhile the code is disabled, enabled *)
(* or given another token (ContactPortal says how), and contacts are       *)
(* deleted, with their codes and scans.                                    *)
(***************************************************************************)
EXTENDS Desk

CONSTANTS
    Bearers,     \* contacts
    MaxToken     \* bound: the tokens there will ever be

VARIABLES
    card,        \* contact_qr_codes, of the contacts that are there
    minted,      \* the last token
    scans,       \* qr_code_scans: how many rows a contact has
    view,        \* per request: where it is, and what it has read
    answered,    \* history: how many views of a contact were answered
    belied       \* history: a view was answered by a code that was not in force, though none moved meanwhile

scanVars == <<card, minted, scans, view, answered, belied>>

ASSUME ScansAssumption == MaxToken \in Nat \ {0} /\ Bearers # {}

-----------------------------------------------------------------------------
Card == [here: BOOLEAN, token: 0..MaxToken, active: BOOLEAN]

View == [at: {"idle", "record", "contact", "payments"}, of: Bearers, token: 0..MaxToken, moved: BOOLEAN]
NoView == [at |-> "idle", of |-> CHOOSE c \in Bearers : TRUE, token |-> 0, moved |-> FALSE]

Turns(r, at) ==
    view' = [view EXCEPT ![r] = IF at = "idle" THEN NoView ELSE [view[r] EXCEPT !.at = at]]

\* Mutant: a disabled code is found too.
AnyCode(c, token) == card[c].here /\ card[c].token = token

\* getQrCodeByToken.
InForce(c, token) == card[c].here /\ card[c].token = token /\ card[c].active

AskView(r, c, token) ==
    /\ view[r].at = "idle" /\ token # 0 /\ InForce(c, token)
    /\ Comes("scans")
    /\ view' = [view EXCEPT ![r] = [NoView EXCEPT !.at = "record", !.of = c, !.token = token]]
    /\ UNCHANGED <<card, minted, scans, answered, belied>>

\* The scan, whose foreign keys refuse a contact that is gone.
RecordScan(r) ==
    LET c == view[r].of
    IN  /\ view[r].at = "record"
        /\ scans' = IF card[c].here THEN [scans EXCEPT ![c] = @ + 1] ELSE scans
        /\ Turns(r, IF card[c].here THEN "contact" ELSE "idle")
        /\ UNCHANGED <<left, card, minted, answered, belied>>

\* getContactPaymentStatus: the contact ...
ReadContact(r) ==
    /\ view[r].at = "contact"
    /\ Turns(r, IF card[view[r].of].here THEN "payments" ELSE "idle")
    /\ UNCHANGED <<left, card, minted, scans, answered, belied>>

\* ... and its payments, of which there are none if it is gone by now.
ReadPayments(r) ==
    LET c == view[r].of
    IN  /\ view[r].at = "payments"
        /\ answered' = [answered EXCEPT ![c] = @ + 1]
        /\ belied' = (belied \/ ~(view[r].moved \/ (card[c].token = view[r].token /\ card[c].active)))
        /\ Turns(r, "idle")
        /\ UNCHANGED <<left, card, minted, scans>>

ViewFails(r) ==
    /\ view[r].at # "idle" /\ Comes("chance")
    /\ Turns(r, "idle")
    /\ UNCHANGED <<card, minted, scans, answered, belied>>

-----------------------------------------------------------------------------
\* What the portal does to the code of a contact.
CardMoves(c, row) ==
    /\ card[c].here /\ row # card[c]
    /\ Comes("scans")
    /\ card' = [card EXCEPT ![c] = row]
    /\ view' = [r \in Clerks |-> IF view[r].of = c /\ view[r].at # "idle" THEN [view[r] EXCEPT !.moved = TRUE] ELSE view[r]]

Reissue(c) ==
    /\ minted < MaxToken
    /\ minted' = minted + 1
    /\ CardMoves(c, [card[c] EXCEPT !.token = minted + 1])
    /\ UNCHANGED <<scans, answered, belied>>

Switch(c, active) ==
    /\ card[c].token # 0
    /\ CardMoves(c, [card[c] EXCEPT !.active = active])
    /\ UNCHANGED <<minted, scans, answered, belied>>

\* Codes and scans go with the contact.
BearerGone(c) ==
    /\ CardMoves(c, [here |-> FALSE, token |-> 0, active |-> FALSE])
    /\ scans' = [scans EXCEPT ![c] = 0]
    /\ UNCHANGED <<minted, answered, belied>>

\* The process dies, with its requests.
ViewsDie ==
    /\ view' = [r \in Clerks |-> NoView]
    /\ UNCHANGED <<card, minted, scans, answered, belied>>

\* One contact has a code, which is active.
ScansInit ==
    /\ \E c \in Bearers :
          card = [d \in Bearers |-> [here |-> TRUE, token |-> IF d = c THEN 1 ELSE 0, active |-> TRUE]]
    /\ minted = 1
    /\ scans = [c \in Bearers |-> 0] /\ answered = [c \in Bearers |-> 0]
    /\ view = [r \in Clerks |-> NoView]
    /\ belied = FALSE

ViewStep(r) ==
    \/ May("scans") /\ \E c \in Bearers, token \in 0..MaxToken : AskView(r, c, token)
    \/ RecordScan(r) \/ ReadContact(r) \/ ReadPayments(r) \/ ViewFails(r)

ScansNext ==
    \/ \E r \in Clerks : ViewStep(r)
    \/ May("scans") /\ \E c \in Bearers : Reissue(c) \/ BearerGone(c) \/ \E active \in BOOLEAN : Switch(c, active)

-----------------------------------------------------------------------------
ScansTypeOK ==
    /\ card \in [Bearers -> Card] /\ minted \in 0..MaxToken
    /\ scans \in [Bearers -> Nat] /\ answered \in [Bearers -> Nat]
    /\ view \in [Clerks -> View] /\ belied \in BOOLEAN

\* Every view that was answered left a scan, as long as the contact is there.
AnswersAreScanned == \A c \in Bearers : card[c].here => answered[c] <= scans[c]

\* A view is answered by the code in force, unless the code moved while it was under
\* way: what a disabled or replaced code still shows was asked for before.
CodesWereInForce == ~belied

ScansHold == AnswersAreScanned /\ CodesWereInForce
=============================================================================
