--------------------------- MODULE ContactPortal ---------------------------
(***************************************************************************)
(* The contacts of an organization as account holders: their sign-in,      *)
(* their reset links, their deactivation and erasure, and the QR code of   *)
(* each.                                                                   *)
(*                                                                         *)
(* Contacts are changed in two ways: by updates of columns and deletions,  *)
(* and by saves of a row that was read before, which write every column    *)
(* and insert a row that is gone.  An access token is not stored: it is    *)
(* good for a contact that is active as long as it is not older than       *)
(* token_invalidated_at, which a deactivation sets.                        *)
(***************************************************************************)
EXTENDS Entrance

CONSTANTS
    MaxContact,      \* bound: contacts are numbered as they are made
    Emails, NoEmail, \* addresses, and NULL
    PortalRequests   \* requests about contacts in flight

VARIABLES
    contact,   \* the contacts table
    code,      \* contact_qr_codes: the code of each contact
    ask,       \* per request: the operation, where it is, and what it has read
    moment,    \* the last moment something was made; tokens go by the moment
    token,     \* per contact: the access tokens that were signed
    barred,    \* history: per contact, tokens signed before it was deactivated
    spent,     \* history: per contact, reset links that were redeemed or replaced
    erased,    \* history: contacts whose personal data were erased, and given no address since
    removed,   \* history: contacts that were deleted
    old,       \* history: per contact, the tokens of codes that were replaced
    off,       \* history: contacts whose code was disabled last
    calm,      \* history: contacts no row of which was written under a copy
    quiet      \* history: contacts whose code was not written under a copy

portalVars == <<contact, code, ask, moment, token, barred, spent, erased, removed, old, off, calm, quiet>>

Contacts == 1..MaxContact

ASSUME ContactPortalAssumption ==
    MaxContact \in Nat \ {0} /\ NoEmail \notin Emails /\ Emails # {} /\ 0 \notin PortalRequests

-----------------------------------------------------------------------------
\* 0 is NULL for a link and for the moment tokens were invalidated.
ContactRow == [here: BOOLEAN, email: Emails \cup {NoEmail}, active: BOOLEAN, password: BOOLEAN,
               reset: Nat, invalid: Nat]
NoContact  == [here |-> FALSE, email |-> NoEmail, active |-> FALSE, password |-> FALSE,
               reset |-> 0, invalid |-> 0]

CodeRow == [here: BOOLEAN, token: Nat, active: BOOLEAN]
NoCode  == [here |-> FALSE, token |-> 0, active |-> FALSE]

PortalOps == {"login", "reset", "confirm", "groups", "deactivate", "activate", "link", "email",
              "generate", "regenerate", "disable", "enable"}

\* `row` and `code` are the copies that were read, with the address a request is to set,
\* and `stamp` is the moment an update is to set.
Ask   == [op: PortalOps,
          at: {"idle", "sign", "save", "stamp", "update", "insert", "saveCode", "updateCode"},
          contact: Contacts, row: ContactRow, code: CodeRow, stamp: Nat]
NoAsk == [op |-> "login", at |-> "idle", contact |-> 1, row |-> NoContact, code |-> NoCode, stamp |-> 0]

\* A request that is to save the row it read, or has decided on what it read of it.
Holds(q, c) ==
    /\ ask[q].contact = c
    /\ \/ ask[q].at \in {"save", "stamp"}
       \/ ask[q].at = "update" /\ ask[q].op = "deactivate"

HoldsCode(q, c) == ask[q].contact = c /\ ask[q].at = "saveCode"

\* The row of c is written by r, the code of c is written by r.
Disturbs(r, c) == calm' = IF \E q \in PortalRequests \ {r} : Holds(q, c) THEN calm \ {c} ELSE calm
DisturbsCode(r, c) ==
    quiet' = IF \E q \in PortalRequests \ {r} : HoldsCode(q, c) THEN quiet \ {c} ELSE quiet

\* The unique index on the e-mail address.
EmailTaken(c, row) ==
    row.email # NoEmail /\ \E d \in Contacts \ {c} : contact[d].here /\ contact[d].email = row.email

Begins(r, new) ==
    /\ ask[r].at = "idle"
    /\ Comes("portal")
    /\ ask' = [ask EXCEPT ![r] = new]
    /\ UNCHANGED <<contact, code, moment, token, barred, spent, erased, removed, old, off, calm, quiet>>

\* The request is refused, by the code or the database, or fails.
Fails(r) ==
    /\ ask[r].at # "idle"
    /\ ask' = [ask EXCEPT ![r] = NoAsk]
    /\ UNCHANGED <<left, contact, code, moment, token, barred, spent, erased, removed, old, off, calm, quiet>>

Done(r) == ask' = [ask EXCEPT ![r] = NoAsk]

-----------------------------------------------------------------------------
(* Sign-in. *)

\* login: an active contact with a password ...
Login(r, c) ==
    /\ contact[c].here /\ contact[c].email # NoEmail
    /\ contact[c].active /\ contact[c].password
    /\ Begins(r, [NoAsk EXCEPT !.op = "login", !.at = "sign", !.contact = c])

\* ... is given a token once the password was compared.
Sign(r) ==
    LET c == ask[r].contact
    IN  /\ ask[r].at = "sign"
        /\ moment' = moment + 1
        /\ token' = [token EXCEPT ![c] = @ \cup {moment + 1}]
        /\ Done(r)
        /\ UNCHANGED <<left, contact, code, barred, spent, erased, removed, old, off, calm, quiet>>

\* ContactJwtStrategy.validate
Accepted(c, t) ==
    contact[c].here /\ contact[c].active /\ ~(contact[c].invalid > t)

-----------------------------------------------------------------------------
(* Saves of a row that was read. *)

\* requestPasswordReset, confirmPasswordReset with the link, assignToGroups
AskSave(r, c, op) ==
    /\ contact[c].here
    /\ CASE op = "reset"   -> contact[c].email # NoEmail
         [] op = "confirm" -> contact[c].reset # 0
         [] op = "groups"  -> TRUE
         [] OTHER          -> FALSE
    /\ Begins(r, [NoAsk EXCEPT !.op = op, !.at = "save", !.contact = c, !.row = contact[c]])

\* The copy with the columns of the request.
SavedRow(op, row, n) ==
    CASE op = "reset"   -> [row EXCEPT !.reset = n]
      [] op = "confirm" -> [row EXCEPT !.password = TRUE, !.active = TRUE, !.reset = 0]
      [] OTHER          -> row

SaveContact(r) ==
    LET a == ask[r]
        c == a.contact
    IN  /\ a.at = "save"
        /\ ~EmailTaken(c, a.row)
        /\ moment' = IF a.op = "reset" THEN moment + 1 ELSE moment
        /\ contact' = [contact EXCEPT ![c] = SavedRow(a.op, a.row, moment + 1)]
        /\ spent' = IF a.op = "groups" THEN spent
                    ELSE [spent EXCEPT ![c] = @ \cup ({a.row.reset, contact[c].reset} \ {0})]
        /\ Disturbs(r, c)
        /\ Done(r)
        /\ UNCHANGED <<left, code, token, barred, erased, removed, old, off, quiet>>

-----------------------------------------------------------------------------
(* Updates of columns and deletions. *)

\* ContactService.update reads whether the contact is active ...
AskUpdate(r, c, op) ==
    /\ contact[c].here
    /\ op \in {"deactivate", "activate", "link"}
    /\ Begins(r, [NoAsk EXCEPT !.op = op, !.at = IF op = "deactivate" THEN "stamp" ELSE "update",
                               !.contact = c, !.row = contact[c]])

\* An address to set, or none.
AskEmail(r, c, e) ==
    /\ contact[c].here
    /\ Begins(r, [NoAsk EXCEPT !.op = "email", !.at = "update", !.contact = c,
                               !.row = [contact[c] EXCEPT !.email = e]])

\* ... takes the time if it was active and is to be no more ...
Stamp(r) ==
    /\ ask[r].at = "stamp"
    /\ IF ask[r].row.active
       THEN moment' = moment + 1 /\ ask' = [ask EXCEPT ![r].at = "update", ![r].stamp = moment + 1]
       ELSE moment' = moment /\ ask' = [ask EXCEPT ![r].at = "update"]
    /\ UNCHANGED <<left, contact, code, token, barred, spent, erased, removed, old, off, calm, quiet>>

\* Mutant: tokens are left to run out.
NotStamped(a, row, n) ==
    CASE a.op = "deactivate" -> [row EXCEPT !.active = FALSE]
      [] a.op = "activate"   -> [row EXCEPT !.active = TRUE]
      [] a.op = "email"      -> [row EXCEPT !.email = a.row.email]
      [] OTHER               -> [row EXCEPT !.reset = n]

\* ... and updates the columns that were given; 0 is none.
Updated(a, row, n) ==
    CASE a.op = "deactivate" -> [row EXCEPT !.active = FALSE,
                                            !.invalid = IF a.stamp = 0 THEN @ ELSE a.stamp]
      [] a.op = "activate"   -> [row EXCEPT !.active = TRUE]
      [] a.op = "email"      -> [row EXCEPT !.email = a.row.email]
      [] OTHER               -> [row EXCEPT !.reset = n]

\* The tokens that a deactivation is to end: those signed before it took the time.
Ended(a) == {t \in token[a.contact] : a.stamp = 0 \/ t < a.stamp}

UpdateContact(r) ==
    LET a == ask[r]
        c == a.contact
        row == contact[c]
    IN  /\ a.at = "update"
        /\ row.here
        /\ ~EmailTaken(c, Updated(a, row, moment + 1))
        /\ moment' = IF a.op = "link" THEN moment + 1 ELSE moment
        /\ contact' = [contact EXCEPT ![c] = Updated(a, row, moment + 1)]
        /\ barred' = IF a.op = "deactivate" /\ row.active
                     THEN [barred EXCEPT ![c] = @ \cup Ended(a)] ELSE barred
        /\ spent' = IF a.op = "link" THEN [spent EXCEPT ![c] = @ \cup ({row.reset} \ {0})] ELSE spent
        /\ erased' = IF a.op = "email" THEN erased \ {c} ELSE erased
        /\ Disturbs(r, c)
        /\ Done(r)
        /\ UNCHANGED <<left, code, token, removed, old, off, quiet>>

\* deleteContactData, and the retention policy: the row stays, without what is personal.
Erase(c) ==
    /\ contact[c].here /\ contact[c].email # NoEmail
    /\ Comes("portal")
    /\ contact' = [contact EXCEPT ![c].email = NoEmail, ![c].password = FALSE]
    /\ erased' = erased \cup {c}
    /\ Disturbs(0, c)
    /\ UNCHANGED <<code, ask, moment, token, barred, spent, removed, old, off, quiet>>

\* delete; the code goes with the contact.
DeleteContact(c) ==
    /\ contact[c].here
    /\ Comes("portal")
    /\ contact' = [contact EXCEPT ![c] = NoContact]
    /\ code' = [code EXCEPT ![c] = NoCode]
    /\ old' = [old EXCEPT ![c] = @ \cup ({code[c].token} \ {0})]
    /\ off' = off \ {c}
    /\ removed' = removed \cup {c}
    /\ Disturbs(0, c) /\ DisturbsCode(0, c)
    /\ UNCHANGED <<ask, moment, token, barred, spent, erased>>

\* The row of a new contact, with a link to set a password or without.
NewContact(c, row) ==
    /\ \A d \in Contacts : d < c => contact[d].here \/ d \in removed
    /\ ~contact[c].here /\ c \notin removed
    /\ ~EmailTaken(c, row)
    /\ contact' = [contact EXCEPT ![c] = row]

\* ContactService.create
CreateContact(c, e, link) ==
    /\ Comes("portal")
    /\ NewContact(c, [NoContact EXCEPT !.here = TRUE, !.email = e, !.active = TRUE,
                                       !.reset = IF link THEN moment + 1 ELSE 0])
    /\ moment' = moment + 1
    /\ UNCHANGED <<code, ask, token, barred, spent, erased, removed, old, off, calm, quiet>>

-----------------------------------------------------------------------------
(* QR codes. *)

\* getOrCreateQrCode finds none ...
AskGenerate(r, c) ==
    /\ contact[c].here /\ ~code[c].here
    /\ Begins(r, [NoAsk EXCEPT !.op = "generate", !.at = "insert", !.contact = c])

\* ... and inserts one, unless there is one by now.
InsertCode(r) ==
    LET c == ask[r].contact
    IN  /\ ask[r].at = "insert"
        /\ contact[c].here /\ ~code[c].here
        /\ moment' = moment + 1
        /\ code' = [code EXCEPT ![c] = [here |-> TRUE, token |-> moment + 1, active |-> TRUE]]
        /\ DisturbsCode(r, c)
        /\ Done(r)
        /\ UNCHANGED <<left, contact, token, barred, spent, erased, removed, old, off, calm>>

\* regenerateQrToken, disableQrCode and enableQrCode read the code ...
AskCode(r, c, op) ==
    /\ code[c].here
    /\ op \in {"regenerate", "disable", "enable"}
    /\ Begins(r, [NoAsk EXCEPT !.op = op, !.at = IF op = "regenerate" THEN "saveCode" ELSE "updateCode",
                               !.contact = c, !.code = code[c]])

NewToken(row, n) == [row EXCEPT !.token = n]

\* ... and save the copy with a new token ...
SaveCode(r) ==
    LET c == ask[r].contact
    IN  /\ ask[r].at = "saveCode"
        /\ contact[c].here
        /\ moment' = moment + 1
        /\ code' = [code EXCEPT ![c] = NewToken(ask[r].code, moment + 1)]
        /\ old' = [old EXCEPT ![c] = @ \cup ({ask[r].code.token, code[c].token} \ {0})]
        /\ DisturbsCode(r, c)
        /\ Done(r)
        /\ UNCHANGED <<left, contact, token, barred, spent, erased, removed, off, calm>>

\* ... or update the flag.
UpdateCode(r) ==
    LET c == ask[r].contact
    IN  /\ ask[r].at = "updateCode"
        /\ code[c].here
        /\ code' = [code EXCEPT ![c].active = (ask[r].op = "enable")]
        /\ off' = IF ask[r].op = "enable" THEN off \ {c} ELSE off \cup {c}
        /\ DisturbsCode(r, c)
        /\ Done(r)
        /\ UNCHANGED <<left, contact, moment, token, barred, spent, erased, removed, old, calm>>

-----------------------------------------------------------------------------
\* The process dies, with its requests.
PortalDies ==
    /\ ask' = [r \in PortalRequests |-> NoAsk]
    /\ UNCHANGED <<contact, code, moment, token, barred, spent, erased, removed, old, off, calm, quiet>>

\* The first contact is there, has a password and was given a token.
PortalInit ==
    /\ \E e \in Emails :
          contact = [c \in Contacts |->
                       IF c = 1 THEN [here |-> TRUE, email |-> e, active |-> TRUE, password |-> TRUE,
                                      reset |-> 0, invalid |-> 0]
                       ELSE NoContact]
    /\ token = [c \in Contacts |-> IF c = 1 THEN {1} ELSE {}]
    /\ code = [c \in Contacts |-> NoCode]
    /\ ask = [r \in PortalRequests |-> NoAsk]
    /\ moment = 1
    /\ barred = [c \in Contacts |-> {}]
    /\ spent = [c \in Contacts |-> {}]
    /\ old = [c \in Contacts |-> {}]
    /\ erased = {} /\ removed = {} /\ off = {}
    /\ calm = Contacts /\ quiet = Contacts

PortalRequest(r) ==
    \/ \E c \in Contacts :
          \/ Login(r, c) \/ AskGenerate(r, c)
          \/ \E e \in Emails \cup {NoEmail} : AskEmail(r, c, e)
          \/ \E op \in PortalOps : AskSave(r, c, op) \/ AskUpdate(r, c, op) \/ AskCode(r, c, op)
    \/ Sign(r) \/ SaveContact(r) \/ Stamp(r) \/ UpdateContact(r)
    \/ InsertCode(r) \/ SaveCode(r) \/ UpdateCode(r)
    \/ Fails(r)

-----------------------------------------------------------------------------
PortalTypeOK ==
    /\ contact \in [Contacts -> ContactRow]
    /\ code \in [Contacts -> CodeRow]
    /\ ask \in [PortalRequests -> Ask]
    /\ moment \in Nat
    /\ token \in [Contacts -> SUBSET Nat] /\ barred \in [Contacts -> SUBSET Nat]
    /\ spent \in [Contacts -> SUBSET Nat] /\ old \in [Contacts -> SUBSET Nat]
    /\ erased \subseteq Contacts /\ removed \subseteq Contacts /\ off \subseteq Contacts
    /\ calm \subseteq Contacts /\ quiet \subseteq Contacts

\* What was taken from a contact does not come back: tokens signed before a
\* deactivation took the time are not accepted when the contact is active again, reset
\* links that were redeemed or replaced are not stored again, an erased address stays
\* away until an update sets one, a deleted contact stays away, tokens of codes that were replaced are not the codes'
\* again, and disabled codes stay disabled until they are enabled; unless the row was
\* written while another request held a copy of it to save, or had read whether the
\* contact is active to deactivate it.
RevokedStaysRevoked ==
    \A c \in Contacts :
        /\ c \in calm =>
              /\ \A t \in barred[c] : ~Accepted(c, t)
              /\ contact[c].reset \notin spent[c]
              /\ c \in erased => contact[c].email = NoEmail
              /\ c \in removed => ~contact[c].here
        /\ c \in quiet => code[c].token \notin old[c] /\ (c \in off => ~code[c].active)
=============================================================================
