--------------------------- MODULE BackofficeProofs ---------------------------
(***************************************************************************)
(* Proofs about Backoffice.  The components share only the budget of what  *)
(* may come in, so each has an inductive invariant of its own, which its   *)
(* own steps, a death of the process and a step of any other preserve.     *)
(***************************************************************************)
EXTENDS Backoffice, FiniteSetTheorems, SequenceTheorems, TLAPS

-----------------------------------------------------------------------------
(* The browser tab. *)

\* Whatever is in flight speaks for the session of the cookies.
SessionsAgree ==
    /\ \A c \in InFlight : fetch[c].who = cookie
    /\ refresh.on => refresh.as = cookie

OneSession == token \in {NoOne, cookie} /\ user \in {NoOne, cookie} /\ SessionsAgree

\* Only a call that was sent once waits.
WaitersWereSentOnce == \A c \in Tabs : fetch[c].at = "waiting" => fetch[c].sends = 1

BrowserInv == BrowserTypeOK /\ RefreshIsShared /\ WaitersWereSentOnce /\ (mingled \/ OneSession)

\* A call that is over, and a refresh that is not there.
LEMMA NothingInFlight ==
    /\ NoFetch \in Fetch /\ NoFetch.at = "idle"
    /\ NoRefresh \in [on: BOOLEAN, as: Anyone] /\ NoRefresh.on = FALSE
    /\ NoOne \in Anyone
BY DEF NoFetch, NoRefresh, Fetch, Anyone

\* A call that is sent, and one that waited and is sent again.
LEMMA SentOnce ==
    ASSUME NEW kind \in {"call", "me", "login", "logout"}, NEW for \in Anyone, NEW who \in Anyone
    PROVE  [at |-> "sent", kind |-> kind, as |-> for, who |-> who, sends |-> 1] \in Fetch
BY DEF Fetch

SentAgain(f, who) == [f EXCEPT !.at = "sent", !.who = who, !.sends = @ + 1]

LEMMA SentTwice ==
    ASSUME NEW f \in Fetch, NEW who \in Anyone, f.sends = 1
    PROVE  SentAgain(f, who) \in Fetch /\ SentAgain(f, who).at = "sent" /\ SentAgain(f, who).who = who
<1>1. PICK n \in 0 .. 2 : n = f.sends + 1
  OBVIOUS
<1>2. PICK g : g = [f EXCEPT !.at = "sent", !.who = who, !.sends = n]
  OBVIOUS
<1>3. g \in Fetch /\ g.at = "sent" /\ g.who = who
  BY <1>2 DEF Fetch
<1>4. g = SentAgain(f, who)
  BY <1>1, <1>2, Zenon DEF SentAgain
<1> QED
  BY <1>3, <1>4

\* The tab of BrowserInit is of no one.
LEMMA BrowserStarts == BrowserInit => BrowserInv
<1> SUFFICES ASSUME BrowserInit PROVE BrowserInv
  OBVIOUS
<1>1. BrowserTypeOK
  BY NothingInFlight DEF BrowserInit, BrowserTypeOK
<1>2. RefreshIsShared /\ WaitersWereSentOnce /\ OneSession
  BY NothingInFlight DEF BrowserInit, RefreshIsShared, WaitersWereSentOnce, OneSession, SessionsAgree, InFlight, Waiting
<1> QED
  BY <1>1, <1>2 DEF BrowserInv

\* What a loaded page starts from.
LEMMA LoadsClean ==
    ASSUME BrowserInv, NEW where \in {"login", "inside"}, Load(where)
    PROVE  BrowserInv'
<1>1. BrowserTypeOK'
  BY NothingInFlight DEF BrowserInv, BrowserTypeOK, Load
<1>2. RefreshIsShared' /\ WaitersWereSentOnce' /\ OneSession'
  BY NothingInFlight DEF Load, RefreshIsShared, WaitersWereSentOnce, OneSession, SessionsAgree, InFlight, Waiting
<1> QED
  BY <1>1, <1>2 DEF BrowserInv

\* A call that is sent, and an answer that only ends its call.
LEMMA CallsAndAnswers ==
    ASSUME BrowserInv, NEW c \in Tabs
    PROVE  /\ \A kind \in {"call", "me", "login", "logout"}, as \in Anyone : SendCall(c, kind, as) => BrowserInv'
           /\ HearCall(c) \/ HearMe(c) => BrowserInv'
<1> USE NothingInFlight DEF BrowserInv
<1>1. ASSUME NEW kind \in {"call", "me", "login", "logout"}, NEW for \in Anyone, SendCall(c, kind, for)
      PROVE  BrowserInv'
  <2>1. PICK new \in Fetch : new = [at |-> "sent", kind |-> kind, as |-> for, who |-> Caller, sends |-> 1]
    <3>1. PICK from \in Anyone : from = Caller
      BY DEF Caller, BrowserTypeOK
    <3> QED
      BY <3>1, SentOnce
  <2>2. new.at = "sent" /\ new.who = Caller
    BY <2>1
  <2>3. fetch' = [fetch EXCEPT ![c] = new] /\ fetch[c].at = "idle" /\ UNCHANGED <<page, token, user, cookie, refresh, mingled>>
    BY <1>1, <2>1 DEF SendCall
  <2>4. BrowserTypeOK' /\ WaitersWereSentOnce'
    BY <2>2, <2>3 DEF BrowserTypeOK, WaitersWereSentOnce
  <2>5. RefreshIsShared'
    BY <2>2, <2>3 DEF BrowserTypeOK, RefreshIsShared, Waiting
  <2>6. OneSession => OneSession'
    BY <2>2, <2>3 DEF BrowserTypeOK, OneSession, SessionsAgree, InFlight, Caller
  <2> QED
    BY <2>3, <2>4, <2>5, <2>6
<1>2. ASSUME HearCall(c) \/ HearMe(c) PROVE BrowserInv'
  <2>1. /\ fetch' = [fetch EXCEPT ![c] = NoFetch] /\ fetch[c].at = "sent" /\ UNCHANGED <<page, token, cookie, refresh, mingled>>
        /\ user' \in {user, fetch[c].who}
    BY <1>2 DEF HearCall, HearMe, Hears
  <2>2. BrowserTypeOK' /\ WaitersWereSentOnce'
    BY <2>1 DEF BrowserTypeOK, WaitersWereSentOnce, Fetch
  <2>3. RefreshIsShared'
    BY <2>1 DEF BrowserTypeOK, RefreshIsShared, Waiting
  <2>4. OneSession => OneSession'
    BY <2>1 DEF BrowserTypeOK, OneSession, SessionsAgree, InFlight
  <2> QED
    BY <2>1, <2>2, <2>3, <2>4
<1> QED
  BY <1>1, <1>2

\* A login or logout alone in flight leaves one session; another leaves the tab mingled.
LEMMA SessionsChange ==
    ASSUME BrowserInv, NEW c \in Tabs, HearLogin(c) \/ HearLogout(c)
    PROVE  BrowserInv'
<1> USE NothingInFlight DEF BrowserInv
<1>1. /\ fetch' = [fetch EXCEPT ![c] = NoFetch] /\ fetch[c].at = "sent" /\ UNCHANGED refresh
      /\ mingled' = Crosses(c) /\ page' \in {"login", "inside"}
      /\ cookie' \in {fetch[c].as, NoOne} /\ token' = cookie' /\ user' = cookie'
  BY DEF HearLogin, HearLogout, Hears, ClearedToken
<1>2. BrowserTypeOK' /\ WaitersWereSentOnce'
  BY <1>1 DEF BrowserTypeOK, WaitersWereSentOnce, Fetch, Crosses
<1>3. RefreshIsShared'
  BY <1>1 DEF BrowserTypeOK, RefreshIsShared, Waiting
<1>4. mingled' \/ OneSession'
  BY <1>1 DEF BrowserTypeOK, OneSession, SessionsAgree, InFlight, Crosses
<1> QED
  BY <1>2, <1>3, <1>4

\* Calls that end in an error leave the others as they were.
LEMMA DropsLeaveOthers ==
    ASSUME BrowserInv, NEW calls \in SUBSET Tabs, Dropped(calls), token' \in {token, NoOne}, UNCHANGED <<page, cookie, mingled>>
    PROVE  /\ BrowserTypeOK' <=> (refresh \in [on: BOOLEAN, as: Anyone])'
           /\ WaitersWereSentOnce'
           /\ Waiting' = Waiting \ calls
           /\ OneSession /\ refresh' \in {refresh, NoRefresh} => OneSession'
<1> USE NothingInFlight DEF BrowserInv
<1>1. /\ \A c \in calls : fetch'[c] = NoFetch
      /\ \A c \in Tabs \ calls : fetch'[c] = fetch[c]
      /\ DOMAIN fetch' = Tabs /\ user' \in {user, NoOne}
  BY DEF Dropped
<1>2. fetch' \in [Tabs -> Fetch]
  BY DEF Dropped, BrowserTypeOK
<1>3. WaitersWereSentOnce' /\ Waiting' = Waiting \ calls
  BY <1>1 DEF WaitersWereSentOnce, Waiting
<1>4. OneSession /\ refresh' \in {refresh, NoRefresh} => OneSession'
  BY <1>1 DEF OneSession, SessionsAgree, InFlight
<1> QED
  BY <1>1, <1>2, <1>3, <1>4 DEF BrowserTypeOK

LEMMA RefusalsAndErrors ==
    ASSUME BrowserInv, NEW c \in Tabs, RefusedOnce(c) \/ RefusedAgain(c) \/ NoAnswer(c)
    PROVE  BrowserInv'
<1>1. CASE RefusedOnce(c)
  <2>1. PICK new \in [on: BOOLEAN, as: Anyone] :
           new = (IF refresh.on THEN refresh ELSE [on |-> TRUE, as |-> cookie])
    BY DEF BrowserInv, BrowserTypeOK
  <2>2. new.on /\ (OneSession => new.as = cookie)
    BY <2>1 DEF OneSession, SessionsAgree
  <2>3. /\ fetch[c].at = "sent" /\ fetch[c].sends = 1 /\ refresh' = new
        /\ fetch' = [fetch EXCEPT ![c].at = "waiting"] /\ UNCHANGED <<page, token, user, cookie, mingled>>
    BY <1>1, <2>1 DEF RefusedOnce, Hears, MayWait
  <2>4. BrowserTypeOK' /\ WaitersWereSentOnce'
    BY <2>3 DEF BrowserInv, BrowserTypeOK, WaitersWereSentOnce, Fetch
  <2>5. RefreshIsShared'
    BY <2>2, <2>3 DEF BrowserInv, BrowserTypeOK, RefreshIsShared, Waiting
  <2>6. OneSession => OneSession'
    BY <2>2, <2>3 DEF BrowserInv, BrowserTypeOK, OneSession, SessionsAgree, InFlight
  <2> QED
    BY <2>3, <2>4, <2>5, <2>6 DEF BrowserInv
<1>2. CASE (RefusedAgain(c) /\ page = "login") \/ NoAnswer(c)
  <2>1. /\ Dropped({c}) /\ token' \in {token, NoOne} /\ UNCHANGED <<page, cookie, refresh, mingled>> /\ c \notin Waiting
    BY <1>2 DEF RefusedAgain, NoAnswer, Hears, Waiting
  <2>2. Waiting' = Waiting /\ BrowserTypeOK' /\ WaitersWereSentOnce' /\ (OneSession => OneSession')
    BY <2>1, DropsLeaveOthers DEF BrowserInv, BrowserTypeOK
  <2> QED
    BY <2>1, <2>2 DEF BrowserInv, RefreshIsShared
<1>3. CASE RefusedAgain(c) /\ page # "login"
  BY <1>3, LoadsClean DEF RefusedAgain
<1> QED
  BY <1>1, <1>2, <1>3

\* The refresh ends for all who wait for it.
LEMMA RefreshEnds ==
    ASSUME BrowserInv, Refreshed \/ NotRefreshed
    PROVE  BrowserInv'
<1>1. CASE Refreshed
  <2>1. /\ fetch' = [c \in Tabs |-> IF c \in Waiting THEN SentAgain(fetch[c], refresh.as) ELSE fetch[c]]
        /\ token' = refresh.as /\ cookie' = refresh.as /\ refresh' = NoRefresh
        /\ refresh.on /\ UNCHANGED <<page, user, mingled>>
    BY <1>1 DEF Refreshed, SentAgain
  <2>2. /\ \A c \in Waiting : fetch'[c] \in Fetch /\ fetch'[c].at = "sent" /\ fetch'[c].who = refresh.as
        /\ \A c \in Tabs \ Waiting : fetch'[c] = fetch[c] /\ fetch[c].at # "waiting"
    <3>1. \A c \in Waiting : c \in Tabs /\ fetch[c].sends = 1 /\ fetch[c] \in Fetch
      BY DEF Waiting, BrowserInv, BrowserTypeOK, WaitersWereSentOnce
    <3>2. refresh.as \in Anyone
      BY DEF BrowserInv, BrowserTypeOK
    <3>3. ASSUME NEW c \in Waiting
          PROVE  fetch'[c] \in Fetch /\ fetch'[c].at = "sent" /\ fetch'[c].who = refresh.as
      BY <2>1, <3>1, <3>2, SentTwice
    <3> QED
      BY <2>1, <3>3 DEF Waiting
  <2>3. BrowserTypeOK'
    BY <2>1, <2>2, NothingInFlight DEF BrowserInv, BrowserTypeOK
  <2>4. Waiting' = {} /\ WaitersWereSentOnce'
    BY <2>1, <2>2 DEF Waiting, WaitersWereSentOnce
  <2>5. ASSUME OneSession PROVE OneSession'
    <3>1. refresh.as = cookie /\ cookie' = cookie /\ token' = cookie
      BY <2>1, <2>5 DEF OneSession, SessionsAgree
    <3>2. \A c \in InFlight' : fetch'[c].who = cookie
      BY <2>1, <2>2, <2>5, <3>1 DEF OneSession, SessionsAgree, InFlight
    <3> QED
      BY <2>1, <2>5, <3>1, <3>2, NothingInFlight DEF OneSession, SessionsAgree
  <2> QED
    BY <2>1, <2>3, <2>4, <2>5, NothingInFlight DEF BrowserInv, RefreshIsShared
<1>2. CASE NotRefreshed /\ page = "login"
  <2>1. Dropped(Waiting) /\ token' = NoOne /\ refresh' = NoRefresh /\ UNCHANGED <<page, cookie, mingled>>
    BY <1>2 DEF NotRefreshed
  <2>2. Waiting' = {} /\ BrowserTypeOK' /\ WaitersWereSentOnce' /\ (OneSession => OneSession')
    <3>1. Waiting \in SUBSET Tabs
      BY DEF Waiting
    <3> QED
      BY <2>1, <3>1, DropsLeaveOthers, NothingInFlight
  <2> QED
    BY <2>1, <2>2, NothingInFlight DEF BrowserInv, RefreshIsShared
<1>3. CASE NotRefreshed /\ page # "login"
  BY <1>3, LoadsClean DEF NotRefreshed
<1> QED
  BY <1>1, <1>2, <1>3

\* Every step of the tab, and every step beside it.
LEMMA BrowserStays ==
    ASSUME BrowserInv, BrowserNext \/ UNCHANGED browserVars
    PROVE  BrowserInv'
<1>1. CASE UNCHANGED browserVars
  BY <1>1 DEF browserVars, BrowserInv, BrowserTypeOK, RefreshIsShared, WaitersWereSentOnce, OneSession, SessionsAgree,
      InFlight, Waiting
<1>2. ASSUME NEW where \in {"login", "inside"}, Visit(where) PROVE BrowserInv'
  BY <1>2, LoadsClean DEF Visit
<1>3. ASSUME NEW a \in Anyone, OtherTab(a) PROVE BrowserInv'
  BY <1>3 DEF OtherTab, BrowserInv, BrowserTypeOK, RefreshIsShared, WaitersWereSentOnce, Waiting
<1> QED
  BY <1>1, <1>2, <1>3, CallsAndAnswers, SessionsChange, RefusalsAndErrors, RefreshEnds DEF BrowserNext

-----------------------------------------------------------------------------
(* Invitations and accounts. *)

Closing(p) == \E r \in Clerks : guest[r].at = "close" /\ guest[r].pair = p

\* What a request may rely on of the pair it is about.
Knows(g) ==
    /\ g.at \in {"check", "join", "close"} => g.row.id # 0 /\ (g.pair \in spoilt \/ invitation[g.pair].id = g.row.id)
    /\ g.at = "close" => g.pair \in seat
    /\ g.at = "join" /\ g.pair[2] \notin shared => ~AddressTaken(g.pair)
    /\ g.at \in {"look", "write"} /\ g.pair \in seat =>
          g.pair \in spoilt \/ Closing(g.pair) \/ invitation[g.pair].id # 0
    /\ g.at = "drop" /\ g.pair \in seat => g.pair \in spoilt \/ Closing(g.pair)

\* What the rows say of a pair: InvitationsClose, and what has a lifetime has an id.
Closed(p) ==
    /\ invitation[p].live => invitation[p].id # 0
    /\ invitation[p].accepted => p \in seat
    /\ p \in seat /\ invitation[p].id # 0 /\ ~invitation[p].accepted => p \in spoilt \/ Closing(p)

EnrolmentInv ==
    /\ EnrolmentTypeOK
    /\ OneAccountEach
    /\ \A p \in Pairs : Closed(p)
    /\ \A r \in Clerks : Knows(guest[r])

\* Requests and rows that are not there.
LEMMA NobodyAsks ==
    /\ NoInvitation \in Invitation /\ NoInvitation.id = 0 /\ ~NoInvitation.accepted /\ ~NoInvitation.live
    /\ NoGuest \in Guest /\ NoGuest.at = "idle"
<1>a. PICK f \in Firms, m \in Invitees : TRUE
  BY EnrolmentAssumption
<1>0. <<f, m>> \in Pairs
  BY DEF Pairs
<1>1. PICK p \in Pairs : p = (CHOOSE q \in Pairs : TRUE)
  BY <1>0, Zenon
<1>2. NoInvitation \in Invitation /\ NoInvitation.id = 0 /\ ~NoInvitation.accepted /\ ~NoInvitation.live
  BY EnrolmentAssumption DEF Invitation, NoInvitation
<1> QED
  BY <1>1, <1>2 DEF NoGuest, Guest

\* Whatever EnrolmentInit begins with.
LEMMA EnrolmentStarts == EnrolmentInit => EnrolmentInv
<1> SUFFICES ASSUME EnrolmentInit PROVE EnrolmentInv
  OBVIOUS
<1> PICK first : first = [id |-> 1, accepted |-> FALSE, live |-> TRUE]
  OBVIOUS
<1>1. first \in Invitation /\ first.id = 1 /\ ~first.accepted
  BY EnrolmentAssumption DEF Invitation
<1>2. invitation \in [Pairs -> {first, NoInvitation}]
  BY DEF EnrolmentInit
<1>3. EnrolmentTypeOK
  BY <1>1, <1>2, NobodyAsks DEF EnrolmentInit, EnrolmentTypeOK
<1>4. \A p \in Pairs : Closed(p)
  BY <1>1, <1>2, NobodyAsks DEF EnrolmentInit, Closed
<1>5. OneAccountEach /\ \A r \in Clerks : Knows(guest[r])
  BY NobodyAsks DEF EnrolmentInit, OneAccountEach, Knows
<1> QED
  BY <1>3, <1>4, <1>5 DEF EnrolmentInv

\* One request turns, and does not write: it must know what it will rely on.
LEMMA GuestTurnsAlone ==
    ASSUME EnrolmentInv, NEW r \in Clerks, NEW new \in Guest, guest' = [guest EXCEPT ![r] = new],
           UNCHANGED inviteVars, guest[r].at # "close", new.at # "close", Knows(new)
    PROVE  EnrolmentInv'
<1>1. /\ guest'[r] = new /\ \A q \in Clerks \ {r} : guest'[q] = guest[q]
      /\ guest' \in [Clerks -> Guest]
  BY DEF EnrolmentInv, EnrolmentTypeOK
<1>2. \A p : Closing(p) <=> Closing(p)'
  BY <1>1 DEF Closing
<1>3. \A g : Knows(g) => Knows(g)'
  BY <1>2 DEF Knows, AddressTaken, inviteVars
<1>4. \A p \in Pairs : Closed(p)'
  BY <1>2 DEF Closed, EnrolmentInv, inviteVars
<1>5. \A q \in Clerks : Knows(guest[q])'
  BY <1>1, <1>3 DEF EnrolmentInv
<1> QED
  BY <1>1, <1>4, <1>5 DEF EnrolmentInv, EnrolmentTypeOK, OneAccountEach, inviteVars

\* A guest of a pair, with the row it read.
LEMMA GuestAt ==
    ASSUME NEW at \in {"look", "drop", "write", "check", "join", "close"}, NEW p \in Pairs, NEW row \in Invitation
    PROVE  /\ [NoGuest EXCEPT !.at = at, !.pair = p] \in Guest
           /\ [NoGuest EXCEPT !.at = at, !.pair = p, !.row = row] \in Guest
BY NobodyAsks DEF Guest

\* Invitations are asked for, looked at, and refused.
LEMMA GuestsLook ==
    ASSUME EnrolmentInv, NEW r \in Clerks
    PROVE  /\ \A p \in Pairs : AskInvite(r, p) \/ AskAccept(r, p) => EnrolmentInv'
           /\ LookForInvitation(r) \/ CheckAccept(r) => EnrolmentInv'
<1>0. /\ guest[r] \in Guest /\ guest[r].pair \in Pairs /\ guest[r].row \in Invitation
      /\ invitation[guest[r].pair] \in Invitation /\ Knows(guest[r]) /\ Closed(guest[r].pair)
  BY DEF EnrolmentInv, EnrolmentTypeOK, Guest
<1>9. Knows(NoGuest)
  BY NobodyAsks DEF Knows
<1>1. ASSUME NEW p \in Pairs, AskInvite(r, p) PROVE EnrolmentInv'
  <2>1. PICK new \in Guest : new = [NoGuest EXCEPT !.at = "look", !.pair = p]
    BY GuestAt, NobodyAsks
  <2>2. p[1] \in Firms /\ p = <<p[1], p[2]>>
    BY DEF Pairs
  <2>3. p \notin seat
    BY <1>1, <2>2 DEF AskInvite, AddressTaken
  <2>4. new.at = "look" /\ new.pair = p
    BY <2>1, NobodyAsks DEF Guest
  <2>5. Knows(new)
    BY <2>3, <2>4 DEF Knows
  <2> QED
    BY <1>1, <2>1, <2>4, <2>5, GuestTurnsAlone DEF AskInvite, GuestComes
<1>2. ASSUME NEW p \in Pairs, AskAccept(r, p) PROVE EnrolmentInv'
  <2>0. invitation[p] \in Invitation /\ Closed(p)
    BY DEF EnrolmentInv, EnrolmentTypeOK
  <2>1. PICK new \in Guest : new = [NoGuest EXCEPT !.at = "check", !.pair = p, !.row = invitation[p]]
    BY <2>0, GuestAt
  <2>2. new.at = "check" /\ new.pair = p /\ new.row = invitation[p]
    BY <2>1, NobodyAsks DEF Guest
  <2>3. Knows(new)
    BY <1>2, <2>0, <2>2 DEF Knows, AskAccept, Closed
  <2> QED
    BY <1>2, <2>1, <2>2, <2>3, GuestTurnsAlone DEF AskAccept, GuestComes
<1>3. ASSUME LookForInvitation(r) PROVE EnrolmentInv'
  <2> DEFINE row == invitation[guest[r].pair]
             open == row.id # 0 /\ ~row.accepted
  <2>1. PICK at \in {"drop", "write"} : at = IF open THEN "drop" ELSE "write"
    OBVIOUS
  <2>2. PICK new \in Guest : new = [guest[r] EXCEPT !.at = at, !.row = row]
    BY <1>0 DEF Guest
  <2>3. new.at = at /\ new.pair = guest[r].pair
    BY <1>0, <2>2 DEF Guest
  <2>4. guest[r].at = "look" /\ UNCHANGED inviteVars /\ guest' \in {[guest EXCEPT ![r] = NoGuest], [guest EXCEPT ![r] = new]}
    BY <1>3, <2>1, <2>2 DEF LookForInvitation, GuestLeaves, GuestTurns
  <2>5. Knows(new)
    BY <1>0, <2>1, <2>3, <2>4 DEF Knows, Closed
  <2> HIDE DEF row, open
  <2>6. CASE guest' = [guest EXCEPT ![r] = NoGuest]
    BY <1>9, <2>4, <2>6, NobodyAsks, GuestTurnsAlone
  <2>7. CASE guest' = [guest EXCEPT ![r] = new]
    BY <2>1, <2>3, <2>4, <2>5, <2>7, GuestTurnsAlone
  <2> QED
    BY <2>4, <2>6, <2>7
<1>4. ASSUME CheckAccept(r) PROVE EnrolmentInv'
  <2>1. PICK new \in Guest : new = [guest[r] EXCEPT !.at = "join"]
    BY <1>0 DEF Guest
  <2>2. new.at = "join" /\ new.pair = guest[r].pair /\ new.row = guest[r].row
    BY <1>0, <2>1 DEF Guest
  <2>3. guest[r].at = "check" /\ UNCHANGED inviteVars
        /\ \/ guest' = [guest EXCEPT ![r] = NoGuest]
           \/ ~AddressTaken(guest[r].pair) /\ guest' = [guest EXCEPT ![r] = new]
    BY <1>4, <2>1 DEF CheckAccept, GuestLeaves, GuestTurns
  <2>4. CASE guest' = [guest EXCEPT ![r] = NoGuest]
    BY <1>9, <2>3, <2>4, NobodyAsks, GuestTurnsAlone
  <2>5. CASE ~AddressTaken(guest[r].pair) /\ guest' = [guest EXCEPT ![r] = new]
    <3>1. Knows(new)
      BY <1>0, <2>2, <2>3, <2>5 DEF Knows
    <3> QED
      BY <2>2, <2>3, <2>5, <3>1, GuestTurnsAlone
  <2> QED
    BY <2>3, <2>4, <2>5
<1> QED
  BY <1>1, <1>2, <1>3, <1>4

\* A request whose pair nothing has happened to still knows what it knew.
LEMMA OthersKnow ==
    ASSUME NEW g, Knows(g), NEW S, seat' = seat \cup S, spoilt \subseteq spoilt', shared \subseteq shared',
           g.at # "idle" => /\ g.pair \notin S /\ invitation'[g.pair] = invitation[g.pair]
                            /\ Closing(g.pair) => Closing(g.pair)'
                            /\ g.pair[2] \notin shared' => \A o \in Firms : <<o, g.pair[2]>> \notin S,
           g.at \in {"idle", "look", "drop", "write", "check", "join", "close"}
    PROVE  Knows(g)'
BY DEF Knows, AddressTaken

\* Deleting an invitation spoils whatever is accepting it.
LEMMA InvitationsDrop ==
    ASSUME EnrolmentInv, NEW r \in Clerks, DropInvitation(r)
    PROVE  EnrolmentInv'
<1>0. /\ guest[r] \in Guest /\ guest[r].pair \in Pairs /\ Knows(guest[r])
  BY DEF EnrolmentInv, EnrolmentTypeOK, Guest
<1> PICK p \in Pairs : p = guest[r].pair
  BY <1>0
<1>1. PICK new \in Guest : new = [guest[r] EXCEPT !.at = "write"]
  BY <1>0 DEF Guest
<1>2. new.at = "write" /\ new.pair = p
  BY <1>0, <1>1 DEF Guest
<1>3. /\ guest' = [guest EXCEPT ![r] = new] /\ guest[r].at = "drop"
      /\ invitation' \in {invitation, [invitation EXCEPT ![p] = NoInvitation]}
      /\ spoilt' = IF Accepting(p) = {} THEN spoilt ELSE spoilt \cup {p}
      /\ UNCHANGED <<seat, invites, shared>>
  BY <1>1 DEF DropInvitation, GuestTurns
<1>4. EnrolmentTypeOK'
  BY <1>3, NobodyAsks DEF EnrolmentInv, EnrolmentTypeOK
<1>5. /\ guest'[r] = new /\ \A q \in Clerks \ {r} : guest'[q] = guest[q]
      /\ \A q : Closing(q) <=> Closing(q)'
  BY <1>2, <1>3 DEF Closing, EnrolmentInv, EnrolmentTypeOK
<1>6. \A q \in Pairs : Closed(q)'
  BY <1>3, <1>5, NobodyAsks DEF Closed, EnrolmentInv, EnrolmentTypeOK
<1>7. p \in seat => p \in spoilt' \/ Closing(p)'
  BY <1>0, <1>3, <1>5 DEF Knows
<1>8. ASSUME NEW q \in Clerks \ {r} PROVE Knows(guest[q])'
  <2>1. Knows(guest[q]) /\ guest[q] \in Guest /\ guest'[q] = guest[q]
    BY <1>5 DEF EnrolmentInv, EnrolmentTypeOK
  <2>2. CASE guest[q].pair # p
    <3>1. Knows(guest[q])'
      <4> PICK g \in Guest : g = guest[q]
        BY <2>1
      <4>1. invitation'[g.pair] = invitation[g.pair] /\ seat' = seat \cup {} /\ spoilt \subseteq spoilt' /\ shared \subseteq shared'
        BY <1>3, <2>2 DEF EnrolmentInv, EnrolmentTypeOK, Guest
      <4>2. Knows(g)'
        BY <1>5, <2>1, <4>1, OthersKnow DEF Guest
      <4> QED
        BY <2>1, <4>2 DEF Knows, AddressTaken, Closing
    <3> QED
      BY <3>1
  <2>3. CASE guest[q].pair = p
    <3>1. guest[q].at \in {"check", "join", "close"} => p \in spoilt'
      BY <1>3, <2>3 DEF Accepting
    <3> QED
      BY <1>3, <1>5, <1>7, <2>1, <2>3, <3>1 DEF Knows, AddressTaken
  <2> QED
    BY <2>2, <2>3
<1>9. Knows(guest[r])'
  BY <1>2, <1>5, <1>7, <1>3 DEF Knows
<1> QED
  BY <1>3, <1>4, <1>6, <1>8, <1>9 DEF EnrolmentInv, OneAccountEach

\* An invitation is written only where there is none.
LEMMA InvitationsAreWritten ==
    ASSUME EnrolmentInv, NEW r \in Clerks, WriteInvitation(r)
    PROVE  EnrolmentInv'
<1>0. /\ guest[r] \in Guest /\ guest[r].pair \in Pairs /\ Knows(guest[r])
  BY DEF EnrolmentInv, EnrolmentTypeOK, Guest
<1> PICK p \in Pairs : p = guest[r].pair
  BY <1>0
<1>1. guest' = [guest EXCEPT ![r] = NoGuest] /\ guest[r].at = "write" /\ UNCHANGED <<seat, spoilt, shared>>
  BY DEF WriteInvitation, GuestLeaves, GuestTurns
<1>2. CASE UNCHANGED <<invitation, invites>>
  <2>1. Knows(NoGuest)
    BY NobodyAsks DEF Knows
  <2> QED
    BY <1>1, <1>2, <2>1, NobodyAsks, GuestTurnsAlone DEF inviteVars
<1>3. CASE ~UNCHANGED <<invitation, invites>>
  <2>1. PICK new : new = [id |-> invites + 1, accepted |-> FALSE, live |-> TRUE]
    OBVIOUS
  <2>2. /\ invitation[p] = NoInvitation /\ invites < MaxInvite /\ invites' = invites + 1
        /\ invitation' = [invitation EXCEPT ![p] = new]
    BY <1>3, <2>1 DEF WriteInvitation
  <2>3. PICK id \in 1 .. MaxInvite : id = invites + 1
    BY <2>2, EnrolmentAssumption DEF EnrolmentInv, EnrolmentTypeOK
  <2>4. new \in Invitation /\ new.id # 0 /\ ~new.accepted
    BY <2>1, <2>3, EnrolmentAssumption DEF Invitation
  <2>5. EnrolmentTypeOK'
    BY <1>1, <2>2, <2>4, NobodyAsks DEF EnrolmentInv, EnrolmentTypeOK
  <2>6. /\ guest'[r] = NoGuest /\ \A q \in Clerks \ {r} : guest'[q] = guest[q]
        /\ \A q : Closing(q) <=> Closing(q)'
    BY <1>1, NobodyAsks DEF Closing, EnrolmentInv, EnrolmentTypeOK
  <2>7. invitation'[p] = new /\ \A q \in Pairs \ {p} : invitation'[q] = invitation[q]
    BY <2>2 DEF EnrolmentInv, EnrolmentTypeOK
  <2>8. p \in seat => p \in spoilt \/ Closing(p)
    BY <1>0, <1>1, <2>2, NobodyAsks DEF Knows
  <2>9. \A q \in Pairs : Closed(q)'
    BY <1>1, <2>4, <2>6, <2>7, <2>8 DEF Closed, EnrolmentInv
  <2>10. ASSUME NEW q \in Clerks \ {r} PROVE Knows(guest[q])'
    <3>1. Knows(guest[q]) /\ guest[q] \in Guest /\ guest[q].pair \in Pairs /\ guest'[q] = guest[q]
      BY <2>6 DEF EnrolmentInv, EnrolmentTypeOK, Guest
    <3>2. CASE guest[q].pair # p
      BY <1>1, <2>6, <2>7, <3>1, <3>2 DEF Knows, AddressTaken
    <3>3. CASE guest[q].pair = p
      BY <1>1, <2>2, <2>4, <2>6, <2>7, <3>1, <3>3, NobodyAsks DEF Knows, AddressTaken
    <3> QED
      BY <3>2, <3>3
  <2>11. Knows(guest[r])'
    BY <2>6, NobodyAsks DEF Knows
  <2> QED
    BY <1>1, <2>5, <2>9, <2>10, <2>11 DEF EnrolmentInv, OneAccountEach
<1> QED
  BY <1>2, <1>3

LEMMA InvitationsExpire ==
    ASSUME EnrolmentInv, NEW p \in Pairs, InvitationExpires(p)
    PROVE  EnrolmentInv'
<1>1. invitation' = [invitation EXCEPT ![p].live = FALSE] /\ UNCHANGED <<seat, invites, spoilt, shared, guest>>
  BY DEF InvitationExpires
<1>2. /\ invitation' \in [Pairs -> Invitation]
      /\ \A q \in Pairs : /\ invitation'[q].id = invitation[q].id /\ invitation'[q].accepted = invitation[q].accepted
                          /\ invitation'[q].live => invitation[q].live
  BY <1>1 DEF EnrolmentInv, EnrolmentTypeOK, Invitation
<1>3. \A q : Closing(q) <=> Closing(q)'
  BY <1>1 DEF Closing
<1>4. \A q \in Pairs : Closed(q)'
  BY <1>1, <1>2, <1>3 DEF Closed, EnrolmentInv
<1>5. ASSUME NEW r \in Clerks PROVE Knows(guest[r])'
  <2>1. Knows(guest[r]) /\ guest[r].pair \in Pairs
    BY DEF EnrolmentInv, EnrolmentTypeOK, Guest
  <2> QED
    BY <1>1, <1>2, <1>3, <2>1 DEF Knows, AddressTaken
<1> QED
  BY <1>1, <1>2, <1>4, <1>5 DEF EnrolmentInv, EnrolmentTypeOK, OneAccountEach

\* The account is saved: whoever else has found the address free has overlapped.
LEMMA AccountsJoin ==
    ASSUME EnrolmentInv, NEW r \in Clerks, Join(r)
    PROVE  EnrolmentInv'
<1>0. /\ guest[r] \in Guest /\ guest[r].pair \in Pairs /\ Knows(guest[r]) /\ guest[r].at = "join"
  BY DEF EnrolmentInv, EnrolmentTypeOK, Guest, Join
<1> PICK p \in Pairs : p = guest[r].pair
  BY <1>0
<1>p. p[1] \in Firms /\ p[2] \in Invitees /\ p = <<p[1], p[2]>>
  BY DEF Pairs
<1>1. CASE p \in seat
  <2>1. guest' = [guest EXCEPT ![r] = NoGuest] /\ UNCHANGED <<seat, invitation, invites, spoilt>>
        /\ shared' \in {shared, shared \cup {p[2]}}
    BY <1>1 DEF Join, GuestLeaves, GuestTurns, EnrolmentInv, EnrolmentTypeOK
  <2>2. /\ guest'[r] = NoGuest /\ \A q \in Clerks \ {r} : guest'[q] = guest[q]
        /\ \A q : Closing(q) <=> Closing(q)'
    BY <1>0, <2>1, NobodyAsks DEF Closing, EnrolmentInv, EnrolmentTypeOK
  <2>3. EnrolmentTypeOK'
    BY <1>p, <2>1, NobodyAsks DEF EnrolmentInv, EnrolmentTypeOK
  <2>4. \A q \in Pairs : Closed(q)'
    BY <2>1, <2>2 DEF Closed, EnrolmentInv
  <2>5. \A g : Knows(g) => Knows(g)'
    BY <2>1, <2>2 DEF Knows, AddressTaken
  <2>6. \A q \in Clerks : Knows(guest[q])'
    <3>1. Knows(NoGuest)
      BY NobodyAsks DEF Knows
    <3> QED
      BY <2>2, <2>5, <3>1 DEF EnrolmentInv
  <2>7. OneAccountEach'
    BY <2>1 DEF EnrolmentInv, OneAccountEach
  <2> QED
    BY <2>3, <2>4, <2>6, <2>7 DEF EnrolmentInv
<1>2. CASE p \notin seat
  <2> DEFINE others == {q \in Clerks \ {r} : guest[q].at = "join" /\ guest[q].pair[2] = p[2]}
  <2>1. PICK new \in Guest : new = [guest[r] EXCEPT !.at = "close"]
    BY <1>0 DEF Guest
  <2>2. new.at = "close" /\ new.pair = p /\ new.row = guest[r].row
    BY <1>0, <2>1 DEF Guest
  <2>3. /\ guest' = [guest EXCEPT ![r] = new] /\ seat' = seat \cup {p} /\ UNCHANGED <<invitation, invites, spoilt>>
        /\ shared' = IF others = {} THEN shared ELSE shared \cup {p[2]}
    BY <1>2, <2>1 DEF Join, GuestTurns
  <2>4. EnrolmentTypeOK'
    BY <1>p, <2>3 DEF EnrolmentInv, EnrolmentTypeOK
  <2>5. /\ guest'[r] = new /\ \A q \in Clerks \ {r} : guest'[q] = guest[q]
        /\ \A q : Closing(q) => Closing(q)'
        /\ Closing(p)'
    BY <1>0, <2>2, <2>3 DEF Closing, EnrolmentInv, EnrolmentTypeOK
  <2>6. \A q \in Pairs : Closed(q)'
    BY <2>3, <2>5 DEF Closed, EnrolmentInv
  <2>7. p[2] \notin shared' => \A o \in Firms : <<o, p[2]>> \notin seat
    BY <1>0, <2>3 DEF Knows, AddressTaken, EnrolmentInv, EnrolmentTypeOK
  <2>8. OneAccountEach'
    <3>1. SUFFICES ASSUME NEW m \in Invitees \ shared', NEW o \in Firms, NEW f \in Firms,
                          <<o, m>> \in seat', <<f, m>> \in seat'
                   PROVE  o = f
      BY DEF OneAccountEach
    <3>2. m \notin shared
      BY <2>3
    <3>3. CASE m = p[2]
      BY <1>p, <2>3, <2>7, <3>1, <3>3
    <3>4. CASE m # p[2]
      BY <1>p, <2>3, <3>1, <3>2, <3>4 DEF EnrolmentInv, OneAccountEach
    <3> QED
      BY <3>3, <3>4
  <2>9. ASSUME NEW q \in Clerks \ {r} PROVE Knows(guest[q])'
    <3>1. Knows(guest[q]) /\ guest[q] \in Guest /\ guest[q].pair \in Pairs /\ guest'[q] = guest[q]
      BY <2>5 DEF EnrolmentInv, EnrolmentTypeOK, Guest
    <3>2. guest[q].at = "join" /\ guest[q].pair[2] \notin shared' => ~AddressTaken(guest[q].pair)'
      <4>1. guest[q].at = "join" /\ guest[q].pair[2] \notin shared' => guest[q].pair[2] # p[2]
        BY <2>3
      <4> QED
        BY <1>p, <2>3, <3>1, <4>1 DEF Knows, AddressTaken
    <3> QED
      BY <2>3, <2>5, <3>1, <3>2 DEF Knows
  <2>10. Knows(guest[r])'
    BY <1>0, <2>2, <2>3, <2>5 DEF Knows
  <2> QED
    BY <2>4, <2>6, <2>8, <2>9, <2>10 DEF EnrolmentInv
<1> QED
  BY <1>1, <1>2

\* The invitation is saved as accepted, or spoilt; its request is over.
LEMMA InvitationsAreClosed ==
    ASSUME EnrolmentInv, NEW r \in Clerks, CloseInvitation(r) \/ CloseFails(r)
    PROVE  EnrolmentInv'
<1>0. /\ guest[r] \in Guest /\ guest[r].pair \in Pairs /\ guest[r].row \in Invitation
      /\ Knows(guest[r]) /\ guest[r].at = "close"
  BY DEF EnrolmentInv, EnrolmentTypeOK, Guest, CloseInvitation, CloseFails
<1> PICK p \in Pairs : p = guest[r].pair
  BY <1>0
<1> PICK row \in Invitation : row = guest[r].row
  BY <1>0
<1> PICK new : new = [row EXCEPT !.accepted = TRUE]
  OBVIOUS
<1>1. new \in Invitation /\ new.id = row.id /\ new.accepted /\ row.id # 0
  BY <1>0 DEF Invitation, Knows
<1>2. p \in seat /\ (p \in spoilt \/ invitation[p].id = row.id)
  BY <1>0 DEF Knows
<1>3. /\ guest' = [guest EXCEPT ![r] = NoGuest] /\ UNCHANGED <<seat, invites, shared>>
      /\ spoilt \subseteq spoilt' /\ spoilt' \subseteq spoilt \cup {p}
      /\ \/ invitation' = invitation /\ p \in spoilt'
         \/ invitation' = [invitation EXCEPT ![p] = new] /\ (Inviting(p) # {} => p \in spoilt')
  BY <1>2 DEF CloseInvitation, CloseFails, GuestLeaves, GuestTurns, EnrolmentInv, EnrolmentTypeOK
<1>4. EnrolmentTypeOK'
  BY <1>1, <1>3, NobodyAsks DEF EnrolmentInv, EnrolmentTypeOK
<1>5. /\ guest'[r] = NoGuest /\ \A q \in Clerks \ {r} : guest'[q] = guest[q]
      /\ \A q : q # p => (Closing(q) <=> Closing(q)')
  BY <1>3, NobodyAsks DEF Closing, EnrolmentInv, EnrolmentTypeOK
<1>6. /\ \A q \in Pairs \ {p} : invitation'[q] = invitation[q]
      /\ p \in spoilt' \/ (invitation'[p] = new /\ Inviting(p) = {})
  BY <1>3 DEF EnrolmentInv, EnrolmentTypeOK
<1>7. \A q \in Pairs : Closed(q)'
  <2>1. Closed(p)'
    BY <1>1, <1>2, <1>3, <1>6 DEF Closed, EnrolmentInv, EnrolmentTypeOK
  <2>2. ASSUME NEW q \in Pairs \ {p} PROVE Closed(q)'
    BY <1>3, <1>5, <1>6 DEF Closed, EnrolmentInv
  <2> QED
    BY <2>1, <2>2
<1>8. ASSUME NEW q \in Clerks \ {r} PROVE Knows(guest[q])'
  <2>1. Knows(guest[q]) /\ guest[q] \in Guest /\ guest[q].pair \in Pairs /\ guest'[q] = guest[q]
    BY <1>5 DEF EnrolmentInv, EnrolmentTypeOK, Guest
  <2>2. CASE guest[q].pair # p
    BY <1>3, <1>5, <1>6, <2>1, <2>2 DEF Knows, AddressTaken
  <2>3. CASE guest[q].pair = p /\ p \in spoilt'
    BY <1>3, <2>1, <2>3 DEF Knows, AddressTaken
  <2>4. CASE guest[q].pair = p /\ p \notin spoilt'
    <3>1. invitation'[p] = new /\ guest[q].at \notin {"drop", "write"} /\ invitation[p].id = row.id
      BY <1>2, <1>3, <1>6, <2>4 DEF Inviting
    <3>2. invitation'[guest[q].pair].id = invitation[guest[q].pair].id /\ invitation'[guest[q].pair].id # 0
      BY <1>1, <2>4, <3>1
    <3>3. guest[q].pair \notin spoilt /\ seat' = seat /\ shared' = shared /\ guest[q].pair = p
      BY <1>3, <2>4
    <3> PICK g \in Guest : g = guest[q]
      BY <2>1
    <3> PICK p2 \in Pairs : p2 = g.pair
      BY <2>1
    <3>4. Knows(g) /\ g.at \notin {"drop", "write"} /\ p2 \notin spoilt
      BY <2>1, <3>1, <3>3
    <3>5. invitation'[p2].id = invitation[p2].id /\ invitation'[p2].id # 0
      BY <3>2
    <3>6. Knows(g)'
      BY <3>3, <3>4, <3>5 DEF Knows, AddressTaken
    <3> QED
      BY <2>1, <3>6
  <2> QED
    BY <2>2, <2>3, <2>4
<1>9. Knows(guest[r])'
  BY <1>5, NobodyAsks DEF Knows
<1> QED
  BY <1>3, <1>4, <1>7, <1>8, <1>9 DEF EnrolmentInv, OneAccountEach

LEMMA GuestsDieSafely ==
    ASSUME EnrolmentInv, GuestsDie
    PROVE  EnrolmentInv'
<1>1. /\ spoilt' = spoilt \cup {guest[r].pair : r \in {q \in Clerks : guest[q].at = "close"}}
      /\ guest' = [r \in Clerks |-> NoGuest] /\ UNCHANGED <<seat, invitation, invites, shared>>
  BY DEF GuestsDie
<1>2. EnrolmentTypeOK'
  BY <1>1, NobodyAsks DEF EnrolmentInv, EnrolmentTypeOK, Guest
<1>3. \A p : Closing(p) \/ p \in spoilt => p \in spoilt'
  BY <1>1 DEF Closing
<1>4. \A p \in Pairs : Closed(p)'
  BY <1>1, <1>3 DEF Closed, EnrolmentInv
<1>5. \A r \in Clerks : Knows(guest[r])'
  BY <1>1, NobodyAsks DEF Knows
<1> QED
  BY <1>1, <1>2, <1>4, <1>5 DEF EnrolmentInv, OneAccountEach

\* A new organization has no requests yet.
LEMMA OrganizationsRegister ==
    ASSUME EnrolmentInv, NEW p \in Pairs, Register(p)
    PROVE  EnrolmentInv'
<1>p. p[1] \in Firms /\ p[2] \in Invitees /\ p = <<p[1], p[2]>>
  BY DEF Pairs
<1>1. /\ invitation[p] = NoInvitation /\ p \notin seat
      /\ \A r \in Clerks : guest[r].at # "idle" => guest[r].pair[1] # p[1]
      /\ seat' = seat \cup {p} /\ shared' = shared \cup {p[2]} /\ UNCHANGED <<invitation, invites, spoilt, guest>>
  <2>1. \A m \in Invitees : <<p[1], m>> \notin seat /\ invitation[<<p[1], m>>] = NoInvitation
    BY Zenon DEF Register
  <2>2. p \notin seat /\ invitation[p] = NoInvitation
    BY <1>p, <2>1
  <2> QED
    BY <2>2, Zenon DEF Register
<1>2. EnrolmentTypeOK'
  BY <1>p, <1>1 DEF EnrolmentInv, EnrolmentTypeOK
<1>3. \A q : Closing(q) <=> Closing(q)'
  BY <1>1 DEF Closing
<1>4. \A q \in Pairs : Closed(q)'
  BY <1>1, <1>3, NobodyAsks DEF Closed, EnrolmentInv
<1>5. ASSUME NEW r \in Clerks PROVE Knows(guest[r])'
  <2>1. Knows(guest[r]) /\ guest[r] \in Guest /\ guest[r].pair \in Pairs
    BY DEF EnrolmentInv, EnrolmentTypeOK, Guest
  <2>2. CASE guest[r].at = "idle"
    BY <1>1, <2>2 DEF Knows
  <2>3. CASE guest[r].at # "idle"
    <3>1. guest[r].pair # p
      BY <1>1, <2>3
    <3>2. guest[r].pair[2] \notin shared' => \A o \in Firms : <<o, guest[r].pair[2]>> # p
      BY <1>p, <1>1
    <3> QED
      BY <1>1, <1>3, <2>1, <3>1, <3>2 DEF Knows, AddressTaken
  <2> QED
    BY <2>2, <2>3
<1>6. OneAccountEach'
  <2>1. SUFFICES ASSUME NEW m \in Invitees \ shared', NEW o \in Firms, NEW f \in Firms,
                        <<o, m>> \in seat', <<f, m>> \in seat'
                 PROVE  o = f
    BY DEF OneAccountEach
  <2>2. m # p[2] /\ m \notin shared
    BY <1>1, <2>1
  <2> QED
    BY <1>p, <1>1, <2>1, <2>2 DEF EnrolmentInv, OneAccountEach
<1> QED
  BY <1>2, <1>4, <1>5, <1>6 DEF EnrolmentInv

\* Every step of an enrolment, a death, and every step beside it.
LEMMA EnrolmentStays ==
    ASSUME EnrolmentInv, EnrolmentNext \/ GuestsDie \/ UNCHANGED enrolmentVars
    PROVE  EnrolmentInv'
<1>1. CASE UNCHANGED enrolmentVars
  <2>1. UNCHANGED <<seat, invitation, invites, spoilt, shared, guest>>
    BY <1>1 DEF enrolmentVars, inviteVars
  <2> QED
    BY <2>1 DEF EnrolmentInv, EnrolmentTypeOK, OneAccountEach, Closed, Knows, Closing, AddressTaken
<1>2. CASE GuestsDie
  BY <1>2, GuestsDieSafely
<1>3. ASSUME NEW r \in Clerks, InviteStep(r) PROVE EnrolmentInv'
  BY <1>3, GuestsLook, InvitationsDrop, InvitationsAreWritten, AccountsJoin, InvitationsAreClosed DEF InviteStep
<1>4. ASSUME NEW p \in Pairs, Register(p) \/ InvitationExpires(p) PROVE EnrolmentInv'
  BY <1>4, OrganizationsRegister, InvitationsExpire
<1> QED
  BY <1>1, <1>2, <1>3, <1>4 DEF EnrolmentNext

\* The invariant says what the run checks.
LEMMA EnrolmentInvHolds == EnrolmentInv => EnrolmentHolds
BY DEF EnrolmentInv, EnrolmentHolds, Closed, Closing, InvitationsClose, Accepting

-----------------------------------------------------------------------------
(* Views of a contact's QR code. *)

\* The views of a contact that have left their scan, and are not answered.
Scanned(c) == {r \in Clerks : view[r].at \in {"contact", "payments"} /\ view[r].of = c}

\* What was answered and what is about to be fits into the scans.
Covered(c) ==
    /\ IsFiniteSet(Scanned(c))
    /\ card[c].here => answered[c] + Cardinality(Scanned(c)) <= scans[c]

\* A view that no change of the code has met holds the token in force.
HoldsCode(r) ==
    view[r].at # "idle" /\ ~view[r].moved =>
        card[view[r].of].token = view[r].token /\ card[view[r].of].active

ScansInv ==
    /\ ScansTypeOK
    /\ CodesWereInForce
    /\ \A c \in Bearers : Covered(c)
    /\ \A r \in Clerks : HoldsCode(r)

LEMMA NoOneViews == NoView \in View /\ NoView.at = "idle"
<1>1. PICK c \in Bearers : c = (CHOOSE b \in Bearers : TRUE)
  BY ScansAssumption, Zenon
<1> QED
  BY <1>1, ScansAssumption DEF NoView, View

NewView(c, t) == [NoView EXCEPT !.at = "record", !.of = c, !.token = t]

LEMMA ViewComes ==
    ASSUME NEW c \in Bearers, NEW t \in 0 .. MaxToken
    PROVE  /\ NewView(c, t) \in View
           /\ NewView(c, t).at = "record" /\ NewView(c, t).of = c /\ NewView(c, t).token = t
<1>1. PICK none \in View : none = NoView
  BY NoOneViews
<1>2. PICK new : new = [none EXCEPT !.at = "record", !.of = c, !.token = t]
  OBVIOUS
<1>3. new.at = "record" /\ new.of = c /\ new.token = t /\ new.moved \in BOOLEAN
  BY <1>2 DEF View
<1>4. new = [at |-> "record", of |-> c, token |-> t, moved |-> new.moved]
  BY <1>2 DEF View
<1>5. new \in View
  BY <1>3, <1>4, Zenon DEF View
<1> QED
  BY <1>1, <1>2, <1>3, <1>5 DEF NewView

\* No view has come.
LEMMA ScansStart == ScansInit => ScansInv
<1> SUFFICES ASSUME ScansInit PROVE ScansInv
  OBVIOUS
<1>1. PICK b \in Bearers : card = [d \in Bearers |-> [here |-> TRUE, token |-> IF d = b THEN 1 ELSE 0, active |-> TRUE]]
  BY DEF ScansInit
<1>2. card \in [Bearers -> Card]
  BY <1>1, ScansAssumption DEF Card
<1>3. ScansTypeOK /\ CodesWereInForce
  <2>1. minted \in 0 .. MaxToken
    BY ScansAssumption DEF ScansInit
  <2>2. /\ scans \in [Bearers -> Nat] /\ answered \in [Bearers -> Nat] /\ view \in [Clerks -> View]
        /\ belied \in BOOLEAN /\ ~belied
    BY NoOneViews DEF ScansInit
  <2> QED
    BY <1>2, <2>1, <2>2 DEF ScansTypeOK, CodesWereInForce
<1>4. \A c \in Bearers : Covered(c)
  <2>1. \A c \in Bearers : Scanned(c) = {} /\ scans[c] = 0 /\ answered[c] = 0
    BY NoOneViews DEF ScansInit, Scanned
  <2> QED
    BY <2>1, FS_EmptySet DEF Covered
<1>5. \A r \in Clerks : HoldsCode(r)
  BY NoOneViews DEF ScansInit, HoldsCode
<1> QED
  BY <1>3, <1>4, <1>5 DEF ScansInv

\* How the views of a contact change with one request, and what that counts.
LEMMA ScannedMoves ==
    ASSUME ScansInv, NEW r \in Clerks, NEW new \in View, view' = [view EXCEPT ![r] = new], NEW c \in Bearers
    PROVE  /\ new.at \in {"contact", "payments"} /\ new.of = c => Scanned(c)' = Scanned(c) \cup {r}
           /\ ~(new.at \in {"contact", "payments"} /\ new.of = c) => Scanned(c)' = Scanned(c) \ {r}
BY DEF ScansInv, ScansTypeOK, Scanned

LEMMA ScannedCounts ==
    ASSUME NEW S, IsFiniteSet(S), NEW r
    PROVE  /\ IsFiniteSet(S \cup {r}) /\ IsFiniteSet(S \ {r})
           /\ Cardinality(S) \in Nat /\ Cardinality(S \cup {r}) \in Nat /\ Cardinality(S \ {r}) \in Nat
           /\ r \in S => S \cup {r} = S /\ Cardinality(S \ {r}) = Cardinality(S) - 1
           /\ r \notin S => S \ {r} = S /\ Cardinality(S \cup {r}) = Cardinality(S) + 1
<1>1. IsFiniteSet(S \cup {r}) /\ (r \notin S => Cardinality(S \cup {r}) = Cardinality(S) + 1)
  BY FS_AddElement
<1>2. IsFiniteSet(S \ {r}) /\ (r \in S => Cardinality(S \ {r}) = Cardinality(S) - 1)
  BY FS_RemoveElement
<1>3. Cardinality(S) \in Nat /\ Cardinality(S \cup {r}) \in Nat /\ Cardinality(S \ {r}) \in Nat
  BY <1>1, <1>2, FS_CardinalityType
<1> QED
  BY <1>1, <1>2, <1>3

\* Steps of a view.
LEMMA ViewsMove ==
    ASSUME ScansInv, NEW r \in Clerks, NEW new \in View, view' = [view EXCEPT ![r] = new],
           UNCHANGED <<card, minted>>, belied' = FALSE,
           scans' \in [Bearers -> Nat], answered' \in [Bearers -> Nat],
           new.at # "idle" /\ ~new.moved => card[new.of].token = new.token /\ card[new.of].active,
           \A c \in Bearers : Covered(c)'
    PROVE  ScansInv'
<1>1. /\ view'[r] = new /\ \A q \in Clerks \ {r} : view'[q] = view[q]
      /\ view' \in [Clerks -> View]
  BY DEF ScansInv, ScansTypeOK
<1>2. \A q \in Clerks : HoldsCode(q)'
  BY <1>1 DEF ScansInv, HoldsCode
<1> QED
  BY <1>1, <1>2 DEF ScansInv, ScansTypeOK, CodesWereInForce

LEMMA ViewsStep ==
    ASSUME ScansInv, NEW r \in Clerks
    PROVE  /\ \A c \in Bearers, t \in 0 .. MaxToken : AskView(r, c, t) => ScansInv'
           /\ RecordScan(r) \/ ReadContact(r) \/ ReadPayments(r) \/ ViewFails(r) => ScansInv'
<1>0. /\ view[r] \in View /\ HoldsCode(r) /\ view[r].of \in Bearers /\ belied = FALSE
      /\ \A c \in Bearers : Covered(c)
      /\ scans \in [Bearers -> Nat] /\ answered \in [Bearers -> Nat] /\ card \in [Bearers -> Card]
  BY DEF ScansInv, ScansTypeOK, View, CodesWereInForce
<1>a. ASSUME NEW new \in View, view' = [view EXCEPT ![r] = new], UNCHANGED <<card, scans, answered>>,
             NEW c \in Bearers,
             new.at \in {"contact", "payments"} /\ new.of = c => view[r].at \in {"contact", "payments"} /\ view[r].of = c
      PROVE  Covered(c)'
  <2>1. PICK S, T : S = Scanned(c) /\ T = Scanned(c)'
    OBVIOUS
  <2>2. IsFiniteSet(S)
    BY <1>0, <2>1 DEF Covered
  <2>3. T = S \/ T = S \ {r}
    <3>1. CASE new.at \in {"contact", "payments"} /\ new.of = c
      <4>1. T = S \cup {r}
        BY <1>a, <2>1, <3>1, ScannedMoves
      <4>2. r \in S
        BY <1>a, <2>1, <3>1 DEF Scanned
      <4> QED
        BY <2>2, <4>1, <4>2, ScannedCounts
    <3>2. CASE ~(new.at \in {"contact", "payments"} /\ new.of = c)
      BY <1>a, <2>1, <3>2, ScannedMoves
    <3> QED
      BY <3>1, <3>2
  <2>4. IsFiniteSet(T) /\ Cardinality(T) \in Nat /\ Cardinality(S) \in Nat /\ Cardinality(T) <= Cardinality(S)
    <3>1. /\ IsFiniteSet(S \ {r}) /\ Cardinality(S) \in Nat /\ Cardinality(S \ {r}) \in Nat
          /\ r \in S => Cardinality(S \ {r}) = Cardinality(S) - 1
          /\ r \notin S => S \ {r} = S
      BY <2>2, ScannedCounts
    <3>2. CASE T = S
      BY <2>2, <3>1, <3>2
    <3>3. CASE T = S \ {r} /\ r \in S
      <4>1. PICK m \in Nat, n \in Nat : m = Cardinality(S) /\ n = Cardinality(T)
        BY <3>1, <3>3
      <4>2. n = m - 1
        BY <3>1, <3>3, <4>1
      <4> QED
        BY <3>1, <3>3, <4>1, <4>2
    <3> QED
      BY <2>3, <3>1, <3>2, <3>3
  <2>5. card[c].here => answered[c] + Cardinality(S) <= scans[c]
    BY <1>0, <2>1 DEF Covered
  <2>6. card[c].here => answered[c] + Cardinality(T) <= scans[c]
    BY <1>0, <2>4, <2>5
  <2> QED
    BY <1>a, <2>1, <2>4, <2>6 DEF Covered
<1>1. ASSUME NEW c \in Bearers, NEW t \in 0 .. MaxToken, AskView(r, c, t) PROVE ScansInv'
  <2>1. PICK new \in View : new = NewView(c, t)
    BY ViewComes
  <2>2. new.at = "record" /\ new.of = c /\ new.token = t
    BY <2>1, ViewComes
  <2>3. view' = [view EXCEPT ![r] = new] /\ InForce(c, t) /\ UNCHANGED <<card, minted, scans, answered, belied>>
    BY <1>1, <2>1 DEF AskView, NewView
  <2>4. \A d \in Bearers : Covered(d)'
    BY <1>a, <2>2, <2>3
  <2> QED
    BY <1>0, <2>2, <2>3, <2>4, ViewsMove DEF InForce
<1>2. ASSUME NEW at \in {"idle", "contact", "payments"}, Turns(r, at), UNCHANGED <<card, minted, scans, answered, belied>>,
             at \in {"contact", "payments"} => view[r].at \in {"contact", "payments"}
      PROVE  ScansInv'
  <2>1. PICK new \in View : new = IF at = "idle" THEN NoView ELSE [view[r] EXCEPT !.at = at]
    BY <1>0, NoOneViews DEF View
  <2>2. new.at = at /\ (at # "idle" => new.of = view[r].of /\ new.token = view[r].token /\ new.moved = view[r].moved)
    BY <1>0, <2>1, NoOneViews DEF View
  <2>3. view' = [view EXCEPT ![r] = new]
    BY <1>2, <2>1 DEF Turns
  <2>4. \A d \in Bearers : Covered(d)'
    BY <1>2, <1>a, <2>2, <2>3
  <2> QED
    BY <1>0, <1>2, <2>2, <2>3, <2>4, ViewsMove DEF HoldsCode
<1>3. ASSUME RecordScan(r), ~card[view[r].of].here PROVE ScansInv'
  BY <1>2, <1>3 DEF RecordScan
<1>4. ASSUME RecordScan(r), card[view[r].of].here PROVE ScansInv'
  <2> PICK c \in Bearers : c = view[r].of
    BY <1>0
  <2>1. PICK new \in View : new = [view[r] EXCEPT !.at = "contact"]
    BY <1>0 DEF View
  <2>2. new.at = "contact" /\ new.of = c /\ new.token = view[r].token /\ new.moved = view[r].moved
    BY <1>0, <2>1 DEF View
  <2>3. /\ view' = [view EXCEPT ![r] = new] /\ view[r].at = "record" /\ scans' = [scans EXCEPT ![c] = @ + 1]
        /\ UNCHANGED <<card, minted, answered, belied>>
    BY <1>4, <2>1 DEF RecordScan, Turns
  <2>4. ASSUME NEW d \in Bearers PROVE Covered(d)'
    <3>1. CASE d # c
      <4>1. r \notin Scanned(d) /\ Scanned(d)' = Scanned(d) \ {r}
        BY <2>2, <2>3, <3>1, ScannedMoves DEF Scanned
      <4> QED
        BY <1>0, <2>3, <3>1, <4>1 DEF Covered
    <3>2. CASE d = c
      <4>1. r \notin Scanned(c) /\ Scanned(c)' = Scanned(c) \cup {r}
        BY <2>2, <2>3, ScannedMoves DEF Scanned
      <4>2. PICK S, T : S = Scanned(c) /\ T = Scanned(c)'
        OBVIOUS
      <4>3. IsFiniteSet(S) /\ (card[c].here => answered[c] + Cardinality(S) <= scans[c])
        BY <1>0, <4>2 DEF Covered
      <4>4. IsFiniteSet(T) /\ Cardinality(S) \in Nat /\ Cardinality(T) = Cardinality(S) + 1
        BY <4>1, <4>2, <4>3, ScannedCounts
      <4>5. scans'[c] = scans[c] + 1 /\ scans[c] \in Nat /\ answered[c] \in Nat
        BY <1>0, <2>3
      <4>6. card[c].here => answered[c] + Cardinality(T) <= scans'[c]
        BY <4>3, <4>4, <4>5
      <4> QED
        BY <2>3, <3>2, <4>2, <4>4, <4>6 DEF Covered
    <3> QED
      BY <3>1, <3>2
  <2>5. scans' \in [Bearers -> Nat]
    BY <1>0, <2>3
  <2> QED
    BY <1>0, <2>2, <2>3, <2>4, <2>5, ViewsMove DEF HoldsCode
<1>5. ASSUME ReadContact(r) PROVE ScansInv'
  BY <1>2, <1>5 DEF ReadContact
<1>6. ASSUME ViewFails(r) PROVE ScansInv'
  BY <1>2, <1>6 DEF ViewFails
<1>7. ASSUME ReadPayments(r) PROVE ScansInv'
  <2> PICK c \in Bearers : c = view[r].of
    BY <1>0
  <2>1. /\ view' = [view EXCEPT ![r] = NoView] /\ view[r].at = "payments" /\ answered' = [answered EXCEPT ![c] = @ + 1]
        /\ belied' = (belied \/ ~(view[r].moved \/ (card[c].token = view[r].token /\ card[c].active)))
        /\ UNCHANGED <<card, minted, scans>>
    BY <1>7 DEF ReadPayments, Turns
  <2>2. belied' = FALSE
    BY <1>0, <2>1 DEF HoldsCode
  <2>4. ASSUME NEW d \in Bearers PROVE Covered(d)'
    <3>1. CASE d # c
      <4>1. r \notin Scanned(d) /\ Scanned(d)' = Scanned(d) \ {r}
        <5>1. NoView.at \notin {"contact", "payments"}
          BY NoOneViews
        <5>2. r \notin Scanned(d)
          BY <2>1, <3>1 DEF Scanned
        <5>3. Scanned(d)' = Scanned(d) \ {r}
          BY <2>1, <5>1, NoOneViews, ScannedMoves, ZenonT(60)
        <5> QED
          BY <5>2, <5>3
      <4> QED
        BY <1>0, <2>1, <3>1, <4>1 DEF Covered
    <3>2. CASE d = c
      <4>1. r \in Scanned(c) /\ Scanned(c)' = Scanned(c) \ {r}
        <5>1. NoView.at \notin {"contact", "payments"}
          BY NoOneViews
        <5>2. r \in Scanned(c)
          BY <2>1 DEF Scanned
        <5>3. Scanned(c)' = Scanned(c) \ {r}
          BY <2>1, <5>1, NoOneViews, ScannedMoves, ZenonT(60)
        <5> QED
          BY <5>2, <5>3
      <4>2. PICK S, T : S = Scanned(c) /\ T = Scanned(c)'
        OBVIOUS
      <4>3. IsFiniteSet(S) /\ (card[c].here => answered[c] + Cardinality(S) <= scans[c])
        BY <1>0, <4>2 DEF Covered
      <4>4. IsFiniteSet(T) /\ Cardinality(S) \in Nat /\ Cardinality(T) = Cardinality(S) - 1
        BY <4>1, <4>2, <4>3, ScannedCounts
      <4>5. answered'[c] = answered[c] + 1 /\ scans[c] \in Nat /\ answered[c] \in Nat
        BY <1>0, <2>1
      <4>6. card[c].here => answered'[c] + Cardinality(T) <= scans[c]
        BY <4>3, <4>4, <4>5
      <4> QED
        BY <2>1, <3>2, <4>2, <4>4, <4>6 DEF Covered
    <3> QED
      BY <3>1, <3>2
  <2>5. answered' \in [Bearers -> Nat]
    BY <1>0, <2>1
  <2> QED
    BY <1>0, <2>1, <2>2, <2>4, <2>5, NoOneViews, ViewsMove
<1> QED
  BY <1>1, <1>3, <1>4, <1>5, <1>6, <1>7

\* A change of the code meets every view of its contact.
LEMMA CardsMove ==
    ASSUME ScansInv, NEW c \in Bearers, NEW row \in Card, CardMoves(c, row), minted' \in 0 .. MaxToken, belied' = belied,
           answered' = answered, scans' = scans \/ (scans' = [scans EXCEPT ![c] = 0] /\ ~row.here)
    PROVE  ScansInv'
<1>1. /\ card' = [card EXCEPT ![c] = row] /\ card[c].here
      /\ view' = [r \in Clerks |-> IF view[r].of = c /\ view[r].at # "idle" THEN [view[r] EXCEPT !.moved = TRUE] ELSE view[r]]
  BY DEF CardMoves
<1>2. ASSUME NEW r \in Clerks
      PROVE  /\ view'[r] \in View /\ view'[r].at = view[r].at /\ view'[r].of = view[r].of /\ view'[r].token = view[r].token
             /\ view[r].of = c /\ view[r].at # "idle" => view'[r].moved
             /\ view[r].moved => view'[r].moved
  <2>1. view[r] \in View
    BY DEF ScansInv, ScansTypeOK
  <2>2. PICK new : new = [view[r] EXCEPT !.moved = TRUE]
    OBVIOUS
  <2>3. new \in View /\ new.at = view[r].at /\ new.of = view[r].of /\ new.token = view[r].token /\ new.moved
    BY <2>1, <2>2 DEF View
  <2>4. view'[r] = IF view[r].of = c /\ view[r].at # "idle" THEN new ELSE view[r]
    BY <1>1, <2>2
  <2> QED
    BY <2>1, <2>3, <2>4
<1>3. ScansTypeOK'
  BY <1>1, <1>2 DEF ScansInv, ScansTypeOK
<1>4. \A d \in Bearers : Scanned(d)' = Scanned(d)
  BY <1>2 DEF Scanned
<1>5. \A d \in Bearers : Covered(d)'
  <2>1. ASSUME NEW d \in Bearers PROVE Covered(d)'
    <3>1. Covered(d) /\ Scanned(d)' = Scanned(d) /\ answered'[d] = answered[d]
      BY <1>4 DEF ScansInv
    <3>2. card'[d].here => card[d].here /\ scans'[d] = scans[d]
      BY <1>1 DEF ScansInv, ScansTypeOK
    <3> QED
      BY <3>1, <3>2 DEF Covered
  <2> QED
    BY <2>1
<1>6. \A r \in Clerks : HoldsCode(r)'
  <2>1. ASSUME NEW r \in Clerks, view'[r].at # "idle", ~view'[r].moved
        PROVE  card'[view[r].of] = card[view[r].of] /\ HoldsCode(r) /\ view[r].at # "idle" /\ ~view[r].moved
    BY <1>1, <1>2, <2>1 DEF ScansInv, ScansTypeOK
  <2> QED
    BY <1>2, <2>1 DEF HoldsCode
<1> QED
  BY <1>3, <1>5, <1>6 DEF ScansInv, CodesWereInForce

\* Every step of the views, a death, and every step beside them.
LEMMA ScansStay ==
    ASSUME ScansInv, ScansNext \/ ViewsDie \/ UNCHANGED scanVars
    PROVE  ScansInv'
<1>1. CASE UNCHANGED scanVars
  BY <1>1 DEF scanVars, ScansInv, ScansTypeOK, CodesWereInForce, Covered, Scanned, HoldsCode
<1>2. CASE ViewsDie
  <2>1. view' = [r \in Clerks |-> NoView] /\ UNCHANGED <<card, minted, scans, answered, belied>>
    BY <1>2 DEF ViewsDie
  <2>2. ScansTypeOK' /\ CodesWereInForce'
    BY <2>1, NoOneViews DEF ScansInv, ScansTypeOK, CodesWereInForce
  <2>3. ASSUME NEW c \in Bearers PROVE Covered(c)'
    <3>1. Scanned(c)' = {}
      BY <2>1, NoOneViews DEF Scanned
    <3>2. PICK S : S = Scanned(c)
      OBVIOUS
    <3>3. IsFiniteSet(S) /\ (card[c].here => answered[c] + Cardinality(S) <= scans[c])
      BY <3>2 DEF ScansInv, Covered
    <3>4. Cardinality(S) \in Nat
      BY <3>3, FS_CardinalityType
    <3>5. card[c].here => answered[c] + 0 <= scans[c]
      BY <3>3, <3>4 DEF ScansInv, ScansTypeOK
    <3> QED
      BY <2>1, <3>1, <3>5, FS_EmptySet DEF Covered
  <2>4. \A r \in Clerks : HoldsCode(r)'
    BY <2>1, NoOneViews DEF HoldsCode
  <2> QED
    BY <2>2, <2>3, <2>4 DEF ScansInv
<1>3. ASSUME NEW r \in Clerks, ViewStep(r) PROVE ScansInv'
  BY <1>3, ViewsStep DEF ViewStep
<1>4. ASSUME NEW c \in Bearers, Reissue(c) PROVE ScansInv'
  <2>1. PICK n \in 0 .. MaxToken : n = minted + 1
    <3>1. minted \in 0 .. MaxToken /\ minted < MaxToken /\ MaxToken \in Nat
      BY <1>4, ScansAssumption DEF Reissue, ScansInv, ScansTypeOK
    <3> QED
      BY <3>1
  <2>2. PICK row \in Card : row = [card[c] EXCEPT !.token = n]
    <3>1. PICK old \in Card : old = card[c]
      BY DEF ScansInv, ScansTypeOK
    <3>2. PICK row : row = [old EXCEPT !.token = n]
      OBVIOUS
    <3>3. row \in Card
      BY <3>2, ScansAssumption DEF Card
    <3> QED
      BY <3>1, <3>2, <3>3
  <2>3. CardMoves(c, row) /\ minted' = n /\ UNCHANGED <<scans, answered, belied>>
    BY <1>4, <2>1, <2>2 DEF Reissue
  <2> QED
    BY <2>3, CardsMove
<1>5. ASSUME NEW c \in Bearers, NEW on \in BOOLEAN, Switch(c, on) PROVE ScansInv'
  <2>1. PICK row \in Card : row = [card[c] EXCEPT !.active = on]
    <3>1. PICK old \in Card : old = card[c]
      BY DEF ScansInv, ScansTypeOK
    <3>2. PICK row : row = [old EXCEPT !.active = on]
      OBVIOUS
    <3>3. row \in Card
      BY <3>2 DEF Card
    <3> QED
      BY <3>1, <3>2, <3>3
  <2>2. CardMoves(c, row) /\ UNCHANGED <<minted, scans, answered, belied>>
    BY <1>5, <2>1 DEF Switch
  <2>3. minted' \in 0 .. MaxToken /\ scans' = scans /\ belied' = belied /\ answered' = answered
    BY <2>2 DEF ScansInv, ScansTypeOK
  <2> QED
    BY <2>2, <2>3, CardsMove
<1>6. ASSUME NEW c \in Bearers, BearerGone(c) PROVE ScansInv'
  <2>1. PICK row \in Card : row = [here |-> FALSE, token |-> 0, active |-> FALSE]
    <3>1. 0 \in 0 .. MaxToken
      BY ScansAssumption
    <3> QED
      BY <3>1, Zenon DEF Card
  <2>2. CardMoves(c, row) /\ UNCHANGED <<minted, answered, belied>> /\ scans' = [scans EXCEPT ![c] = 0] /\ ~row.here
    BY <1>6, <2>1 DEF BearerGone
  <2> QED
    BY <2>2, CardsMove DEF ScansInv, ScansTypeOK
<1> QED
  BY <1>1, <1>2, <1>3, <1>4, <1>5, <1>6 DEF ScansNext

\* The invariant says what the run checks.
LEMMA ScansInvHolds == ScansInv => ScansHold
<1> SUFFICES ASSUME ScansInv, NEW c \in Bearers, card[c].here PROVE answered[c] <= scans[c]
  BY DEF ScansInv, ScansHold, AnswersAreScanned
<1>1. PICK S : S = Scanned(c)
  OBVIOUS
<1>2. IsFiniteSet(S) /\ answered[c] + Cardinality(S) <= scans[c] /\ answered[c] \in Nat /\ scans[c] \in Nat
  BY <1>1 DEF ScansInv, ScansTypeOK, Covered
<1>3. Cardinality(S) \in Nat
  BY <1>2, FS_CardinalityType
<1> QED
  BY <1>2, <1>3

-----------------------------------------------------------------------------
(* Reminders and notices. *)

\* The mails that are out and not charged, each with its request.
Owed == UNION {{r} \X writer[r].out : r \in Mailing}

\* What a request holds of the mails it sends.
Sends(w) ==
    /\ IsFiniteSet(w.out) /\ w.todo \cap w.out = {}
    /\ w.reminds /\ w.at \in {"mail", "meter"} => w.new.targets \subseteq w.todo \cup w.out
    /\ w.at = "mail" => ~w.failed
    /\ w.at = "meter" /\ ~w.failed => w.todo = {}
    /\ w.reminds /\ w.at \in {"targets", "save"} => w.new.targets \subseteq w.out /\ ~w.failed

\* A copy that will be saved lists its reader, and all who were told they are listed.
Marks(w) ==
    w.at = "mark" =>
        /\ w.new.to # "none" /\ w.who \in w.new.read
        /\ \A m \in marked : m[1] = w.notice => m[1] \in crossed \/ m[2] \in w.new.read

\* MarksAreKept, of notices that are there.
IsKept(m) == notice[m[1]].to # "none" /\ (m[1] \in crossed \/ m[2] \in notice[m[1]].read)

NoticesInv ==
    /\ NoticesTypeOK
    /\ IsFiniteSet(Owed)
    /\ mailsOut = meter + unmetered + Cardinality(Owed)
    /\ \A m \in marked : IsKept(m)
    /\ \A r \in Clerks : Sends(writer[r]) /\ Marks(writer[r])

Out(w) == IF w.at \in {"mail", "meter"} THEN w.out ELSE {}

\* The requests and notices there are none of.
LEMMA NoOneWrites ==
    /\ NoNotice \in Notice /\ NoNotice.to = "none" /\ NoNotice.targets = {}
    /\ NoWriter \in Writer /\ NoWriter.at = "idle" /\ NoWriter.out = {} /\ NoWriter.todo = {}
    /\ ~NoWriter.failed /\ ~NoWriter.reminds /\ Out(NoWriter) = {}
<1>1. NoNotice \in Notice /\ NoNotice.to = "none" /\ NoNotice.targets = {}
  BY DEF NoNotice, Notice
<1>2. PICK p \in Readership : p = (CHOOSE q \in Readership : TRUE)
  <2>1. \E p \in Readership : TRUE
    BY NoticesAssumption DEF Readership
  <2> QED
    BY <2>1, Zenon
<1>3. 1 \in Notices
  BY NoticesAssumption DEF Notices
<1>4. NoWriter \in Writer
  BY <1>1, <1>2, <1>3 DEF NoWriter, Writer
<1> QED
  BY <1>1, <1>4 DEF NoWriter, Out

LEMMA NothingSent == Sends(NoWriter) /\ Marks(NoWriter)
BY NoOneWrites, FS_EmptySet DEF Sends, Marks

\* What is owed, by its members.
LEMMA OwedIs == \A x : x \in Owed <=> \E r \in Clerks : x \in {r} \X Out(writer[r])
BY DEF Owed, Mailing, Out

\* How it changes with one request.
LEMMA OwedMoves ==
    ASSUME NoticesTypeOK, NEW r \in Clerks, NEW new \in Writer, writer' = [writer EXCEPT ![r] = new]
    PROVE  /\ Out(new) = Out(writer[r]) => Owed' = Owed
           /\ \A c : Out(new) = Out(writer[r]) \cup {c} /\ c \notin Out(writer[r]) =>
                 Owed' = Owed \cup {<<r, c>>} /\ <<r, c>> \notin Owed
           /\ Out(new) = {} => Owed' = Owed \ ({r} \X Out(writer[r])) /\ {r} \X Out(writer[r]) \subseteq Owed
<1>1. \A x : x \in Owed' <=> \E q \in Clerks : x \in {q} \X Out(writer[q])'
  BY DEF Owed, Mailing, Out
<1>2. Out(writer[r])' = Out(new) /\ \A q \in Clerks \ {r} : Out(writer[q])' = Out(writer[q])
  BY DEF NoticesTypeOK, Out
<1>3. Out(new) = Out(writer[r]) => Owed' = Owed
  BY <1>1, <1>2, OwedIs
<1>4. ASSUME NEW c, Out(new) = Out(writer[r]) \cup {c}, c \notin Out(writer[r])
      PROVE  Owed' = Owed \cup {<<r, c>>} /\ <<r, c>> \notin Owed
  <2>1. <<r, c>> \notin Owed
    BY <1>4, OwedIs
  <2>2. \A x : x \in Owed' => x \in Owed \cup {<<r, c>>}
    BY <1>1, <1>2, <1>4, OwedIs
  <2>3. \A x : x \in Owed \cup {<<r, c>>} => x \in Owed'
    BY <1>1, <1>2, <1>4, OwedIs
  <2> QED
    BY <2>1, <2>2, <2>3
<1>5. ASSUME Out(new) = {}
      PROVE  Owed' = Owed \ ({r} \X Out(writer[r])) /\ {r} \X Out(writer[r]) \subseteq Owed
  <2>1. {r} \X Out(writer[r]) \subseteq Owed
    BY OwedIs
  <2>2. \A x : x \in Owed' => x \in Owed \ ({r} \X Out(writer[r]))
    BY <1>1, <1>2, <1>5, OwedIs
  <2>3. \A x : x \in Owed \ ({r} \X Out(writer[r])) => x \in Owed'
    BY <1>1, <1>2, OwedIs
  <2> QED
    BY <2>1, <2>2, <2>3
<1> QED
  BY <1>3, <1>4, <1>5

\* No notice is there, or none was read; no request has come.
LEMMA NoticesStart == NoticesInit => NoticesInv
<1> SUFFICES ASSUME NoticesInit PROVE NoticesInv
  OBVIOUS
<1>1. notice \in [Notices -> Notice]
  BY NoOneWrites DEF NoticesInit, Notice
<1>2. NoticesTypeOK
  BY <1>1, NoOneWrites DEF NoticesInit, NoticesTypeOK
<1>3. Owed = {}
  BY NoOneWrites DEF NoticesInit, Owed, Mailing
<1>4. \A r \in Clerks : Sends(writer[r]) /\ Marks(writer[r])
  BY NothingSent DEF NoticesInit
<1>5. mailsOut = meter + unmetered + Cardinality(Owed) /\ IsFiniteSet(Owed)
  BY <1>3, FS_EmptySet DEF NoticesInit
<1> QED
  BY <1>2, <1>4, <1>5 DEF NoticesInit, NoticesInv

\* A request turns, and what is owed stays.
LEMMA WritersTurn ==
    ASSUME NoticesInv, NEW r \in Clerks, NEW new \in Writer, writer' = [writer EXCEPT ![r] = new],
           Out(new) = Out(writer[r]), Sends(new), Marks(new), UNCHANGED <<reachable, noticeRows, mailRows>>
    PROVE  NoticesInv'
<1>1. writer'[r] = new /\ \A q \in Clerks \ {r} : writer'[q] = writer[q]
  BY DEF NoticesInv, NoticesTypeOK
<1>2. UNCHANGED <<reachable, notice, marked, crossed, meter, mailsOut, unmetered>>
  BY DEF noticeRows, mailRows
<1>3. NoticesTypeOK'
  BY <1>2 DEF NoticesInv, NoticesTypeOK
<1>4. Owed' = Owed
  BY OwedMoves DEF NoticesInv
<1>5. \A q \in Clerks : Sends(writer[q])' /\ Marks(writer[q])'
  BY <1>1, <1>2 DEF NoticesInv, Sends, Marks
<1> QED
  BY <1>2, <1>3, <1>4, <1>5 DEF NoticesInv, IsKept

\* What a notice and a request are made of.
NoticeTo(targets) == [NoNotice EXCEPT !.to = "contacts", !.targets = targets]

LEMMA NoticeFor ==
    ASSUME NEW targets \in SUBSET Readership
    PROVE  NoticeTo(targets) \in Notice /\ NoticeTo(targets).targets = targets
<1>1. PICK n : n = [NoNotice EXCEPT !.to = "contacts", !.targets = targets]
  OBVIOUS
<1>2. n \in Notice /\ n.targets = targets
  BY <1>1, NoOneWrites DEF Notice
<1> QED
  BY <1>1, <1>2, Zenon DEF NoticeTo

\* Reminders and notices are asked for.
LEMMA NoticesAreAsked ==
    ASSUME NoticesInv, NEW r \in Clerks
    PROVE  /\ \A contacts \in SUBSET Contacts : AskReminder(r, contacts) => NoticesInv'
           /\ \A c \in Contacts : AskStatus(r, c) => NoticesInv'
           /\ \A users \in SUBSET Users, who \in Users : AskInternal(r, users, who) => NoticesInv'
           /\ \A n \in Notices, p \in Readership : AskMark(r, n, p) => NoticesInv'
<1>0. /\ writer[r] \in Writer /\ Contacts \subseteq Readership /\ Users \subseteq Readership
  BY DEF NoticesInv, NoticesTypeOK, Readership
<1> PICK none \in Writer : none = NoWriter /\ none.at = "idle" /\ none.out = {} /\ none.todo = {} /\ ~none.failed /\ ~none.reminds
  BY NoOneWrites
<1>f. IsFiniteSet({})
  BY FS_EmptySet
<1>1. ASSUME NEW contacts \in SUBSET Contacts, AskReminder(r, contacts) PROVE NoticesInv'
  <2>1. PICK n \in Notice : n = NoticeTo(contacts) /\ n.targets = contacts
    BY <1>0, NoticeFor
  <2>2. PICK new : new = [none EXCEPT !.at = "mail", !.todo = contacts, !.reminds = TRUE, !.new = n]
    OBVIOUS
  <2>3. new \in Writer /\ new.at = "mail" /\ new.todo = contacts /\ new.new = n /\ new.out = {} /\ ~new.failed
    BY <2>2 DEF Writer
  <2>4. /\ writer' = [writer EXCEPT ![r] = new] /\ writer[r].at = "idle"
        /\ UNCHANGED <<reachable, noticeRows, mailRows>>
    <3>1. new = [NoWriter EXCEPT !.at = "mail", !.todo = contacts, !.reminds = TRUE,
                    !.new = [NoNotice EXCEPT !.to = "contacts", !.targets = contacts]]
      BY <2>1, <2>2, Zenon DEF NoticeTo
    <3> QED
      BY <1>1, <3>1, Zenon DEF AskReminder, WriterBegins
  <2>5. Sends(new) /\ Marks(new) /\ Out(new) = {} /\ Out(writer[r]) = {}
    BY <1>f, <2>1, <2>3, <2>4 DEF Sends, Marks, Out
  <2> QED
    BY <2>3, <2>4, <2>5, WritersTurn
<1>2. ASSUME NEW c \in Contacts, AskStatus(r, c) PROVE NoticesInv'
  <2>1. PICK n \in Notice : n = NoticeTo({c})
    BY <1>0, NoticeFor
  <2>2. PICK new : new = [none EXCEPT !.at = "targets", !.new = n]
    OBVIOUS
  <2>3. new \in Writer /\ new.at = "targets" /\ new.out = {} /\ new.todo = {} /\ ~new.reminds
    BY <2>2 DEF Writer
  <2>4. /\ writer' = [writer EXCEPT ![r] = new] /\ writer[r].at = "idle"
        /\ UNCHANGED <<reachable, noticeRows, mailRows>>
    <3>1. new = [NoWriter EXCEPT !.at = "targets",
                    !.new = [NoNotice EXCEPT !.to = "contacts", !.targets = {c}]]
      BY <2>1, <2>2, Zenon DEF NoticeTo
    <3> QED
      BY <1>2, <3>1, Zenon DEF AskStatus, WriterBegins
  <2>5. Sends(new) /\ Marks(new) /\ Out(new) = {} /\ Out(writer[r]) = {}
    BY <1>f, <2>3, <2>4 DEF Sends, Marks, Out
  <2> QED
    BY <2>3, <2>4, <2>5, WritersTurn
<1>3. ASSUME NEW users \in SUBSET Users, NEW who \in Users, AskInternal(r, users, who) PROVE NoticesInv'
  <2>1. PICK n \in Notice : n = [to |-> "users", all |-> users = {}, targets |-> users, read |-> {who}]
    <3>1. PICK b \in BOOLEAN : b = (users = {})
      BY Zenon
    <3>2. users \in SUBSET Readership /\ {who} \in SUBSET Readership
      BY <1>0
    <3> QED
      BY <3>1, <3>2 DEF Notice
  <2>2. PICK new : new = [none EXCEPT !.at = "save", !.new = n]
    OBVIOUS
  <2>3. new \in Writer /\ new.at = "save" /\ new.out = {} /\ new.todo = {} /\ ~new.reminds
    BY <2>2 DEF Writer
  <2>4. /\ writer' = [writer EXCEPT ![r] = new] /\ writer[r].at = "idle"
        /\ UNCHANGED <<reachable, noticeRows, mailRows>>
    BY <1>3, <2>1, <2>2 DEF AskInternal, WriterBegins
  <2>5. Sends(new) /\ Marks(new) /\ Out(new) = {} /\ Out(writer[r]) = {}
    BY <1>f, <2>3, <2>4 DEF Sends, Marks, Out
  <2> QED
    BY <2>3, <2>4, <2>5, WritersTurn
<1>4. ASSUME NEW n \in Notices, NEW p \in Readership, AskMark(r, n, p) PROVE NoticesInv'
  <2>1. PICK row \in Notice : row = notice[n]
    BY DEF NoticesInv, NoticesTypeOK
  <2>2. PICK copy : copy = [row EXCEPT !.read = @ \cup {p}]
    OBVIOUS
  <2>3. copy \in Notice /\ copy.to = row.to /\ copy.read = row.read \cup {p}
    BY <2>2 DEF Notice
  <2>4. PICK new : new = [none EXCEPT !.at = "mark", !.notice = n, !.who = p, !.new = copy]
    OBVIOUS
  <2>5. /\ new \in Writer /\ new.at = "mark" /\ new.out = {} /\ new.todo = {} /\ ~new.reminds
        /\ new.notice = n /\ new.who = p /\ new.new = copy
    BY <2>3, <2>4 DEF Writer
  <2>6. /\ writer' = [writer EXCEPT ![r] = new] /\ writer[r].at = "idle" /\ Shown(n, p)
        /\ UNCHANGED <<reachable, noticeRows, mailRows>>
    BY <1>4, <2>1, <2>2, <2>4 DEF AskMark, WriterBegins
  <2>7. copy.to # "none" /\ \A m \in marked : m[1] = n => m[1] \in crossed \/ m[2] \in copy.read
    BY <2>1, <2>3, <2>6 DEF Shown, NoticesInv, IsKept
  <2>8. Sends(new) /\ Marks(new) /\ Out(new) = {} /\ Out(writer[r]) = {}
    BY <1>f, <2>3, <2>5, <2>6, <2>7 DEF Sends, Marks, Out
  <2> QED
    BY <2>5, <2>6, <2>8, WritersTurn
<1> QED
  BY <1>1, <1>2, <1>3, <1>4

\* A request turns, no notice changes, and the mails still balance.
LEMMA MailsMove ==
    ASSUME NoticesInv, NEW r \in Clerks, NEW new \in Writer, writer' = [writer EXCEPT ![r] = new],
           Sends(new), Marks(new), UNCHANGED <<reachable, noticeRows>>,
           meter' \in Nat, mailsOut' \in Nat, unmetered' \in Nat,
           IsFiniteSet(Owed'), mailsOut' = meter' + unmetered' + Cardinality(Owed')
    PROVE  NoticesInv'
<1>1. writer'[r] = new /\ \A q \in Clerks \ {r} : writer'[q] = writer[q]
  BY DEF NoticesInv, NoticesTypeOK
<1>2. UNCHANGED <<reachable, notice, marked, crossed>>
  BY DEF noticeRows
<1>3. NoticesTypeOK'
  BY <1>2 DEF NoticesInv, NoticesTypeOK
<1>4. \A q \in Clerks : Sends(writer[q])' /\ Marks(writer[q])'
  BY <1>1, <1>2 DEF NoticesInv, Sends, Marks
<1> QED
  BY <1>2, <1>3, <1>4 DEF NoticesInv, IsKept

\* The mails are over, or one failed; the contacts are looked up again.
LEMMA WritersProceed ==
    ASSUME NoticesInv, NEW r \in Clerks, SendFails(r) \/ AllSent(r) \/ FindTargets(r)
    PROVE  NoticesInv'
<1> PICK w \in Writer : w = writer[r] /\ Sends(w) /\ Marks(w)
  BY DEF NoticesInv, NoticesTypeOK
<1>1. CASE SendFails(r) \/ AllSent(r)
  <2>1. PICK failed \in BOOLEAN : failed = IF SendFails(r) THEN TRUE ELSE w.failed
    <3>1. w.failed \in BOOLEAN
      BY DEF Writer
    <3> QED
      BY <3>1
  <2>2. PICK new : new = [w EXCEPT !.at = "meter", !.failed = failed]
    OBVIOUS
  <2>3. /\ new \in Writer /\ new.at = "meter" /\ new.out = w.out /\ new.todo = w.todo /\ new.reminds = w.reminds
        /\ new.new = w.new /\ new.failed = failed
    BY <2>2 DEF Writer
  <2>4. /\ w.at = "mail" /\ (failed \/ w.todo = {}) /\ UNCHANGED <<reachable, noticeRows, meter>>
        /\ \E more \in {0, 1} : mailsOut' = mailsOut + more /\ unmetered' = unmetered + more
    <3>1. CASE SendFails(r)
      BY <2>1, <3>1 DEF SendFails
    <3>2. CASE AllSent(r)
      BY <2>1, <3>2 DEF AllSent, mailRows, NoticesInv, NoticesTypeOK
    <3> QED
      BY <1>1, <3>1, <3>2
  <2>5. writer' = [writer EXCEPT ![r] = new]
    <3>1. CASE SendFails(r)
      BY <2>1, <2>2, <3>1 DEF SendFails, NoticesInv, NoticesTypeOK, Writer
    <3>2. CASE ~SendFails(r)
      <4>1. [w EXCEPT !.at = "meter"] = new
        BY <2>1, <2>2, <3>2 DEF Writer
      <4> QED
        BY <1>1, <3>2, <4>1 DEF AllSent, WriterTurns
    <3> QED
      BY <3>1, <3>2
  <2>6. Sends(new) /\ Marks(new) /\ Out(new) = Out(writer[r])
    BY <2>3, <2>4 DEF Sends, Marks, Out
  <2>7. Owed' = Owed
    BY <2>3, <2>5, <2>6, OwedMoves DEF NoticesInv
  <2>8. /\ meter' \in Nat /\ mailsOut' \in Nat /\ unmetered' \in Nat
        /\ IsFiniteSet(Owed') /\ mailsOut' = meter' + unmetered' + Cardinality(Owed')
    <3>1. Cardinality(Owed) \in Nat
      BY FS_CardinalityType DEF NoticesInv
    <3> QED
      BY <2>4, <2>7, <3>1 DEF NoticesInv, NoticesTypeOK
  <2> QED
    BY <2>3, <2>4, <2>5, <2>6, <2>8, MailsMove
<1>2. CASE FindTargets(r)
  <2>1. PICK found : found = w.new.targets \cap reachable
    OBVIOUS
  <2>2. PICK n \in Notice : n = [w.new EXCEPT !.targets = found] /\ n.targets = found
    <3>1. PICK old \in Notice : old = w.new
      BY DEF Writer
    <3>2. PICK n : n = [old EXCEPT !.targets = found]
      OBVIOUS
    <3>3. found \subseteq Readership
      BY <2>1, <3>1 DEF Notice
    <3> QED
      BY <3>1, <3>2, <3>3 DEF Notice
  <2>3. PICK new : new = [w EXCEPT !.at = "save", !.new = n]
    OBVIOUS
  <2>4. /\ new \in Writer /\ new.at = "save" /\ new.out = w.out /\ new.todo = w.todo /\ new.reminds = w.reminds
        /\ new.new = n /\ new.failed = w.failed
    BY <2>3 DEF Writer
  <2>5. [w EXCEPT !.at = "save", !.new.targets = found] = new
    BY <2>2, <2>3 DEF Writer
  <2>6. /\ w.at = "targets" /\ UNCHANGED <<reachable, noticeRows, mailRows>>
        /\ writer' \in {[writer EXCEPT ![r] = NoWriter], [writer EXCEPT ![r] = new]}
    BY <1>2, <2>1, <2>5 DEF FindTargets, WriterTurns
  <2>7. Sends(new) /\ Marks(new) /\ Out(new) = {} /\ Out(writer[r]) = {}
    BY <2>1, <2>2, <2>4, <2>6 DEF Sends, Marks, Out
  <2> QED
    BY <2>4, <2>6, <2>7, WritersTurn, NoOneWrites, NothingSent
<1> QED
  BY <1>1, <1>2

\* A mail goes out, and is owed.
LEMMA MailGoesOut ==
    ASSUME NoticesInv, NEW r \in Clerks, NEW c \in Contacts, SendOne(r, c)
    PROVE  NoticesInv'
<1> PICK w \in Writer : w = writer[r] /\ Sends(w) /\ Marks(w)
  BY DEF NoticesInv, NoticesTypeOK
<1>1. PICK new : new = [w EXCEPT !.todo = @ \ {c}, !.out = @ \cup {c}]
  OBVIOUS
<1>2. /\ new \in Writer /\ new.at = w.at /\ new.todo = w.todo \ {c} /\ new.out = w.out \cup {c}
      /\ new.reminds = w.reminds /\ new.new = w.new /\ new.failed = w.failed
  BY <1>1 DEF Writer
<1>3. /\ w.at = "mail" /\ c \in w.todo /\ writer' = [writer EXCEPT ![r] = new]
      /\ mailsOut' = mailsOut + 1 /\ UNCHANGED <<reachable, noticeRows, meter, unmetered>>
  BY <1>1 DEF SendOne, WriterTurns
<1>4. Sends(new) /\ Marks(new)
  <2>1. IsFiniteSet(new.out)
    BY <1>2, FS_AddElement DEF Sends
  <2> QED
    BY <1>2, <1>3, <2>1 DEF Sends, Marks
<1>5. Out(new) = Out(writer[r]) \cup {c} /\ c \notin Out(writer[r])
  BY <1>2, <1>3 DEF Out, Sends
<1>6. Owed' = Owed \cup {<<r, c>>} /\ <<r, c>> \notin Owed
  BY <1>2, <1>3, <1>5, OwedMoves DEF NoticesInv
<1>7. IsFiniteSet(Owed') /\ Cardinality(Owed') = Cardinality(Owed) + 1
  BY <1>6, FS_AddElement DEF NoticesInv
<1>8. meter' \in Nat /\ mailsOut' \in Nat /\ unmetered' \in Nat /\ mailsOut' = meter' + unmetered' + Cardinality(Owed')
  <2>1. Cardinality(Owed) \in Nat
    BY FS_CardinalityType DEF NoticesInv
  <2> QED
    BY <1>3, <1>7, <2>1 DEF NoticesInv, NoticesTypeOK
<1> QED
  BY <1>2, <1>3, <1>4, <1>7, <1>8, MailsMove

\* As many pairs as members.
LEMMA PairedWith ==
    ASSUME NEW r, NEW S, IsFiniteSet(S)
    PROVE  IsFiniteSet({r} \X S) /\ Cardinality({r} \X S) = Cardinality(S)
<1>1. IsFiniteSet({r}) /\ Cardinality({r}) = 1
  BY FS_Singleton
<1>2. IsFiniteSet({r} \X S) /\ Cardinality({r} \X S) = Cardinality({r}) * Cardinality(S)
  BY <1>1, FS_Product
<1>3. Cardinality(S) \in Nat
  BY FS_CardinalityType
<1> QED
  BY <1>1, <1>2, <1>3

\* What a request has sent is charged, or cannot be any more; it is no longer owed.
LEMMA UsageIsRecorded ==
    ASSUME NoticesInv, NEW r \in Clerks, RecordUsage(r) \/ UsageIsLost(r)
    PROVE  NoticesInv'
<1> PICK w \in Writer : w = writer[r] /\ Sends(w) /\ Marks(w)
  BY DEF NoticesInv, NoticesTypeOK
<1>1. PICK turned : turned = [w EXCEPT !.at = "targets"]
  OBVIOUS
<1>2. /\ turned \in Writer /\ turned.at = "targets" /\ turned.todo = w.todo /\ turned.out = w.out
      /\ turned.reminds = w.reminds /\ turned.new = w.new /\ turned.failed = w.failed
  BY <1>1 DEF Writer
<1>3. PICK new : new = IF w.failed THEN NoWriter ELSE turned
  OBVIOUS
<1>4. /\ w.at = "meter" /\ writer' = [writer EXCEPT ![r] = new]
      /\ UNCHANGED <<reachable, noticeRows, mailsOut>>
      /\ \/ meter' = meter + Cardinality(w.out) /\ unmetered' = unmetered
         \/ unmetered' = unmetered + Cardinality(w.out) /\ meter' = meter
  BY <1>1, <1>3 DEF RecordUsage, UsageIsLost, WriterTurns, Charged, Metered
<1>5. new \in Writer /\ Sends(new) /\ Marks(new) /\ Out(new) = {}
  <2>1. CASE w.failed
    BY <1>3, <2>1, NoOneWrites, NothingSent
  <2>2. CASE ~w.failed
    BY <1>2, <1>3, <1>4, <2>2 DEF Sends, Marks, Out
  <2> QED
    BY <2>1, <2>2
<1>6. Out(writer[r]) = w.out /\ IsFiniteSet(w.out)
  BY <1>4 DEF Out, Sends
<1>7. PICK gone : gone = {r} \X w.out
  OBVIOUS
<1>8. Owed' = Owed \ gone /\ gone \subseteq Owed
  BY <1>4, <1>5, <1>6, <1>7, OwedMoves DEF NoticesInv
<1>9. IsFiniteSet(gone) /\ Cardinality(gone) = Cardinality(w.out)
  BY <1>6, <1>7, PairedWith
<1>10. /\ IsFiniteSet(Owed') /\ Cardinality(Owed) = Cardinality(Owed') + Cardinality(w.out)
       /\ Cardinality(Owed') \in Nat /\ Cardinality(w.out) \in Nat
  <2>1. PICK S : S = Owed
    OBVIOUS
  <2>2. IsFiniteSet(S) /\ gone \subseteq S
    BY <1>8, <2>1 DEF NoticesInv
  <2>3. IsFiniteSet(S \ gone)
    BY <2>2, FS_Difference
  <2>4. Cardinality(S \ gone) = Cardinality(S) - Cardinality(S \cap gone)
    BY <2>2, FS_Difference
  <2>5. S \cap gone = gone
    BY <2>2
  <2>6. Cardinality(S) \in Nat /\ Cardinality(gone) \in Nat /\ Cardinality(S \ gone) \in Nat
    BY <1>9, <2>2, <2>3, FS_CardinalityType
  <2>7. PICK all, part, rest \in Nat : all = Cardinality(S) /\ part = Cardinality(gone) /\ rest = Cardinality(S \ gone)
    BY <2>6
  <2>8. rest = all - part
    BY <2>4, <2>5, <2>7
  <2>9. all = rest + part
    BY <2>8
  <2>10. Owed' = S \ gone /\ Owed = S /\ Cardinality(w.out) = part
    BY <1>8, <1>9, <2>1, <2>7
  <2> QED
    BY <2>3, <2>7, <2>9, <2>10
<1>11. meter' \in Nat /\ mailsOut' \in Nat /\ unmetered' \in Nat /\ mailsOut' = meter' + unmetered' + Cardinality(Owed')
  BY <1>4, <1>10 DEF NoticesInv, NoticesTypeOK
<1> QED
  BY <1>4, <1>5, <1>10, <1>11, MailsMove

\* A notice is saved where there was none, so nobody was told it is marked.
LEMMA NoticeIsSaved ==
    ASSUME NoticesInv, NEW r \in Clerks, NEW n \in Notices, SaveNotice(r, n)
    PROVE  NoticesInv'
<1> PICK w \in Writer : w = writer[r] /\ Sends(w) /\ Marks(w)
  BY DEF NoticesInv, NoticesTypeOK
<1>1. /\ w.at = "save" /\ notice[n].to = "none" /\ notice' = [notice EXCEPT ![n] = w.new]
      /\ writer' = [writer EXCEPT ![r] = NoWriter] /\ UNCHANGED <<reachable, marked, crossed, meter, mailsOut, unmetered>>
  BY DEF SaveNotice, WriterTurns, mailRows
<1>2. w.new \in Notice
  BY DEF Writer
<1>3. NoticesTypeOK'
  BY <1>1, <1>2, NoOneWrites DEF NoticesInv, NoticesTypeOK
<1>4. Owed' = Owed
  <2>1. Out(NoWriter) = Out(writer[r])
    BY <1>1, NoOneWrites DEF Out
  <2> QED
    BY <1>1, <2>1, NoOneWrites, OwedMoves DEF NoticesInv
<1>5. \A m \in marked : IsKept(m)'
  <2> SUFFICES ASSUME NEW m \in marked PROVE IsKept(m)'
    OBVIOUS
  <2>1. IsKept(m)
    BY DEF NoticesInv
  <2>2. m[1] # n
    BY <1>1, <2>1 DEF IsKept
  <2>3. notice'[m[1]] = notice[m[1]]
    BY <1>1, <2>2 DEF NoticesInv, NoticesTypeOK
  <2> QED
    BY <1>1, <2>1, <2>3 DEF IsKept
<1>6. \A q \in Clerks : Sends(writer[q])' /\ Marks(writer[q])'
  <2>1. writer'[r] = NoWriter /\ \A q \in Clerks \ {r} : writer'[q] = writer[q]
    BY <1>1, NoOneWrites DEF NoticesInv, NoticesTypeOK
  <2> QED
    BY <1>1, <2>1, NothingSent DEF NoticesInv, Sends, Marks
<1> QED
  BY <1>1, <1>3, <1>4, <1>5, <1>6 DEF NoticesInv

\* A marked copy is saved: it lists who was told so, or another copy of it is about to be
\* saved and the two cross.
LEMMA MarkIsSaved ==
    ASSUME NoticesInv, NEW r \in Clerks, SaveMark(r)
    PROVE  NoticesInv'
<1> PICK w \in Writer : w = writer[r] /\ Sends(w) /\ Marks(w)
  BY DEF NoticesInv, NoticesTypeOK
<1> PICK n \in Notices, p \in Readership, copy \in Notice : n = w.notice /\ p = w.who /\ copy = w.new
  BY DEF Writer
<1>1. /\ w.at = "mark" /\ notice' = [notice EXCEPT ![n] = copy] /\ marked' = marked \cup {<<n, p>>}
      /\ crossed' = IF \E q \in Clerks \ {r} : writer[q].at = "mark" /\ writer[q].notice = n
                    THEN crossed \cup {n} ELSE crossed
      /\ writer' = [writer EXCEPT ![r] = NoWriter] /\ UNCHANGED <<reachable, meter, mailsOut, unmetered>>
  BY Zenon DEF SaveMark, WriterTurns, mailRows, MarkedCopy
<1>2. crossed \subseteq crossed' /\ crossed' \subseteq Notices
  BY <1>1 DEF NoticesInv, NoticesTypeOK
<1>3. NoticesTypeOK'
  BY <1>1, <1>2, NoOneWrites DEF NoticesInv, NoticesTypeOK
<1>4. Owed' = Owed
  <2>1. Out(NoWriter) = Out(writer[r])
    BY <1>1, NoOneWrites DEF Out
  <2> QED
    BY <1>1, <2>1, NoOneWrites, OwedMoves DEF NoticesInv
<1>5. /\ copy.to # "none" /\ p \in copy.read
      /\ \A m \in marked : m[1] = n => m[1] \in crossed \/ m[2] \in copy.read
  BY <1>1 DEF Marks
<1>6. /\ notice'[n] = copy /\ \A m \in Notices \ {n} : notice'[m] = notice[m]
  BY <1>1 DEF NoticesInv, NoticesTypeOK
<1>7. \A m \in marked' : IsKept(m)'
  <2> SUFFICES ASSUME NEW m \in marked' PROVE IsKept(m)'
    OBVIOUS
  <2>1. CASE m = <<n, p>>
    BY <1>5, <1>6, <2>1 DEF IsKept
  <2>2. CASE m \in marked /\ m[1] = n
    BY <1>2, <1>5, <1>6, <2>2 DEF IsKept
  <2>3. CASE m \in marked /\ m[1] # n
    <3>1. IsKept(m) /\ m[1] \in Notices
      BY <2>3 DEF NoticesInv, NoticesTypeOK
    <3> QED
      BY <1>2, <1>6, <2>3, <3>1 DEF IsKept
  <2> QED
    BY <1>1, <2>1, <2>2, <2>3
<1>8. \A q \in Clerks : Sends(writer[q])' /\ Marks(writer[q])'
  <2>1. writer'[r] = NoWriter /\ \A q \in Clerks \ {r} : writer'[q] = writer[q]
    BY <1>1, NoOneWrites DEF NoticesInv, NoticesTypeOK
  <2>2. Sends(NoWriter) /\ NoWriter.at # "mark"
    BY NoOneWrites, NothingSent
  <2>3. ASSUME NEW q \in Clerks \ {r} PROVE Marks(writer[q])'
    <3>1. Marks(writer[q]) /\ writer'[q] = writer[q]
      BY <2>1 DEF NoticesInv
    <3>2. writer[q].at = "mark" /\ writer[q].notice = n => n \in crossed'
      BY <1>1
    <3> QED
      BY <1>1, <1>2, <3>1, <3>2 DEF Marks
  <2>4. Marks(writer[r])'
    BY <2>1, <2>2 DEF Marks
  <2>5. \A q \in Clerks : Sends(writer[q])'
    BY <2>1, <2>2 DEF NoticesInv, Sends
  <2> QED
    BY <2>3, <2>4, <2>5
<1> QED
  BY <1>1, <1>3, <1>4, <1>7, <1>8 DEF NoticesInv

\* What is uncharged is what is owed.
LEMMA UnchargedIsOwed == Uncharged(Mailing) = Cardinality(Owed)
BY DEF Uncharged, Owed

\* The process dies: what was owed is not metered any more.
LEMMA WritersMayDie ==
    ASSUME NoticesInv, WritersDie
    PROVE  NoticesInv'
<1>1. /\ unmetered' = unmetered + Cardinality(Owed) /\ writer' = [r \in Clerks |-> NoWriter]
      /\ UNCHANGED <<reachable, meter, mailsOut, notice, marked, crossed>>
  BY UnchargedIsOwed DEF WritersDie, noticeRows
<1>2. Cardinality(Owed) \in Nat
  BY FS_CardinalityType DEF NoticesInv
<1>3. NoticesTypeOK'
  BY <1>1, <1>2, NoOneWrites DEF NoticesInv, NoticesTypeOK
<1>4. Owed' = {}
  BY <1>1, NoOneWrites DEF Owed, Mailing
<1>5. IsFiniteSet(Owed') /\ Cardinality(Owed') = 0
  BY <1>4, FS_EmptySet
<1>6. mailsOut' = meter' + unmetered' + Cardinality(Owed')
  BY <1>1, <1>2, <1>5 DEF NoticesInv, NoticesTypeOK
<1>7. \A r \in Clerks : Sends(writer[r])' /\ Marks(writer[r])'
  <2>1. Sends(NoWriter) /\ NoWriter.at # "mark"
    BY NoOneWrites, NothingSent
  <2>2. \A r \in Clerks : writer'[r] = NoWriter
    BY <1>1
  <2> QED
    BY <2>1, <2>2 DEF Sends, Marks
<1> QED
  BY <1>1, <1>3, <1>5, <1>6, <1>7 DEF NoticesInv, IsKept

\* Every step of it keeps what the notices promise.
LEMMA NoticesStay ==
    ASSUME NoticesInv, NoticesNext \/ WritersDie \/ UNCHANGED noticeVars
    PROVE  NoticesInv'
<1>1. ASSUME UNCHANGED noticeVars PROVE NoticesInv'
  <2>1. UNCHANGED <<reachable, notice, writer, meter, mailsOut, unmetered, marked, crossed>>
    BY <1>1 DEF noticeVars
  <2>2. Owed' = Owed
    BY <2>1 DEF Owed, Mailing
  <2>3. \A r \in Clerks : Sends(writer[r])' /\ Marks(writer[r])'
    BY <2>1 DEF NoticesInv, Sends, Marks
  <2> QED
    BY <2>1, <2>2, <2>3 DEF NoticesInv, NoticesTypeOK, IsKept
<1>2. ASSUME NEW c \in Contacts, ContactComesOrGoes(c) PROVE NoticesInv'
  <2>1. reachable' \subseteq Contacts /\ UNCHANGED <<notice, writer, meter, mailsOut, unmetered, marked, crossed>>
    BY <1>2 DEF ContactComesOrGoes, NoticesInv, NoticesTypeOK
  <2> QED
    BY <2>1 DEF NoticesInv, NoticesTypeOK, Owed, Mailing, IsKept, Sends, Marks
<1>3. ASSUME NEW r \in Clerks, NoticeStep(r) PROVE NoticesInv'
  <2>1. AskNotice(r) => NoticesInv'
    BY NoticesAreAsked DEF AskNotice
  <2>2. SendFails(r) \/ AllSent(r) \/ FindTargets(r) => NoticesInv'
    BY WritersProceed
  <2> QED
    BY <1>3, <2>1, <2>2, MailGoesOut, UsageIsRecorded, NoticeIsSaved, MarkIsSaved, Zenon DEF NoticeStep
<1> QED
  BY <1>1, <1>2, <1>3, WritersMayDie DEF NoticesNext

LEMMA NoticesInvHolds == NoticesInv => NoticesHold
BY UnchargedIsOwed DEF NoticesInv, NoticesHold, MarksAreKept, MailIsCharged, NoticeFollowsMail, IsKept, Sends
-----------------------------------------------------------------------------
(* The trail and the retention of data. *)

\* The requests that log themselves.
Complies(op) == op \in {"compliance", "purge", "policy"}

Logs == log \cup purged

\* The interceptor's log of a request: none before its answer, none but of an answer that
\* has one, and it is there in the end unless it was missed.
Traced(c, k) ==
    /\ k.at # "done" => ~k.ok
    /\ k.write = "none" <=> k.at # "done"
    /\ k.write \in {"column", "insert"} => k.ok \/ k.op = "platform"
    /\ LoggedBy(c, "interceptor") => k.at = "done" /\ (k.ok \/ k.op = "platform")
    /\ k.write = "over" /\ c \notin missed /\ k.ok /\ k.op # "silent" => LoggedBy(c, "interceptor")

\* A request's own log: none before it is asked, and from there on just if it succeeds.
Records(c, k) ==
    /\ k.at = "idle" => ~LoggedBy(c, "service")
    /\ k.at \in {"handle", "column"} => ~Complies(k.op)
    /\ Complies(k.op) /\ k.at # "idle" => (LoggedBy(c, "service") <=> k.ok)

Served(k) == memo = "none" => k.write # "column" /\ k.at # "column"

\* What a purge takes for old is old by the limits there are, unless they were rewritten.
Cuts(c, k) ==
    k.at \in {"contacts", "submissions", "logs"} /\ c \notin rewritten =>
        \A x \in Kept : \A d \in k.old[x] : d + limit[x] < day

Fine(c, k) == Traced(c, k) /\ Records(c, k) /\ Served(k) /\ Cuts(c, k)

TrailInv ==
    /\ TrailTypeOK
    /\ early = {}
    /\ \A c \in Calls : Fine(c, call[c])

\* The limits there may be, and the request there is none of.
LEMMA NoOneCalls ==
    /\ Policy # {}
    /\ NoCall \in Call /\ NoCall.at = "idle" /\ NoCall.write = "none" /\ ~NoCall.ok /\ NoCall.op = "act"
<1>1. PICK p \in Policy : p = NoCall.policy
  <2>1. PICK l : l \in Limits
    BY TrailAssumption
  <2>2. [k \in Kept |-> l] \in Policy
    BY <2>1 DEF Policy
  <2>3. (CHOOSE p \in Policy : TRUE) \in Policy
    BY <2>2, Zenon
  <2> QED
    BY <2>3 DEF NoCall
<1>2. [k \in Kept |-> {}] \in [Kept -> SUBSET (0..MaxDay)]
  OBVIOUS
<1>3. NoCall.policy = (CHOOSE l \in Policy : TRUE)
  BY DEF NoCall
<1>4. NoCall \in Call
  BY <1>1, <1>2, <1>3 DEF NoCall, Call, Ops
<1> QED
  BY <1>1, <1>4 DEF NoCall

\* Nothing was asked yet.
LEMMA TrailStarts == TrailInit => TrailInv
<1> SUFFICES ASSUME TrailInit PROVE TrailInv
  OBVIOUS
<1>1. since \in [Persons \cup Papers -> 0..MaxDay]
  BY TrailAssumption DEF TrailInit
<1>2. TrailTypeOK
  BY <1>1, NoOneCalls DEF TrailInit, TrailTypeOK
<1>3. ASSUME NEW c \in Calls PROVE Fine(c, call[c])
  <2>1. call[c] = NoCall
    BY DEF TrailInit
  <2>2. ~LoggedBy(c, "service") /\ ~LoggedBy(c, "interceptor")
    BY DEF TrailInit, LoggedBy
  <2> QED
    BY <2>1, <2>2, NoOneCalls DEF Fine, Traced, Records, Served, Cuts
<1> QED
  BY <1>2, <1>3 DEF TrailInit, TrailInv

\* One request goes on; what it logs is its own, and what a purge removes is not lost.
LEMMA CallGoesOn ==
    ASSUME TrailInv, NEW c \in Calls, NEW new \in Call, call' = [call EXCEPT ![c] = new],
           memo' \in {"none", "asked", "known"}, memo' = "none" => memo = "none",
           NEW fresh, Logs' = Logs \cup fresh, \A x \in fresh : x.call = c,
           log' \subseteq Log, purged' \subseteq Log, missed \subseteq missed', missed' \subseteq Calls,
           UNCHANGED <<limit, since, day, rewritten>>, kept' \subseteq kept, early' = {},
           Fine(c, new)'
    PROVE  TrailInv'
<1>1. call'[c] = new /\ \A d \in Calls \ {c} : call'[d] = call[d]
  BY DEF TrailInv, TrailTypeOK
<1>2. TrailTypeOK'
  BY DEF TrailInv, TrailTypeOK
<1>3. ASSUME NEW d \in Calls \ {c} PROVE Fine(d, call[d])'
  <2>1. call'[d] = call[d] /\ Fine(d, call[d])
    BY <1>1 DEF TrailInv
  <2>2. \A by : LoggedBy(d, by)' <=> LoggedBy(d, by)
    <3>1. \A by : LoggedBy(d, by) <=> \E x \in Logs : x.call = d /\ x.by = by
      BY DEF LoggedBy, Logs
    <3>2. \A by : LoggedBy(d, by)' <=> \E x \in Logs' : x.call = d /\ x.by = by
      BY DEF LoggedBy, Logs
    <3> QED
      BY <3>1, <3>2
  <2>3. Traced(d, call[d])'
    BY <2>1, <2>2 DEF Fine, Traced
  <2>4. Records(d, call[d])'
    BY <2>1, <2>2 DEF Fine, Records
  <2>5. Served(call[d])' /\ Cuts(d, call[d])'
    BY <2>1 DEF Fine, Served, Cuts
  <2> QED
    BY <2>3, <2>4, <2>5 DEF Fine
<1>4. Fine(c, call[c])'
  BY <1>1 DEF Fine, Traced, Records, Served, Cuts
<1> QED
  BY <1>2, <1>3, <1>4 DEF TrailInv

\* Who is logged, when nothing is written, and when a request's log is.
LEMMA LoggedAs ==
    /\ Logs' = Logs => \A c, by : LoggedBy(c, by)' <=> LoggedBy(c, by)
    /\ \A c, by, x : Logs' = Logs \cup {x} /\ x.call = c /\ x.by = by =>
          LoggedBy(c, by)' /\ \A other : other # by => (LoggedBy(c, other)' <=> LoggedBy(c, other))
<1>1. \A c, by : LoggedBy(c, by) <=> \E x \in Logs : x.call = c /\ x.by = by
  BY DEF LoggedBy, Logs
<1>2. \A c, by : LoggedBy(c, by)' <=> \E x \in Logs' : x.call = c /\ x.by = by
  BY DEF LoggedBy, Logs
<1> QED
  BY <1>1, <1>2

\* An answer: what becomes of the request.
LEMMA AnsweredSo ==
    ASSUME TrailInv, NEW c \in Calls, NEW ok \in BOOLEAN, Answers(c, ok)
    PROVE  \E new \in Call :
              /\ call' = [call EXCEPT ![c] = new] /\ new.at = "done" /\ new.ok = ok /\ new.op = call[c].op
              /\ new.write \in {"column", "insert", "over"}
              /\ new.write = "over" <=> ~Logged(new.op, ok)
              /\ memo' \in {"none", "asked", "known"} /\ (memo' = "none" => memo = "none" /\ new.write # "column")
<1> PICK k \in Call : k = call[c]
  BY DEF TrailInv, TrailTypeOK
<1>1. PICK write : write = IF ~Logged(k.op, ok) THEN "over" ELSE IF Tenant(k.op) THEN "column" ELSE "insert"
  OBVIOUS
<1>2. PICK new : new = [k EXCEPT !.at = "done", !.ok = ok, !.write = write]
  OBVIOUS
<1>3. write \in {"column", "insert", "over"} /\ (write = "over" <=> ~Logged(k.op, ok))
  BY <1>1
<1>4. new \in Call /\ new.at = "done" /\ new.ok = ok /\ new.op = k.op /\ new.write = write
  BY <1>2, <1>3 DEF Call
<1>5. /\ call' = [call EXCEPT ![c].at = "done", ![c].ok = ok, ![c].write = write]
      /\ IF write = "column" THEN AsksColumn ELSE UNCHANGED memo
  BY <1>1, Zenon DEF Answers
<1>6. call' = [call EXCEPT ![c] = new]
  BY <1>2, <1>5 DEF TrailInv, TrailTypeOK, Call
<1>7. memo' \in {"none", "asked", "known"} /\ (memo' = "none" => memo = "none" /\ new.write # "column")
  BY <1>4, <1>5 DEF AsksColumn, TrailInv, TrailTypeOK
<1> QED
  BY <1>3, <1>4, <1>6, <1>7

\* A request that was answered and logs nothing by itself is fine.
LEMMA AnswerIsFine ==
    ASSUME TrailInv, NEW c \in Calls, NEW ok \in BOOLEAN, Answers(c, ok), call[c].at \notin {"idle", "done"},
           \/ Logs' = Logs /\ (Complies(call[c].op) => ~ok)
           \/ ok /\ \E x : Logs' = Logs \cup {x} /\ x.call = c /\ x.by = "service",
           log' \subseteq Log, purged' \subseteq Log, UNCHANGED <<missed, dataVars>>
    PROVE  TrailInv'
<1> PICK k \in Call : k = call[c] /\ Fine(c, k)
  BY DEF TrailInv, TrailTypeOK
<1>0. PICK new \in Call :
          /\ call' = [call EXCEPT ![c] = new] /\ new.at = "done" /\ new.ok = ok /\ new.op = k.op
          /\ new.write \in {"column", "insert", "over"}
          /\ new.write = "over" <=> ~Logged(new.op, ok)
          /\ memo' \in {"none", "asked", "known"} /\ (memo' = "none" => memo = "none" /\ new.write # "column")
  BY AnsweredSo
<1>1. UNCHANGED <<missed, limit, kept, since, day, rewritten, early>>
  BY DEF dataVars
<1>2. ~LoggedBy(c, "interceptor") /\ (Complies(k.op) => ~LoggedBy(c, "service"))
  BY DEF Fine, Traced, Records
<1>3. ~LoggedBy(c, "interceptor")'
  BY <1>2, LoggedAs
<1>4. Complies(k.op) => (LoggedBy(c, "service")' <=> ok)
  BY <1>2, LoggedAs
<1>5. new.write \in {"column", "insert"} => new.ok \/ new.op = "platform"
  BY <1>0 DEF Logged
<1>6. new.write = "over" /\ new.ok => new.op = "silent"
  BY <1>0 DEF Logged, Tenant
<1>7. Fine(c, new)'
  BY <1>0, <1>3, <1>4, <1>5, <1>6 DEF Fine, Traced, Records, Served, Cuts
<1>8. \E fresh : Logs' = Logs \cup fresh /\ \A x \in fresh : x.call = c
  <2>1. CASE Logs' = Logs
    <3>1. PICK none : none = {}
      OBVIOUS
    <3>2. Logs' = Logs \cup none /\ \A x \in none : x.call = c
      BY <2>1, <3>1
    <3> QED
      BY <3>2, Zenon
  <2>2. CASE Logs' # Logs
    <3>1. PICK x : Logs' = Logs \cup {x} /\ x.call = c
      BY <2>2
    <3>2. Logs' = Logs \cup {x} /\ \A y \in {x} : y.call = c
      BY <3>1
    <3> QED
      BY <3>2
  <2> QED
    BY <2>1, <2>2
<1>9. PICK fresh : Logs' = Logs \cup fresh /\ \A x \in fresh : x.call = c
  BY <1>8
<1>10. early' = {} /\ kept' \subseteq kept /\ missed \subseteq missed' /\ missed' \subseteq Calls
  BY <1>1 DEF TrailInv, TrailTypeOK
<1> QED
  BY <1>0, <1>1, <1>7, <1>9, <1>10, CallGoesOn

\* Today and the limits are numbers.
LEMMA DaysAreNumbers ==
    ASSUME TrailInv
    PROVE  day \in Nat /\ \A x \in Kept : limit[x] \in Nat
<1>1. day \in 0..MaxDay /\ MaxDay \in Nat /\ limit \in [Kept -> Limits] /\ Limits \subseteq Nat
  BY TrailAssumption, Zenon DEF TrailInv, TrailTypeOK, Policy
<1>2. \A n \in Nat : \A t \in 0..n : t \in Nat
  OBVIOUS
<1>3. day \in Nat
  BY <1>1, <1>2, Zenon
<1>4. \A x \in Kept : limit[x] \in Limits
  BY <1>1
<1> QED
  BY <1>1, <1>3, <1>4, Zenon

\* A request is asked, as any of its kinds.
LEMMA CallsAreAsked ==
    ASSUME TrailInv, NEW c \in Calls, AskCall(c)
    PROVE  TrailInv'
<1> PICK k \in Call : k = call[c] /\ Fine(c, k)
  BY DEF TrailInv, TrailTypeOK
<1>0. ASSUME NEW new \in Call, call' = [call EXCEPT ![c] = new], k.at = "idle", new.at \in {"handle", "column", "log", "save", "contacts"},
             new.write = k.write, new.ok = k.ok, new.at \in {"handle", "column"} => ~Complies(new.op),
             memo' \in {"none", "asked", "known"}, memo' = "none" => memo = "none" /\ new.at # "column",
             new.at = "contacts" => \A x \in Kept : \A d \in new.old[x] : d + limit[x] < day,
             UNCHANGED <<log, missed, purged, dataVars>>
      PROVE  TrailInv'
  <2>1. UNCHANGED <<log, purged, missed, limit, kept, since, day, rewritten, early>>
    BY <1>0 DEF dataVars
  <2>2. Logs' = Logs
    BY <2>1 DEF Logs
  <2>3. k.write = "none" /\ ~k.ok /\ ~LoggedBy(c, "interceptor") /\ ~LoggedBy(c, "service")
    BY <1>0 DEF Fine, Traced, Records
  <2>4. ~LoggedBy(c, "interceptor")' /\ ~LoggedBy(c, "service")'
    BY <2>2, <2>3, LoggedAs
  <2>5. Traced(c, new)'
    BY <1>0, <2>3, <2>4 DEF Traced
  <2>6. Records(c, new)'
    BY <1>0, <2>3, <2>4 DEF Records
  <2>7. Served(new)'
    BY <1>0, <2>3 DEF Served
  <2>8. Cuts(c, new)'
    BY <1>0, <2>1 DEF Cuts
  <2>9. Fine(c, new)'
    BY <2>5, <2>6, <2>7, <2>8 DEF Fine
  <2>10. PICK fresh : fresh = {}
    OBVIOUS
  <2>11. Logs' = Logs \cup fresh /\ \A x \in fresh : x.call = c
    BY <2>2, <2>10
  <2>12. early' = {} /\ kept' \subseteq kept /\ log' \subseteq Log /\ purged' \subseteq Log
         /\ missed \subseteq missed' /\ missed' \subseteq Calls
    BY <2>1 DEF TrailInv, TrailTypeOK
  <2> QED
    BY <1>0, <2>1, <2>9, <2>11, <2>12, CallGoesOn
<1>m. memo \in {"none", "asked", "known"}
  BY DEF TrailInv, TrailTypeOK
<1>1. ASSUME NEW op \in Ops, AskAct(c, op) PROVE TrailInv'
  <2>1. PICK new : new = [k EXCEPT !.op = op, !.at = "handle"]
    OBVIOUS
  <2>2. new \in Call /\ new.at = "handle" /\ new.op = op /\ new.write = k.write /\ new.ok = k.ok
    BY <2>1 DEF Call
  <2>3. /\ op \in {"act", "platform", "silent"} /\ k.at = "idle"
        /\ call' = [call EXCEPT ![c].op = op, ![c].at = "handle"]
        /\ UNCHANGED <<memo, log, missed, purged, dataVars>>
    BY <1>1 DEF AskAct, Ask, IsNext
  <2>4. call' = [call EXCEPT ![c] = new]
    BY <2>1, <2>3 DEF TrailInv, TrailTypeOK, Call
  <2> QED
    BY <1>0, <1>m, <2>2, <2>3, <2>4 DEF Complies
<1>2. ASSUME AskList(c) PROVE TrailInv'
  <2>1. PICK new : new = [k EXCEPT !.op = "list", !.at = "column"]
    OBVIOUS
  <2>2. new \in Call /\ new.at = "column" /\ new.op = "list" /\ new.write = k.write /\ new.ok = k.ok
    BY <2>1 DEF Call, Ops
  <2>3. /\ k.at = "idle" /\ call' = [call EXCEPT ![c].op = "list", ![c].at = "column"]
        /\ AsksColumn /\ UNCHANGED <<log, missed, purged, dataVars>>
    BY <1>2 DEF AskList, Ask, IsNext
  <2>4. call' = [call EXCEPT ![c] = new]
    BY <2>1, <2>3 DEF TrailInv, TrailTypeOK, Call
  <2>5. memo' \in {"asked", "known"}
    BY <1>m, <2>3 DEF AsksColumn
  <2> QED
    BY <1>0, <2>2, <2>3, <2>4, <2>5 DEF Complies
<1>3. ASSUME AskCompliance(c) PROVE TrailInv'
  <2>1. PICK new : new = [k EXCEPT !.op = "compliance", !.at = "log"]
    OBVIOUS
  <2>2. new \in Call /\ new.at = "log" /\ new.write = k.write /\ new.ok = k.ok
    BY <2>1 DEF Call, Ops
  <2>3. /\ k.at = "idle" /\ call' = [call EXCEPT ![c].op = "compliance", ![c].at = "log"]
        /\ UNCHANGED <<memo, log, missed, purged, dataVars>>
    BY <1>3 DEF AskCompliance, Ask, IsNext
  <2>4. call' = [call EXCEPT ![c] = new]
    BY <2>1, <2>3 DEF TrailInv, TrailTypeOK, Call
  <2> QED
    BY <1>0, <1>m, <2>2, <2>3, <2>4
<1>4. ASSUME NEW p \in Policy, AskPolicy(c, p) PROVE TrailInv'
  <2>1. PICK new : new = [k EXCEPT !.op = "policy", !.at = "save", !.policy = p]
    OBVIOUS
  <2>2. new \in Call /\ new.at = "save" /\ new.write = k.write /\ new.ok = k.ok
    BY <2>1 DEF Call, Ops
  <2>3. /\ k.at = "idle" /\ call' = [call EXCEPT ![c].op = "policy", ![c].at = "save", ![c].policy = p]
        /\ UNCHANGED <<memo, log, missed, purged, dataVars>>
    BY <1>4 DEF AskPolicy, IsNext
  <2>4. call' = [call EXCEPT ![c] = new]
    BY <2>1, <2>3 DEF TrailInv, TrailTypeOK, Call
  <2> QED
    BY <1>0, <1>m, <2>2, <2>3, <2>4
<1>5. ASSUME AskPurge(c) PROVE TrailInv'
  <2>1. PICK aged : aged = [x \in Kept |-> Old(x)]
    OBVIOUS
  <2>2. aged \in [Kept -> SUBSET (0..MaxDay)] /\ \A x \in Kept : \A d \in aged[x] : d + limit[x] < day
    <3>1. day \in Nat /\ \A x \in Kept : limit[x] \in Nat
      BY DaysAreNumbers
    <3>2. ASSUME NEW x \in Kept PROVE Old(x) \subseteq 0..MaxDay /\ \A d \in Old(x) : d + limit[x] < day
      <4>1. PICK t \in Nat : t = day
        BY <3>1
      <4>2. PICK l \in Nat : l = limit[x]
        BY <3>1
      <4>3. Old(x) = {d \in 0..MaxDay : d < t - l}
        BY <4>1, <4>2 DEF Old
      <4>4. \A d \in 0..MaxDay : d < t - l => d + l < t
        OBVIOUS
      <4> QED
        BY <4>1, <4>2, <4>3, <4>4
    <3> QED
      BY <2>1, <3>2
  <2>3. limit \in Policy
    BY DEF TrailInv, TrailTypeOK
  <2>4. PICK new : new = [k EXCEPT !.op = "purge", !.at = "contacts", !.old = aged, !.policy = limit]
    OBVIOUS
  <2>5. new \in Call /\ new.at = "contacts" /\ new.write = k.write /\ new.ok = k.ok /\ new.old = aged
    BY <2>2, <2>3, <2>4 DEF Call, Ops
  <2>6. /\ k.at = "idle"
        /\ call' = [call EXCEPT ![c].op = "purge", ![c].at = "contacts", ![c].old = aged, ![c].policy = limit]
        /\ UNCHANGED <<memo, log, missed, purged, dataVars>>
    BY <1>5, <2>1, Zenon DEF AskPurge, IsNext
  <2>7. call' = [call EXCEPT ![c] = new]
    BY <2>4, <2>6 DEF TrailInv, TrailTypeOK, Call
  <2> QED
    BY <1>0, <1>m, <2>2, <2>5, <2>6, <2>7
<1> QED
  BY <1>1, <1>2, <1>3, <1>4, <1>5 DEF AskCall

\* Handlers answer.
LEMMA CallsAreHandled ==
    ASSUME TrailInv, NEW c \in Calls,
           (\E ok \in BOOLEAN : Handle(c, ok)) \/ List(c) \/ LogAction(c) \/ CallThrows(c)
    PROVE  TrailInv'
<1> PICK k \in Call : k = call[c] /\ Fine(c, k)
  BY DEF TrailInv, TrailTypeOK
<1>0. log \subseteq Log /\ purged \subseteq Log
  BY DEF TrailInv, TrailTypeOK
<1>1. ASSUME NEW ok \in BOOLEAN, Handle(c, ok) PROVE TrailInv'
  <2>1. k.at = "handle" /\ Answers(c, ok) /\ UNCHANGED <<log, purged, missed, dataVars>>
    BY <1>1 DEF Handle
  <2>2. ~Complies(k.op)
    BY <2>1 DEF Fine, Records
  <2> QED
    BY <1>0, <2>1, <2>2, AnswerIsFine DEF Logs
<1>2. ASSUME List(c) PROVE TrailInv'
  <2>1. k.at = "column" /\ Answers(c, TRUE) /\ UNCHANGED <<log, purged, missed, dataVars>>
    BY <1>2 DEF List
  <2>2. ~Complies(k.op)
    BY <2>1 DEF Fine, Records
  <2> QED
    BY <1>0, <2>1, <2>2, AnswerIsFine DEF Logs
<1>3. ASSUME LogAction(c) PROVE TrailInv'
  <2>1. PICK x : x = [call |-> c, by |-> "service", day |-> day]
    OBVIOUS
  <2>2. x \in Log /\ x.call = c /\ x.by = "service"
    BY <2>1 DEF Log, TrailInv, TrailTypeOK
  <2>3. k.at = "log" /\ Answers(c, TRUE) /\ log' = log \cup {x} /\ UNCHANGED <<purged, missed, dataVars>>
    BY <1>3, <2>1 DEF LogAction
  <2>4. Logs' = Logs \cup {x} /\ log' \subseteq Log /\ purged' \subseteq Log
    BY <1>0, <2>2, <2>3 DEF Logs
  <2>5. \E y : Logs' = Logs \cup {y} /\ y.call = c /\ y.by = "service"
    BY <2>2, <2>4
  <2> QED
    BY <2>3, <2>4, <2>5, AnswerIsFine
<1>4. ASSUME CallThrows(c) PROVE TrailInv'
  <2>1. k.at \notin {"idle", "done"} /\ Answers(c, FALSE) /\ UNCHANGED <<log, purged, missed, dataVars>>
    BY <1>4 DEF CallThrows
  <2> QED
    BY <1>0, <2>1, AnswerIsFine DEF Logs
<1> QED
  BY <1>1, <1>2, <1>3, <1>4

\* A log is written, or is not; the column is known to one that waited for it.
LEMMA LogsAreWritten ==
    ASSUME TrailInv, NEW c \in Calls, HasColumn(c) \/ InsertLog(c) \/ InsertFails(c)
    PROVE  TrailInv'
<1> PICK k \in Call : k = call[c] /\ Fine(c, k)
  BY DEF TrailInv, TrailTypeOK
<1>m. memo \in {"none", "asked", "known"} /\ UNCHANGED <<limit, kept, since, day, rewritten, early, memo, purged>>
  BY DEF TrailInv, TrailTypeOK, HasColumn, InsertLog, InsertFails, dataVars
<1>1. PICK write \in {"insert", "over"} : write = IF HasColumn(c) THEN "insert" ELSE "over"
  OBVIOUS
<1>2. PICK new : new = [k EXCEPT !.write = write]
  OBVIOUS
<1>3. new \in Call /\ new.at = k.at /\ new.ok = k.ok /\ new.op = k.op /\ new.old = k.old /\ new.write = write
  BY <1>2 DEF Call
<1>4. call' = [call EXCEPT ![c] = new]
  <2>1. call' = [call EXCEPT ![c].write = write]
    BY <1>1 DEF HasColumn, InsertLog, InsertFails
  <2> QED
    BY <1>2, <2>1 DEF TrailInv, TrailTypeOK, Call
<1>5. k.write \in {"column", "insert"} /\ k.at = "done" /\ (k.ok \/ k.op = "platform")
  BY DEF HasColumn, InsertLog, InsertFails, Fine, Traced
<1>6. PICK x : x = [call |-> c, by |-> "interceptor", day |-> day]
  OBVIOUS
<1>7. x \in Log /\ x.call = c /\ x.by = "interceptor"
  BY <1>6 DEF Log, TrailInv, TrailTypeOK
<1>8. PICK fresh : fresh = IF InsertLog(c) THEN {x} ELSE {}
  OBVIOUS
<1>9. log' = log \cup fresh /\ \A y \in fresh : y.call = c
  <2>1. CASE InsertLog(c)
    BY <1>6, <1>7, <1>8, <2>1 DEF InsertLog
  <2>2. CASE ~InsertLog(c)
    BY <1>8, <2>2 DEF HasColumn, InsertFails
  <2> QED
    BY <2>1, <2>2
<1>10. Logs' = Logs \cup fresh /\ log' \subseteq Log /\ purged' \subseteq Log
  BY <1>7, <1>8, <1>9, <1>m DEF Logs, TrailInv, TrailTypeOK
<1>11. /\ missed \subseteq missed' /\ missed' \subseteq Calls
       /\ InsertFails(c) => c \in missed'
  BY DEF TrailInv, TrailTypeOK, HasColumn, InsertLog, InsertFails
<1>12. /\ LoggedBy(c, "service")' <=> LoggedBy(c, "service")
       /\ LoggedBy(c, "interceptor") => LoggedBy(c, "interceptor")'
       /\ InsertLog(c) => LoggedBy(c, "interceptor")'
  <2>1. CASE InsertLog(c)
    <3>1. Logs' = Logs \cup {x}
      BY <1>8, <1>10, <2>1
    <3> QED
      BY <1>7, <3>1, LoggedAs
  <2>2. CASE ~InsertLog(c)
    <3>1. Logs' = Logs
      BY <1>8, <1>10, <2>2
    <3> QED
      BY <2>2, <3>1, LoggedAs
  <2> QED
    BY <2>1, <2>2
<1>13. Traced(c, new)'
  <2>1. new.write = "over" => InsertLog(c) \/ InsertFails(c)
    BY <1>1, <1>3
  <2> QED
    BY <1>3, <1>5, <1>11, <1>12, <2>1 DEF Traced
<1>14. Records(c, new)'
  BY <1>3, <1>5, <1>12 DEF Fine, Records
<1>15. Fine(c, new)'
  BY <1>1, <1>3, <1>5, <1>13, <1>14 DEF Fine, Served, Cuts
<1>16. early' = {} /\ kept' \subseteq kept
  BY <1>m DEF TrailInv
<1> QED
  BY <1>3, <1>4, <1>9, <1>10, <1>11, <1>15, <1>16, <1>m, CallGoesOn

\* What is as old as the purge of that request takes for old, the limits there are do not keep.
LEMMA OldIsNotEarly ==
    ASSUME TrailInv, NEW c \in Calls, call[c].at \in {"contacts", "submissions", "logs"},
           NEW k \in Kept, NEW gone, NEW born, \A x \in gone : born[x] \in call[c].old[k],
           Early(c, k, gone, born)
    PROVE  early' = {}
<1>1. early' = early \cup {x \in gone : c \notin rewritten /\ day - born[x] <= limit[k]} /\ early = {}
  BY DEF Early, TrailInv
<1>2. ASSUME NEW x \in gone, c \notin rewritten PROVE ~(day - born[x] <= limit[k])
  <2>1. PICK d \in Nat : d = born[x] /\ d + limit[k] < day
    <3>1. \A d \in call[c].old[k] : d + limit[k] < day
      BY <1>2 DEF TrailInv, Fine, Cuts
    <3>2. call[c].old[k] \subseteq 0..MaxDay /\ MaxDay \in Nat
      BY TrailAssumption DEF TrailInv, TrailTypeOK, Call
    <3>3. born[x] \in 0..MaxDay
      BY <3>2
    <3>4. born[x] \in Nat
      BY <3>2, <3>3
    <3> QED
      BY <3>1, <3>4
  <2>2. limit[k] \in Nat /\ day \in Nat
    BY DaysAreNumbers
  <2>3. PICK l \in Nat, t \in Nat : l = limit[k] /\ t = day
    BY <2>2
  <2>4. d + l < t
    BY <2>1, <2>3
  <2>5. ~(t - d <= l)
    BY <2>4
  <2> QED
    BY <2>1, <2>3, <2>5
<1> QED
  BY <1>1, <1>2

\* A purge goes on from one table to the next.
LEMMA PurgesGoOn ==
    ASSUME TrailInv, NEW c \in Calls, PurgeContacts(c) \/ PurgeSubmissions(c) \/ PurgeLogs(c)
    PROVE  TrailInv'
<1> PICK k \in Call : k = call[c] /\ Fine(c, k)
  BY DEF TrailInv, TrailTypeOK
<1>1. PICK at \in {"submissions", "logs", "save"} :
          at = IF PurgeContacts(c) THEN "submissions" ELSE IF PurgeSubmissions(c) THEN "logs" ELSE "save"
  OBVIOUS
<1>2. PICK new : new = [k EXCEPT !.at = at]
  OBVIOUS
<1>3. new \in Call /\ new.at = at /\ new.ok = k.ok /\ new.op = k.op /\ new.old = k.old /\ new.write = k.write
  BY <1>2 DEF Call
<1>4. /\ k.at \in {"contacts", "submissions", "logs"} /\ Goes(c, at)
      /\ UNCHANGED <<limit, since, day, missed, rewritten>>
  BY <1>1 DEF PurgeContacts, PurgeSubmissions, PurgeLogs
<1>5. call' = [call EXCEPT ![c] = new] /\ memo' = memo
  BY <1>2, <1>4 DEF Goes, TrailInv, TrailTypeOK, Call
<1>6. early' = {}
  <2>1. CASE PurgeContacts(c)
    <3>1. PICK gone : gone = {x \in kept \cap Persons : since[x] \in call[c].old["contact"]} /\ Early(c, "contact", gone, since)
      BY <2>1 DEF PurgeContacts, Born
    <3> QED
      BY <1>4, <3>1, OldIsNotEarly DEF Kept
  <2>2. CASE PurgeSubmissions(c)
    <3>1. PICK gone : gone = {x \in kept \cap Papers : since[x] \in call[c].old["submission"]} /\ Early(c, "submission", gone, since)
      BY <2>2 DEF PurgeSubmissions, Born
    <3> QED
      BY <1>4, <3>1, OldIsNotEarly DEF Kept
  <2>3. CASE PurgeLogs(c)
    <3>1. PICK gone : gone = {x \in log : Tenant(call[x.call].op) /\ x.day \in call[c].old["log"]} /\ Early(c, "log", gone, LogBorn)
      BY <2>3 DEF PurgeLogs
    <3>2. \A x \in gone : LogBorn[x] \in call[c].old["log"]
      BY <3>1 DEF LogBorn
    <3> QED
      BY <1>4, <3>1, <3>2, OldIsNotEarly DEF Kept
  <2> QED
    BY <2>1, <2>2, <2>3
<1>7. kept' \subseteq kept
  BY DEF PurgeContacts, PurgeSubmissions, PurgeLogs
<1>8. Logs' = Logs /\ log' \subseteq Log /\ purged' \subseteq Log
  <2>1. CASE PurgeContacts(c) \/ PurgeSubmissions(c)
    BY <2>1 DEF PurgeContacts, PurgeSubmissions, Logs, TrailInv, TrailTypeOK
  <2>2. CASE PurgeLogs(c)
    <3>1. PICK gone : gone \subseteq log /\ log' = log \ gone /\ purged' = purged \cup gone
      BY <2>2 DEF PurgeLogs
    <3> QED
      BY <3>1 DEF Logs, TrailInv, TrailTypeOK
  <2> QED
    BY <2>1, <2>2
<1>9. PICK fresh : fresh = {}
  OBVIOUS
<1>10. Logs' = Logs \cup fresh /\ \A x \in fresh : x.call = c
  BY <1>8, <1>9
<1>11. \A by : LoggedBy(c, by)' <=> LoggedBy(c, by)
  BY <1>8, LoggedAs
<1>12. Traced(c, new)'
  BY <1>3, <1>4, <1>11 DEF Fine, Traced
<1>13. Records(c, new)'
  BY <1>3, <1>4, <1>11 DEF Fine, Records
<1>14. Served(new)' /\ Cuts(c, new)'
  BY <1>1, <1>3, <1>4, <1>5 DEF Fine, Served, Cuts
<1>15. Fine(c, new)'
  BY <1>12, <1>13, <1>14 DEF Fine
<1>16. memo' \in {"none", "asked", "known"} /\ missed \subseteq missed' /\ missed' \subseteq Calls
  BY <1>4, <1>5 DEF TrailInv, TrailTypeOK
<1> QED
  BY <1>3, <1>4, <1>5, <1>6, <1>7, <1>8, <1>10, <1>15, <1>16, CallGoesOn

\* The limits are saved: every purge that is on its way began before.
LEMMA LimitsAreSaved ==
    ASSUME TrailInv, NEW c \in Calls, SaveLimits(c)
    PROVE  TrailInv'
<1> PICK k \in Call : k = call[c] /\ Fine(c, k)
  BY DEF TrailInv, TrailTypeOK
<1>1. PICK new : new = [k EXCEPT !.at = "log"]
  OBVIOUS
<1>2. new \in Call /\ new.at = "log" /\ new.ok = k.ok /\ new.op = k.op /\ new.write = k.write
  BY <1>1 DEF Call
<1>3. /\ k.at = "save" /\ limit' = k.policy /\ UNCHANGED <<log, kept, since, day, missed, purged, early, memo>>
      /\ rewritten' = rewritten \cup {p \in Calls : call[p].at \in {"contacts", "submissions", "logs"}}
      /\ call' = [call EXCEPT ![c].at = "log"]
  BY DEF SaveLimits, Goes
<1>4. call' = [call EXCEPT ![c] = new]
  BY <1>1, <1>3 DEF TrailInv, TrailTypeOK, Call
<1>5. call'[c] = new /\ \A d \in Calls \ {c} : call'[d] = call[d]
  BY <1>4 DEF TrailInv, TrailTypeOK
<1>6. TrailTypeOK'
  <2>1. k.policy \in Policy
    BY DEF Call
  <2> QED
    BY <1>2, <1>3, <1>4, <2>1 DEF TrailInv, TrailTypeOK
<1>7. \A d, by : LoggedBy(d, by)' <=> LoggedBy(d, by)
  BY <1>3 DEF LoggedBy
<1>8. ASSUME NEW d \in Calls \ {c} PROVE Fine(d, call[d])'
  <2>1. PICK old \in Call : old = call[d] /\ Fine(d, old)
    BY DEF TrailInv, TrailTypeOK
  <2>2. Traced(d, old)'
    BY <1>3, <1>7, <2>1 DEF Fine, Traced
  <2>3. Records(d, old)'
    BY <1>7, <2>1 DEF Fine, Records
  <2>4. Served(old)' /\ Cuts(d, old)'
    BY <1>3, <2>1 DEF Fine, Served, Cuts
  <2>5. Fine(d, old)'
    BY <2>2, <2>3, <2>4 DEF Fine
  <2>6. call'[d] = old
    BY <1>5, <2>1
  <2> QED
    BY <2>5, <2>6 DEF Fine, Traced, Records, Served, Cuts
<1>9. Fine(c, new)'
  <2>1. Traced(c, new)'
    BY <1>2, <1>3, <1>7 DEF Fine, Traced
  <2>2. Records(c, new)'
    BY <1>2, <1>3, <1>7 DEF Fine, Records
  <2>3. Served(new)' /\ Cuts(c, new)'
    BY <1>2, <1>3 DEF Fine, Served, Cuts
  <2> QED
    BY <2>1, <2>2, <2>3 DEF Fine
<1>10. Fine(c, call[c])'
  BY <1>5, <1>9 DEF Fine, Traced, Records, Served, Cuts
<1> QED
  BY <1>3, <1>6, <1>8, <1>10 DEF TrailInv

\* The column is known; the day passes.
LEMMA TimeIsFine ==
    ASSUME TrailInv, ColumnIsKnown \/ DayPasses \/ UNCHANGED trailVars
    PROVE  TrailInv'
<1>1. /\ UNCHANGED <<call, log, purged, limit, kept, since, missed, rewritten, early>>
      /\ memo' \in {"none", "asked", "known"} /\ (memo' = "none" => memo = "none")
      /\ day' \in 0..MaxDay /\ (\A n \in Nat : n < day => n < day')
  <2>1. ASSUME ColumnIsKnown \/ UNCHANGED trailVars
        PROVE  /\ UNCHANGED <<call, log, purged, limit, kept, since, missed, rewritten, early, day>>
               /\ memo' \in {"none", "asked", "known"} /\ (memo' = "none" => memo = "none")
    BY <2>1 DEF ColumnIsKnown, trailVars, dataVars, TrailInv, TrailTypeOK
  <2>2. ASSUME DayPasses
        PROVE  /\ UNCHANGED <<call, log, purged, limit, kept, since, missed, rewritten, early, memo>>
               /\ day' = day + 1 /\ day < MaxDay
    BY <2>2 DEF DayPasses
  <2>3. memo \in {"none", "asked", "known"} /\ day \in 0..MaxDay /\ day \in Nat /\ MaxDay \in Nat
    BY DaysAreNumbers, TrailAssumption DEF TrailInv, TrailTypeOK
  <2> QED
    BY <2>1, <2>2, <2>3
<1>2. TrailTypeOK'
  BY <1>1 DEF TrailInv, TrailTypeOK
<1>3. \A d, by : LoggedBy(d, by)' <=> LoggedBy(d, by)
  BY <1>1 DEF LoggedBy
<1>4. ASSUME NEW d \in Calls PROVE Fine(d, call[d])'
  <2>1. PICK old \in Call : old = call[d] /\ Fine(d, old) /\ call'[d] = old
    BY <1>1 DEF TrailInv, TrailTypeOK
  <2>2. Traced(d, old)' /\ Records(d, old)' /\ Served(old)'
    BY <1>1, <1>3, <2>1 DEF Fine, Traced, Records, Served
  <2>3. Cuts(d, old)'
    <3>1. ASSUME NEW x \in Kept, NEW t \in old.old[x], t + limit[x] < day PROVE t + limit'[x] < day'
      <4>1. t \in 0..MaxDay /\ MaxDay \in Nat /\ limit[x] \in Nat
        BY DaysAreNumbers, TrailAssumption DEF Call
      <4>2. PICK l \in Nat, n \in Nat : l = limit[x] /\ n = t
        BY <4>1
      <4>3. n + l \in Nat
        OBVIOUS
      <4> QED
        BY <1>1, <3>1, <4>2, <4>3
    <3> QED
      BY <1>1, <2>1, <3>1 DEF Fine, Cuts
  <2>4. Fine(d, old)'
    BY <2>2, <2>3 DEF Fine
  <2> QED
    BY <2>1, <2>4 DEF Fine, Traced, Records, Served, Cuts
<1> QED
  BY <1>1, <1>2, <1>4 DEF TrailInv

\* All that wait for the column get an error, or all that is under way dies: what they
\* would still log is missed.
LEMMA CallsBreakOff ==
    ASSUME TrailInv, ColumnFails \/ CallsDie
    PROVE  TrailInv'
<1>1. /\ memo' = "none" /\ UNCHANGED <<log, purged, limit, kept, since, day, rewritten, early>>
      /\ missed \subseteq missed' /\ missed' \subseteq Calls
      /\ DOMAIN call' = Calls /\ call' = [c \in Calls |-> call'[c]]
  BY DEF ColumnFails, CallsDie, dataVars, TrailInv, TrailTypeOK
<1>2. \A d, by : LoggedBy(d, by)' <=> LoggedBy(d, by)
  BY <1>1 DEF LoggedBy
<1>3. ASSUME NEW d \in Calls
      PROVE  \E new \in Call : call'[d] = new /\ Fine(d, new)'
  <2>1. PICK k \in Call : k = call[d] /\ Fine(d, k)
    BY DEF TrailInv, TrailTypeOK
  <2>2. PICK over : over = [k EXCEPT !.write = "over"]
    OBVIOUS
  <2>3. PICK gone : gone = [k EXCEPT !.at = "done", !.write = "over"]
    OBVIOUS
  <2>4. /\ over \in Call /\ over.at = k.at /\ over.ok = k.ok /\ over.op = k.op /\ over.write = "over"
        /\ gone \in Call /\ gone.at = "done" /\ gone.ok = k.ok /\ gone.op = k.op /\ gone.write = "over"
    BY <2>2, <2>3 DEF Call
  <2>5. k.write \in {"column", "insert"} => k.at = "done"
    BY <2>1 DEF Fine, Traced
  <2>6. ASSUME k.write = "column", d \in missed' PROVE Fine(d, over)'
    BY <1>1, <1>2, <2>1, <2>4, <2>5, <2>6 DEF Fine, Traced, Records, Served, Cuts
  <2>7. ASSUME k.at # "idle", k.write \in {"column", "insert"} => d \in missed' PROVE Fine(d, gone)'
    <3>1. Traced(d, gone)'
      BY <1>1, <1>2, <2>1, <2>4, <2>5, <2>7 DEF Fine, Traced, Call
    <3>2. Records(d, gone)'
      BY <1>2, <2>1, <2>4, <2>7 DEF Fine, Records
    <3> QED
      BY <2>4, <3>1, <3>2 DEF Fine, Served, Cuts
  <2>8. ASSUME k.at = "idle" PROVE Fine(d, NoCall)'
    <3>1. ~LoggedBy(d, "service")' /\ ~LoggedBy(d, "interceptor")'
      BY <1>2, <2>1, <2>8 DEF Fine, Traced, Records
    <3> QED
      BY <3>1, NoOneCalls DEF Fine, Traced, Records, Served, Cuts
  <2>9. CASE ColumnFails
    <3>1. /\ call'[d] = IF k.write = "column" THEN over ELSE IF k.at = "column" THEN gone ELSE k
          /\ k.write = "column" => d \in missed'
      BY <2>1, <2>2, <2>3, <2>9 DEF ColumnFails
    <3>2. CASE k.write = "column"
      BY <2>4, <2>6, <3>1, <3>2
    <3>3. CASE k.write # "column" /\ k.at = "column"
      <4>1. k.write \notin {"column", "insert"}
        BY <2>5, <3>3
      <4> QED
        BY <2>4, <2>7, <3>1, <3>3, <4>1
    <3>4. CASE k.write # "column" /\ k.at # "column"
      <4>1. call'[d] = k
        BY <3>1, <3>4
      <4>2. Fine(d, k)'
        BY <1>1, <1>2, <2>1, <3>4 DEF Fine, Traced, Records, Served, Cuts
      <4> QED
        BY <4>1, <4>2
    <3> QED
      BY <3>2, <3>3, <3>4
  <2>10. CASE CallsDie
    <3>1. /\ call'[d] = IF k.at = "idle" THEN NoCall ELSE gone
          /\ k.write \in {"column", "insert"} => d \in missed'
      BY <2>1, <2>3, <2>10 DEF CallsDie
    <3> QED
      BY <2>4, <2>7, <2>8, <3>1, NoOneCalls
  <2> QED
    BY <2>9, <2>10
<1>4. call' \in [Calls -> Call]
  BY <1>1, <1>3
<1>5. TrailTypeOK'
  BY <1>1, <1>4 DEF TrailInv, TrailTypeOK
<1>6. ASSUME NEW d \in Calls PROVE Fine(d, call[d])'
  <2>1. PICK new \in Call : call'[d] = new /\ Fine(d, new)'
    BY <1>3
  <2> QED
    BY <2>1 DEF Fine, Traced, Records, Served, Cuts
<1> QED
  BY <1>1, <1>5, <1>6 DEF TrailInv

\* Every step of it keeps what the trail promises.
LEMMA TrailStays ==
    ASSUME TrailInv, TrailNext \/ CallsDie \/ UNCHANGED trailVars
    PROVE  TrailInv'
<1>1. ASSUME NEW c \in Calls, CallStep(c) PROVE TrailInv'
  <2>1. (\E ok \in BOOLEAN : Handle(c, ok)) \/ List(c) \/ LogAction(c) \/ CallThrows(c) => TrailInv'
    BY CallsAreHandled
  <2>2. HasColumn(c) \/ InsertLog(c) \/ InsertFails(c) => TrailInv'
    BY LogsAreWritten
  <2>3. PurgeContacts(c) \/ PurgeSubmissions(c) \/ PurgeLogs(c) => TrailInv'
    BY PurgesGoOn
  <2> QED
    BY <1>1, <2>1, <2>2, <2>3, CallsAreAsked, LimitsAreSaved, Zenon DEF CallStep
<1> QED
  BY <1>1, TimeIsFine, CallsBreakOff DEF TrailNext

LEMMA TrailInvHolds == TrailInv => TrailHolds
<1> SUFFICES ASSUME TrailInv PROVE TrailHolds
  OBVIOUS
<1>1. \A c \in Calls : Traced(c, call[c]) /\ Records(c, call[c]) /\ Served(call[c])
  BY DEF TrailInv, Fine
<1>2. AnswersAreLogged
  BY <1>1 DEF AnswersAreLogged, Traced
<1>3. WaitersAreServed
  BY <1>1 DEF WaitersAreServed, Served
<1>4. ComplianceIsLogged
  BY <1>1 DEF ComplianceIsLogged, Records, Complies
<1> QED
  BY <1>2, <1>3, <1>4 DEF TrailHolds, NothingTooEarly, TrailInv
-----------------------------------------------------------------------------
(* Broadcasts. *)

MailsTo(b, a) == mailed[<<b, a.org, a.mail>>]

\* What went out of a broadcast is what some rows say of it, one for each address.
Matches(b, rows) ==
    /\ \A x, y \in rows : SameBox(x.to, y.to) => x = y
    /\ \A x \in rows : (x.status = "sent" => MailsTo(b, x.to) = 1) /\ (x.status = "skipped" => MailsTo(b, x.to) = 0)
    /\ \A o \in Orgs, m \in Mails :
          (\A x \in rows : ~(x.to.org = o /\ x.to.mail = m)) => mailed[<<b, o, m>>] = 0

\* Those who are still to get it have an address each, and not that of a row.
Pending(s) ==
    /\ \A a \in s.todo : a.org \in s.orgs
    /\ \A a, d \in s.todo : SameBox(a, d) => a = d
    /\ \A x \in s.rows, a \in s.todo : ~SameBox(x.to, a)

\* The rows that are inserted are those of the request, but for the rest.
Inserted(s) ==
    /\ s.at \in {"record", "resolve", "send"} => RowsOf(s.broadcast) = {}
    /\ s.at \in {"insert", "finish"} => s.rest \subseteq s.rows /\ RowsOf(s.broadcast) = s.rows \ s.rest
    /\ s.at = "finish" => s.rest = {}

\* A request that is at a broadcast.
Sending(s) ==
    s.at # "idle" =>
        /\ audience[s.broadcast] = s.orgs
        /\ broadcast[s.broadcast].status = IF s.at = "record" THEN "none" ELSE "queued"
        /\ s.at \in {"record", "resolve"} => s.rows = {} /\ s.todo = {}
        /\ IsFiniteSet(s.rows) /\ \A x \in s.rows : x.broadcast = s.broadcast
        /\ Matches(s.broadcast, s.rows) /\ Pending(s) /\ Inserted(s)

\* A broadcast before it is begun, under way, and when it is over.
Broadcasting(b) ==
    /\ broadcast[b].status = "none" => RowsOf(b) = {} /\ Matches(b, {})
    /\ broadcast[b].status = "queued" =>
          b \in halted \/ \E r \in Clerks : sender[r].broadcast = b /\ sender[r].at \notin {"idle", "record"}
    /\ broadcast[b].status \notin {"none", "queued"} =>
          /\ Matches(b, RowsOf(b))
          /\ broadcast[b].total = Cardinality(RowsOf(b))
          /\ broadcast[b].sent = Counted(RowsOf(b), "sent")
          /\ broadcast[b].failed = Counted(RowsOf(b), "failed")
    /\ \A o \in Orgs, m \in Mails : mailed[<<b, o, m>>] <= IF o \in audience[b] THEN 1 ELSE 0

\* No two requests are at the same broadcast.
SendersApart ==
    \A q, r \in Clerks : q # r /\ sender[q].at # "idle" /\ sender[r].at # "idle" =>
        sender[q].broadcast # sender[r].broadcast

BroadcastsInv ==
    /\ BroadcastsTypeOK
    /\ SendersApart
    /\ \A r \in Clerks : Sending(sender[r])
    /\ \A b \in Broadcasts : Broadcasting(b)

\* The addresses there are, and the request there is none of.
LEMMA NoOneSends ==
    /\ \A a \in Recipients : a.org \in Orgs /\ a.mail \in Mails
    /\ NoSender \in Sender /\ NoSender.at = "idle" /\ NoSender.todo = {} /\ NoSender.rows = {}
    /\ Sending(NoSender)
<1>1. \A a \in Recipients : a.org \in Orgs /\ a.mail \in Mails
  BY BroadcastsAssumption DEF Recipients, Mails
<1>2. NoSender.at = "idle" /\ NoSender.todo = {} /\ NoSender.rows = {}
  BY DEF NoSender
<1>3. NoSender \in Sender
  <2>1. 1 \in Broadcasts
    BY BroadcastsAssumption DEF Broadcasts
  <2> QED
    BY <2>1 DEF NoSender, Sender
<1> QED
  BY <1>1, <1>2, <1>3 DEF Sending

\* No broadcast was asked for.
LEMMA BroadcastsStart == BroadcastsInit => BroadcastsInv
<1> SUFFICES ASSUME BroadcastsInit PROVE BroadcastsInv
  OBVIOUS
<1>1. NoBroadcast \in BroadcastRow /\ NoBroadcast.status = "none"
  BY DEF NoBroadcast, BroadcastRow
<1>2. BroadcastsTypeOK
  BY <1>1, NoOneSends DEF BroadcastsInit, BroadcastsTypeOK
<1>3. ASSUME NEW b \in Broadcasts PROVE Broadcasting(b)
  <2>1. RowsOf(b) = {}
    BY DEF BroadcastsInit, RowsOf
  <2>2. \A o \in Orgs, m \in Mails : mailed[<<b, o, m>>] = 0
    BY DEF BroadcastsInit
  <2>3. broadcast[b].status = "none"
    BY <1>1 DEF BroadcastsInit
  <2> QED
    BY <2>1, <2>2, <2>3 DEF Broadcasting, Matches
<1>4. \A r \in Clerks : sender[r] = NoSender
  BY DEF BroadcastsInit
<1> QED
  BY <1>2, <1>3, <1>4, NoOneSends DEF BroadcastsInv, SendersApart, Sending

\* What rows say stays true as long as no more mails go out of their broadcast.
LEMMA MatchesStay ==
    ASSUME NEW b, NEW rows \in SUBSET Delivery, Matches(b, rows),
           \A o \in Orgs, m \in Mails : mailed'[<<b, o, m>>] = mailed[<<b, o, m>>]
    PROVE  Matches(b, rows)'
<1>1. \A x \in rows : x.to.org \in Orgs /\ x.to.mail \in Mails
  BY NoOneSends DEF Delivery
<1> QED
  BY <1>1 DEF Matches, MailsTo, SameBox

LEMMA SendingOf ==
    ASSUME NEW r, NEW new, sender'[r] = new, Sending(new)'
    PROVE  Sending(sender[r])'
BY DEF Sending, Matches, MailsTo, Pending, Inserted, RowsOf

\* A request turns to the next step of its broadcast, and leaves the others alone.
LEMMA SenderMoves ==
    ASSUME BroadcastsInv, NEW r \in Clerks, NEW new \in Sender, NEW b \in Broadcasts,
           sender' = [sender EXCEPT ![r] = new],
           sender[r].at # "idle" => sender[r].broadcast = b, new.at # "idle" => new.broadcast = b,
           \A q \in Clerks \ {r} : sender[q].at # "idle" => sender[q].broadcast # b,
           UNCHANGED <<segment, active>>, broadcast' \in [Broadcasts -> BroadcastRow], delivery' \subseteq Delivery,
           mailed' \in [Broadcasts \X Orgs \X Mails -> Nat], audience' \in [Broadcasts -> SUBSET Orgs],
           halted \subseteq halted', halted' \subseteq Broadcasts,
           \A c \in Broadcasts \ {b} : broadcast'[c] = broadcast[c] /\ audience'[c] = audience[c],
           \A c \in Broadcasts \ {b}, o \in Orgs, m \in Mails : mailed'[<<c, o, m>>] = mailed[<<c, o, m>>],
           delivery \subseteq delivery', \A x \in delivery' : x \in delivery \/ x.broadcast = b,
           Sending(new)', Broadcasting(b)'
    PROVE  BroadcastsInv'
<1>1. sender'[r] = new /\ \A q \in Clerks \ {r} : sender'[q] = sender[q]
  BY DEF BroadcastsInv, BroadcastsTypeOK
<1>2. BroadcastsTypeOK'
  BY DEF BroadcastsInv, BroadcastsTypeOK
<1>3. SendersApart'
  BY <1>1 DEF BroadcastsInv, SendersApart
<1>4. ASSUME NEW c \in Broadcasts \ {b} PROVE RowsOf(c)' = RowsOf(c)
  <2>1. \A x : x \in RowsOf(c) <=> x \in delivery /\ x.broadcast = c
    BY DEF RowsOf
  <2>2. \A x : x \in RowsOf(c)' <=> x \in delivery' /\ x.broadcast = c
    BY DEF RowsOf
  <2> QED
    BY <2>1, <2>2
<1>5. ASSUME NEW q \in Clerks PROVE Sending(sender[q])'
  <2>1. CASE q = r
    <3>1. sender'[q] = new
      BY <1>1, <2>1
    <3> QED
      BY <3>1, SendingOf
  <2>2. CASE q # r
    <3>1. PICK s \in Sender : s = sender[q] /\ s = sender'[q] /\ Sending(s)
      BY <1>1, <2>2 DEF BroadcastsInv, BroadcastsTypeOK
    <3>2. CASE s.at = "idle"
      BY <3>1, <3>2 DEF Sending
    <3>3. CASE s.at # "idle"
      <4>1. PICK c \in Broadcasts \ {b} : c = s.broadcast
        BY <2>2, <3>1, <3>3 DEF Sender
      <4>2. audience'[c] = audience[c] /\ broadcast'[c] = broadcast[c] /\ RowsOf(c)' = RowsOf(c)
        BY <1>4, <4>1
      <4>3. PICK rows \in SUBSET Delivery : rows = s.rows
        BY DEF Sender
      <4>4. Matches(c, rows)'
        BY <3>1, <3>3, <4>1, <4>3, MatchesStay DEF Sending
      <4>5. Pending(s)' /\ Inserted(s)'
        BY <3>1, <3>3, <4>1, <4>2 DEF Sending, Pending, Inserted, SameBox
      <4>6. Sending(s)'
        BY <3>1, <3>3, <4>1, <4>2, <4>3, <4>4, <4>5 DEF Sending
      <4> QED
        BY <3>1, <4>6 DEF Sending, Matches, MailsTo, Pending, Inserted, RowsOf
    <3> QED
      BY <3>2, <3>3
  <2> QED
    BY <2>1, <2>2
<1>6. ASSUME NEW c \in Broadcasts \ {b} PROVE Broadcasting(c)'
  <2>1. Broadcasting(c)
    BY DEF BroadcastsInv
  <2>2. /\ broadcast'[c] = broadcast[c] /\ audience'[c] = audience[c] /\ RowsOf(c)' = RowsOf(c)
        /\ \A o \in Orgs, m \in Mails : mailed'[<<c, o, m>>] = mailed[<<c, o, m>>]
    BY <1>4
  <2>3. PICK rows \in SUBSET Delivery : rows = RowsOf(c)
    BY DEF RowsOf, BroadcastsInv, BroadcastsTypeOK
  <2>4. (Matches(c, rows) => Matches(c, rows)') /\ (Matches(c, {}) => Matches(c, {})')
    BY <2>2, MatchesStay
  <2>5. broadcast'[c].status = "none" => RowsOf(c)' = {} /\ Matches(c, {})'
    BY <2>1, <2>2, <2>4 DEF Broadcasting
  <2>6. broadcast'[c].status = "queued" =>
            c \in halted' \/ \E q \in Clerks : sender'[q].broadcast = c /\ sender'[q].at \notin {"idle", "record"}
    BY <1>1, <2>1, <2>2 DEF Broadcasting
  <2>7. broadcast'[c].status \notin {"none", "queued"} =>
          /\ Matches(c, rows)' /\ RowsOf(c)' = rows
          /\ broadcast'[c].total = Cardinality(rows)
          /\ broadcast'[c].sent = Counted(rows, "sent")
          /\ broadcast'[c].failed = Counted(rows, "failed")
    BY <2>1, <2>2, <2>3, <2>4 DEF Broadcasting
  <2>8. \A o \in Orgs, m \in Mails : mailed'[<<c, o, m>>] <= IF o \in audience'[c] THEN 1 ELSE 0
    BY <2>1, <2>2 DEF Broadcasting
  <2>9. broadcast'[c].status \notin {"none", "queued"} =>
          /\ Matches(c, RowsOf(c))'
          /\ broadcast'[c].total = Cardinality(RowsOf(c)')
          /\ broadcast'[c].sent = Counted(RowsOf(c)', "sent")
          /\ broadcast'[c].failed = Counted(RowsOf(c)', "failed")
    BY <2>7 DEF Matches
  <2> QED
    BY <2>5, <2>6, <2>8, <2>9 DEF Broadcasting, Counted
<1> QED
  BY <1>2, <1>3, <1>5, <1>6 DEF BroadcastsInv

\* Only one request is at a broadcast.
LEMMA OnlyOneAt ==
    ASSUME BroadcastsInv, NEW r \in Clerks, sender[r].at # "idle"
    PROVE  \A q \in Clerks \ {r} : sender[q].at # "idle" => sender[q].broadcast # sender[r].broadcast
BY DEF BroadcastsInv, SendersApart

\* A request turns without a mail, a row or a change of the broadcast.
LEMMA SenderTurnsOnly ==
    ASSUME BroadcastsInv, NEW r \in Clerks, NEW new \in Sender,
           sender' = [sender EXCEPT ![r] = new], sender[r].at \notin {"idle", "record"}, new.at \notin {"idle", "record"},
           new.broadcast = sender[r].broadcast, new.orgs = sender[r].orgs,
           UNCHANGED <<segment, active, broadcast, delivery, mailed, audience, halted>>,
           IsFiniteSet(new.rows), new.rows = sender[r].rows, Pending(new), Inserted(new),
           new.at = "resolve" => new.rows = {} /\ new.todo = {}
    PROVE  BroadcastsInv'
<1> PICK s \in Sender, b \in Broadcasts : s = sender[r] /\ b = s.broadcast /\ Sending(s)
  BY DEF BroadcastsInv, BroadcastsTypeOK, Sender
<1>1. \A q \in Clerks \ {r} : sender[q].at # "idle" => sender[q].broadcast # b
  BY OnlyOneAt
<1>2. Sending(new)
  BY DEF Sending
<1>3. Sending(new)'
  BY <1>2 DEF Sending, Matches, MailsTo, Pending, Inserted, RowsOf
<1>4. sender'[r] = new
  BY DEF BroadcastsInv, BroadcastsTypeOK
<1>5. Broadcasting(b)'
  <2>1. Broadcasting(b) /\ RowsOf(b)' = RowsOf(b) /\ broadcast' = broadcast /\ broadcast[b].status = "queued"
    BY DEF BroadcastsInv, RowsOf, Sending
  <2>2. new.broadcast = b /\ new.at \notin {"idle", "record"}
    OBVIOUS
  <2> QED
    BY <1>4, <2>1, <2>2 DEF Broadcasting
<1>6. /\ broadcast' \in [Broadcasts -> BroadcastRow] /\ delivery' \subseteq Delivery
      /\ mailed' \in [Broadcasts \X Orgs \X Mails -> Nat] /\ audience' \in [Broadcasts -> SUBSET Orgs]
      /\ halted \subseteq halted' /\ halted' \subseteq Broadcasts
  BY DEF BroadcastsInv, BroadcastsTypeOK
<1>7. /\ \A c \in Broadcasts \ {b} : broadcast'[c] = broadcast[c] /\ audience'[c] = audience[c]
      /\ \A c \in Broadcasts \ {b}, o \in Orgs, m \in Mails : mailed'[<<c, o, m>>] = mailed[<<c, o, m>>]
      /\ delivery \subseteq delivery' /\ \A x \in delivery' : x \in delivery \/ x.broadcast = b
  OBVIOUS
<1>8. sender[r].broadcast = b /\ new.broadcast = b
  OBVIOUS
<1> QED
  BY <1>1, <1>3, <1>5, <1>6, <1>7, <1>8, SenderMoves

\* A broadcast is asked for.
LEMMA BroadcastsAreAsked ==
    ASSUME BroadcastsInv, NEW r \in Clerks, NEW b \in Broadcasts, NEW orgs \in SUBSET Orgs, NEW dry \in BOOLEAN,
           AskBroadcast(r, b, orgs, dry)
    PROVE  BroadcastsInv'
<1> PICK none \in Sender : none = NoSender /\ none.todo = {} /\ none.rows = {}
  BY NoOneSends
<1>1. PICK new : new = [none EXCEPT !.at = "record", !.broadcast = b, !.orgs = orgs, !.dry = dry]
  OBVIOUS
<1>2. new \in Sender /\ new.at = "record" /\ new.broadcast = b /\ new.orgs = orgs /\ new.todo = {} /\ new.rows = {}
  BY <1>1 DEF Sender
<1>3. /\ sender[r].at = "idle" /\ broadcast[b].status = "none"
      /\ \A q \in Clerks : sender[q].at # "idle" => sender[q].broadcast # b
      /\ sender' = [sender EXCEPT ![r] = new] /\ audience' = [audience EXCEPT ![b] = orgs]
      /\ UNCHANGED <<segment, active, broadcast, delivery, mailed, halted>>
  BY <1>1 DEF AskBroadcast, Unsent
<1>4. Broadcasting(b) /\ BroadcastsTypeOK
  BY DEF BroadcastsInv
<1>5. RowsOf(b) = {} /\ Matches(b, {}) /\ \A o \in Orgs, m \in Mails : mailed[<<b, o, m>>] = 0
  BY <1>3, <1>4 DEF Broadcasting, Matches
<1>6. RowsOf(b)' = {} /\ Matches(b, {})' /\ \A o \in Orgs, m \in Mails : mailed'[<<b, o, m>>] = 0
  BY <1>3, <1>5 DEF RowsOf, Matches
<1>7. audience'[b] = orgs /\ audience' \in [Broadcasts -> SUBSET Orgs] /\ \A c \in Broadcasts \ {b} : audience'[c] = audience[c]
  BY <1>3, <1>4 DEF BroadcastsTypeOK
<1>8. IsFiniteSet(new.rows)
  BY <1>2, FS_EmptySet
<1>9. Sending(new)'
  BY <1>2, <1>3, <1>6, <1>7, <1>8 DEF Sending, Pending, Inserted
<1>10. Broadcasting(b)'
  BY <1>3, <1>6 DEF Broadcasting
<1> QED
  BY <1>2, <1>3, <1>4, <1>7, <1>9, <1>10, SenderMoves, ZenonT(60) DEF BroadcastsTypeOK

\* It is recorded.
LEMMA BroadcastsAreRecorded ==
    ASSUME BroadcastsInv, NEW r \in Clerks, RecordBroadcast(r)
    PROVE  BroadcastsInv'
<1> PICK s \in Sender, b \in Broadcasts : s = sender[r] /\ b = s.broadcast /\ Sending(s)
  BY DEF BroadcastsInv, BroadcastsTypeOK, Sender
<1>1. PICK new : new = [s EXCEPT !.at = "resolve"]
  OBVIOUS
<1>2. /\ new \in Sender /\ new.at = "resolve" /\ new.broadcast = b /\ new.orgs = s.orgs
      /\ new.todo = s.todo /\ new.rows = s.rows
  BY <1>1 DEF Sender
<1>3. PICK row \in BroadcastRow : row = [broadcast[b] EXCEPT !.status = "queued"] /\ row.status = "queued"
  <2>1. PICK row : row = [broadcast[b] EXCEPT !.status = "queued"]
    OBVIOUS
  <2>2. broadcast[b] \in BroadcastRow
    BY DEF BroadcastsInv, BroadcastsTypeOK
  <2> QED
    BY <2>1, <2>2 DEF BroadcastRow
<1>4. /\ s.at = "record" /\ broadcast' = [broadcast EXCEPT ![b] = row] /\ sender' = [sender EXCEPT ![r] = new]
      /\ UNCHANGED <<segment, active, delivery, mailed, audience, halted>>
  BY <1>1, <1>3 DEF RecordBroadcast, SenderTurns, BroadcastsInv, BroadcastsTypeOK
<1>5. BroadcastsTypeOK /\ Broadcasting(b)
  BY DEF BroadcastsInv
<1>6. /\ broadcast' \in [Broadcasts -> BroadcastRow] /\ broadcast'[b] = row
      /\ \A c \in Broadcasts \ {b} : broadcast'[c] = broadcast[c]
  BY <1>4, <1>5 DEF BroadcastsTypeOK
<1>7. \A q \in Clerks \ {r} : sender[q].at # "idle" => sender[q].broadcast # b
  BY <1>4, OnlyOneAt
<1>8. RowsOf(b)' = RowsOf(b) /\ Matches(b, new.rows)'
  BY <1>2, <1>4 DEF RowsOf, Matches, MailsTo, Sending
<1>9. Sending(new)'
  BY <1>2, <1>3, <1>4, <1>6, <1>8 DEF Sending, Pending, Inserted
<1>10. sender'[r] = new
  BY <1>4, <1>5 DEF BroadcastsTypeOK
<1>11. Broadcasting(b)'
  BY <1>2, <1>3, <1>4, <1>5, <1>6, <1>10 DEF Broadcasting
<1> QED
  BY <1>2, <1>4, <1>5, <1>6, <1>7, <1>9, <1>11, SenderMoves DEF BroadcastsTypeOK

\* Its recipients are found, one for each address.
LEMMA RecipientsAreFound ==
    ASSUME BroadcastsInv, NEW r \in Clerks, ResolveRecipients(r)
    PROVE  BroadcastsInv'
<1> PICK s \in Sender : s = sender[r] /\ Sending(s)
  BY DEF BroadcastsInv, BroadcastsTypeOK
<1>1. PICK chosen \in SUBSET Reached(s.orgs) :
          /\ s.at = "resolve" /\ OncePerAddress(chosen, Reached(s.orgs))
          /\ sender' = [sender EXCEPT ![r] = [s EXCEPT !.at = "send", !.todo = chosen]]
          /\ UNCHANGED <<segment, active, broadcast, delivery, mailed, audience, halted>>
  BY Zenon DEF ResolveRecipients, SenderTurns
<1>2. chosen \subseteq Recipients /\ \A a \in chosen : a.org \in s.orgs
  BY DEF Reached, Recipients, BroadcastsInv, BroadcastsTypeOK
<1>3. PICK new : new = [s EXCEPT !.at = "send", !.todo = chosen]
  OBVIOUS
<1>4. /\ new \in Sender /\ new.at = "send" /\ new.broadcast = s.broadcast /\ new.orgs = s.orgs
      /\ new.todo = chosen /\ new.rows = s.rows
  BY <1>2, <1>3 DEF Sender
<1>5. IsFiniteSet(new.rows) /\ new.rows = {} /\ RowsOf(new.broadcast) = {}
  BY <1>1, <1>4 DEF Sending, Inserted
<1>6. Pending(new)
  BY <1>1, <1>2, <1>4, <1>5 DEF Pending, OncePerAddress
<1>7. Inserted(new)
  BY <1>4, <1>5 DEF Inserted
<1> QED
  BY <1>1, <1>3, <1>4, <1>5, <1>6, <1>7, SenderTurnsOnly

\* The mails are over; the rows are inserted, a chunk at a time, and are in.
LEMMA SendersProceed ==
    ASSUME BroadcastsInv, NEW r \in Clerks, SendsAreOver(r) \/ RowsAreIn(r)
    PROVE  BroadcastsInv'
<1> PICK s \in Sender : s = sender[r] /\ Sending(s)
  BY DEF BroadcastsInv, BroadcastsTypeOK
<1>1. CASE SendsAreOver(r)
  <2>1. PICK new : new = [s EXCEPT !.at = "insert", !.rest = s.rows]
    OBVIOUS
  <2>2. /\ new \in Sender /\ new.at = "insert" /\ new.broadcast = s.broadcast /\ new.orgs = s.orgs
        /\ new.todo = s.todo /\ new.rows = s.rows /\ new.rest = s.rows
    BY <2>1 DEF Sender
  <2>3. /\ s.at = "send" /\ sender' = [sender EXCEPT ![r] = new]
        /\ UNCHANGED <<segment, active, broadcast, delivery, mailed, audience, halted>>
    BY <1>1, <2>1 DEF SendsAreOver, SenderTurns
  <2>4. IsFiniteSet(new.rows) /\ Pending(new) /\ Inserted(new)
    BY <2>2, <2>3 DEF Sending, Pending, Inserted
  <2> QED
    BY <2>2, <2>3, <2>4, SenderTurnsOnly
<1>2. CASE RowsAreIn(r)
  <2>1. PICK new : new = [s EXCEPT !.at = "finish"]
    OBVIOUS
  <2>2. /\ new \in Sender /\ new.at = "finish" /\ new.broadcast = s.broadcast /\ new.orgs = s.orgs
        /\ new.todo = s.todo /\ new.rows = s.rows /\ new.rest = s.rest
    BY <2>1 DEF Sender
  <2>3. /\ s.at = "insert" /\ s.rest = {} /\ sender' = [sender EXCEPT ![r] = new]
        /\ UNCHANGED <<segment, active, broadcast, delivery, mailed, audience, halted>>
    BY <1>2, <2>1 DEF RowsAreIn, SenderTurns
  <2>4. IsFiniteSet(new.rows) /\ Pending(new) /\ Inserted(new)
    BY <2>2, <2>3 DEF Sending, Pending, Inserted
  <2> QED
    BY <2>2, <2>3, <2>4, SenderTurnsOnly
<1> QED
  BY <1>1, <1>2

\* A mail goes out, or is skipped: its row says so, and its address had none.
LEMMA MailIsSent ==
    ASSUME BroadcastsInv, NEW r \in Clerks, NEW a \in Recipients, NEW status \in {"sent", "failed", "skipped"},
           Send(r, a, status)
    PROVE  BroadcastsInv'
<1> PICK s \in Sender, b \in Broadcasts : s = sender[r] /\ b = s.broadcast /\ Sending(s)
  BY DEF BroadcastsInv, BroadcastsTypeOK, Sender
<1>1. PICK row : row = [broadcast |-> b, to |-> a, status |-> status]
  OBVIOUS
<1>2. row \in Delivery /\ row.broadcast = b /\ row.to = a /\ row.status = status
  BY <1>1 DEF Delivery
<1>3. PICK new : new = [s EXCEPT !.todo = @ \ {a}, !.rows = @ \cup {row}]
  OBVIOUS
<1>4. /\ new \in Sender /\ new.at = s.at /\ new.broadcast = b /\ new.orgs = s.orgs
      /\ new.todo = s.todo \ {a} /\ new.rows = s.rows \cup {row}
  BY <1>2, <1>3 DEF Sender
<1>5. a.org \in Orgs /\ a.mail \in Mails
  BY NoOneSends
<1>6. PICK k \in Broadcasts \X Orgs \X Mails : k = <<b, a.org, a.mail>>
  BY <1>5
<1>7. PICK n \in {0, 1} :
          /\ status = "sent" => n = 1
          /\ status = "skipped" => n = 0
          /\ mailed' = [mailed EXCEPT ![k] = @ + n]
          /\ s.at = "send" /\ a \in s.todo /\ sender' = [sender EXCEPT ![r] = new]
          /\ UNCHANGED <<segment, active, broadcast, delivery, audience, halted>>
  <2>1. PICK out : out = (CASE status = "sent" -> {1} [] status = "failed" -> {0, 1} [] OTHER -> {0})
    OBVIOUS
  <2>2. PICK n \in out : mailed' = [mailed EXCEPT ![k] = @ + n]
    BY <1>6, <2>1 DEF Send
  <2>3. /\ s.at = "send" /\ a \in s.todo /\ sender' = [sender EXCEPT ![r] = new]
        /\ UNCHANGED <<segment, active, broadcast, delivery, audience, halted>>
    BY <1>1, <1>3 DEF Send, SenderTurns
  <2>4. n \in {0, 1} /\ (status = "sent" => n = 1) /\ (status = "skipped" => n = 0)
    BY <2>1, <2>2
  <2> QED
    BY <2>2, <2>3, <2>4
<1>8. BroadcastsTypeOK /\ Broadcasting(b)
  BY DEF BroadcastsInv
<1>9. Matches(b, s.rows) /\ Pending(s) /\ RowsOf(b) = {} /\ audience[b] = s.orgs /\ broadcast[b].status = "queued"
      /\ IsFiniteSet(s.rows) /\ \A x \in s.rows : x.broadcast = b
  BY <1>7 DEF Sending, Inserted
<1>10. \A x \in s.rows : ~SameBox(x.to, a)
  BY <1>7, <1>9 DEF Pending
<1>11. mailed[k] = 0
  BY <1>5, <1>6, <1>9, <1>10 DEF Matches, SameBox
<1>12. /\ mailed' \in [Broadcasts \X Orgs \X Mails -> Nat] /\ mailed'[k] = n
       /\ \A h \in Broadcasts \X Orgs \X Mails : h # k => mailed'[h] = mailed[h]
  <2>1. mailed \in [Broadcasts \X Orgs \X Mails -> Nat]
    BY <1>8 DEF BroadcastsTypeOK
  <2>2. mailed[k] + n \in Nat /\ mailed[k] + n = n
    BY <1>11
  <2>3. mailed' = [mailed EXCEPT ![k] = n]
    BY <1>7, <2>2
  <2> QED
    BY <2>1, <2>3
<1>13. \A x \in s.rows : MailsTo(b, x.to)' = MailsTo(b, x.to)
  <2> SUFFICES ASSUME NEW x \in s.rows PROVE MailsTo(b, x.to)' = MailsTo(b, x.to)
    OBVIOUS
  <2>1. x.to \in Recipients /\ ~SameBox(x.to, a)
    BY <1>10 DEF Sender, Delivery
  <2>2. x.to.org \in Orgs /\ x.to.mail \in Mails
    BY <2>1, NoOneSends
  <2>3. PICK h \in Broadcasts \X Orgs \X Mails : h = <<b, x.to.org, x.to.mail>>
    BY <2>2
  <2>4. h # k
    BY <1>6, <2>1, <2>3 DEF SameBox
  <2> QED
    BY <1>12, <2>3, <2>4 DEF MailsTo
<1>14. MailsTo(b, a)' = n
  BY <1>6, <1>12 DEF MailsTo
<1>15. Matches(b, new.rows)'
  <2>1. \A x, y \in new.rows : SameBox(x.to, y.to) => x = y
    BY <1>2, <1>4, <1>9, <1>10 DEF Matches, SameBox
  <2>2. \A x \in new.rows : (x.status = "sent" => MailsTo(b, x.to)' = 1) /\ (x.status = "skipped" => MailsTo(b, x.to)' = 0)
    BY <1>2, <1>4, <1>7, <1>9, <1>13, <1>14 DEF Matches
  <2>3. ASSUME NEW o \in Orgs, NEW m \in Mails, \A x \in new.rows : ~(x.to.org = o /\ x.to.mail = m)
        PROVE  mailed'[<<b, o, m>>] = 0
    <3>1. ~(a.org = o /\ a.mail = m) /\ \A x \in s.rows : ~(x.to.org = o /\ x.to.mail = m)
      BY <1>2, <1>4, <2>3
    <3>2. PICK h \in Broadcasts \X Orgs \X Mails : h = <<b, o, m>>
      OBVIOUS
    <3>3. h # k /\ mailed[h] = 0
      BY <1>6, <1>9, <3>1, <3>2 DEF Matches
    <3> QED
      BY <1>12, <3>2, <3>3
  <2> QED
    BY <2>1, <2>2, <2>3 DEF Matches, SameBox
<1>16. Pending(new)
  BY <1>2, <1>4, <1>7, <1>9 DEF Pending, SameBox
<1>17. RowsOf(b)' = {}
  BY <1>7, <1>9 DEF RowsOf
<1>18. IsFiniteSet(new.rows)
  BY <1>4, <1>9, FS_AddElement
<1>19. \A x \in new.rows : x.broadcast = b
  BY <1>2, <1>4, <1>9
<1>20. Sending(new)'
  BY <1>4, <1>7, <1>9, <1>15, <1>16, <1>17, <1>18, <1>19 DEF Sending, Pending, Inserted, SameBox
<1>21. \A o \in Orgs, m \in Mails : mailed'[<<b, o, m>>] <= IF o \in audience'[b] THEN 1 ELSE 0
  <2> SUFFICES ASSUME NEW o \in Orgs, NEW m \in Mails PROVE mailed'[<<b, o, m>>] <= IF o \in audience'[b] THEN 1 ELSE 0
    OBVIOUS
  <2>1. PICK h \in Broadcasts \X Orgs \X Mails : h = <<b, o, m>>
    OBVIOUS
  <2>2. CASE h = k
    <3>1. o \in audience'[b]
      BY <1>6, <1>7, <1>9, <2>1, <2>2 DEF Pending
    <3> QED
      BY <1>12, <2>1, <2>2, <3>1
  <2>3. CASE h # k
    <3>1. mailed[h] <= IF o \in audience[b] THEN 1 ELSE 0
      BY <1>8, <2>1 DEF Broadcasting
    <3> QED
      BY <1>7, <1>12, <2>1, <2>3, <3>1
  <2> QED
    BY <2>2, <2>3
<1>22. sender'[r] = new
  BY <1>4, <1>7, <1>8 DEF BroadcastsTypeOK
<1>23. Broadcasting(b)'
  <2>1. broadcast'[b].status = "queued" /\ sender'[r].broadcast = b /\ sender'[r].at \notin {"idle", "record"}
    BY <1>4, <1>7, <1>9, <1>22
  <2> QED
    BY <1>21, <2>1 DEF Broadcasting
<1>24. \A q \in Clerks \ {r} : sender[q].at # "idle" => sender[q].broadcast # b
  BY <1>7, OnlyOneAt
<1>25. \A c \in Broadcasts \ {b}, o \in Orgs, m \in Mails : mailed'[<<c, o, m>>] = mailed[<<c, o, m>>]
  BY <1>6, <1>12
<1>26. /\ broadcast' \in [Broadcasts -> BroadcastRow] /\ delivery' \subseteq Delivery
       /\ audience' \in [Broadcasts -> SUBSET Orgs] /\ halted \subseteq halted' /\ halted' \subseteq Broadcasts
       /\ \A c \in Broadcasts \ {b} : broadcast'[c] = broadcast[c] /\ audience'[c] = audience[c]
       /\ delivery \subseteq delivery' /\ \A x \in delivery' : x \in delivery \/ x.broadcast = b
       /\ UNCHANGED <<segment, active>>
  BY <1>7, <1>8 DEF BroadcastsTypeOK
<1> QED
  BY <1>4, <1>7, <1>12, <1>20, <1>23, <1>24, <1>25, <1>26, SenderMoves

\* Some of the rows are inserted.
LEMMA RowsAreInserted ==
    ASSUME BroadcastsInv, NEW r \in Clerks, InsertChunk(r)
    PROVE  BroadcastsInv'
<1> PICK s \in Sender, b \in Broadcasts : s = sender[r] /\ b = s.broadcast /\ Sending(s)
  BY DEF BroadcastsInv, BroadcastsTypeOK, Sender
<1>1. PICK rows \in SUBSET s.rest :
          /\ s.at = "insert" /\ delivery' = delivery \cup rows
          /\ sender' = [sender EXCEPT ![r] = [s EXCEPT !.rest = @ \ rows]]
          /\ UNCHANGED <<segment, active, broadcast, mailed, audience, halted>>
  BY DEF InsertChunk, SenderTurns
<1>2. PICK new : new = [s EXCEPT !.rest = @ \ rows]
  OBVIOUS
<1>3. /\ new \in Sender /\ new.at = s.at /\ new.broadcast = b /\ new.orgs = s.orgs
      /\ new.todo = s.todo /\ new.rows = s.rows /\ new.rest = s.rest \ rows
  BY <1>2 DEF Sender
<1>4. BroadcastsTypeOK /\ Broadcasting(b) /\ broadcast[b].status = "queued" /\ sender'[r] = new
  BY <1>1, <1>2 DEF BroadcastsInv, BroadcastsTypeOK, Sending
<1>5. \A x \in rows : x.broadcast = b /\ x \in s.rows
  BY <1>1 DEF Sending, Inserted
<1>6. RowsOf(b)' = RowsOf(b) \cup rows
  <2>1. \A x : x \in RowsOf(b) <=> x \in delivery /\ x.broadcast = b
    BY DEF RowsOf
  <2>2. \A x : x \in RowsOf(b)' <=> x \in delivery' /\ x.broadcast = b
    BY DEF RowsOf
  <2> QED
    BY <1>1, <1>5, <2>1, <2>2
<1>7. new.rest \subseteq new.rows /\ RowsOf(b)' = new.rows \ new.rest
  BY <1>1, <1>3, <1>5, <1>6 DEF Sending, Inserted
<1>8. Matches(b, new.rows)'
  BY <1>1, <1>3 DEF Sending, Matches, MailsTo
<1>9. Pending(new)' /\ Inserted(new)'
  BY <1>1, <1>3, <1>7 DEF Sending, Pending, Inserted, SameBox
<1>10. Sending(new)'
  BY <1>1, <1>3, <1>8, <1>9 DEF Sending
<1>11. Broadcasting(b)'
  <2>1. broadcast'[b].status = "queued" /\ sender'[r].broadcast = b /\ sender'[r].at \notin {"idle", "record"}
    BY <1>1, <1>3, <1>4
  <2> QED
    BY <1>1, <1>4, <2>1 DEF Broadcasting
<1>12. \A q \in Clerks \ {r} : sender[q].at # "idle" => sender[q].broadcast # b
  BY <1>1, OnlyOneAt
<1>13. /\ broadcast' \in [Broadcasts -> BroadcastRow] /\ delivery' \subseteq Delivery
       /\ mailed' \in [Broadcasts \X Orgs \X Mails -> Nat]
       /\ audience' \in [Broadcasts -> SUBSET Orgs] /\ halted \subseteq halted' /\ halted' \subseteq Broadcasts
       /\ \A c \in Broadcasts \ {b} : broadcast'[c] = broadcast[c] /\ audience'[c] = audience[c]
       /\ \A c \in Broadcasts \ {b}, o \in Orgs, m \in Mails : mailed'[<<c, o, m>>] = mailed[<<c, o, m>>]
       /\ delivery \subseteq delivery' /\ \A x \in delivery' : x \in delivery \/ x.broadcast = b
       /\ UNCHANGED <<segment, active>>
  <2>1. rows \subseteq Delivery
    BY <1>5 DEF Sender
  <2> QED
    BY <1>1, <1>4, <1>5, <2>1 DEF BroadcastsTypeOK
<1>14. sender' = [sender EXCEPT ![r] = new]
  BY <1>1, <1>2
<1> QED
  BY <1>3, <1>10, <1>11, <1>12, <1>13, <1>14, SenderMoves

\* The rows of a status are at most all rows, and can be counted.
LEMMA CountsAreNumbers ==
    ASSUME NEW rows, IsFiniteSet(rows), NEW status
    PROVE  Counted(rows, status) \in Nat /\ Cardinality(rows) \in Nat
<1>1. IsFiniteSet({d \in rows : d.status = status})
  BY FS_Subset
<1> QED
  BY <1>1, FS_CardinalityType DEF Counted

\* All rows are in, and the broadcast is saved with their numbers.
LEMMA BroadcastIsFinished ==
    ASSUME BroadcastsInv, NEW r \in Clerks, FinishBroadcast(r)
    PROVE  BroadcastsInv'
<1> PICK s \in Sender, b \in Broadcasts : s = sender[r] /\ b = s.broadcast /\ Sending(s)
  BY DEF BroadcastsInv, BroadcastsTypeOK, Sender
<1>1. PICK status : status = Outcome(s)
  OBVIOUS
<1>2. status \in {"sent", "partial", "failed", "dry_run"}
  BY <1>1 DEF Outcome
<1>3. s.at = "finish" /\ IsFiniteSet(s.rows) /\ Matches(b, s.rows) /\ RowsOf(b) = s.rows
  BY DEF FinishBroadcast, Sending, Inserted
<1>4. PICK t \in Nat, i \in Nat, j \in Nat, k \in Nat :
          t = Cardinality(s.rows) /\ i = Counted(s.rows, "sent") /\ j = Counted(s.rows, "failed")
          /\ k = Counted(s.rows, "skipped")
  BY <1>3, CountsAreNumbers
<1>5. PICK row : row = [status |-> status, total |-> t, sent |-> i, failed |-> j, skipped |-> k]
  OBVIOUS
<1>6. row \in BroadcastRow /\ row.status = status /\ row.total = t /\ row.sent = i /\ row.failed = j
  BY <1>2, <1>5 DEF BroadcastRow
<1>7. /\ broadcast' = [broadcast EXCEPT ![b] = row] /\ sender' = [sender EXCEPT ![r] = NoSender]
      /\ UNCHANGED <<segment, active, delivery, mailed, audience, halted>>
  BY <1>1, <1>4, <1>5, Zenon DEF FinishBroadcast, SenderTurns
<1>8. BroadcastsTypeOK /\ Broadcasting(b)
  BY DEF BroadcastsInv
<1>9. /\ broadcast' \in [Broadcasts -> BroadcastRow] /\ broadcast'[b] = row
      /\ \A c \in Broadcasts \ {b} : broadcast'[c] = broadcast[c]
  BY <1>6, <1>7, <1>8 DEF BroadcastsTypeOK
<1>10. PICK rows : rows = s.rows
  OBVIOUS
<1>11. Matches(b, rows)' /\ RowsOf(b)' = rows
  BY <1>3, <1>7, <1>10 DEF Matches, MailsTo, RowsOf
<1>12. Matches(b, RowsOf(b))'
  BY <1>11 DEF Matches
<1>13. /\ row.total = Cardinality(rows) /\ row.sent = Counted(rows, "sent") /\ row.failed = Counted(rows, "failed")
  BY <1>4, <1>6, <1>10
<1>14. /\ broadcast'[b].total = Cardinality(RowsOf(b)') /\ broadcast'[b].sent = Counted(RowsOf(b)', "sent")
       /\ broadcast'[b].failed = Counted(RowsOf(b)', "failed")
  BY <1>9, <1>11, <1>13
<1>15. Broadcasting(b)'
  <2>1. broadcast'[b].status \notin {"none", "queued"}
    BY <1>2, <1>6, <1>9
  <2>2. \A o \in Orgs, m \in Mails : mailed'[<<b, o, m>>] <= IF o \in audience'[b] THEN 1 ELSE 0
    BY <1>7, <1>8 DEF Broadcasting
  <2> QED
    BY <1>12, <1>14, <2>1, <2>2 DEF Broadcasting, Counted
<1>16. Sending(NoSender)'
  BY NoOneSends DEF Sending
<1>17. \A q \in Clerks \ {r} : sender[q].at # "idle" => sender[q].broadcast # b
  BY <1>3, OnlyOneAt
<1>18. /\ delivery' \subseteq Delivery /\ mailed' \in [Broadcasts \X Orgs \X Mails -> Nat]
       /\ audience' \in [Broadcasts -> SUBSET Orgs] /\ halted \subseteq halted' /\ halted' \subseteq Broadcasts
       /\ \A c \in Broadcasts \ {b} : audience'[c] = audience[c]
       /\ \A c \in Broadcasts \ {b}, o \in Orgs, m \in Mails : mailed'[<<c, o, m>>] = mailed[<<c, o, m>>]
       /\ delivery \subseteq delivery' /\ \A x \in delivery' : x \in delivery \/ x.broadcast = b
       /\ UNCHANGED <<segment, active>>
  BY <1>7, <1>8 DEF BroadcastsTypeOK
<1>19. NoSender \in Sender /\ NoSender.at = "idle"
  BY NoOneSends
<1> QED
  BY <1>7, <1>9, <1>15, <1>16, <1>17, <1>18, <1>19, SenderMoves, ZenonT(60)

\* What holds of all broadcasts when requests end and nothing else changes but who was cut off.
LEMMA SendersEnd ==
    ASSUME BroadcastsInv, sender' \in [Clerks -> Sender],
           \A r \in Clerks : sender'[r] \in {sender[r], NoSender},
           UNCHANGED <<broadcast, delivery, mailed, audience>>,
           segment' \subseteq Orgs, active' \subseteq Admins,
           halted \subseteq halted', halted' \subseteq Broadcasts,
           \A r \in Clerks : sender[r].at \notin {"idle", "record"} =>
               (sender'[r] = sender[r]) \/ (sender[r].broadcast \in halted')
    PROVE  BroadcastsInv'
<1>1. BroadcastsTypeOK'
  BY DEF BroadcastsInv, BroadcastsTypeOK
<1>2. SendersApart'
  BY NoOneSends DEF BroadcastsInv, SendersApart
<1>3. \A b : RowsOf(b)' = RowsOf(b)
  BY DEF RowsOf
<1>4. \A b, rows : Matches(b, rows)' <=> Matches(b, rows)
  BY DEF Matches, MailsTo, SameBox
<1>5. ASSUME NEW r \in Clerks PROVE Sending(sender[r])'
  <2>1. PICK s \in Sender : s = sender'[r] /\ Sending(s)
    BY NoOneSends DEF BroadcastsInv, BroadcastsTypeOK
  <2>2. Pending(s)' /\ Inserted(s)' <=> Pending(s) /\ Inserted(s)
    BY <1>3 DEF Pending, Inserted, SameBox
  <2>3. Sending(s)'
    BY <1>4, <2>1, <2>2 DEF Sending
  <2> QED
    BY <2>1, <2>3, SendingOf
<1>6. ASSUME NEW b \in Broadcasts PROVE Broadcasting(b)'
  <2>1. Broadcasting(b)
    BY DEF BroadcastsInv
  <2>2. broadcast[b].status = "queued" =>
            b \in halted' \/ \E r \in Clerks : sender'[r].broadcast = b /\ sender'[r].at \notin {"idle", "record"}
    BY <2>1 DEF Broadcasting
  <2>3. PICK rows : rows = RowsOf(b)
    OBVIOUS
  <2>4. /\ broadcast[b].status = "none" => RowsOf(b)' = {} /\ Matches(b, {})'
        /\ broadcast[b].status \notin {"none", "queued"} =>
              /\ RowsOf(b)' = rows /\ Matches(b, rows)'
              /\ broadcast[b].total = Cardinality(rows)
              /\ broadcast[b].sent = Counted(rows, "sent")
              /\ broadcast[b].failed = Counted(rows, "failed")
    BY <1>3, <1>4, <2>1, <2>3 DEF Broadcasting
  <2>5. broadcast[b].status \notin {"none", "queued"} =>
              /\ Matches(b, RowsOf(b))'
              /\ broadcast[b].total = Cardinality(RowsOf(b)')
              /\ broadcast[b].sent = Counted(RowsOf(b)', "sent")
              /\ broadcast[b].failed = Counted(RowsOf(b)', "failed")
    BY <2>4 DEF Matches
  <2> QED
    BY <2>1, <2>2, <2>4, <2>5 DEF Broadcasting, Counted
<1> QED
  BY <1>1, <1>2, <1>5, <1>6 DEF BroadcastsInv

\* Every step of it keeps what the broadcasts promise.
LEMMA BroadcastsStay ==
    ASSUME BroadcastsInv, BroadcastsNext \/ SendersDie \/ UNCHANGED broadcastVars
    PROVE  BroadcastsInv'
<1>0. BroadcastsTypeOK
  BY DEF BroadcastsInv
<1>1. ASSUME UNCHANGED broadcastVars PROVE BroadcastsInv'
  BY <1>0, <1>1, SendersEnd DEF broadcastVars, BroadcastsTypeOK
<1>2. ASSUME SendersDie PROVE BroadcastsInv'
  <2>1. \A r \in Clerks : sender'[r] = NoSender
    BY <1>2 DEF SendersDie
  <2>2. sender' \in [Clerks -> Sender]
    BY <1>2, NoOneSends DEF SendersDie
  <2>3. PICK lost \in SUBSET Broadcasts :
            lost = {sender[r].broadcast : r \in {q \in Clerks : sender[q].at \notin {"idle", "record"}}}
    BY <1>0 DEF BroadcastsTypeOK, Sender
  <2>4. halted' = halted \cup lost /\ UNCHANGED <<segment, active, broadcast, delivery, mailed, audience>>
    BY <1>2, <2>3 DEF SendersDie
  <2> QED
    BY <1>0, <2>1, <2>2, <2>3, <2>4, SendersEnd DEF BroadcastsTypeOK
<1>3. ASSUME NEW r \in Clerks, BroadcastThrows(r) PROVE BroadcastsInv'
  <2>1. PICK b \in Broadcasts : b = sender[r].broadcast
    BY <1>0 DEF BroadcastsTypeOK, Sender
  <2>2. /\ sender' = [sender EXCEPT ![r] = NoSender] /\ halted' = halted \cup {b}
        /\ UNCHANGED <<segment, active, broadcast, delivery, mailed, audience>>
    BY <1>3, <2>1 DEF BroadcastThrows
  <2>3. sender' \in [Clerks -> Sender] /\ sender'[r] = NoSender /\ \A q \in Clerks \ {r} : sender'[q] = sender[q]
    BY <1>0, <2>2, NoOneSends DEF BroadcastsTypeOK
  <2> QED
    BY <1>0, <2>1, <2>2, <2>3, SendersEnd DEF BroadcastsTypeOK
<1>4. ASSUME NEW o \in Orgs, OrganizationMoves(o) PROVE BroadcastsInv'
  <2>1. segment' \subseteq Orgs /\ UNCHANGED <<active, broadcast, delivery, sender, mailed, audience, halted>>
    BY <1>0, <1>4 DEF OrganizationMoves, BroadcastsTypeOK
  <2> QED
    BY <1>0, <2>1, SendersEnd DEF BroadcastsTypeOK
<1>5. ASSUME NEW a \in Admins, AdminMoves(a) PROVE BroadcastsInv'
  <2>1. active' \subseteq Admins /\ UNCHANGED <<segment, broadcast, delivery, sender, mailed, audience, halted>>
    BY <1>0, <1>5 DEF AdminMoves, BroadcastsTypeOK
  <2> QED
    BY <1>0, <2>1, SendersEnd DEF BroadcastsTypeOK
<1>6. ASSUME NEW r \in Clerks, BroadcastStep(r) PROVE BroadcastsInv'
  <2>1. SendsAreOver(r) \/ RowsAreIn(r) => BroadcastsInv'
    BY SendersProceed
  <2> QED
    BY <1>3, <1>6, <2>1, BroadcastsAreAsked, BroadcastsAreRecorded, RecipientsAreFound, MailIsSent, RowsAreInserted,
       BroadcastIsFinished, Zenon DEF BroadcastStep
<1> QED
  BY <1>1, <1>2, <1>4, <1>5, <1>6 DEF BroadcastsNext

\* One row at most is of an address, and says whether its mail went out.
LEMMA RowsTell ==
    ASSUME BroadcastsInv, NEW b \in Broadcasts, Matches(b, RowsOf(b)), NEW o \in Orgs, NEW m \in Mails
    PROVE  /\ mailed[<<b, o, m>>] > 0 => Counted(RowsTo(b, o, m), "sent") + Counted(RowsTo(b, o, m), "failed") = 1
           /\ Counted(RowsTo(b, o, m), "sent") = 1 => mailed[<<b, o, m>>] = 1
<1>0. mailed[<<b, o, m>>] \in Nat
  BY DEF BroadcastsInv, BroadcastsTypeOK
<1>1. PICK rows \in SUBSET Delivery : rows = RowsTo(b, o, m)
  BY DEF BroadcastsInv, BroadcastsTypeOK, RowsTo, RowsOf
<1>2. \A x \in rows : x \in RowsOf(b) /\ x.to.org = o /\ x.to.mail = m
  BY <1>1 DEF RowsTo
<1>3. PICK sent : sent = {d \in rows : d.status = "sent"}
  OBVIOUS
<1>4. PICK failed : failed = {d \in rows : d.status = "failed"}
  OBVIOUS
<1>5. Counted(rows, "sent") = Cardinality(sent) /\ Counted(rows, "failed") = Cardinality(failed)
  BY <1>3, <1>4 DEF Counted
<1>6. CASE rows = {}
  <2>1. mailed[<<b, o, m>>] = 0
    BY <1>1, <1>6 DEF Matches, RowsTo
  <2>2. sent = {} /\ Cardinality(sent) = 0
    BY <1>3, <1>6, FS_EmptySet
  <2> QED
    BY <1>0, <1>1, <1>5, <2>1, <2>2
<1>7. CASE rows # {}
  <2>1. PICK x \in rows : TRUE
    BY <1>7
  <2>2. \A y \in rows : y = x
    BY <1>2 DEF Matches, SameBox
  <2>3. x.status \in {"sent", "failed", "skipped"} /\ MailsTo(b, x.to) = mailed[<<b, o, m>>]
    BY <1>2 DEF MailsTo, Delivery
  <2>4. (x.status = "sent" => mailed[<<b, o, m>>] = 1) /\ (x.status = "skipped" => mailed[<<b, o, m>>] = 0)
    BY <1>2, <2>3 DEF Matches
  <2>5. Cardinality({x}) = 1 /\ Cardinality({}) = 0
    BY FS_Singleton, FS_EmptySet
  <2>6. CASE x.status = "sent"
    <3>1. sent = {x} /\ failed = {}
      BY <1>3, <1>4, <2>1, <2>2, <2>6
    <3> QED
      BY <1>0, <1>1, <1>5, <2>4, <2>5, <2>6, <3>1
  <2>7. CASE x.status = "failed"
    <3>1. sent = {} /\ failed = {x}
      BY <1>3, <1>4, <2>1, <2>2, <2>7
    <3> QED
      BY <1>0, <1>1, <1>5, <2>5, <3>1
  <2>8. CASE x.status = "skipped"
    <3>1. sent = {}
      BY <1>3, <2>1, <2>2, <2>8
    <3> QED
      BY <1>0, <1>1, <1>5, <2>4, <2>5, <2>8, <3>1
  <2> QED
    BY <2>3, <2>6, <2>7, <2>8
<1> QED
  BY <1>6, <1>7

LEMMA BroadcastsInvHolds == BroadcastsInv => BroadcastsHold
<1> SUFFICES ASSUME BroadcastsInv PROVE BroadcastsHold
  OBVIOUS
<1>1. \A b \in Broadcasts : Broadcasting(b)
  BY DEF BroadcastsInv
<1>2. RowsTellWhatWentOut
  <2>1. ASSUME NEW b \in Broadcasts, broadcast[b].status \notin {"none", "queued"}
        PROVE  /\ Matches(b, RowsOf(b))
               /\ broadcast[b].total = Cardinality(RowsOf(b))
               /\ broadcast[b].sent = Counted(RowsOf(b), "sent")
               /\ broadcast[b].failed = Counted(RowsOf(b), "failed")
    BY <1>1, <2>1 DEF Broadcasting
  <2>2. ASSUME NEW b \in Broadcasts, broadcast[b].status \notin {"none", "queued"}, NEW o \in Orgs, NEW m \in Mails
        PROVE  /\ mailed[<<b, o, m>>] > 0 => Counted(RowsTo(b, o, m), "sent") + Counted(RowsTo(b, o, m), "failed") = 1
               /\ Counted(RowsTo(b, o, m), "sent") = 1 => mailed[<<b, o, m>>] = 1
    BY <2>1, <2>2, RowsTell
  <2> QED
    BY <2>1, <2>2, Zenon DEF RowsTellWhatWentOut
<1>3. QueuedIsUnderWay
  BY <1>1, Zenon DEF QueuedIsUnderWay, Broadcasting
<1>4. ReachedOnce
  BY <1>1, Zenon DEF ReachedOnce, Broadcasting
<1> QED
  BY <1>2, <1>3, <1>4 DEF BroadcastsHold
-----------------------------------------------------------------------------
(* Features, sessions, plans, partners and reconciliations. *)

\* A copy that will be saved is not older than a completion, unless it was torn.
SessionsInv ==
    /\ SessionsAreDated
    /\ \A r \in Clerks : agent[r].at = "session" /\ agent[r].session \in once \ torn => agent[r].row.dated

NoItems == [x \in Parts |-> 0]
OnceEach(parts) == [x \in Parts |-> IF x \in parts THEN 1 ELSE 0]

Planning == {"items", "delete", "insert", "accounts"}
Inserting(p) == \E r \in Clerks : agent[r].at = "insert" /\ agent[r].plan = p

\* A plan that is not mixed has none of its items while they are saved anew, and its list
\* otherwise; of one that is not there no one knows; and accounts are opened as the plan says.
PlansInv ==
    /\ \A p \in Plans \ mixed : items[p] = IF Inserting(p) THEN NoItems ELSE OnceEach(listed[p])
    /\ \A p \in Plans : plan[p] = 0 =>
          /\ p \notin mixed /\ listed[p] = {}
          /\ \A r \in Clerks : agent[r].at \in Planning => agent[r].plan # p
    /\ \A r \in Clerks : agent[r].at = "items" => agent[r].total # 0
    /\ AccountsAreOwed
    /\ \A r \in Clerks : agent[r].at = "accounts" =>
          agent[r].total = plan[agent[r].plan] \/ agent[r].holders \X {agent[r].plan} \subseteq late

Auditing == {"scan", "exceptions", "complete"}
RowsIn(rows, n) == {x \in rows : x.audit = n}

\* A run's request knows how many exceptions it saved; no two are at the same run; and no
\* run has an exception twice.
AuditsInv ==
    /\ \A r \in Clerks : agent[r].at \in Auditing =>
          /\ audit[agent[r].audit].status = "PROCESSING"
          /\ agent[r].at # "complete" => RowsIn(exception, agent[r].audit) = {}
          /\ agent[r].at # "scan" => IsFiniteSet(agent[r].found)
          /\ agent[r].at = "complete" => Cardinality(agent[r].found) = Cardinality(RowsIn(exception, agent[r].audit))
    /\ \A q, r \in Clerks : q # r /\ agent[q].at \in Auditing /\ agent[r].at \in Auditing => agent[q].audit # agent[r].audit
    /\ \A x, y \in exception : x.audit = y.audit /\ x.entry = y.entry /\ x.type = y.type => x = y
    /\ \A n \in Audits :
          /\ IsFiniteSet(RowsIn(exception, n))
          /\ audit[n].status = "none" => RowsIn(exception, n) = {}
          /\ audit[n].status = "PROCESSING" =>
                n \in broken \/ \E r \in Clerks : agent[r].at \in Auditing /\ agent[r].audit = n
          /\ audit[n].status = "COMPLETED" => audit[n].found = Cardinality(RowsIn(exception, n))

MarketInv == MarketTypeOK /\ SessionsInv /\ PlansInv /\ AuditsInv

\* As many as are paired off with them.
LEMMA PairedOff ==
    ASSUME NEW S, IsFiniteSet(S), NEW T, NEW f \in [S -> T],
           \A x, y \in S : f[x] = f[y] => x = y, \A t \in T : \E x \in S : f[x] = t
    PROVE  IsFiniteSet(T) /\ Cardinality(T) = Cardinality(S)
<1>1. f \in Injection(S, T)
  BY DEF Injection, IsInjective
<1>2. f \in Surjection(S, T)
  BY DEF Surjection
<1>3. f \in Bijection(S, T)
  BY <1>1, <1>2 DEF Bijection
<1>4. ExistsBijection(S, T)
  BY <1>3 DEF ExistsBijection
<1> QED
  BY <1>4, FS_Bijection

\* The request there is none of.
LEMMA NoOneSetsUp == NoAgent \in Agent /\ NoAgent.at = "idle"
<1>1. PICK s \in Sessions : s = (CHOOSE x \in Sessions : TRUE)
  BY MarketAssumption, Zenon
<1>2. PICK p \in Plans : p = (CHOOSE x \in Plans : TRUE)
  BY MarketAssumption, Zenon
<1>3. PICK t \in Tenants : t = (CHOOSE x \in Tenants : TRUE)
  BY MarketAssumption, Zenon
<1>4. 1 \in Audits
  BY MarketAssumption DEF Audits
<1>5. [status |-> "none", dated |-> FALSE] \in SessionRow
  BY DEF SessionRow
<1>6. NoAgent = [at |-> "idle", on |-> {}, session |-> s, row |-> [status |-> "none", dated |-> FALSE],
                 plan |-> p, total |-> 0, parts |-> {}, relist |-> FALSE,
                 holders |-> {}, tenant |-> t, status |-> "PENDING", known |-> FALSE, audit |-> 1, found |-> {}]
  BY <1>1, <1>2, <1>3, Zenon DEF NoAgent
<1> QED
  BY <1>4, <1>5, <1>6 DEF Agent, TenantStatus

\* A request turns.
LEMMA AgentsTurn ==
    ASSUME MarketTypeOK, NEW r \in Clerks, NEW new \in Agent, agent' = [agent EXCEPT ![r] = new]
    PROVE  agent' \in [Clerks -> Agent] /\ agent'[r] = new /\ \A q \in Clerks \ {r} : agent'[q] = agent[q]
BY DEF MarketTypeOK

\* Steps that leave the sessions, the plans or the runs alone.
LEMMA SessionsAside ==
    ASSUME SessionsInv, UNCHANGED sessionVars, \A q \in Clerks : agent'[q].at = "session" => agent'[q] = agent[q]
    PROVE  SessionsInv'
BY DEF sessionVars, SessionsInv, SessionsAreDated

LEMMA PlansAside ==
    ASSUME PlansInv, UNCHANGED planVars, \A q \in Clerks : agent'[q].at \in Planning => agent'[q] = agent[q],
           \A q \in Clerks : agent[q].at = "insert" => agent'[q] = agent[q]
    PROVE  PlansInv'
<1>1. UNCHANGED <<plan, items, account, listed, mixed, due, late>>
  BY DEF planVars
<1>2. \A p \in Plans : Inserting(p)' <=> Inserting(p)
  BY DEF Inserting, Planning
<1>3. AccountsAreOwed'
  BY <1>1 DEF PlansInv, AccountsAreOwed
<1> QED
  BY <1>1, <1>2, <1>3 DEF PlansInv, Planning

LEMMA AuditsAside ==
    ASSUME AuditsInv, UNCHANGED <<audit, exception, broken>>,
           \A q \in Clerks : agent'[q].at \in Auditing => agent'[q] = agent[q],
           \A q \in Clerks : agent[q].at \in Auditing => agent'[q] = agent[q]
    PROVE  AuditsInv'
<1>1. exception' = exception /\ audit' = audit /\ broken' = broken
  OBVIOUS
<1>2. \A q \in Clerks : agent'[q].at \in Auditing <=> agent[q].at \in Auditing
  OBVIOUS
<1>3. \A r \in Clerks : agent'[r].at \in Auditing =>
          /\ audit'[agent'[r].audit].status = "PROCESSING"
          /\ agent'[r].at # "complete" => RowsIn(exception', agent'[r].audit) = {}
          /\ agent'[r].at # "scan" => IsFiniteSet(agent'[r].found)
          /\ agent'[r].at = "complete" => Cardinality(agent'[r].found) = Cardinality(RowsIn(exception', agent'[r].audit))
  BY <1>1 DEF AuditsInv
<1>4. \A q, r \in Clerks : q # r /\ agent'[q].at \in Auditing /\ agent'[r].at \in Auditing => agent'[q].audit # agent'[r].audit
  BY DEF AuditsInv
<1>5. \A n \in Audits :
          /\ IsFiniteSet(RowsIn(exception', n))
          /\ audit'[n].status = "none" => RowsIn(exception', n) = {}
          /\ audit'[n].status = "PROCESSING" =>
                n \in broken' \/ \E r \in Clerks : agent'[r].at \in Auditing /\ agent'[r].audit = n
          /\ audit'[n].status = "COMPLETED" => audit'[n].found = Cardinality(RowsIn(exception', n))
  BY <1>1, <1>2 DEF AuditsInv
<1>6. \A x, y \in exception' : x.audit = y.audit /\ x.entry = y.entry /\ x.type = y.type => x = y
  BY DEF AuditsInv
<1> QED
  BY <1>3, <1>4, <1>5, <1>6, Zenon DEF AuditsInv, Auditing

\* Nothing is set up.
LEMMA MarketStarts == MarketInit => MarketInv
<1> SUFFICES ASSUME MarketInit PROVE MarketInv
  OBVIOUS
<1>1. 0 \in Nat /\ {} \subseteq Parts
  OBVIOUS
<1>2. MarketTypeOK
  <2>1. [status |-> "none", dated |-> FALSE] \in SessionRow /\ [status |-> "none", found |-> 0] \in AuditRow
    BY DEF SessionRow, AuditRow
  <2> QED
    BY <2>1, NoOneSetsUp DEF MarketInit, MarketTypeOK
<1>3. \A r \in Clerks : agent[r].at = "idle"
  BY NoOneSetsUp DEF MarketInit
<1>4. SessionsInv
  BY <1>3 DEF MarketInit, SessionsInv, SessionsAreDated
<1>5. PlansInv
  <2>1. \A p \in Plans : items[p] = NoItems /\ listed[p] = {} /\ ~Inserting(p)
    BY <1>3 DEF MarketInit, NoItems, Inserting
  <2>2. OnceEach({}) = NoItems
    BY DEF OnceEach, NoItems
  <2>3. AccountsAreOwed
    BY DEF MarketInit, AccountsAreOwed
  <2> QED
    BY <1>3, <2>1, <2>2, <2>3 DEF MarketInit, PlansInv, Planning
<1>6. AuditsInv
  <2>1. \A n : RowsIn(exception, n) = {}
    BY DEF MarketInit, RowsIn
  <2>2. \A n \in Audits : audit[n].status = "none"
    BY DEF MarketInit
  <2> QED
    BY <1>3, <2>1, <2>2, FS_EmptySet DEF MarketInit, AuditsInv, Auditing
<1> QED
  BY <1>2, <1>4, <1>5, <1>6 DEF MarketInv

\* A request that is none of a session, a plan or a run comes or goes.
LEMMA AgentsAside ==
    ASSUME MarketInv, NEW r \in Clerks, NEW new \in Agent, agent' = [agent EXCEPT ![r] = new]
    PROVE  /\ new.at # "session" /\ UNCHANGED sessionVars => SessionsInv'
           /\ agent[r].at # "insert" /\ new.at \notin Planning /\ UNCHANGED planVars => PlansInv'
           /\ agent[r].at \notin Auditing /\ new.at \notin Auditing /\ UNCHANGED <<audit, exception, broken>> => AuditsInv'
<1>1. agent'[r] = new /\ \A q \in Clerks \ {r} : agent'[q] = agent[q]
  BY AgentsTurn DEF MarketInv
<1>2. ASSUME new.at # "session", UNCHANGED sessionVars PROVE SessionsInv'
  BY <1>1, <1>2, SessionsAside DEF MarketInv
<1>3. ASSUME agent[r].at # "insert", new.at \notin Planning, UNCHANGED planVars PROVE PlansInv'
  BY <1>1, <1>3, PlansAside DEF MarketInv
<1>4. ASSUME agent[r].at \notin Auditing, new.at \notin Auditing, UNCHANGED <<audit, exception, broken>> PROVE AuditsInv'
  BY <1>1, <1>4, AuditsAside DEF MarketInv
<1> QED
  BY <1>2, <1>3, <1>4

\* A feature is asked for, and set.
LEMMA FlagsMove ==
    ASSUME MarketInv, NEW r \in Clerks, UpdateFlags(r) \/ \E on \in SUBSET Features : AskFlags(r, on)
    PROVE  MarketInv'
<1>1. UNCHANGED <<sessionVars, planVars, tenant, bookVars>>
  BY DEF UpdateFlags, AskFlags
<1>2. PICK new \in Agent : agent' = [agent EXCEPT ![r] = new] /\ new.at \in {"idle", "flags"}
  <2>1. CASE UpdateFlags(r)
    BY <2>1, NoOneSetsUp DEF UpdateFlags, Ends, AgentTurns
  <2>2. ASSUME NEW on \in SUBSET Features, AskFlags(r, on) PROVE \E new \in Agent : agent' = [agent EXCEPT ![r] = new] /\ new.at \in {"idle", "flags"}
    <3>1. PICK new : new = [NoAgent EXCEPT !.at = "flags", !.on = on]
      OBVIOUS
    <3>2. new \in Agent /\ new.at = "flags"
      BY <3>1, NoOneSetsUp DEF Agent
    <3> QED
      BY <2>2, <3>1, <3>2 DEF AskFlags
  <2> QED
    BY <2>1, <2>2
<1>3. feature' \subseteq Features
  BY DEF MarketInv, MarketTypeOK, Agent, UpdateFlags, AskFlags
<1>4. agent[r].at \in {"idle", "flags"}
  BY DEF UpdateFlags, AskFlags
<1>5. MarketTypeOK'
  BY <1>1, <1>2, <1>3 DEF MarketInv, MarketTypeOK, sessionVars, planVars, bookVars
<1> QED
  BY <1>1, <1>2, <1>4, <1>5, AgentsAside DEF MarketInv, bookVars, Planning, Auditing

\* A partner's tenant is looked up, and saved.
LEMMA TenantsMove ==
    ASSUME MarketInv, NEW r \in Clerks, SaveTenant(r) \/ \E t \in Tenants, status \in TenantStatus : AskTenant(r, t, status)
    PROVE  MarketInv'
<1>1. UNCHANGED <<feature, sessionVars, planVars, bookVars>>
  BY DEF SaveTenant, AskTenant
<1>2. PICK new \in Agent : agent' = [agent EXCEPT ![r] = new] /\ new.at \in {"idle", "tenant"}
  <2>1. CASE SaveTenant(r)
    BY <2>1, NoOneSetsUp DEF SaveTenant, Ends, AgentTurns
  <2>2. ASSUME NEW t \in Tenants, NEW status \in TenantStatus, AskTenant(r, t, status)
        PROVE  \E new \in Agent : agent' = [agent EXCEPT ![r] = new] /\ new.at \in {"idle", "tenant"}
    <3>1. PICK seen \in BOOLEAN : seen = (tenant[t] # "none")
      OBVIOUS
    <3>2. PICK new : new = [NoAgent EXCEPT !.at = "tenant", !.tenant = t, !.status = status, !.known = seen]
      OBVIOUS
    <3>3. new \in Agent /\ new.at = "tenant"
      BY <3>2, NoOneSetsUp DEF Agent
    <3> QED
      BY <2>2, <3>1, <3>2, <3>3, Zenon DEF AskTenant, Asks
  <2> QED
    BY <2>1, <2>2
<1>3. tenant' \in [Tenants -> TenantStatus \cup {"none"}]
  <2>1. agent[r] \in Agent /\ tenant \in [Tenants -> TenantStatus \cup {"none"}]
    BY DEF MarketInv, MarketTypeOK
  <2>2. PICK t \in Tenants, status \in TenantStatus : t = agent[r].tenant /\ status = agent[r].status
    BY <2>1 DEF Agent
  <2>3. tenant' \in {tenant, [tenant EXCEPT ![t] = status]}
    BY <2>2 DEF SaveTenant, AskTenant
  <2> QED
    BY <2>1, <2>2, <2>3
<1>4. agent[r].at \in {"idle", "tenant"}
  BY DEF SaveTenant, AskTenant, Asks
<1>5. MarketTypeOK'
  BY <1>1, <1>2, <1>3 DEF MarketInv, MarketTypeOK, sessionVars, planVars, bookVars
<1> QED
  BY <1>1, <1>2, <1>4, <1>5, AgentsAside DEF MarketInv, bookVars, Planning, Auditing

\* A payment grows old, or is paid.
LEMMA EntriesMove ==
    ASSUME MarketInv, NEW p \in Entries, NEW w \in {"fine", "stale"}, EntryMoves(p, w)
    PROVE  MarketInv'
<1>1. UNCHANGED <<feature, sessionVars, planVars, tenant, audit, exception, broken, agent>>
  BY DEF EntryMoves
<1>2. entry' \in [Entries -> Wrongs \cup {"fine"}]
  BY DEF EntryMoves, MarketInv, MarketTypeOK, Wrongs
<1>3. MarketTypeOK'
  BY <1>1, <1>2 DEF MarketInv, MarketTypeOK, sessionVars, planVars
<1> QED
  BY <1>1, <1>3, SessionsAside, PlansAside, AuditsAside DEF MarketInv

\* A checkout session is made, read, and saved as it was read.
LEMMA SessionsCome ==
    ASSUME MarketInv, NEW s \in Sessions, CreateSession(s)
    PROVE  MarketInv'
<1>1. UNCHANGED <<feature, once, torn, planVars, tenant, bookVars, agent>>
  BY DEF CreateSession
<1>2. /\ session' \in [Sessions -> SessionRow]
      /\ \A x \in Sessions : session'[x].dated = session[x].dated
  BY DEF CreateSession, MarketInv, MarketTypeOK, SessionRow
<1>3. MarketTypeOK'
  BY <1>1, <1>2 DEF MarketInv, MarketTypeOK, planVars, bookVars
<1>4. SessionsInv'
  BY <1>1, <1>2 DEF MarketInv, MarketTypeOK, SessionsInv, SessionsAreDated
<1> QED
  BY <1>1, <1>3, <1>4, PlansAside, AuditsAside DEF MarketInv, bookVars

LEMMA SessionsAreRead ==
    ASSUME MarketInv, NEW r \in Clerks, NEW s \in Sessions,
           NEW status \in {"STARTED", "FAILED", "COMPLETED", "ABANDONED"}, AskSession(r, s, status)
    PROVE  MarketInv'
<1>1. UNCHANGED <<feature, sessionVars, planVars, tenant, bookVars>> /\ agent[r].at = "idle"
  BY DEF AskSession, Asks
<1>2. PICK row : row = Restated(session[s], status)
  OBVIOUS
<1>3. row \in SessionRow /\ (session[s].dated => row.dated)
  BY <1>2 DEF Restated, SessionRow, MarketInv, MarketTypeOK
<1>4. PICK new : new = [NoAgent EXCEPT !.at = "session", !.session = s, !.row = row]
  OBVIOUS
<1>5. new \in Agent /\ new.at = "session" /\ new.session = s /\ new.row = row
  BY <1>3, <1>4, NoOneSetsUp DEF Agent
<1>6. agent' = [agent EXCEPT ![r] = new]
  BY <1>2, <1>4, Zenon DEF AskSession, Asks
<1>7. agent'[r] = new /\ \A q \in Clerks \ {r} : agent'[q] = agent[q]
  BY <1>5, <1>6, AgentsTurn DEF MarketInv
<1>8. MarketTypeOK'
  BY <1>1, <1>5, <1>6 DEF MarketInv, MarketTypeOK, sessionVars, planVars, bookVars
<1>9. SessionsInv'
  BY <1>1, <1>3, <1>5, <1>7 DEF MarketInv, SessionsInv, SessionsAreDated, sessionVars
<1> QED
  BY <1>1, <1>5, <1>6, <1>8, <1>9, AgentsAside DEF MarketInv, bookVars, Planning, Auditing

LEMMA SessionsAreSaved ==
    ASSUME MarketInv, NEW r \in Clerks, SaveSession(r)
    PROVE  MarketInv'
<1>1. UNCHANGED <<feature, planVars, tenant, bookVars>> /\ agent[r].at = "session"
  BY DEF SaveSession
<1>2. PICK s \in Sessions, row \in SessionRow : s = agent[r].session /\ row = agent[r].row
  BY DEF MarketInv, MarketTypeOK, Agent
<1>3. agent' = [agent EXCEPT ![r] = NoAgent]
  BY DEF SaveSession, Ends, AgentTurns
<1>4. agent'[r] = NoAgent /\ \A q \in Clerks \ {r} : agent'[q] = agent[q]
  BY <1>3, NoOneSetsUp, AgentsTurn DEF MarketInv
<1>5. /\ session' = [session EXCEPT ![s] = row]
      /\ once' = IF row.dated THEN once \cup {s} ELSE once
      /\ torn' = IF \E q \in Clerks \ {r} : agent[q].at = "session" /\ agent[q].session = s THEN torn \cup {s} ELSE torn
  BY <1>2 DEF SaveSession
<1>6. MarketTypeOK'
  BY <1>1, <1>3, <1>5, NoOneSetsUp DEF MarketInv, MarketTypeOK, planVars, bookVars
<1>7. SessionsInv'
  <2>1. s \in once \ torn => row.dated
    BY <1>1, <1>2 DEF MarketInv, SessionsInv
  <2>2. \A x \in once' : session'[x].dated \/ x \in torn'
    BY <1>5, <2>1 DEF MarketInv, SessionsInv, MarketTypeOK, SessionsAreDated
  <2>3. \A q \in Clerks : agent'[q].at = "session" /\ agent'[q].session \in once' \ torn' => agent'[q].row.dated
    BY <1>4, <1>5, NoOneSetsUp DEF MarketInv, SessionsInv
  <2> QED
    BY <2>2, <2>3 DEF SessionsInv, SessionsAreDated
<1> QED
  BY <1>1, <1>3, <1>6, <1>7, NoOneSetsUp, AgentsAside DEF MarketInv, bookVars, Planning, Auditing

\* A request asks for something of a plan, or has read the accounts.
LEMMA PlansAreAsked ==
    ASSUME MarketInv, NEW r \in Clerks, NEW new \in Agent, agent' = [agent EXCEPT ![r] = new],
           UNCHANGED <<feature, sessionVars, planVars, tenant, bookVars>>,
           agent[r].at \in {"idle", "accounts"}, new.at \in {"idle", "items", "accounts"},
           new.at # "idle" => plan[new.plan] # 0, new.at = "items" => new.total # 0,
           new.at = "accounts" => new.total = plan[new.plan] \/ new.holders \X {new.plan} \subseteq late
    PROVE  MarketInv'
<1>1. agent'[r] = new /\ \A q \in Clerks \ {r} : agent'[q] = agent[q]
  BY AgentsTurn DEF MarketInv
<1>2. MarketTypeOK'
  BY DEF MarketInv, MarketTypeOK, sessionVars, planVars, bookVars
<1>3. UNCHANGED <<plan, items, account, listed, mixed, due, late>>
  BY DEF planVars
<1>4. PlansInv'
  <2>1. \A p \in Plans : Inserting(p)' <=> Inserting(p)
    BY <1>1 DEF Inserting
  <2>2. \A p \in Plans \ mixed' : items'[p] = IF Inserting(p)' THEN NoItems ELSE OnceEach(listed'[p])
    BY <1>3, <2>1 DEF MarketInv, PlansInv
  <2>3. \A p \in Plans : plan'[p] = 0 =>
            /\ p \notin mixed' /\ listed'[p] = {}
            /\ \A q \in Clerks : agent'[q].at \in Planning => agent'[q].plan # p
    BY <1>1, <1>3 DEF MarketInv, PlansInv, Planning
  <2>4. \A q \in Clerks : agent'[q].at = "items" => agent'[q].total # 0
    BY <1>1 DEF MarketInv, PlansInv
  <2>5. \A q \in Clerks : agent'[q].at = "accounts" =>
            agent'[q].total = plan'[agent'[q].plan] \/ agent'[q].holders \X {agent'[q].plan} \subseteq late'
    BY <1>1, <1>3 DEF MarketInv, PlansInv
  <2>6. AccountsAreOwed'
    BY <1>3 DEF MarketInv, PlansInv, AccountsAreOwed
  <2> QED
    BY <2>2, <2>3, <2>4, <2>5, <2>6 DEF PlansInv
<1> QED
  BY <1>2, <1>4, AgentsAside DEF MarketInv, bookVars, Auditing

LEMMA AskPlanKeeps ==
    ASSUME MarketInv, NEW r \in Clerks, NEW p \in Plans, NEW total \in Totals, NEW parts \in SUBSET Parts,
           NEW relist \in BOOLEAN, AskPlan(r, p, total, parts, relist)
    PROVE  MarketInv'
<1>1. PICK new : new = [NoAgent EXCEPT !.at = "items", !.plan = p, !.total = total, !.parts = parts, !.relist = relist]
  OBVIOUS
<1>2. new \in Agent /\ new.at = "items" /\ new.plan = p /\ new.total = total
  BY <1>1, NoOneSetsUp DEF Agent
<1>3. agent' = [agent EXCEPT ![r] = new] /\ agent[r].at = "idle" /\ plan[p] # 0
  BY <1>1 DEF AskPlan, Asks
<1>4. total # 0
  BY MarketAssumption
<1>5. UNCHANGED <<feature, sessionVars, planVars, tenant, bookVars>>
  BY DEF AskPlan
<1> QED
  BY <1>2, <1>3, <1>4, <1>5, PlansAreAsked

LEMMA AskAssignKeeps ==
    ASSUME MarketInv, NEW r \in Clerks, NEW p \in Plans, NEW holders \in SUBSET Holders, AskAssign(r, p, holders)
    PROVE  MarketInv'
<1>1. PICK total \in Totals \cup {0} : total = plan[p]
  BY DEF MarketInv, MarketTypeOK
<1>2. PICK new : new = [NoAgent EXCEPT !.at = "accounts", !.plan = p, !.total = total, !.holders = holders]
  OBVIOUS
<1>3. new \in Agent /\ new.at = "accounts" /\ new.plan = p /\ new.total = total
  BY <1>2, NoOneSetsUp DEF Agent
<1>4. agent' = [agent EXCEPT ![r] = new] /\ agent[r].at = "idle" /\ plan[p] # 0
  BY <1>1, <1>2, Zenon DEF AskAssign, Asks
<1>5. UNCHANGED <<feature, sessionVars, planVars, tenant, bookVars>>
  BY DEF AskAssign
<1> QED
  BY <1>1, <1>3, <1>4, <1>5, PlansAreAsked

LEMMA ReadAccountsKeeps ==
    ASSUME MarketInv, NEW r \in Clerks, ReadAccounts(r)
    PROVE  MarketInv'
<1>1. UNCHANGED <<feature, sessionVars, planVars, tenant, bookVars>> /\ agent[r].at = "accounts" /\ agent[r] \in Agent
  BY DEF ReadAccounts, MarketInv, MarketTypeOK
<1>2. plan[agent[r].plan] # 0 /\ agent[r].plan \in Plans
  BY <1>1 DEF MarketInv, PlansInv, Planning, Agent
<1>3. CASE Unassigned(r) = {}
  <2>1. agent' = [agent EXCEPT ![r] = NoAgent]
    BY <1>3 DEF ReadAccounts, Ends, AgentTurns
  <2> QED
    BY <1>1, <2>1, NoOneSetsUp, PlansAreAsked
<1>4. CASE Unassigned(r) # {}
  <2>1. PICK some : some = Unassigned(r)
    OBVIOUS
  <2>2. some \subseteq agent[r].holders
    BY <2>1 DEF Unassigned
  <2>3. PICK new : new = [agent[r] EXCEPT !.holders = some, !.known = TRUE]
    OBVIOUS
  <2>4. new \in Agent /\ new.at = "accounts" /\ new.plan = agent[r].plan /\ new.total = agent[r].total /\ new.holders = some
    BY <1>1, <2>2, <2>3 DEF Agent
  <2>5. agent' = [agent EXCEPT ![r] = new]
    BY <1>4, <2>1, <2>3 DEF ReadAccounts, AgentTurns
  <2>6. agent[r].total = plan[agent[r].plan] \/ agent[r].holders \X {agent[r].plan} \subseteq late
    BY <1>1 DEF MarketInv, PlansInv
  <2>7. new.total = plan[new.plan] \/ new.holders \X {new.plan} \subseteq late
    BY <2>2, <2>4, <2>6
  <2> QED
    BY <1>1, <1>2, <2>4, <2>5, <2>7, PlansAreAsked
<1> QED
  BY <1>3, <1>4

\* What the rest of the books sees of a request of a plan.
LEMMA PlansMove ==
    ASSUME MarketInv, NEW r \in Clerks, NEW new \in Agent, agent' = [agent EXCEPT ![r] = new],
           UNCHANGED <<feature, sessionVars, tenant, bookVars>>, MarketTypeOK', PlansInv',
           agent[r].at \in Planning \cup {"idle"}, new.at \in Planning \cup {"idle"}
    PROVE  MarketInv'
BY AgentsAside DEF MarketInv, bookVars, Planning, Auditing

LEMMA CreatePlanKeeps ==
    ASSUME MarketInv, NEW r \in Clerks, NEW p \in Plans, NEW total \in Totals, NEW parts \in SUBSET Parts,
           CreatePlan(r, p, total, parts)
    PROVE  MarketInv'
<1>1. PICK new : new = [NoAgent EXCEPT !.at = "insert", !.plan = p, !.parts = parts]
  OBVIOUS
<1>2. new \in Agent /\ new.at = "insert" /\ new.plan = p
  BY <1>1, NoOneSetsUp DEF Agent
<1>3. agent' = [agent EXCEPT ![r] = new] /\ agent[r].at = "idle" /\ plan[p] = 0
  BY <1>1 DEF CreatePlan, Asks
<1>4. total # 0 /\ plan' = [plan EXCEPT ![p] = total]
  BY MarketAssumption DEF CreatePlan
<1>5. UNCHANGED <<feature, sessionVars, items, account, listed, mixed, due, late, tenant, bookVars>>
  BY DEF CreatePlan
<1>6. agent'[r] = new /\ \A q \in Clerks \ {r} : agent'[q] = agent[q]
  BY <1>2, <1>3, AgentsTurn DEF MarketInv
<1>7. MarketTypeOK'
  BY <1>2, <1>3, <1>4, <1>5 DEF MarketInv, MarketTypeOK, sessionVars, bookVars
<1>8. plan'[p] = total /\ \A x \in Plans \ {p} : plan'[x] = plan[x]
  BY <1>4 DEF MarketInv, MarketTypeOK
<1>9. PlansInv'
  <2>1. \A q \in Clerks : agent[q].at \in Planning => agent[q].plan # p
    BY <1>3 DEF MarketInv, PlansInv
  <2>2. Inserting(p)' /\ ~Inserting(p) /\ \A x \in Plans \ {p} : Inserting(x)' <=> Inserting(x)
    BY <1>2, <1>3, <1>6, <2>1 DEF Inserting, Planning
  <2>3. p \notin mixed /\ listed[p] = {}
    BY <1>3 DEF MarketInv, PlansInv
  <2>4. OnceEach({}) = NoItems
    BY DEF OnceEach, NoItems
  <2>5. items[p] = NoItems
    BY <2>2, <2>3, <2>4 DEF MarketInv, PlansInv
  <2>6. \A x \in Plans \ mixed' : items'[x] = IF Inserting(x)' THEN NoItems ELSE OnceEach(listed'[x])
    <3>1. \A x \in Plans \ mixed : items[x] = IF Inserting(x) THEN NoItems ELSE OnceEach(listed[x])
      BY DEF MarketInv, PlansInv
    <3> QED
      BY <1>5, <2>2, <2>5, <3>1
  <2>7. \A x \in Plans : plan'[x] = 0 =>
            /\ x \notin mixed' /\ listed'[x] = {}
            /\ \A q \in Clerks : agent'[q].at \in Planning => agent'[q].plan # x
    BY <1>2, <1>4, <1>5, <1>6, <1>8 DEF MarketInv, PlansInv
  <2>8. \A q \in Clerks : agent'[q].at = "items" => agent'[q].total # 0
    BY <1>2, <1>6 DEF MarketInv, PlansInv
  <2>9. \A q \in Clerks : agent'[q].at = "accounts" =>
            agent'[q].total = plan'[agent'[q].plan] \/ agent'[q].holders \X {agent'[q].plan} \subseteq late'
    <3>1. \A q \in Clerks : agent'[q].at = "accounts" =>
             agent'[q] = agent[q] /\ agent[q].plan # p /\ agent[q].plan \in Plans
      BY <1>2, <1>6, <2>1 DEF MarketInv, MarketTypeOK, Planning, Agent
    <3> QED
      BY <1>5, <1>8, <3>1 DEF MarketInv, PlansInv
  <2>10. AccountsAreOwed'
    BY <1>5 DEF MarketInv, PlansInv, AccountsAreOwed
  <2> QED
    BY <2>6, <2>7, <2>8, <2>9, <2>10 DEF PlansInv
<1> QED
  BY <1>2, <1>3, <1>5, <1>7, <1>9, PlansMove DEF Planning

LEMMA SavePlanKeeps ==
    ASSUME MarketInv, NEW r \in Clerks, SavePlan(r)
    PROVE  MarketInv'
<1>1. agent[r] \in Agent /\ agent[r].at = "items"
  BY DEF SavePlan, MarketInv, MarketTypeOK
<1>2. PICK p \in Plans, total \in Totals \cup {0} : p = agent[r].plan /\ total = agent[r].total
  BY <1>1 DEF Agent
<1>3. PICK gone : gone = UNION {agent[q].holders \X {p} : q \in {q \in Clerks : agent[q].at = "accounts" /\ agent[q].plan = p}}
  OBVIOUS
<1>4. /\ plan' = [plan EXCEPT ![p] = total] /\ late' = late \cup gone
      /\ UNCHANGED <<feature, sessionVars, items, account, listed, mixed, due, tenant, bookVars>>
  BY <1>2, <1>3 DEF SavePlan
<1>5. total # 0 /\ plan[p] # 0
  BY <1>1, <1>2 DEF MarketInv, PlansInv, Planning
<1>6. PICK new \in Agent : agent' = [agent EXCEPT ![r] = new] /\ new.at \in {"idle", "delete"} /\ (new.at # "idle" => new.plan = p)
  <2>1. CASE agent[r].relist
    <3>1. PICK new : new = [agent[r] EXCEPT !.at = "delete"]
      OBVIOUS
    <3>2. new \in Agent /\ new.at = "delete" /\ new.plan = p
      BY <1>1, <1>2, <3>1 DEF Agent
    <3> QED
      BY <2>1, <3>1, <3>2 DEF SavePlan, AgentTurns
  <2>2. CASE ~agent[r].relist
    BY <2>2, NoOneSetsUp DEF SavePlan, Ends, AgentTurns
  <2> QED
    BY <2>1, <2>2
<1>7. agent'[r] = new /\ \A q \in Clerks \ {r} : agent'[q] = agent[q]
  BY <1>6, AgentsTurn DEF MarketInv
<1>8. \A q \in Clerks : agent[q].at = "accounts" /\ agent[q].plan = p => agent[q].holders \X {p} \subseteq gone
  BY <1>3
<1>9. gone \subseteq Holders \X Plans
  <2>1. \A q \in Clerks : agent[q].holders \subseteq Holders
    BY DEF MarketInv, MarketTypeOK, Agent
  <2> QED
    BY <1>3, <2>1
<1>10. plan'[p] = total /\ \A x \in Plans \ {p} : plan'[x] = plan[x]
  BY <1>4 DEF MarketInv, MarketTypeOK
<1>11. MarketTypeOK'
  BY <1>4, <1>6, <1>9 DEF MarketInv, MarketTypeOK, sessionVars, bookVars
<1>12. PlansInv'
  <2>1. \A x \in Plans : Inserting(x)' <=> Inserting(x)
    BY <1>1, <1>6, <1>7 DEF Inserting
  <2>2. \A x \in Plans \ mixed' : items'[x] = IF Inserting(x)' THEN NoItems ELSE OnceEach(listed'[x])
    BY <1>4, <2>1 DEF MarketInv, PlansInv
  <2>3. \A x \in Plans : plan'[x] = 0 =>
            /\ x \notin mixed' /\ listed'[x] = {}
            /\ \A q \in Clerks : agent'[q].at \in Planning => agent'[q].plan # x
    <3>1. \A x \in Plans : plan'[x] = 0 => x # p /\ plan[x] = 0
      BY <1>5, <1>10
    <3>2. \A q \in Clerks : agent'[q].at \in Planning => agent'[q].plan = p \/ agent'[q] = agent[q]
      BY <1>6, <1>7 DEF Planning
    <3> QED
      BY <1>4, <3>1, <3>2 DEF MarketInv, PlansInv
  <2>4. \A q \in Clerks : agent'[q].at = "items" => agent'[q].total # 0
    BY <1>6, <1>7 DEF MarketInv, PlansInv
  <2>5. ASSUME NEW q \in Clerks, agent'[q].at = "accounts"
        PROVE  agent'[q].total = plan'[agent'[q].plan] \/ agent'[q].holders \X {agent'[q].plan} \subseteq late'
    <3>1. agent'[q] = agent[q] /\ agent[q].plan \in Plans
      BY <1>6, <1>7, <2>5 DEF MarketInv, MarketTypeOK, Agent
    <3>2. CASE agent[q].plan = p
      BY <1>4, <1>8, <2>5, <3>1, <3>2
    <3>3. CASE agent[q].plan # p
      BY <1>4, <1>10, <2>5, <3>1, <3>3 DEF MarketInv, PlansInv
    <3> QED
      BY <3>2, <3>3
  <2>6. AccountsAreOwed'
    BY <1>4 DEF MarketInv, PlansInv, AccountsAreOwed
  <2> QED
    BY <2>2, <2>3, <2>4, <2>5, <2>6 DEF PlansInv
<1> QED
  BY <1>1, <1>4, <1>6, <1>11, <1>12, PlansMove DEF Planning

LEMMA DeleteItemsKeeps ==
    ASSUME MarketInv, NEW r \in Clerks, DeleteItems(r)
    PROVE  MarketInv'
<1>1. agent[r] \in Agent /\ agent[r].at = "delete"
  BY DEF DeleteItems, MarketInv, MarketTypeOK
<1>2. PICK p \in Plans : p = agent[r].plan
  BY <1>1 DEF Agent
<1>3. /\ items' = [items EXCEPT ![p] = NoItems] /\ mixed' \in {mixed, mixed \cup {p}}
      /\ UNCHANGED <<feature, sessionVars, plan, account, listed, due, late, tenant, bookVars>>
  BY <1>2 DEF DeleteItems, NoItems
<1>4. PICK new : new = [agent[r] EXCEPT !.at = "insert"]
  OBVIOUS
<1>5. new \in Agent /\ new.at = "insert" /\ new.plan = p
  BY <1>1, <1>2, <1>4 DEF Agent
<1>6. agent' = [agent EXCEPT ![r] = new]
  BY <1>4 DEF DeleteItems, AgentTurns
<1>7. agent'[r] = new /\ \A q \in Clerks \ {r} : agent'[q] = agent[q]
  BY <1>5, <1>6, AgentsTurn DEF MarketInv
<1>8. plan[p] # 0
  BY <1>1, <1>2 DEF MarketInv, PlansInv, Planning
<1>9. MarketTypeOK'
  <2>1. NoItems \in [Parts -> Nat]
    BY DEF NoItems
  <2> QED
    BY <1>3, <1>5, <1>6, <2>1 DEF MarketInv, MarketTypeOK, sessionVars, bookVars
<1>10. PlansInv'
  <2>1. Inserting(p)' /\ \A x \in Plans \ {p} : Inserting(x)' <=> Inserting(x)
    BY <1>1, <1>2, <1>5, <1>7 DEF Inserting
  <2>2. items'[p] = NoItems /\ \A x \in Plans \ {p} : items'[x] = items[x]
    BY <1>3 DEF MarketInv, MarketTypeOK
  <2>3. \A x \in Plans \ mixed' : items'[x] = IF Inserting(x)' THEN NoItems ELSE OnceEach(listed'[x])
    BY <1>3, <2>1, <2>2 DEF MarketInv, PlansInv
  <2>4. \A x \in Plans : plan'[x] = 0 =>
            /\ x \notin mixed' /\ listed'[x] = {}
            /\ \A q \in Clerks : agent'[q].at \in Planning => agent'[q].plan # x
    BY <1>3, <1>5, <1>7, <1>8 DEF MarketInv, PlansInv
  <2>5. \A q \in Clerks : agent'[q].at \in {"items", "accounts"} => agent'[q] = agent[q]
    BY <1>5, <1>7
  <2>6. \A q \in Clerks : agent'[q].at = "items" => agent'[q].total # 0
    BY <2>5 DEF MarketInv, PlansInv
  <2>7. \A q \in Clerks : agent'[q].at = "accounts" =>
            agent'[q].total = plan'[agent'[q].plan] \/ agent'[q].holders \X {agent'[q].plan} \subseteq late'
    BY <1>3, <2>5 DEF MarketInv, PlansInv
  <2>8. AccountsAreOwed'
    BY <1>3 DEF MarketInv, PlansInv, AccountsAreOwed
  <2> QED
    BY <2>3, <2>4, <2>6, <2>7, <2>8 DEF PlansInv
<1> QED
  BY <1>1, <1>3, <1>5, <1>6, <1>9, <1>10, PlansMove DEF Planning

\* What is added to no items.
LEMMA ItemsAddUp ==
    ASSUME NEW parts \in SUBSET Parts, NEW row \in [Parts -> Nat]
    PROVE  /\ [x \in Parts |-> row[x] + IF x \in parts THEN 1 ELSE 0] \in [Parts -> Nat]
           /\ row = NoItems => [x \in Parts |-> row[x] + IF x \in parts THEN 1 ELSE 0] = OnceEach(parts)
<1>1. ASSUME NEW x \in Parts PROVE row[x] + (IF x \in parts THEN 1 ELSE 0) \in Nat
  <2>1. PICK n \in Nat : n = row[x]
    OBVIOUS
  <2> QED
    BY <2>1
<1>2. ASSUME row = NoItems, NEW x \in Parts PROVE row[x] + (IF x \in parts THEN 1 ELSE 0) = IF x \in parts THEN 1 ELSE 0
  BY <1>2 DEF NoItems
<1> QED
  BY <1>1, <1>2, Zenon DEF OnceEach

\* The list is saved, or is not.
LEMMA InsertKeeps ==
    ASSUME MarketInv, NEW r \in Clerks, InsertItems(r) \/ ItemsThrow(r)
    PROVE  MarketInv'
<1>1. agent[r] \in Agent /\ agent[r].at = "insert"
  BY DEF InsertItems, ItemsThrow, MarketInv, MarketTypeOK
<1>2. PICK p \in Plans, parts \in SUBSET Parts : p = agent[r].plan /\ parts = agent[r].parts
  BY <1>1 DEF Agent
<1>3. UNCHANGED <<feature, sessionVars, plan, account, due, late, tenant, bookVars>> /\ agent' = [agent EXCEPT ![r] = NoAgent]
  BY DEF InsertItems, ItemsThrow, Ends, AgentTurns
<1>4. agent'[r] = NoAgent /\ \A q \in Clerks \ {r} : agent'[q] = agent[q]
  BY <1>3, NoOneSetsUp, AgentsTurn DEF MarketInv
<1>5. plan[p] # 0 /\ Inserting(p)
  BY <1>1, <1>2 DEF MarketInv, PlansInv, Planning, Inserting
<1>6. PICK row \in [Parts -> Nat] : row = items[p]
  BY DEF MarketInv, MarketTypeOK
<1>7. /\ mixed' \in {mixed, mixed \cup {p}}
      /\ items' \in {items, [items EXCEPT ![p] = [x \in Parts |-> row[x] + IF x \in parts THEN 1 ELSE 0]]}
      /\ listed' \in {listed, [listed EXCEPT ![p] = parts]}
      /\ p \notin mixed' =>
            /\ Listing(p) = {r} /\ listed' = [listed EXCEPT ![p] = parts]
            /\ items' = [items EXCEPT ![p] = [x \in Parts |-> row[x] + IF x \in parts THEN 1 ELSE 0]]
  <2>1. CASE InsertItems(r)
    <3>1. items' = [items EXCEPT ![p] = [x \in Parts |-> row[x] + IF x \in parts THEN 1 ELSE 0]]
      BY <1>2, <1>6, <2>1, Zenon DEF InsertItems
    <3>2. listed' = [listed EXCEPT ![p] = parts] /\ mixed' = IF Listing(p) = {r} THEN mixed ELSE mixed \cup {p}
      BY <1>2, <2>1, Zenon DEF InsertItems
    <3> QED
      BY <3>1, <3>2
  <2>2. CASE ItemsThrow(r)
    BY <1>2, <2>2 DEF ItemsThrow
  <2> QED
    BY <2>1, <2>2
<1>8. MarketTypeOK'
  <2>1. PICK sum : sum = [x \in Parts |-> row[x] + IF x \in parts THEN 1 ELSE 0]
    OBVIOUS
  <2>2. sum \in [Parts -> Nat]
    BY <2>1, ItemsAddUp, Zenon
  <2>3. items' \in {items, [items EXCEPT ![p] = sum]}
    BY <1>7, <2>1, Zenon
  <2>4. items' \in [Plans -> [Parts -> Nat]]
    BY <2>2, <2>3 DEF MarketInv, MarketTypeOK
  <2>5. listed' \in [Plans -> SUBSET Parts] /\ mixed' \subseteq Plans
    BY <1>7 DEF MarketInv, MarketTypeOK
  <2> QED
    BY <1>3, <2>4, <2>5, NoOneSetsUp DEF MarketInv, MarketTypeOK, sessionVars, bookVars
<1>9. PlansInv'
  <2>1. \A x \in Plans \ {p} : /\ Inserting(x)' <=> Inserting(x)
                               /\ items'[x] = items[x] /\ listed'[x] = listed[x]
    BY <1>2, <1>4, <1>7, NoOneSetsUp DEF Inserting, MarketInv, MarketTypeOK
  <2>2. ASSUME p \notin mixed' PROVE ~Inserting(p)' /\ items'[p] = OnceEach(listed'[p])
    <3>1. row = NoItems
      BY <1>5, <1>6, <1>7, <2>2 DEF MarketInv, PlansInv
    <3>2. listed'[p] = parts
      BY <1>7, <2>2 DEF MarketInv, MarketTypeOK
    <3>3. PICK sum : sum = [x \in Parts |-> row[x] + IF x \in parts THEN 1 ELSE 0]
      OBVIOUS
    <3>4. sum = OnceEach(parts)
      BY <3>1, <3>3, ItemsAddUp, Zenon
    <3>5. items' = [items EXCEPT ![p] = sum]
      BY <1>7, <2>2, <3>3, Zenon
    <3>6. items'[p] = sum
      BY <3>5 DEF MarketInv, MarketTypeOK
    <3>7. \A q \in Clerks \ {r} : ~(agent[q].at = "insert" /\ agent[q].plan = p)
      BY <1>7, <2>2 DEF Listing
    <3>8. ~Inserting(p)'
      BY <1>4, <3>7, NoOneSetsUp DEF Inserting
    <3> QED
      BY <3>2, <3>4, <3>6, <3>8
  <2>3. \A x \in Plans \ mixed' : items'[x] = IF Inserting(x)' THEN NoItems ELSE OnceEach(listed'[x])
    BY <1>7, <2>1, <2>2 DEF MarketInv, PlansInv
  <2>4. \A q \in Clerks : agent'[q].at \in Planning => agent'[q] = agent[q]
    BY <1>4, NoOneSetsUp DEF Planning
  <2>5. \A x \in Plans : plan'[x] = 0 =>
            /\ x \notin mixed' /\ listed'[x] = {}
            /\ \A q \in Clerks : agent'[q].at \in Planning => agent'[q].plan # x
    <3>1. \A x \in Plans : plan'[x] = 0 => x # p /\ plan[x] = 0
      BY <1>3, <1>5
    <3> QED
      BY <1>7, <2>1, <2>4, <3>1 DEF MarketInv, PlansInv
  <2>6. \A q \in Clerks : agent'[q].at = "items" => agent'[q].total # 0
    BY <2>4 DEF MarketInv, PlansInv, Planning
  <2>7. \A q \in Clerks : agent'[q].at = "accounts" =>
            agent'[q].total = plan'[agent'[q].plan] \/ agent'[q].holders \X {agent'[q].plan} \subseteq late'
    BY <1>3, <2>4 DEF MarketInv, PlansInv, Planning
  <2>8. AccountsAreOwed'
    BY <1>3 DEF MarketInv, PlansInv, AccountsAreOwed
  <2> QED
    BY <2>3, <2>5, <2>6, <2>7, <2>8 DEF PlansInv
<1> QED
  BY <1>1, <1>3, <1>8, <1>9, NoOneSetsUp, PlansMove DEF Planning

LEMMA OpenAccountsKeeps ==
    ASSUME MarketInv, NEW r \in Clerks, OpenAccounts(r)
    PROVE  MarketInv'
<1>1. agent[r] \in Agent /\ agent[r].at = "accounts"
  BY DEF OpenAccounts, MarketInv, MarketTypeOK
<1>2. PICK p \in Plans, total \in Totals \cup {0} : p = agent[r].plan /\ total = agent[r].total
  BY <1>1 DEF Agent
<1>3. PICK new : new = agent[r].holders \X {p}
  OBVIOUS
<1>4. PICK price \in Totals \cup {0} : price = plan[p]
  BY DEF MarketInv, MarketTypeOK
<1>5. /\ UNCHANGED <<feature, sessionVars, plan, items, listed, mixed, late, tenant, bookVars>>
      /\ agent' = [agent EXCEPT ![r] = NoAgent]
  BY DEF OpenAccounts, Ends, AgentTurns
<1>6. \/ UNCHANGED <<account, due>>
      \/ /\ account' = [k \in Holders \X Plans |-> IF k \in new THEN total ELSE account[k]]
         /\ due' = [k \in Holders \X Plans |-> IF k \in new THEN price ELSE due[k]]
  BY <1>2, <1>4, <1>3, Zenon DEF OpenAccounts
<1>7. total = price \/ new \subseteq late
  BY <1>1, <1>2, <1>4, <1>3 DEF MarketInv, PlansInv
<1>8. agent'[r] = NoAgent /\ \A q \in Clerks \ {r} : agent'[q] = agent[q]
  BY <1>5, NoOneSetsUp, AgentsTurn DEF MarketInv
<1>9. MarketTypeOK'
  <2>1. account' \in [Holders \X Plans -> Totals \cup {0}] /\ due' \in [Holders \X Plans -> Totals \cup {0}]
    BY <1>6 DEF MarketInv, MarketTypeOK
  <2> QED
    BY <1>5, <2>1, NoOneSetsUp DEF MarketInv, MarketTypeOK, sessionVars, bookVars
<1>10. PlansInv'
  <2>1. AccountsAreOwed'
    BY <1>5, <1>6, <1>7 DEF MarketInv, PlansInv, AccountsAreOwed
  <2>2. \A x \in Plans : Inserting(x)' <=> Inserting(x)
    BY <1>1, <1>8, NoOneSetsUp DEF Inserting
  <2>3. \A q \in Clerks : agent'[q].at \in Planning => agent'[q] = agent[q]
    BY <1>8, NoOneSetsUp DEF Planning
  <2> QED
    BY <1>5, <2>1, <2>2, <2>3 DEF MarketInv, PlansInv, Planning
<1> QED
  BY <1>1, <1>5, <1>9, <1>10, NoOneSetsUp, PlansMove DEF Planning

\* A run's request moves: the rest of the books stays.
LEMMA AuditsMove ==
    ASSUME MarketInv, NEW r \in Clerks, NEW new \in Agent, agent' = [agent EXCEPT ![r] = new],
           UNCHANGED <<feature, sessionVars, planVars, tenant, entry>>,
           audit' \in [Audits -> AuditRow],
           exception' \subseteq [audit: Audits, entry: Entries, type: Wrongs, status: {"OPEN", "RESOLVED", "IGNORED"}],
           broken' \subseteq Audits, AuditsInv',
           agent[r].at \in Auditing \cup {"idle"}, new.at \in Auditing \cup {"idle"}
    PROVE  MarketInv'
<1>1. MarketTypeOK'
  BY DEF MarketInv, MarketTypeOK, sessionVars, planVars
<1> QED
  BY <1>1, AgentsAside DEF MarketInv, Planning, Auditing

LEMMA AskAuditKeeps ==
    ASSUME MarketInv, NEW r \in Clerks, AskAudit(r)
    PROVE  MarketInv'
<1>1. PICK n \in Audits :
          /\ audit[n].status = "none"
          /\ audit' = [audit EXCEPT ![n].status = "PROCESSING"]
          /\ Asks(r, "books", "reconciliation", [NoAgent EXCEPT !.at = "scan", !.audit = n])
          /\ UNCHANGED <<feature, sessionVars, planVars, tenant, entry, exception, broken>>
  BY DEF AskAudit
<1>2. PICK new : new = [NoAgent EXCEPT !.at = "scan", !.audit = n]
  OBVIOUS
<1>3. new \in Agent /\ new.at = "scan" /\ new.audit = n
  BY <1>2, NoOneSetsUp DEF Agent
<1>4. agent' = [agent EXCEPT ![r] = new] /\ agent[r].at = "idle"
  BY <1>1, <1>2, Zenon DEF Asks
<1>5. agent'[r] = new /\ \A q \in Clerks \ {r} : agent'[q] = agent[q]
  BY <1>3, <1>4, AgentsTurn DEF MarketInv
<1>6. /\ audit' \in [Audits -> AuditRow] /\ audit'[n].status = "PROCESSING"
      /\ \A m \in Audits \ {n} : audit'[m] = audit[m]
  BY <1>1 DEF MarketInv, MarketTypeOK, AuditRow
<1>7. \A q \in Clerks : agent[q].at \in Auditing => agent[q].audit \in Audits \ {n}
  BY <1>1 DEF MarketInv, MarketTypeOK, AuditsInv, Agent
<1>8. RowsIn(exception', n) = {}
  BY <1>1 DEF MarketInv, AuditsInv
<1>9. \A q \in Clerks \ {r} : agent'[q].at \in Auditing => agent'[q] = agent[q] /\ agent[q].audit \in Audits \ {n}
  BY <1>5, <1>7
<1>10. \A q \in Clerks : agent'[q].at \in Auditing =>
          /\ audit'[agent'[q].audit].status = "PROCESSING"
          /\ agent'[q].at # "complete" => RowsIn(exception', agent'[q].audit) = {}
          /\ agent'[q].at # "scan" => IsFiniteSet(agent'[q].found)
          /\ agent'[q].at = "complete" => Cardinality(agent'[q].found) = Cardinality(RowsIn(exception', agent'[q].audit))
  <2>1. ASSUME NEW q \in Clerks, agent'[q].at \in Auditing
        PROVE  /\ audit'[agent'[q].audit].status = "PROCESSING"
               /\ agent'[q].at # "complete" => RowsIn(exception', agent'[q].audit) = {}
               /\ agent'[q].at # "scan" => IsFiniteSet(agent'[q].found)
               /\ agent'[q].at = "complete" => Cardinality(agent'[q].found) = Cardinality(RowsIn(exception', agent'[q].audit))
    <3>1. CASE q = r
      BY <1>3, <1>5, <1>6, <1>8, <3>1
    <3>2. CASE q # r
      <4>1. agent'[q] = agent[q] /\ agent[q].audit \in Audits \ {n} /\ exception' = exception
        BY <1>1, <1>9, <2>1, <3>2
      <4>2. audit'[agent[q].audit] = audit[agent[q].audit]
        BY <1>6, <4>1
      <4> QED
        BY <2>1, <4>1, <4>2 DEF MarketInv, AuditsInv
    <3> QED
      BY <3>1, <3>2
  <2> QED
    BY <2>1
<1>11. \A q, s \in Clerks : q # s /\ agent'[q].at \in Auditing /\ agent'[s].at \in Auditing => agent'[q].audit # agent'[s].audit
  BY <1>3, <1>5, <1>9 DEF MarketInv, AuditsInv
<1>12. \A x, y \in exception' : x.audit = y.audit /\ x.entry = y.entry /\ x.type = y.type => x = y
  BY <1>1 DEF MarketInv, AuditsInv
<1>13. \A m \in Audits :
          /\ IsFiniteSet(RowsIn(exception', m))
          /\ audit'[m].status = "none" => RowsIn(exception', m) = {}
          /\ audit'[m].status = "PROCESSING" =>
                m \in broken' \/ \E q \in Clerks : agent'[q].at \in Auditing /\ agent'[q].audit = m
          /\ audit'[m].status = "COMPLETED" => audit'[m].found = Cardinality(RowsIn(exception', m))
  <2>1. agent'[r].at \in Auditing /\ agent'[r].audit = n
    BY <1>3, <1>5 DEF Auditing
  <2>2. \A q \in Clerks : agent[q].at \in Auditing => agent'[q] = agent[q]
    BY <1>4, <1>5 DEF Auditing
  <2>3. exception' = exception /\ broken' = broken
    BY <1>1
  <2>4. ASSUME NEW m \in Audits \ {n}
        PROVE  /\ IsFiniteSet(RowsIn(exception', m))
               /\ audit'[m].status = "none" => RowsIn(exception', m) = {}
               /\ audit'[m].status = "PROCESSING" =>
                     m \in broken' \/ \E q \in Clerks : agent'[q].at \in Auditing /\ agent'[q].audit = m
               /\ audit'[m].status = "COMPLETED" => audit'[m].found = Cardinality(RowsIn(exception', m))
    BY <1>6, <2>2, <2>3 DEF MarketInv, AuditsInv
  <2> QED
    BY <1>6, <1>8, <2>1, <2>4, FS_EmptySet
<1> QED
  <2>1. AuditsInv'
    BY <1>10, <1>11, <1>12, <1>13, Zenon DEF AuditsInv
  <2>2. broken' \subseteq Audits /\ exception' \subseteq [audit: Audits, entry: Entries, type: Wrongs, status: {"OPEN", "RESOLVED", "IGNORED"}]
    BY <1>1 DEF MarketInv, MarketTypeOK
  <2> QED
    BY <1>1, <1>3, <1>4, <1>6, <2>1, <2>2, AuditsMove DEF Auditing

\* What a request finds is finite.
LEMMA FindingsAreFinite ==
    ASSUME entry \in [Entries -> Wrongs \cup {"fine"}]
    PROVE  /\ {<<p, entry[p]>> : p \in {q \in Entries : entry[q] # "fine"}} \in SUBSET (Entries \X Wrongs)
           /\ IsFiniteSet({<<p, entry[p]>> : p \in {q \in Entries : entry[q] # "fine"}})
<1>1. PICK wrong : wrong = {q \in Entries : entry[q] # "fine"}
  OBVIOUS
<1>2. PICK rows : rows = {<<p, entry[p]>> : p \in wrong}
  OBVIOUS
<1>3. wrong \subseteq Entries /\ \A p \in wrong : entry[p] \in Wrongs
  BY <1>1
<1>4. rows \in SUBSET (Entries \X Wrongs)
  BY <1>2, <1>3
<1>5. IsFiniteSet(wrong)
  BY <1>3, MarketAssumption, FS_Subset
<1>6. PICK f : f = [p \in wrong |-> <<p, entry[p]>>]
  OBVIOUS
<1>7. f \in [wrong -> rows]
  BY <1>2, <1>6
<1>8. \A p, q \in wrong : f[p] = f[q] => p = q
  BY <1>6
<1>9. \A t \in rows : \E p \in wrong : f[p] = t
  BY <1>2, <1>6
<1>10. IsFiniteSet(rows)
  BY <1>5, <1>7, <1>8, <1>9, PairedOff
<1> QED
  BY <1>1, <1>2, <1>4, <1>10, Zenon

\* A request goes on with its run, which stays, as do the exceptions of all the others.
LEMMA AuditsGoOn ==
    ASSUME MarketInv, NEW r \in Clerks, NEW new \in Agent, agent' = [agent EXCEPT ![r] = new],
           UNCHANGED <<feature, sessionVars, planVars, tenant, entry, audit, broken>>,
           exception' \subseteq [audit: Audits, entry: Entries, type: Wrongs, status: {"OPEN", "RESOLVED", "IGNORED"}],
           agent[r].at \in Auditing, new.at \in {"exceptions", "complete"}, new.audit = agent[r].audit,
           IsFiniteSet(new.found),
           new.at # "complete" => RowsIn(exception', new.audit) = {},
           new.at = "complete" => Cardinality(new.found) = Cardinality(RowsIn(exception', new.audit)),
           IsFiniteSet(RowsIn(exception', new.audit)),
           \A m \in Audits \ {new.audit} : RowsIn(exception', m) = RowsIn(exception, m),
           \A x, y \in exception' : x.audit = y.audit /\ x.entry = y.entry /\ x.type = y.type => x = y
    PROVE  MarketInv'
<1>1. agent'[r] = new /\ \A q \in Clerks \ {r} : agent'[q] = agent[q]
  BY AgentsTurn DEF MarketInv
<1>2. PICK n \in Audits : n = agent[r].audit
  BY DEF MarketInv, MarketTypeOK, Agent
<1>3. audit[n].status = "PROCESSING"
  BY <1>2 DEF MarketInv, AuditsInv
<1>4. \A q \in Clerks : agent'[q].at \in Auditing <=> agent[q].at \in Auditing
  BY <1>1 DEF Auditing
<1>5. \A q \in Clerks : agent'[q].audit = agent[q].audit
  BY <1>1
<1>6. \A q \in Clerks \ {r} : agent[q].at \in Auditing => agent[q].audit \in Audits \ {n}
  BY <1>2 DEF MarketInv, MarketTypeOK, AuditsInv, Agent
<1>7. ASSUME NEW q \in Clerks, agent'[q].at \in Auditing
      PROVE  /\ audit'[agent'[q].audit].status = "PROCESSING"
             /\ agent'[q].at # "complete" => RowsIn(exception', agent'[q].audit) = {}
             /\ agent'[q].at # "scan" => IsFiniteSet(agent'[q].found)
             /\ agent'[q].at = "complete" => Cardinality(agent'[q].found) = Cardinality(RowsIn(exception', agent'[q].audit))
  <2>1. CASE q = r
    BY <1>1, <1>2, <1>3, <2>1
  <2>2. CASE q # r
    <3>1. agent'[q] = agent[q] /\ agent[q].audit \in Audits \ {n} /\ agent[q].at \in Auditing
      BY <1>1, <1>6, <1>7, <2>2
    <3>2. RowsIn(exception', agent[q].audit) = RowsIn(exception, agent[q].audit)
      BY <1>2, <3>1
    <3> QED
      BY <3>1, <3>2 DEF MarketInv, AuditsInv
  <2> QED
    BY <2>1, <2>2
<1>8. \A q, s \in Clerks : q # s /\ agent'[q].at \in Auditing /\ agent'[s].at \in Auditing => agent'[q].audit # agent'[s].audit
  BY <1>4, <1>5 DEF MarketInv, AuditsInv
<1>9. ASSUME NEW m \in Audits
      PROVE  /\ IsFiniteSet(RowsIn(exception', m))
             /\ audit'[m].status = "none" => RowsIn(exception', m) = {}
             /\ audit'[m].status = "PROCESSING" =>
                   m \in broken' \/ \E q \in Clerks : agent'[q].at \in Auditing /\ agent'[q].audit = m
             /\ audit'[m].status = "COMPLETED" => audit'[m].found = Cardinality(RowsIn(exception', m))
  <2>1. CASE m = n
    BY <1>1, <1>2, <1>3, <1>4, <2>1
  <2>2. CASE m # n
    BY <1>2, <1>4, <1>5, <2>2 DEF MarketInv, AuditsInv
  <2> QED
    BY <2>1, <2>2
<1>10. AuditsInv'
  BY <1>7, <1>8, <1>9, Zenon DEF AuditsInv
<1> QED
  BY <1>10, AuditsMove DEF MarketInv, MarketTypeOK, Auditing

LEMMA ScanKeeps ==
    ASSUME MarketInv, NEW r \in Clerks, Scan(r)
    PROVE  MarketInv'
<1>1. UNCHANGED <<feature, sessionVars, planVars, tenant, bookVars>> /\ agent[r] \in Agent /\ agent[r].at = "scan"
  BY DEF Scan, MarketInv, MarketTypeOK
<1>2. PICK rows : rows = {<<p, entry[p]>> : p \in {q \in Entries : entry[q] # "fine"}}
  OBVIOUS
<1>3. rows \in SUBSET (Entries \X Wrongs) /\ IsFiniteSet(rows)
  BY <1>2, FindingsAreFinite, Zenon DEF MarketInv, MarketTypeOK
<1>4. PICK new : new = [agent[r] EXCEPT !.at = "exceptions", !.found = rows]
  OBVIOUS
<1>5. new \in Agent /\ new.at = "exceptions" /\ new.found = rows /\ new.audit = agent[r].audit
  BY <1>1, <1>3, <1>4 DEF Agent
<1>6. agent' = [agent EXCEPT ![r] = new]
  BY <1>2, <1>4, Zenon DEF Scan, AgentTurns
<1>7. RowsIn(exception, agent[r].audit) = {}
  BY <1>1 DEF MarketInv, AuditsInv, Auditing
<1>8. exception' = exception
  BY <1>1 DEF bookVars
<1>9. exception' \subseteq [audit: Audits, entry: Entries, type: Wrongs, status: {"OPEN", "RESOLVED", "IGNORED"}]
  BY <1>8 DEF MarketInv, MarketTypeOK
<1>10. \A x, y \in exception' : x.audit = y.audit /\ x.entry = y.entry /\ x.type = y.type => x = y
  BY <1>8 DEF MarketInv, AuditsInv
<1> QED
  BY <1>1, <1>3, <1>5, <1>6, <1>7, <1>8, <1>9, <1>10, FS_EmptySet, AuditsGoOn DEF Auditing, bookVars

\* The exception of a wrong of a run.
OpenOf(n, x) == [audit |-> n, entry |-> x[1], type |-> x[2], status |-> "OPEN"]

LEMMA SaveExceptionsKeeps ==
    ASSUME MarketInv, NEW r \in Clerks, SaveExceptions(r)
    PROVE  MarketInv'
<1>1. UNCHANGED <<feature, sessionVars, planVars, tenant, entry, audit, broken>> /\ agent[r] \in Agent /\ agent[r].at = "exceptions"
  BY DEF SaveExceptions, MarketInv, MarketTypeOK
<1>2. PICK n \in Audits, found \in SUBSET (Entries \X Wrongs) : n = agent[r].audit /\ found = agent[r].found
  BY <1>1 DEF Agent
<1>3. RowsIn(exception, n) = {} /\ IsFiniteSet(found)
  BY <1>1, <1>2 DEF MarketInv, AuditsInv, Auditing
<1>4. PICK more : more = {OpenOf(n, x) : x \in found}
  OBVIOUS
<1>5. exception' = exception \cup more
  BY <1>2, <1>4, Zenon DEF SaveExceptions, OpenOf
<1>6. PICK new : new = [agent[r] EXCEPT !.at = "complete"]
  OBVIOUS
<1>7. new \in Agent /\ new.at = "complete" /\ new.audit = n /\ new.found = found
  BY <1>1, <1>2, <1>6 DEF Agent
<1>8. agent' = [agent EXCEPT ![r] = new]
  BY <1>6 DEF SaveExceptions, AgentTurns
<1>9. \A x \in found : /\ OpenOf(n, x) \in [audit: Audits, entry: Entries, type: Wrongs, status: {"OPEN", "RESOLVED", "IGNORED"}]
                       /\ OpenOf(n, x).audit = n /\ OpenOf(n, x).entry = x[1] /\ OpenOf(n, x).type = x[2]
  BY DEF OpenOf
<1>10. \A x, y \in found : x[1] = y[1] /\ x[2] = y[2] => x = y
  BY <1>2
<1>11. RowsIn(exception', n) = more
  BY <1>3, <1>4, <1>5, <1>9 DEF RowsIn
<1>12. IsFiniteSet(more) /\ Cardinality(more) = Cardinality(found)
  <2>1. PICK f : f = [x \in found |-> OpenOf(n, x)]
    OBVIOUS
  <2>2. f \in [found -> more]
    BY <1>4, <2>1
  <2>3. \A x, y \in found : f[x] = f[y] => x = y
    BY <1>9, <1>10, <2>1
  <2>4. \A t \in more : \E x \in found : f[x] = t
    BY <1>4, <2>1
  <2> QED
    BY <1>3, <2>2, <2>3, <2>4, PairedOff
<1>13. \A m \in Audits \ {n} : RowsIn(exception', m) = RowsIn(exception, m)
  BY <1>4, <1>5, <1>9 DEF RowsIn
<1>14. \A x, y \in exception' : x.audit = y.audit /\ x.entry = y.entry /\ x.type = y.type => x = y
  <2>1. \A x \in exception : x.audit # n
    BY <1>3 DEF RowsIn
  <2>2. \A x \in more : x.audit = n
    BY <1>4, <1>9
  <2>3. \A x, y \in more : x.entry = y.entry /\ x.type = y.type => x = y
    BY <1>4, <1>9, <1>10
  <2>4. \A x, y \in exception : x.audit = y.audit /\ x.entry = y.entry /\ x.type = y.type => x = y
    BY DEF MarketInv, AuditsInv
  <2> QED
    BY <1>5, <2>1, <2>2, <2>3, <2>4
<1>15. exception' \subseteq [audit: Audits, entry: Entries, type: Wrongs, status: {"OPEN", "RESOLVED", "IGNORED"}]
  BY <1>4, <1>5, <1>9 DEF MarketInv, MarketTypeOK
<1> QED
  BY <1>1, <1>2, <1>3, <1>7, <1>8, <1>11, <1>12, <1>13, <1>14, <1>15, AuditsGoOn DEF Auditing

\* A request is through with its run, or cut off.
LEMMA AuditsEnd ==
    ASSUME MarketInv, NEW r \in Clerks, CompleteAudit(r) \/ AuditThrows(r)
    PROVE  MarketInv'
<1>1. /\ UNCHANGED <<feature, sessionVars, planVars, tenant, entry, exception>> /\ agent[r] \in Agent /\ agent[r].at \in Auditing
      /\ agent' = [agent EXCEPT ![r] = NoAgent]
  BY DEF CompleteAudit, AuditThrows, Ends, AgentTurns, MarketInv, MarketTypeOK, Auditing
<1>2. PICK n \in Audits : n = agent[r].audit
  BY <1>1 DEF Agent
<1>3. agent'[r] = NoAgent /\ \A q \in Clerks \ {r} : agent'[q] = agent[q]
  BY <1>1, NoOneSetsUp, AgentsTurn DEF MarketInv
<1>4. /\ audit' \in [Audits -> AuditRow] /\ broken' \subseteq Audits /\ broken \subseteq broken'
      /\ \A m \in Audits \ {n} : audit'[m] = audit[m]
      /\ \/ audit'[n].status = "PROCESSING" /\ n \in broken'
         \/ audit'[n].status = "COMPLETED" /\ audit'[n].found = Cardinality(RowsIn(exception, n))
  <2>1. CASE CompleteAudit(r)
    <3>1. agent[r].at = "complete"
      BY <2>1 DEF CompleteAudit
    <3>2. PICK size : size = Cardinality(agent[r].found)
      OBVIOUS
    <3>3. size \in Nat
      BY <1>1, <3>1, <3>2, FS_CardinalityType DEF MarketInv, AuditsInv
    <3>4. size = Cardinality(RowsIn(exception, n))
      BY <1>1, <1>2, <3>1, <3>2 DEF MarketInv, AuditsInv
    <3>5. audit' = [audit EXCEPT ![n] = [status |-> "COMPLETED", found |-> size]] /\ broken' = broken
      BY <1>2, <2>1, <3>2 DEF CompleteAudit
    <3>6. [status |-> "COMPLETED", found |-> size] \in AuditRow
      BY <3>3 DEF AuditRow
    <3> QED
      BY <3>4, <3>5, <3>6 DEF MarketInv, MarketTypeOK
  <2>2. CASE AuditThrows(r)
    BY <1>1, <1>2, <2>2 DEF AuditThrows, MarketInv, MarketTypeOK, AuditsInv
  <2> QED
    BY <2>1, <2>2
<1>5. \A q \in Clerks : agent'[q].at \in Auditing => agent'[q] = agent[q] /\ agent[q].audit \in Audits \ {n}
  BY <1>1, <1>2, <1>3, NoOneSetsUp DEF MarketInv, MarketTypeOK, AuditsInv, Agent, Auditing
<1>6. exception' = exception
  BY <1>1
<1>7. ASSUME NEW q \in Clerks, agent'[q].at \in Auditing
      PROVE  /\ audit'[agent'[q].audit].status = "PROCESSING"
             /\ agent'[q].at # "complete" => RowsIn(exception', agent'[q].audit) = {}
             /\ agent'[q].at # "scan" => IsFiniteSet(agent'[q].found)
             /\ agent'[q].at = "complete" => Cardinality(agent'[q].found) = Cardinality(RowsIn(exception', agent'[q].audit))
  BY <1>4, <1>5, <1>6, <1>7 DEF MarketInv, AuditsInv
<1>8. \A q, s \in Clerks : q # s /\ agent'[q].at \in Auditing /\ agent'[s].at \in Auditing => agent'[q].audit # agent'[s].audit
  BY <1>5 DEF MarketInv, AuditsInv
<1>9. \A x, y \in exception' : x.audit = y.audit /\ x.entry = y.entry /\ x.type = y.type => x = y
  BY <1>6 DEF MarketInv, AuditsInv
<1>10. ASSUME NEW m \in Audits
       PROVE  /\ IsFiniteSet(RowsIn(exception', m))
              /\ audit'[m].status = "none" => RowsIn(exception', m) = {}
              /\ audit'[m].status = "PROCESSING" =>
                    m \in broken' \/ \E q \in Clerks : agent'[q].at \in Auditing /\ agent'[q].audit = m
              /\ audit'[m].status = "COMPLETED" => audit'[m].found = Cardinality(RowsIn(exception', m))
  <2>1. CASE m = n
    BY <1>4, <1>6, <2>1 DEF MarketInv, AuditsInv
  <2>2. CASE m # n
    <3>1. audit'[m] = audit[m]
      BY <1>4, <2>2
    <3>2. ASSUME audit[m].status = "PROCESSING", m \notin broken
          PROVE  \E q \in Clerks : agent'[q].at \in Auditing /\ agent'[q].audit = m
      <4>1. PICK q \in Clerks : agent[q].at \in Auditing /\ agent[q].audit = m
        BY <3>2 DEF MarketInv, AuditsInv
      <4>2. q # r
        BY <1>2, <2>2, <4>1
      <4> QED
        BY <1>3, <4>1, <4>2
    <3> QED
      BY <1>4, <1>6, <3>1, <3>2 DEF MarketInv, AuditsInv
  <2> QED
    BY <2>1, <2>2
<1>11. AuditsInv'
  BY <1>7, <1>8, <1>9, <1>10, Zenon DEF AuditsInv
<1>12. exception' \subseteq [audit: Audits, entry: Entries, type: Wrongs, status: {"OPEN", "RESOLVED", "IGNORED"}]
  BY <1>6 DEF MarketInv, MarketTypeOK
<1> QED
  BY <1>1, <1>4, <1>11, <1>12, NoOneSetsUp, AuditsMove

\* An exception gets another status.
LEMMA ExceptionsMove ==
    ASSUME MarketInv, NEW x \in exception, NEW status \in {"OPEN", "RESOLVED", "IGNORED"}, UpdateException(x, status)
    PROVE  MarketInv'
<1>1. UNCHANGED <<feature, sessionVars, planVars, tenant, entry, audit, broken, agent>>
  BY DEF UpdateException
<1>2. PICK y : y = [x EXCEPT !.status = status]
  OBVIOUS
<1>3. x \in [audit: Audits, entry: Entries, type: Wrongs, status: {"OPEN", "RESOLVED", "IGNORED"}]
  BY DEF MarketInv, MarketTypeOK
<1>4. /\ y \in [audit: Audits, entry: Entries, type: Wrongs, status: {"OPEN", "RESOLVED", "IGNORED"}]
      /\ y.audit = x.audit /\ y.entry = x.entry /\ y.type = x.type
  BY <1>2, <1>3
<1>5. exception' = (exception \ {x}) \cup {y}
  BY <1>2 DEF UpdateException
<1>6. exception' \subseteq [audit: Audits, entry: Entries, type: Wrongs, status: {"OPEN", "RESOLVED", "IGNORED"}]
  BY <1>4, <1>5 DEF MarketInv, MarketTypeOK
<1>7. MarketTypeOK'
  BY <1>1, <1>6 DEF MarketInv, MarketTypeOK, sessionVars, planVars
<1>8. \A u, v \in exception : u.audit = v.audit /\ u.entry = v.entry /\ u.type = v.type => u = v
  BY DEF MarketInv, AuditsInv
<1>9. \A u, v \in exception' : u.audit = v.audit /\ u.entry = v.entry /\ u.type = v.type => u = v
  BY <1>4, <1>5, <1>8
<1>10. ASSUME NEW m \in Audits
       PROVE  /\ IsFiniteSet(RowsIn(exception', m)) /\ Cardinality(RowsIn(exception', m)) = Cardinality(RowsIn(exception, m))
              /\ RowsIn(exception, m) = {} => RowsIn(exception', m) = {}
  <2>1. PICK old, now : old = RowsIn(exception, m) /\ now = RowsIn(exception', m)
    OBVIOUS
  <2>2. IsFiniteSet(old)
    BY <2>1 DEF MarketInv, AuditsInv
  <2>3. CASE x.audit # m
    <3>1. now = old
      BY <1>4, <1>5, <2>1, <2>3 DEF RowsIn
    <3> QED
      BY <2>1, <2>2, <3>1
  <2>4. CASE x.audit = m
    <3>1. x \in old /\ now = (old \ {x}) \cup {y}
      BY <1>4, <1>5, <2>1, <2>4 DEF RowsIn
    <3>2. \A z \in old : z # x => z # y
      BY <1>4, <1>8, <2>1 DEF RowsIn
    <3>3. PICK f : f = [z \in old |-> IF z = x THEN y ELSE z]
      OBVIOUS
    <3>4. f \in [old -> now]
      BY <3>1, <3>3
    <3>5. \A u, v \in old : f[u] = f[v] => u = v
      BY <3>2, <3>3
    <3>6. \A t \in now : \E z \in old : f[z] = t
      BY <3>1, <3>3
    <3> QED
      BY <2>1, <2>2, <3>1, <3>4, <3>5, <3>6, PairedOff
  <2> QED
    BY <2>3, <2>4
<1>11. AuditsInv'
  <2>1. ASSUME NEW q \in Clerks, agent'[q].at \in Auditing
        PROVE  /\ audit'[agent'[q].audit].status = "PROCESSING"
               /\ agent'[q].at # "complete" => RowsIn(exception', agent'[q].audit) = {}
               /\ agent'[q].at # "scan" => IsFiniteSet(agent'[q].found)
               /\ agent'[q].at = "complete" => Cardinality(agent'[q].found) = Cardinality(RowsIn(exception', agent'[q].audit))
    <3>1. PICK m \in Audits : m = agent[q].audit
      BY DEF MarketInv, MarketTypeOK, Agent
    <3> QED
      BY <1>1, <1>10, <2>1, <3>1 DEF MarketInv, AuditsInv
  <2>2. \A q, s \in Clerks : q # s /\ agent'[q].at \in Auditing /\ agent'[s].at \in Auditing => agent'[q].audit # agent'[s].audit
    BY <1>1 DEF MarketInv, AuditsInv
  <2>3. ASSUME NEW m \in Audits
        PROVE  /\ IsFiniteSet(RowsIn(exception', m))
               /\ audit'[m].status = "none" => RowsIn(exception', m) = {}
               /\ audit'[m].status = "PROCESSING" =>
                     m \in broken' \/ \E q \in Clerks : agent'[q].at \in Auditing /\ agent'[q].audit = m
               /\ audit'[m].status = "COMPLETED" => audit'[m].found = Cardinality(RowsIn(exception', m))
    BY <1>1, <1>10 DEF MarketInv, AuditsInv
  <2> QED
    BY <1>9, <2>1, <2>2, <2>3, Zenon DEF AuditsInv
<1>12. SessionsInv' /\ PlansInv'
  BY <1>1, SessionsAside, PlansAside DEF MarketInv
<1> QED
  BY <1>7, <1>11, <1>12 DEF MarketInv

\* The process dies: lists are cut off, and runs.
LEMMA AgentsMayDie ==
    ASSUME MarketInv, AgentsDie
    PROVE  MarketInv'
<1>1. UNCHANGED <<feature, session, plan, items, account, tenant, entry, audit, exception, listed, due, late, once, torn>>
  BY DEF AgentsDie
<1>2. agent' = [r \in Clerks |-> NoAgent]
  BY DEF AgentsDie
<1>3. \A r \in Clerks : agent'[r].at = "idle"
  BY <1>2, NoOneSetsUp
<1>4. mixed' = mixed \cup {agent[r].plan : r \in {r \in Clerks : agent[r].at \in {"insert"}}}
  BY DEF AgentsDie
<1>5. broken' = broken \cup {agent[r].audit : r \in {r \in Clerks : agent[r].at \in Auditing}}
  BY DEF AgentsDie, Auditing
<1>6. \A p \in Plans : p \in mixed' <=> p \in mixed \/ Inserting(p)
  BY <1>4 DEF Inserting
<1>7. \A n \in Audits : n \in broken' <=> n \in broken \/ \E r \in Clerks : agent[r].at \in Auditing /\ agent[r].audit = n
  BY <1>5
<1>8. mixed' \subseteq Plans /\ broken' \subseteq Audits
  BY <1>4, <1>5 DEF MarketInv, MarketTypeOK, Agent
<1>9. MarketTypeOK'
  BY <1>1, <1>2, <1>8, NoOneSetsUp DEF MarketInv, MarketTypeOK
<1>10. SessionsInv'
  BY <1>1, <1>3, SessionsAside DEF MarketInv, sessionVars
<1>11. PlansInv'
  <2>1. \A p \in Plans : ~Inserting(p)'
    BY <1>3 DEF Inserting
  <2>2. \A p \in Plans \ mixed' : items'[p] = OnceEach(listed'[p])
    BY <1>1, <1>6 DEF MarketInv, PlansInv
  <2>3. \A p \in Plans : plan'[p] = 0 => p \notin mixed' /\ listed'[p] = {}
    BY <1>1, <1>6 DEF MarketInv, PlansInv, Inserting, Planning
  <2>4. AccountsAreOwed'
    BY <1>1 DEF MarketInv, PlansInv, AccountsAreOwed
  <2> QED
    BY <1>3, <2>1, <2>2, <2>3, <2>4 DEF PlansInv, Planning
<1>12. AuditsInv'
  <2>1. ASSUME NEW n \in Audits
        PROVE  /\ IsFiniteSet(RowsIn(exception', n))
               /\ audit'[n].status = "none" => RowsIn(exception', n) = {}
               /\ audit'[n].status = "PROCESSING" => n \in broken'
               /\ audit'[n].status = "COMPLETED" => audit'[n].found = Cardinality(RowsIn(exception', n))
    BY <1>1, <1>7 DEF MarketInv, AuditsInv
  <2>2. \A x, y \in exception' : x.audit = y.audit /\ x.entry = y.entry /\ x.type = y.type => x = y
    BY <1>1 DEF MarketInv, AuditsInv
  <2> QED
    BY <1>3, <2>1, <2>2 DEF AuditsInv, Auditing
<1> QED
  BY <1>9, <1>10, <1>11, <1>12 DEF MarketInv

\* Nothing of the books moves.
LEMMA MarketIsStill == ASSUME MarketInv, UNCHANGED marketVars PROVE MarketInv'
<1>1. UNCHANGED <<feature, sessionVars, planVars, tenant, bookVars, agent>>
  BY DEF marketVars, sessionVars, planVars, bookVars
<1>2. MarketTypeOK'
  BY DEF MarketInv, MarketTypeOK, marketVars
<1> QED
  BY <1>1, <1>2, SessionsAside, PlansAside, AuditsAside DEF MarketInv, bookVars

LEMMA MarketStays == ASSUME MarketInv, MarketNext \/ AgentsDie \/ UNCHANGED marketVars PROVE MarketInv'
<1>1. ASSUME NEW r \in Clerks, AskSetup(r) PROVE MarketInv'
  BY <1>1, FlagsMove, SessionsAreRead, TenantsMove DEF AskSetup
<1>2. ASSUME NEW r \in Clerks, AskPlans(r) PROVE MarketInv'
  BY <1>2, CreatePlanKeeps, AskPlanKeeps, AskAssignKeeps DEF AskPlans
<1>3. ASSUME NEW r \in Clerks, SetupStep(r) PROVE MarketInv'
  BY <1>3, FlagsMove, SessionsAreSaved, TenantsMove DEF SetupStep
<1>4. ASSUME NEW r \in Clerks, PlanStep(r) PROVE MarketInv'
  BY <1>4, SavePlanKeeps, DeleteItemsKeeps, InsertKeeps, ReadAccountsKeeps, OpenAccountsKeeps DEF PlanStep
<1>5. ASSUME NEW r \in Clerks, AuditStep(r) PROVE MarketInv'
  BY <1>5, ScanKeeps, SaveExceptionsKeeps, AuditsEnd DEF AuditStep
<1>6. CASE MarketNext
  BY <1>1, <1>2, <1>3, <1>4, <1>5, <1>6, SessionsCome, EntriesMove, ExceptionsMove, AskAuditKeeps DEF MarketNext
<1> QED
  BY <1>6, AgentsMayDie, MarketIsStill

LEMMA MarketInvHolds == MarketInv => BooksHold
<1> SUFFICES ASSUME MarketInv PROVE BooksHold
  OBVIOUS
<1>1. ItemsAreOneList
  <2>1. ASSUME NEW p \in Plans \ mixed, ~(\E r \in Listing(p) : agent[r].at = "insert")
        PROVE  items[p] = [x \in Parts |-> IF x \in listed[p] THEN 1 ELSE 0]
    <3>1. ~Inserting(p)
      BY <2>1 DEF Inserting, Listing
    <3> QED
      BY <3>1 DEF MarketInv, PlansInv, OnceEach
  <2> QED
    BY <2>1 DEF ItemsAreOneList
<1>2. AccountsAreOwed /\ SessionsAreDated
  BY DEF MarketInv, PlansInv, SessionsInv
<1>3. AuditsAddUp
  <2>1. ASSUME NEW n \in Audits
        PROVE  \/ audit[n].status = "COMPLETED" /\ audit[n].found = Cardinality(RowsIn(exception, n))
               \/ audit[n].status = "none" /\ RowsIn(exception, n) = {}
               \/ audit[n].status = "PROCESSING" /\ (n \in broken \/ \E r \in Clerks : agent[r].at # "idle" /\ agent[r].audit = n)
    <3>1. audit[n].status \in {"none", "PROCESSING", "COMPLETED"}
      BY DEF MarketInv, MarketTypeOK, AuditRow
    <3>2. audit[n].status = "PROCESSING" => n \in broken \/ \E r \in Clerks : agent[r].at # "idle" /\ agent[r].audit = n
      BY DEF MarketInv, AuditsInv, Auditing
    <3> QED
      BY <3>1, <3>2 DEF MarketInv, AuditsInv
  <2> QED
    BY <2>1, Zenon DEF AuditsAddUp, RowsIn
<1> QED
  BY <1>1, <1>2, <1>3 DEF BooksHold

-----------------------------------------------------------------------------
(* Templates and imports. *)

MarkedIn(rows) == {t \in Templates : rows[t].here /\ rows[t].is_default}
Named(d) == IF d = NoTemplate THEN {} ELSE {d}

Marking == {"unset", "point", "clear", "save"}

\* Where the mark and the organization's reference are, while one operation is under way.
Underway(c, marks, d) ==
    /\ c.at = "unset" => marks = Named(d) /\ c.row.is_default
    /\ c.at = "point" => IF c.new THEN marks = {c.template} ELSE marks = {} /\ c.row.is_default
    /\ c.at = "clear" => marks = Named(d) /\ marks = {c.template} /\ ~c.row.is_default
    /\ c.at = "save" =>
          \/ marks = Named(d) /\ (c.template \in marks <=> c.row.is_default)
          \/ marks = {} /\ c.row.is_default /\ (c.new \/ d = c.template)
          \/ marks = {c.template} /\ ~c.row.is_default /\ d = NoTemplate
    /\ c.at \in {"count", "delete"} => marks = Named(d) /\ c.template \notin marks

TemplatesInv ==
    /\ \A t \in Templates : ~template[t].here => ~template[t].is_default
    /\ \A r \in Clerks :
          /\ clerk[r].at \in Editing => clerk[r].template \in Templates
          /\ clerk[r].at \in Marking => clerk[r].row.here
    /\ ~upset =>
          /\ \A q, r \in Clerks : clerk[q].at \in Editing /\ clerk[r].at \in Editing => q = r
          /\ Quiet => MarkedIn(template) = Named(default)
          /\ \A r \in Clerks : Underway(clerk[r], MarkedIn(template), default)

Validation == {"resolve", "check", "job", "reread", "apply"}
Asked(rows, t) == IF t = NoTemplate THEN "name" ELSE rows[t].config
Gone(rows, t) == t # NoTemplate /\ ~rows[t].here

\* What a validation has read of its template is still so, unless it was written meanwhile.
Checks(c, rows, jobs, seen, applied, over) ==
    /\ c.at \in {"resolve", "check", "job"} => jobs[c.job].status = "none"
    /\ c.at = "job" => c.copy.status \in {"VALIDATED", "FAILED"}
    /\ c.at \in {"reread", "apply"} => jobs[c.job].status # "none" /\ applied[c.job] = NoApplication
    /\ c.job \in over \/
          /\ c.at \in {"check", "job", "reread", "apply"} => ~Gone(rows, c.template)
          /\ c.at \in {"check", "job", "reread"} => c.config = Asked(rows, c.template)
          /\ c.at \in {"reread", "apply"} => c.config = seen[c.job]

SnapshotsInv ==
    /\ \A r \in Clerks : Checks(clerk[r], template, job, checked, application, moved)
    /\ \A q, r \in Clerks : clerk[q].at \in Validation /\ clerk[r].at \in Validation /\ clerk[q].job = clerk[r].job => q = r
    /\ \A j \in Jobs : job[j].status = "none" => application[j] = NoApplication /\ checked[j] = "none"
    /\ \A j \in Jobs :
          \/ j \in moved \/ application[j].snapshot = checked[j]
          \/ application[j] = NoApplication /\ \E r \in Clerks : clerk[r].job = j /\ clerk[r].at \in {"reread", "apply"}

Commits(c) == c.at \in {"exist", "insert", "complete", "failed"} /\ ~c.new

CommitsInv ==
    /\ \A r \in Clerks :
          /\ clerk[r].at \in {"complete", "failed"} => ~clerk[r].new
          /\ Commits(clerk[r]) => job[clerk[r].job].status # "none"
          /\ Commits(clerk[r]) /\ clerk[r].job \notin cut =>
                /\ job[clerk[r].job].status = "VALIDATED"
                /\ made[clerk[r].job] = IF clerk[r].at = "complete" THEN 1 ELSE 0
                /\ \A q \in Clerks : Commits(clerk[q]) /\ clerk[q].job = clerk[r].job => q = r
    /\ \A j \in Jobs \ cut :
          \/ \E r \in Clerks : Commits(clerk[r]) /\ clerk[r].job = j
          \/ job[j].status = "COMPLETED" /\ made[j] = 1
          \/ job[j].status # "COMPLETED" /\ made[j] = 0

ImportsInv == ImportsTypeOK /\ TemplatesInv /\ SnapshotsInv /\ CommitsInv

\* The request there is none of.
LEMMA NoOneImports ==
    /\ NoClerk \in Clerk /\ NoClerk.at = "idle" /\ ~NoClerk.new
    /\ NoRow \in TemplateRow /\ ~NoRow.here /\ ~NoRow.is_default /\ NoJob \in JobRow /\ NoJob.status = "none"
<1>1. PICK n \in Names : n = (CHOOSE x \in Names : TRUE)
  BY ImportsAssumption, Zenon
<1>2. PICK p \in Payloads : p = (CHOOSE x \in Payloads : TRUE)
  BY ImportsAssumption, Zenon
<1>3. NoRow = [here |-> FALSE, name |-> n, is_default |-> FALSE, config |-> "name"]
  BY <1>1, Zenon DEF NoRow
<1>4. NoJob = [status |-> "none", template |-> NoTemplate, payload |-> p]
  BY <1>2, Zenon DEF NoJob
<1>5. NoRow \in TemplateRow /\ ~NoRow.here /\ ~NoRow.is_default
  BY <1>3 DEF TemplateRow, Configs
<1>6. NoJob \in JobRow /\ NoJob.status = "none"
  BY <1>4 DEF JobRow
<1>7. 1 \in Jobs
  BY ImportsAssumption DEF Jobs
<1>8. NoClerk \in Clerk /\ NoClerk.at = "idle" /\ ~NoClerk.new
  BY <1>5, <1>6, <1>7 DEF NoClerk, Clerk, Places, Configs
<1> QED
  BY <1>5, <1>6, <1>8

\* A request turns.
LEMMA ClerksTurn ==
    ASSUME ImportsTypeOK, NEW r \in Clerks, NEW new \in Clerk, clerk' = [clerk EXCEPT ![r] = new]
    PROVE  /\ clerk' \in [Clerks -> Clerk] /\ clerk'[r] = new /\ \A q \in Clerks \ {r} : clerk'[q] = clerk[q]
           /\ clerk[r] \in Clerk /\ \A q \in Clerks : clerk[q] \in Clerk
BY DEF ImportsTypeOK

\* Steps that leave the templates, the validations or the commits alone.
LEMMA TemplatesAside ==
    ASSUME ImportsInv, NEW r \in Clerks, NEW new \in Clerk, clerk' = [clerk EXCEPT ![r] = new],
           UNCHANGED templateVars, clerk[r].at \notin Editing, new.at \notin Editing
    PROVE  TemplatesInv'
<1>1. clerk'[r] = new /\ \A q \in Clerks \ {r} : clerk'[q] = clerk[q]
  BY ClerksTurn DEF ImportsInv
<1>2. template' = template /\ default' = default /\ upset' = upset
  BY DEF templateVars
<1>3. \A q \in Clerks : clerk'[q].at \in Editing <=> clerk[q].at \in Editing
  BY <1>1
<1>4. \A q \in Clerks : clerk'[q].at \in Editing => clerk'[q] = clerk[q]
  BY <1>1
<1>5. Quiet' <=> Quiet
  BY <1>3 DEF Quiet
<1>6. \A t \in Templates : ~template'[t].here => ~template'[t].is_default
  BY <1>2 DEF ImportsInv, TemplatesInv
<1>7. \A q \in Clerks : /\ clerk'[q].at \in Editing => clerk'[q].template \in Templates
                        /\ clerk'[q].at \in Marking => clerk'[q].row.here
  BY <1>4 DEF ImportsInv, TemplatesInv, Marking, Editing
<1>8. ASSUME ~upset
      PROVE  /\ \A q, s \in Clerks : clerk'[q].at \in Editing /\ clerk'[s].at \in Editing => q = s
             /\ Quiet' => MarkedIn(template') = Named(default')
             /\ \A q \in Clerks : Underway(clerk'[q], MarkedIn(template'), default')
  <2>1. \A q \in Clerks : clerk'[q].at \notin Editing => Underway(clerk'[q], MarkedIn(template'), default')
    BY DEF Underway, Editing
  <2>2. \A q \in Clerks : clerk'[q].at \in Editing => Underway(clerk'[q], MarkedIn(template'), default')
    BY <1>2, <1>4, <1>8 DEF ImportsInv, TemplatesInv
  <2> QED
    BY <1>2, <1>3, <1>5, <1>8, <2>1, <2>2 DEF ImportsInv, TemplatesInv
<1> QED
  BY <1>2, <1>6, <1>7, <1>8, Zenon DEF TemplatesInv, MarkedIn

LEMMA SnapshotsAside ==
    ASSUME ImportsInv, NEW r \in Clerks, NEW new \in Clerk, clerk' = [clerk EXCEPT ![r] = new],
           \A t \in Templates : template'[t].here = template[t].here /\ template'[t].config = template[t].config,
           \A j \in Jobs : job'[j].status = "none" <=> job[j].status = "none",
           UNCHANGED <<application, checked, moved>>, clerk[r].at \notin Validation, new.at \notin Validation
    PROVE  SnapshotsInv'
<1>1. clerk'[r] = new /\ \A q \in Clerks \ {r} : clerk'[q] = clerk[q]
  BY ClerksTurn DEF ImportsInv
<1>2. \A q \in Clerks : clerk[q].job \in Jobs /\ clerk[q].template \in Templates \cup {NoTemplate}
  BY DEF ImportsInv, ImportsTypeOK, Clerk
<1>3. application' = application /\ checked' = checked /\ moved' = moved
  OBVIOUS
<1>4. \A t \in Templates \cup {NoTemplate} : Gone(template', t) = Gone(template, t) /\ Asked(template', t) = Asked(template, t)
  BY DEF Gone, Asked
<1>5. \A q \in Clerks : Checks(clerk'[q], template', job', checked', application', moved')
  <2>1. Checks(new, template', job', checked', application', moved')
    BY DEF Checks, Validation
  <2>2. ASSUME NEW q \in Clerks PROVE Checks(clerk[q], template', job', checked', application', moved')
    <3>1. Checks(clerk[q], template, job, checked, application, moved)
      BY DEF ImportsInv, SnapshotsInv
    <3> QED
      BY <1>2, <1>3, <1>4, <3>1 DEF Checks
  <2> QED
    BY <1>1, <2>1, <2>2
<1>6. \A q, s \in Clerks : clerk'[q].at \in Validation /\ clerk'[s].at \in Validation /\ clerk'[q].job = clerk'[s].job => q = s
  BY <1>1 DEF ImportsInv, SnapshotsInv
<1>7. \A j \in Jobs : job'[j].status = "none" => application'[j] = NoApplication /\ checked'[j] = "none"
  BY <1>3 DEF ImportsInv, SnapshotsInv
<1>8. \A q \in Clerks : clerk[q].at \in {"reread", "apply"} => clerk'[q] = clerk[q]
  BY <1>1 DEF Validation
<1>9. \A j \in Jobs :
          \/ j \in moved' \/ application'[j].snapshot = checked'[j]
          \/ application'[j] = NoApplication /\ \E q \in Clerks : clerk'[q].job = j /\ clerk'[q].at \in {"reread", "apply"}
  BY <1>3, <1>8 DEF ImportsInv, SnapshotsInv
<1> QED
  BY <1>5, <1>6, <1>7, <1>9, Zenon DEF SnapshotsInv, NoApplication

LEMMA CommitsAside ==
    ASSUME ImportsInv, NEW r \in Clerks, NEW new \in Clerk, clerk' = [clerk EXCEPT ![r] = new],
           \A j \in Jobs : job'[j].status = job[j].status, UNCHANGED <<made, cut>>,
           ~Commits(clerk[r]), ~Commits(new), new.at \notin {"complete", "failed"}
    PROVE  CommitsInv'
<1>1. clerk'[r] = new /\ \A q \in Clerks \ {r} : clerk'[q] = clerk[q]
  BY ClerksTurn DEF ImportsInv
<1>2. \A q \in Clerks : clerk[q].job \in Jobs
  BY DEF ImportsInv, ImportsTypeOK, Clerk
<1>3. \A q \in Clerks : Commits(clerk'[q]) <=> Commits(clerk[q])
  BY <1>1
<1>4. \A q \in Clerks : Commits(clerk'[q]) => clerk'[q] = clerk[q]
  BY <1>1
<1>5. \A q \in Clerks : clerk'[q].at \in {"complete", "failed"} => ~clerk'[q].new
  BY <1>1 DEF ImportsInv, CommitsInv
<1>6. \A q \in Clerks : Commits(clerk'[q]) => job'[clerk'[q].job].status # "none"
  BY <1>2, <1>3, <1>4 DEF ImportsInv, CommitsInv
<1>7. ASSUME NEW q \in Clerks, Commits(clerk'[q]), clerk'[q].job \notin cut'
      PROVE  /\ job'[clerk'[q].job].status = "VALIDATED"
             /\ made'[clerk'[q].job] = IF clerk'[q].at = "complete" THEN 1 ELSE 0
             /\ \A s \in Clerks : Commits(clerk'[s]) /\ clerk'[s].job = clerk'[q].job => s = q
  BY <1>2, <1>3, <1>4, <1>7 DEF ImportsInv, CommitsInv
<1>8. ASSUME NEW j \in Jobs, j \notin cut'
      PROVE  \/ \E q \in Clerks : Commits(clerk'[q]) /\ clerk'[q].job = j
             \/ job'[j].status = "COMPLETED" /\ made'[j] = 1
             \/ job'[j].status # "COMPLETED" /\ made'[j] = 0
  BY <1>3, <1>4, <1>8 DEF ImportsInv, CommitsInv
<1> QED
  BY <1>5, <1>6, <1>7, <1>8, Zenon DEF CommitsInv, Commits

\* Nothing was imported yet, and no template is the default.
LEMMA ImportsStart == ImportsInit => ImportsInv
<1> SUFFICES ASSUME ImportsInit PROVE ImportsInv
  OBVIOUS
<1>1. NoApplication \in [template: Templates \cup {NoTemplate}, snapshot: Configs \cup {"none"}] /\ NoApplication.snapshot = "none"
  BY DEF NoApplication
<1>2. \A t \in Templates : template[t] \in TemplateRow /\ ~template[t].is_default
  <2>1. ASSUME NEW t \in Templates PROVE template[t] \in TemplateRow /\ ~template[t].is_default
    <3>1. template[t] = NoRow \/ template[t] \in [here: {TRUE}, name: Names, is_default: {FALSE}, config: {"name"}]
      BY DEF ImportsInit
    <3> QED
      BY <3>1, NoOneImports DEF TemplateRow, Configs
  <2> QED
    BY <2>1
<1>3. template \in [Templates -> TemplateRow]
  <2>1. template \in [Templates -> {NoRow} \cup [here: {TRUE}, name: Names, is_default: {FALSE}, config: {"name"}]]
    BY DEF ImportsInit
  <2> QED
    BY <1>2, <2>1
<1>4. ImportsTypeOK
  BY <1>1, <1>3, NoOneImports DEF ImportsInit, ImportsTypeOK
<1>5. \A r \in Clerks : clerk[r].at = "idle" /\ ~clerk[r].new
  BY NoOneImports DEF ImportsInit
<1>6. TemplatesInv
  <2>1. MarkedIn(template) = {} /\ Named(default) = {}
    BY <1>2 DEF ImportsInit, MarkedIn, Named
  <2> QED
    BY <1>2, <1>5, <2>1 DEF TemplatesInv, Underway, Editing, Marking
<1>7. SnapshotsInv
  BY <1>1, <1>5, NoOneImports DEF ImportsInit, SnapshotsInv, Checks, Validation
<1>8. CommitsInv
  BY <1>5, NoOneImports DEF ImportsInit, CommitsInv, Commits
<1> QED
  BY <1>4, <1>6, <1>7, <1>8 DEF ImportsInv

\* An operation on templates takes a step: what must be true of it afterwards.
LEMMA TemplatesMove ==
    ASSUME ImportsInv, NEW r \in Clerks, NEW new \in Clerk, clerk' = [clerk EXCEPT ![r] = new],
           upset' \in BOOLEAN, upset => upset',
           \A t \in Templates : ~template'[t].here => ~template'[t].is_default,
           new.at \in Editing => new.template \in Templates, new.at \in Marking => new.row.here,
           ~upset' =>
              /\ \A q \in Clerks \ {r} : clerk[q].at \notin Editing
              /\ new.at \notin Editing => MarkedIn(template') = Named(default')
              /\ Underway(new, MarkedIn(template'), default')
    PROVE  TemplatesInv'
<1>1. clerk'[r] = new /\ \A q \in Clerks \ {r} : clerk'[q] = clerk[q]
  BY ClerksTurn DEF ImportsInv
<1>2. \A q \in Clerks : /\ clerk'[q].at \in Editing => clerk'[q].template \in Templates
                        /\ clerk'[q].at \in Marking => clerk'[q].row.here
  BY <1>1 DEF ImportsInv, TemplatesInv
<1>3. ASSUME ~upset'
      PROVE  /\ \A q, s \in Clerks : clerk'[q].at \in Editing /\ clerk'[s].at \in Editing => q = s
             /\ Quiet' => MarkedIn(template') = Named(default')
             /\ \A q \in Clerks : Underway(clerk'[q], MarkedIn(template'), default')
  <2>1. \A q \in Clerks : clerk'[q].at \notin Editing => Underway(clerk'[q], MarkedIn(template'), default')
    BY DEF Underway, Editing
  <2>2. Quiet' => new.at \notin Editing
    BY <1>1 DEF Quiet
  <2> QED
    BY <1>1, <1>3, <2>1, <2>2
<1> QED
  BY <1>2, <1>3, Zenon DEF TemplatesInv, MarkedIn

\* A step of an operation on templates that writes no template's contents.
LEMMA MarksMove ==
    ASSUME ImportsInv, NEW r \in Clerks, NEW new \in Clerk, clerk' = [clerk EXCEPT ![r] = new],
           UNCHANGED jobVars, template' \in [Templates -> TemplateRow], default' \in Templates \cup {NoTemplate},
           \A t \in Templates : /\ template'[t].here = template[t].here /\ template'[t].config = template[t].config
                                /\ ~template'[t].here => ~template'[t].is_default,
           upset' \in BOOLEAN, upset => upset',
           clerk[r].at \in Editing \cup {"idle"}, new.at \in Editing \cup {"idle"},
           new.at \in Editing => new.template \in Templates, new.at \in Marking => new.row.here,
           ~upset' =>
              /\ \A q \in Clerks \ {r} : clerk[q].at \notin Editing
              /\ new.at \notin Editing => MarkedIn(template') = Named(default')
              /\ Underway(new, MarkedIn(template'), default')
    PROVE  ImportsInv'
<1>1. UNCHANGED <<job, application, contact, checked, made, moved, cut>>
  BY DEF jobVars
<1>2. ImportsTypeOK'
  BY <1>1 DEF ImportsInv, ImportsTypeOK
<1>3. TemplatesInv'
  BY TemplatesMove
<1>4. SnapshotsInv'
  BY <1>1, SnapshotsAside DEF Editing, Validation
<1>5. CommitsInv'
  BY <1>1, CommitsAside DEF Commits, Editing
<1> QED
  BY <1>2, <1>3, <1>4, <1>5 DEF ImportsInv

\* An operation opens: it overlaps no other, or is marked as one that does.
LEMMA OperationsOpen ==
    ASSUME ImportsInv, NEW r \in Clerks, NEW new \in Clerk, Opens(r, new), new.at \in Editing,
           new.template \in Templates, new.at \in Marking => new.row.here,
           MarkedIn(template) = Named(default) => Underway(new, MarkedIn(template), default)
    PROVE  ImportsInv'
<1>1. /\ clerk' = [clerk EXCEPT ![r] = new] /\ clerk[r].at = "idle" /\ UNCHANGED <<template, default, jobVars>>
      /\ upset' = (upset \/ Others(r) # {})
  BY DEF Opens, ClerkBegins
<1>2. template' = template /\ default' = default /\ upset' \in BOOLEAN /\ (upset => upset')
  BY <1>1 DEF ImportsInv, ImportsTypeOK
<1>3. template \in [Templates -> TemplateRow] /\ default \in Templates \cup {NoTemplate}
  BY DEF ImportsInv, ImportsTypeOK
<1>4. ASSUME ~upset'
      PROVE  /\ \A q \in Clerks \ {r} : clerk[q].at \notin Editing
             /\ MarkedIn(template) = Named(default)
  <2>1. ~upset /\ \A q \in Clerks \ {r} : clerk[q].at \notin Editing
    BY <1>1, <1>4 DEF Others
  <2>2. Quiet
    BY <1>1, <2>1 DEF Quiet, Editing
  <2> QED
    BY <2>1, <2>2 DEF ImportsInv, TemplatesInv
<1>5. \A t \in Templates : ~template[t].here => ~template[t].is_default
  BY DEF ImportsInv, TemplatesInv
<1>6. clerk[r].at \in Editing \cup {"idle"} /\ new.at \in Editing \cup {"idle"} /\ UNCHANGED jobVars
  BY <1>1
<1> QED
  BY <1>1, <1>2, <1>3, <1>4, <1>5, <1>6, MarksMove

LEMMA AskCreateKeeps ==
    ASSUME ImportsInv, NEW r \in Clerks, NEW t \in Templates, NEW row \in TemplateRow, row.here, AskCreate(r, t, row)
    PROVE  ImportsInv'
<1>1. PICK at : at = IF row.is_default THEN "unset" ELSE "save"
  OBVIOUS
<1>2. PICK new : new = [NoClerk EXCEPT !.at = at, !.template = t, !.row = row, !.new = TRUE]
  OBVIOUS
<1>3. new \in Clerk /\ new.at = at /\ new.template = t /\ new.row = row /\ new.new
  BY <1>1, <1>2, NoOneImports DEF Clerk, Places
<1>4. Opens(r, new) /\ ~template[t].here
  BY <1>1, <1>2, Zenon DEF AskCreate
<1>5. t \notin MarkedIn(template)
  BY <1>4 DEF MarkedIn
<1>6. MarkedIn(template) = Named(default) => Underway(new, MarkedIn(template), default)
  BY <1>1, <1>3, <1>5 DEF Underway
<1>7. new.at \in Editing
  BY <1>1, <1>3 DEF Editing
<1> QED
  BY <1>3, <1>4, <1>6, <1>7, OperationsOpen

LEMMA AskUpdateKeeps ==
    ASSUME ImportsInv, NEW r \in Clerks, NEW t \in Templates, NEW row \in TemplateRow, row.here, AskUpdate(r, t, row)
    PROVE  ImportsInv'
<1>1. PICK at : at = IF row.is_default = template[t].is_default THEN "save" ELSE IF template[t].is_default THEN "clear" ELSE "unset"
  OBVIOUS
<1>2. PICK new : new = [NoClerk EXCEPT !.at = at, !.template = t, !.row = row]
  OBVIOUS
<1>3. template[t].is_default \in BOOLEAN /\ row.is_default \in BOOLEAN
  BY DEF TemplateRow, ImportsInv, ImportsTypeOK
<1>4. new \in Clerk /\ new.at = at /\ new.template = t /\ new.row = row
  BY <1>1, <1>2, NoOneImports DEF Clerk, Places
<1>5. Opens(r, new) /\ template[t].here
  BY <1>1, <1>2, Zenon DEF AskUpdate
<1>6. t \in MarkedIn(template) <=> template[t].is_default
  BY <1>5 DEF MarkedIn
<1>7. t \in Named(default) => Named(default) = {t}
  BY DEF Named
<1>8. MarkedIn(template) = Named(default) => Underway(new, MarkedIn(template), default)
  BY <1>1, <1>3, <1>4, <1>6, <1>7 DEF Underway
<1>9. new.at \in Editing
  BY <1>1, <1>4 DEF Editing
<1> QED
  BY <1>4, <1>5, <1>8, <1>9, OperationsOpen

LEMMA AskDeleteKeeps ==
    ASSUME ImportsInv, NEW r \in Clerks, NEW t \in Templates, AskDelete(r, t)
    PROVE  ImportsInv'
<1>1. PICK new : new = [NoClerk EXCEPT !.at = "count", !.template = t]
  OBVIOUS
<1>2. new \in Clerk /\ new.at = "count" /\ new.template = t
  BY <1>1, NoOneImports DEF Clerk, Places
<1>3. Opens(r, new) /\ ~template[t].is_default
  BY <1>1, Zenon DEF AskDelete
<1>4. MarkedIn(template) = Named(default) => Underway(new, MarkedIn(template), default)
  BY <1>2, <1>3 DEF Underway, MarkedIn
<1> QED
  BY <1>2, <1>3, <1>4, OperationsOpen DEF Editing, Marking

\* What is true of an operation that overlapped no other.
LEMMA OneOperation ==
    ASSUME ImportsInv, NEW r \in Clerks, clerk[r].at \in Editing
    PROVE  /\ clerk[r] \in Clerk /\ clerk[r].template \in Templates /\ clerk[r].row \in TemplateRow
           /\ clerk[r].at \in Marking => clerk[r].row.here
           /\ upset \in BOOLEAN /\ default \in Templates \cup {NoTemplate} /\ template \in [Templates -> TemplateRow]
           /\ \A t \in Templates : ~template[t].here => ~template[t].is_default
           /\ ~upset => /\ \A q \in Clerks \ {r} : clerk[q].at \notin Editing
                        /\ Underway(clerk[r], MarkedIn(template), default)
<1>1. clerk[r] \in Clerk /\ clerk[r].row \in TemplateRow
  BY DEF ImportsInv, ImportsTypeOK, Clerk
<1> QED
  BY <1>1 DEF ImportsInv, ImportsTypeOK, TemplatesInv

LEMMA UnsetOthersKeeps ==
    ASSUME ImportsInv, NEW r \in Clerks, UnsetOthers(r)
    PROVE  ImportsInv'
<1>1. clerk[r].at = "unset" /\ clerk[r].at \in Editing
  BY DEF UnsetOthers, Editing
<1>2. PICK c \in Clerk : c = clerk[r]
  BY <1>1, OneOperation
<1>3. PICK at : at = IF c.new THEN "save" ELSE "point"
  OBVIOUS
<1>4. PICK new : new = [c EXCEPT !.at = at]
  OBVIOUS
<1>5. new \in Clerk /\ new.at = at /\ new.template = c.template /\ new.row = c.row /\ new.new = c.new
  BY <1>2, <1>3, <1>4 DEF Clerk, Places
<1>6. clerk' = [clerk EXCEPT ![r] = new]
  BY <1>2, <1>3, <1>4, Zenon DEF UnsetOthers, Moves, ClerkTurns
<1>7. /\ template' = [t \in Templates |-> [template[t] EXCEPT !.is_default = FALSE]]
      /\ default' = default /\ upset' = upset /\ UNCHANGED jobVars
  BY DEF UnsetOthers
<1>8. \A t \in Templates : /\ template'[t] \in TemplateRow /\ template'[t].here = template[t].here
                           /\ template'[t].config = template[t].config /\ ~template'[t].is_default
  BY <1>1, <1>7, OneOperation DEF TemplateRow
<1>9. template' \in [Templates -> TemplateRow]
  BY <1>7, <1>8
<1>10. MarkedIn(template') = {}
  BY <1>8 DEF MarkedIn
<1>11. new.at \in Marking /\ new.at \in Editing
  BY <1>3, <1>5 DEF Marking, Editing
<1>12. ASSUME ~upset PROVE Underway(new, MarkedIn(template'), default)
  <2>1. c.row.is_default
    BY <1>1, <1>2, <1>12, OneOperation DEF Underway
  <2> QED
    BY <1>3, <1>5, <1>10, <2>1 DEF Underway
<1>13. c.row.here /\ c.template \in Templates
  BY <1>1, <1>2, OneOperation DEF Marking
<1>14. ~upset => \A q \in Clerks \ {r} : clerk[q].at \notin Editing
  BY <1>1, OneOperation
<1>15. upset \in BOOLEAN /\ default \in Templates \cup {NoTemplate}
  BY <1>1, OneOperation
<1> QED
  BY <1>1, <1>5, <1>6, <1>7, <1>8, <1>9, <1>11, <1>12, <1>13, <1>14, <1>15, MarksMove

\* The organization's reference is set, before or after the template is saved, or cleared.
LEMMA ReferenceMoves ==
    ASSUME ImportsInv, NEW r \in Clerks, PointOrganization(r) \/ ClearOrganization(r)
    PROVE  ImportsInv'
<1>1. clerk[r].at \in {"point", "clear"} /\ clerk[r].at \in Editing /\ clerk[r].at \in Marking
  BY DEF PointOrganization, ClearOrganization, Editing, Marking
<1>2. PICK c \in Clerk : c = clerk[r]
  BY <1>1, OneOperation
<1>3. PICK saving : saving = [c EXCEPT !.at = "save"]
  OBVIOUS
<1>4. saving \in Clerk /\ saving.at = "save" /\ saving.template = c.template /\ saving.row = c.row /\ saving.new = c.new
  BY <1>2, <1>3 DEF Clerk, Places
<1>5. template' = template /\ upset' = upset /\ UNCHANGED jobVars
  BY DEF PointOrganization, ClearOrganization
<1>6. PICK new \in Clerk :
          /\ clerk' = [clerk EXCEPT ![r] = new]
          /\ default' = IF c.at = "point" THEN c.template ELSE NoTemplate
          /\ new = IF c.at = "point" /\ c.new THEN NoClerk ELSE saving
  <2>1. CASE PointOrganization(r)
    BY <1>2, <1>3, <1>4, <2>1, NoOneImports DEF PointOrganization, Moves, ClerkTurns
  <2>2. CASE ClearOrganization(r)
    BY <1>2, <1>3, <1>4, <2>2, NoOneImports DEF ClearOrganization, Moves, ClerkTurns
  <2> QED
    BY <2>1, <2>2
<1>7. /\ c.row.here /\ c.template \in Templates /\ c.template # NoTemplate /\ upset \in BOOLEAN /\ template \in [Templates -> TemplateRow]
      /\ \A t \in Templates : ~template[t].here => ~template[t].is_default
      /\ ~upset => /\ \A q \in Clerks \ {r} : clerk[q].at \notin Editing
                   /\ Underway(c, MarkedIn(template), default)
  BY <1>1, <1>2, OneOperation, ImportsAssumption
<1>8. ASSUME ~upset
      PROVE  /\ new.at \notin Editing => MarkedIn(template) = Named(default')
             /\ Underway(new, MarkedIn(template), default')
  <2>1. CASE c.at = "point" /\ c.new
    <3>1. MarkedIn(template) = {c.template} /\ default' = c.template /\ new = NoClerk
      BY <1>6, <1>7, <1>8, <2>1 DEF Underway
    <3> QED
      BY <1>7, <3>1, NoOneImports DEF Named, Underway
  <2>2. CASE c.at = "point" /\ ~c.new
    <3>1. MarkedIn(template) = {} /\ c.row.is_default /\ default' = c.template /\ new = saving
      BY <1>6, <1>7, <1>8, <2>2 DEF Underway
    <3> QED
      BY <1>4, <3>1 DEF Underway, Editing
  <2>3. CASE c.at = "clear"
    <3>1. MarkedIn(template) = {c.template} /\ ~c.row.is_default /\ default' = NoTemplate /\ new = saving
      BY <1>6, <1>7, <1>8, <2>3 DEF Underway
    <3> QED
      BY <1>4, <3>1 DEF Underway, Editing
  <2> QED
    BY <1>1, <1>2, <2>1, <2>2, <2>3
<1>9. /\ default' \in Templates \cup {NoTemplate} /\ new.at \in Editing \cup {"idle"}
      /\ new.at \in Editing => new.template \in Templates
      /\ new.at \in Marking => new.row.here
  BY <1>4, <1>6, <1>7, NoOneImports DEF Editing, Marking
<1> QED
  BY <1>1, <1>5, <1>6, <1>7, <1>8, <1>9, MarksMove

\* The template is refused, or the deletion goes on, or not.
LEMMA RefusedOrCounted ==
    ASSUME ImportsInv, NEW r \in Clerks, SaveRefused(r) \/ CountTemplates(r)
    PROVE  ImportsInv'
<1>1. clerk[r].at \in {"save", "count"} /\ clerk[r].at \in Editing
  BY DEF SaveRefused, CountTemplates, Editing
<1>2. PICK c \in Clerk : c = clerk[r]
  BY <1>1, OneOperation
<1>3. PICK deleting : deleting = [c EXCEPT !.at = "delete"]
  OBVIOUS
<1>4. deleting \in Clerk /\ deleting.at = "delete" /\ deleting.template = c.template
  BY <1>2, <1>3 DEF Clerk, Places
<1>5. template' = template /\ default' = default /\ UNCHANGED jobVars
  BY DEF SaveRefused, CountTemplates, templateVars
<1>6. /\ c.template \in Templates /\ c.row \in TemplateRow /\ upset \in BOOLEAN
      /\ template \in [Templates -> TemplateRow] /\ default \in Templates \cup {NoTemplate}
      /\ \A t \in Templates : ~template[t].here => ~template[t].is_default
      /\ ~upset => /\ \A q \in Clerks \ {r} : clerk[q].at \notin Editing
                   /\ Underway(c, MarkedIn(template), default)
  BY <1>1, <1>2, OneOperation
<1>7. PICK was, is \in BOOLEAN : was = template[c.template].is_default /\ is = c.row.is_default
  BY <1>6 DEF TemplateRow
<1>8. PICK new \in Clerk :
          /\ clerk' = [clerk EXCEPT ![r] = new]
          /\ upset' = IF c.at = "save" THEN upset \/ is # was ELSE upset
          /\ new = NoClerk \/ (new = deleting /\ c.at = "count")
  <2>1. CASE SaveRefused(r)
    <3>1. clerk' = [clerk EXCEPT ![r] = NoClerk] /\ upset' = (upset \/ is # was) /\ c.at = "save"
      BY <1>2, <1>7, <2>1, Zenon DEF SaveRefused
    <3> QED
      BY <3>1, NoOneImports
  <2>2. CASE CountTemplates(r)
    BY <1>2, <1>3, <1>4, <2>2, NoOneImports DEF CountTemplates, Moves, ClerkTurns, templateVars
  <2> QED
    BY <2>1, <2>2
<1>9. ASSUME ~upset'
      PROVE  /\ ~upset
             /\ new.at \notin Editing => MarkedIn(template) = Named(default)
             /\ Underway(new, MarkedIn(template), default)
  <2>1. ~upset
    BY <1>6, <1>8, <1>9
  <2>2. CASE c.at = "save"
    <3>1. is = was /\ new = NoClerk
      BY <1>7, <1>8, <1>9, <2>2
    <3>2. c.template \in MarkedIn(template) <=> is
      BY <1>6, <1>7, <3>1 DEF MarkedIn
    <3>3. MarkedIn(template) = Named(default)
      BY <1>6, <1>7, <2>1, <2>2, <3>2 DEF Underway
    <3> QED
      BY <2>1, <3>1, <3>3, NoOneImports DEF Underway
  <2>3. CASE c.at = "count"
    <3>1. MarkedIn(template) = Named(default) /\ c.template \notin MarkedIn(template)
      BY <1>6, <2>1, <2>3 DEF Underway
    <3> QED
      BY <1>4, <1>8, <2>1, <3>1, NoOneImports DEF Underway
  <2> QED
    BY <1>1, <1>2, <2>2, <2>3
<1>10. /\ upset' \in BOOLEAN /\ (upset => upset') /\ new.at \in Editing \cup {"idle"}
       /\ new.at \in Editing => new.template \in Templates
       /\ new.at \notin Marking
  BY <1>4, <1>6, <1>8, NoOneImports DEF Editing, Marking
<1> QED
  BY <1>1, <1>5, <1>6, <1>8, <1>9, <1>10, MarksMove

\* A template is written, or deleted: the validations it was used in are marked.
LEMMA TemplateIsWritten ==
    ASSUME ImportsInv, NEW r \in Clerks, NEW new \in Clerk, clerk' = [clerk EXCEPT ![r] = new],
           NEW t \in Templates, NEW row \in TemplateRow, template' = [template EXCEPT ![t] = row],
           moved \subseteq moved', checked' = checked,
           \A q \in Clerks : clerk[q].template = t /\ clerk[q].at \in {"check", "job", "reread"} => clerk[q].job \in moved',
           ~row.here => \A q \in Clerks : clerk[q].template = t /\ clerk[q].at = "apply" => clerk[q].job \in moved',
           \A j \in Jobs : /\ job'[j].status = job[j].status /\ application'[j].snapshot = application[j].snapshot
                           /\ application[j] = NoApplication => application'[j] = NoApplication,
           clerk[r].at \notin Validation, new.at \notin Validation
    PROVE  SnapshotsInv'
<1>1. clerk'[r] = new /\ \A q \in Clerks \ {r} : clerk'[q] = clerk[q]
  BY ClerksTurn DEF ImportsInv
<1>2. \A q \in Clerks : clerk[q].job \in Jobs /\ clerk[q].template \in Templates \cup {NoTemplate}
  BY DEF ImportsInv, ImportsTypeOK, Clerk
<1>3. template'[t] = row /\ \A u \in Templates \ {t} : template'[u] = template[u]
  BY DEF ImportsInv, ImportsTypeOK
<1>4. \A u \in (Templates \cup {NoTemplate}) \ {t} : Gone(template', u) = Gone(template, u) /\ Asked(template', u) = Asked(template, u)
  BY <1>3 DEF Gone, Asked
<1>5. row.here => ~Gone(template', t)
  BY <1>3 DEF Gone
<1>6. ASSUME NEW q \in Clerks PROVE Checks(clerk[q], template', job', checked', application', moved')
  <2>1. PICK j \in Jobs, u \in Templates \cup {NoTemplate} : j = clerk[q].job /\ u = clerk[q].template
    BY <1>2
  <2>2. Checks(clerk[q], template, job, checked, application, moved)
    BY DEF ImportsInv, SnapshotsInv
  <2>3. /\ clerk[q].at \in {"resolve", "check", "job"} => job'[j].status = "none"
        /\ clerk[q].at = "job" => clerk[q].copy.status \in {"VALIDATED", "FAILED"}
        /\ clerk[q].at \in {"reread", "apply"} => job'[j].status # "none" /\ application'[j] = NoApplication
    BY <2>1, <2>2 DEF Checks
  <2>4. ASSUME j \notin moved'
        PROVE  /\ clerk[q].at \in {"check", "job", "reread", "apply"} => ~Gone(template', u)
               /\ clerk[q].at \in {"check", "job", "reread"} => clerk[q].config = Asked(template', u)
               /\ clerk[q].at \in {"reread", "apply"} => clerk[q].config = checked'[j]
    <3>1. /\ clerk[q].at \in {"check", "job", "reread", "apply"} => ~Gone(template, u)
          /\ clerk[q].at \in {"check", "job", "reread"} => clerk[q].config = Asked(template, u)
          /\ clerk[q].at \in {"reread", "apply"} => clerk[q].config = checked[j]
      BY <2>1, <2>2, <2>4 DEF Checks
    <3>2. CASE u = t
      <4>1. clerk[q].at \notin {"check", "job", "reread"}
        BY <2>1, <2>4, <3>2
      <4>2. clerk[q].at = "apply" => row.here
        BY <2>1, <2>4, <3>2
      <4> QED
        BY <1>5, <3>1, <3>2, <4>1, <4>2
    <3>3. CASE u # t
      BY <1>4, <3>1, <3>3
    <3> QED
      BY <3>2, <3>3
  <2> QED
    BY <2>1, <2>3, <2>4, Zenon DEF Checks
<1>7. \A q \in Clerks : Checks(clerk'[q], template', job', checked', application', moved')
  <2>1. Checks(new, template', job', checked', application', moved')
    BY DEF Checks, Validation
  <2> QED
    BY <1>1, <1>6, <2>1
<1>8. \A q, s \in Clerks : clerk'[q].at \in Validation /\ clerk'[s].at \in Validation /\ clerk'[q].job = clerk'[s].job => q = s
  BY <1>1 DEF ImportsInv, SnapshotsInv
<1>9. \A j \in Jobs : job'[j].status = "none" => application'[j] = NoApplication /\ checked'[j] = "none"
  BY DEF ImportsInv, SnapshotsInv
<1>10. \A q \in Clerks : clerk[q].at \in {"reread", "apply"} => clerk'[q] = clerk[q]
  BY <1>1 DEF Validation
<1>11. \A j \in Jobs :
          \/ j \in moved' \/ application'[j].snapshot = checked'[j]
          \/ application'[j] = NoApplication /\ \E q \in Clerks : clerk'[q].job = j /\ clerk'[q].at \in {"reread", "apply"}
  BY <1>10 DEF ImportsInv, SnapshotsInv
<1> QED
  BY <1>7, <1>8, <1>9, <1>11, Zenon DEF SnapshotsInv, NoApplication

LEMMA SaveTemplateKeeps ==
    ASSUME ImportsInv, NEW r \in Clerks, SaveTemplate(r)
    PROVE  ImportsInv'
<1>1. clerk[r].at = "save" /\ clerk[r].at \in Editing
  BY DEF SaveTemplate, Editing
<1>2. PICK c \in Clerk, t \in Templates, row \in TemplateRow : c = clerk[r] /\ t = clerk[r].template /\ row = clerk[r].row
  BY <1>1, OneOperation
<1>3. /\ row.here /\ t # NoTemplate /\ upset \in BOOLEAN /\ template \in [Templates -> TemplateRow] /\ default \in Templates \cup {NoTemplate}
      /\ \A u \in Templates : ~template[u].here => ~template[u].is_default
      /\ ~upset => /\ \A q \in Clerks \ {r} : clerk[q].at \notin Editing
                   /\ Underway(c, MarkedIn(template), default)
  BY <1>1, <1>2, OneOperation, ImportsAssumption DEF Marking
<1>4. PICK touched : touched = {clerk[q].job : q \in Validating(t)}
  OBVIOUS
<1>5. /\ template' = [template EXCEPT ![t] = row] /\ moved' = moved \cup touched
      /\ UNCHANGED <<default, upset, job, application, contact, checked, made, cut>>
  BY <1>2, <1>4 DEF SaveTemplate
<1>6. PICK pointing : pointing = [c EXCEPT !.at = "point"]
  OBVIOUS
<1>7. pointing \in Clerk /\ pointing.at = "point" /\ pointing.template = t /\ pointing.row = row /\ pointing.new = c.new
  BY <1>2, <1>6 DEF Clerk, Places
<1>8. PICK new \in Clerk : clerk' = [clerk EXCEPT ![r] = new] /\ new = IF c.new /\ row.is_default THEN pointing ELSE NoClerk
  BY <1>2, <1>6, <1>7, NoOneImports DEF SaveTemplate, Moves, ClerkTurns
<1>9. touched \subseteq Jobs /\ \A q \in Clerks : clerk[q].template = t /\ clerk[q].at \in {"check", "job", "reread"} => clerk[q].job \in touched
  <2>1. \A q \in Clerks : clerk[q].job \in Jobs
    BY DEF ImportsInv, ImportsTypeOK, Clerk
  <2> QED
    BY <1>4, <2>1 DEF Validating
<1>10. template'[t] = row /\ template' \in [Templates -> TemplateRow] /\ \A u \in Templates \ {t} : template'[u] = template[u]
  BY <1>3, <1>5
<1>11. ImportsTypeOK'
  BY <1>5, <1>8, <1>9, <1>10 DEF ImportsInv, ImportsTypeOK
<1>12. \A u \in Templates : u \in MarkedIn(template') <=> IF u = t THEN row.is_default ELSE u \in MarkedIn(template)
  BY <1>3, <1>10 DEF MarkedIn
<1>13. MarkedIn(template) \subseteq Templates /\ MarkedIn(template') \subseteq Templates
  BY DEF MarkedIn
<1>14. row.is_default \in BOOLEAN
  BY DEF TemplateRow
<1>15. ASSUME ~upset'
       PROVE  /\ \A q \in Clerks \ {r} : clerk[q].at \notin Editing
              /\ new.at \notin Editing => MarkedIn(template') = Named(default')
              /\ Underway(new, MarkedIn(template'), default')
  <2>1. ~upset /\ default' = default
    BY <1>5, <1>15
  <2>2. \/ MarkedIn(template) = Named(default) /\ (t \in MarkedIn(template) <=> row.is_default)
        \/ MarkedIn(template) = {} /\ row.is_default /\ (c.new \/ default = t)
        \/ MarkedIn(template) = {t} /\ ~row.is_default /\ default = NoTemplate
    BY <1>1, <1>2, <1>3, <2>1 DEF Underway
  <2>3. MarkedIn(template') = IF row.is_default /\ c.new THEN {t} ELSE Named(default)
    <3>1. CASE MarkedIn(template) = Named(default) /\ (t \in MarkedIn(template) <=> row.is_default)
      <4>1. MarkedIn(template') = MarkedIn(template)
        BY <1>12, <1>13, <3>1
      <4> QED
        BY <3>1, <4>1 DEF Named
    <3>2. CASE MarkedIn(template) = {} /\ row.is_default /\ (c.new \/ default = t)
      <4>1. MarkedIn(template') = {t}
        BY <1>12, <1>13, <3>2
      <4> QED
        BY <1>3, <3>2, <4>1 DEF Named
    <3>3. CASE MarkedIn(template) = {t} /\ ~row.is_default /\ default = NoTemplate
      <4>1. MarkedIn(template') = {}
        BY <1>12, <1>13, <3>3
      <4> QED
        BY <3>3, <4>1 DEF Named
    <3> QED
      BY <2>2, <3>1, <3>2, <3>3
  <2>4. CASE row.is_default /\ c.new
    BY <1>3, <1>7, <1>8, <2>1, <2>3, <2>4 DEF Underway, Editing
  <2>5. CASE ~(row.is_default /\ c.new)
    BY <1>3, <1>8, <2>1, <2>3, <2>5, NoOneImports DEF Underway, Editing
  <2> QED
    BY <2>4, <2>5
<1>16. /\ new.at \in {"idle", "point"}
       /\ new.at \in Editing => new.template \in Templates
       /\ new.at \in Marking => new.row.here
  BY <1>3, <1>7, <1>8, NoOneImports DEF Editing, Marking
<1>17. TemplatesInv'
  <2>1. \A u \in Templates : ~template'[u].here => ~template'[u].is_default
    BY <1>3, <1>10
  <2>2. upset' \in BOOLEAN /\ (upset => upset')
    BY <1>3, <1>5
  <2> QED
    BY <1>8, <1>15, <1>16, <2>1, <2>2, TemplatesMove
<1>18. SnapshotsInv'
  <2>1. moved \subseteq moved' /\ checked' = checked /\ \A q \in Clerks : clerk[q].template = t /\ clerk[q].at \in {"check", "job", "reread"} => clerk[q].job \in moved'
    BY <1>5, <1>9
  <2>2. \A j \in Jobs : /\ job'[j].status = job[j].status /\ application'[j].snapshot = application[j].snapshot
                        /\ application[j] = NoApplication => application'[j] = NoApplication
    BY <1>5
  <2>3. clerk[r].at \notin Validation /\ new.at \notin Validation
    BY <1>1, <1>16 DEF Validation
  <2>4. template' = [template EXCEPT ![t] = row] /\ clerk' = [clerk EXCEPT ![r] = new] /\ row.here
    BY <1>3, <1>5, <1>8
  <2>5. ~row.here => \A q \in Clerks : clerk[q].template = t /\ clerk[q].at = "apply" => clerk[q].job \in moved'
    BY <2>4
  <2>6. \A q \in Clerks : clerk[q].template = t /\ clerk[q].at \in {"check", "job", "reread"} => clerk[q].job \in moved'
    BY <2>1
  <2>7. moved \subseteq moved' /\ checked' = checked /\ template' = [template EXCEPT ![t] = row] /\ clerk' = [clerk EXCEPT ![r] = new]
    BY <2>1, <2>4
  <2> QED
    BY <2>2, <2>3, <2>5, <2>6, <2>7, TemplateIsWritten, Zenon
<1>19. CommitsInv'
  <2>1. ~Commits(clerk[r]) /\ ~Commits(new) /\ new.at \notin {"complete", "failed"} /\ (\A j \in Jobs : job'[j].status = job[j].status) /\ UNCHANGED <<made, cut>>
    BY <1>1, <1>5, <1>16 DEF Commits
  <2> QED
    BY <1>8, <2>1, CommitsAside
<1> QED
  BY <1>11, <1>17, <1>18, <1>19 DEF ImportsInv

LEMMA DeleteTemplateKeeps ==
    ASSUME ImportsInv, NEW r \in Clerks, DeleteTemplate(r)
    PROVE  ImportsInv'
<1>1. clerk[r].at = "delete" /\ clerk[r].at \in Editing
  BY DEF DeleteTemplate, Editing
<1>2. PICK t \in Templates : t = clerk[r].template
  BY <1>1, OneOperation
<1>3. /\ t # NoTemplate /\ upset \in BOOLEAN /\ template \in [Templates -> TemplateRow] /\ default \in Templates \cup {NoTemplate}
      /\ \A u \in Templates : ~template[u].here => ~template[u].is_default
      /\ ~upset => /\ \A q \in Clerks \ {r} : clerk[q].at \notin Editing
                   /\ Underway(clerk[r], MarkedIn(template), default)
  BY <1>1, <1>2, OneOperation, ImportsAssumption
<1>4. PICK touched : touched = {clerk[q].job : q \in {p \in Clerks : clerk[p].at \in {"check", "job", "reread", "apply"} /\ clerk[p].template = t}}
  OBVIOUS
<1>5. /\ template' = [template EXCEPT ![t] = NoRow] /\ moved' = moved \cup touched
      /\ job' = [j \in Jobs |-> IF job[j].template = t THEN [job[j] EXCEPT !.template = NoTemplate] ELSE job[j]]
      /\ application' = [j \in Jobs |-> IF application[j].template = t THEN [application[j] EXCEPT !.template = NoTemplate] ELSE application[j]]
      /\ clerk' = [clerk EXCEPT ![r] = NoClerk]
      /\ UNCHANGED <<default, upset, contact, checked, made, cut>>
  BY <1>2, <1>4 DEF DeleteTemplate, ClerkTurns
<1>6. touched \subseteq Jobs /\ \A q \in Clerks : clerk[q].template = t /\ clerk[q].at \in {"check", "job", "reread", "apply"} => clerk[q].job \in touched
  <2>1. \A q \in Clerks : clerk[q].job \in Jobs
    BY DEF ImportsInv, ImportsTypeOK, Clerk
  <2> QED
    BY <1>4, <2>1
<1>7. template'[t] = NoRow /\ template' \in [Templates -> TemplateRow] /\ \A u \in Templates \ {t} : template'[u] = template[u]
  BY <1>3, <1>5, NoOneImports
<1>8. \A j \in Jobs : job'[j] \in JobRow /\ job'[j].status = job[j].status
  BY <1>5 DEF ImportsInv, ImportsTypeOK, JobRow
<1>9. \A j \in Jobs : /\ application'[j] \in [template: Templates \cup {NoTemplate}, snapshot: Configs \cup {"none"}]
                      /\ application'[j].snapshot = application[j].snapshot
                      /\ application[j] = NoApplication => application'[j] = NoApplication
  BY <1>3, <1>5 DEF ImportsInv, ImportsTypeOK, NoApplication
<1>10. ImportsTypeOK'
  <2>1. job' \in [Jobs -> JobRow] /\ application' \in [Jobs -> [template: Templates \cup {NoTemplate}, snapshot: Configs \cup {"none"}]]
    BY <1>5, <1>8, <1>9
  <2> QED
    BY <1>5, <1>6, <1>7, <2>1, NoOneImports DEF ImportsInv, ImportsTypeOK
<1>11. TemplatesInv'
  <2>1. ASSUME ~upset PROVE MarkedIn(template') = Named(default)
    <3>1. MarkedIn(template) = Named(default) /\ t \notin MarkedIn(template)
      BY <1>1, <1>2, <1>3, <2>1 DEF Underway
    <3>2. \A u \in Templates : u \in MarkedIn(template') <=> u \in MarkedIn(template)
      BY <1>7, <3>1, NoOneImports DEF MarkedIn
    <3> QED
      BY <3>1, <3>2 DEF MarkedIn
  <2>2. \A u \in Templates : ~template'[u].here => ~template'[u].is_default
    BY <1>3, <1>7, NoOneImports
  <2>3. Underway(NoClerk, MarkedIn(template'), default') /\ NoClerk.at \notin Editing /\ NoClerk.at \notin Marking
    BY NoOneImports DEF Underway, Editing, Marking
  <2>4. upset' = upset /\ default' = default /\ upset \in BOOLEAN /\ clerk' = [clerk EXCEPT ![r] = NoClerk]
    BY <1>3, <1>5
  <2>5. ~upset => \A q \in Clerks \ {r} : clerk[q].at \notin Editing
    BY <1>3
  <2> QED
    BY <2>1, <2>2, <2>3, <2>4, <2>5, NoOneImports, TemplatesMove
<1>12. SnapshotsInv'
  <2>1. moved \subseteq moved' /\ checked' = checked
        /\ \A q \in Clerks : clerk[q].template = t /\ clerk[q].at \in {"check", "job", "reread"} => clerk[q].job \in moved'
    BY <1>5, <1>6
  <2>2. \A q \in Clerks : clerk[q].template = t /\ clerk[q].at = "apply" => clerk[q].job \in moved'
    BY <1>5, <1>6
  <2>3. clerk[r].at \notin Validation /\ NoClerk.at \notin Validation
    BY <1>1, NoOneImports DEF Validation
  <2> QED
    BY <1>5, <1>8, <1>9, <2>1, <2>2, <2>3, NoOneImports, TemplateIsWritten
<1>13. CommitsInv'
  <2>1. ~Commits(clerk[r]) /\ ~Commits(NoClerk) /\ NoClerk.at \notin {"complete", "failed"} /\ UNCHANGED <<made, cut>>
    BY <1>1, <1>5, NoOneImports DEF Commits
  <2> QED
    BY <1>5, <1>8, <2>1, NoOneImports, CommitsAside
<1> QED
  BY <1>10, <1>11, <1>12, <1>13 DEF ImportsInv

\* A validation takes a step with its job, which it shares with no other.
LEMMA ValidationMoves ==
    ASSUME ImportsInv, NEW r \in Clerks, NEW new \in Clerk, clerk' = [clerk EXCEPT ![r] = new], NEW j \in Jobs,
           UNCHANGED <<template, moved>>,
           clerk[r].at \in Validation => clerk[r].job = j, new.at \in Validation => new.job = j,
           \A q \in Clerks \ {r} : clerk[q].at \in Validation => clerk[q].job # j,
           \A i \in Jobs \ {j} : job'[i] = job[i] /\ checked'[i] = checked[i] /\ application'[i] = application[i],
           Checks(new, template, job', checked', application', moved),
           job'[j].status = "none" => application'[j] = NoApplication /\ checked'[j] = "none",
           \/ j \in moved \/ application'[j].snapshot = checked'[j]
           \/ application'[j] = NoApplication /\ new.at \in {"reread", "apply"}
    PROVE  SnapshotsInv'
<1>1. clerk'[r] = new /\ \A q \in Clerks \ {r} : clerk'[q] = clerk[q]
  BY ClerksTurn DEF ImportsInv
<1>2. \A q \in Clerks : clerk[q].job \in Jobs
  BY DEF ImportsInv, ImportsTypeOK, Clerk
<1>3. template' = template /\ moved' = moved
  OBVIOUS
<1>4. ASSUME NEW q \in Clerks \ {r} PROVE Checks(clerk[q], template', job', checked', application', moved')
  <2>1. Checks(clerk[q], template, job, checked, application, moved)
    BY DEF ImportsInv, SnapshotsInv
  <2>2. CASE clerk[q].at \in Validation
    <3>1. clerk[q].job \in Jobs \ {j}
      BY <1>2, <2>2
    <3> QED
      BY <1>3, <2>1, <3>1 DEF Checks
  <2>3. CASE clerk[q].at \notin Validation
    BY <2>3 DEF Checks, Validation
  <2> QED
    BY <2>2, <2>3
<1>5. \A q \in Clerks : Checks(clerk'[q], template', job', checked', application', moved')
  BY <1>1, <1>3, <1>4
<1>6. \A q, s \in Clerks : clerk'[q].at \in Validation /\ clerk'[s].at \in Validation /\ clerk'[q].job = clerk'[s].job => q = s
  BY <1>1 DEF ImportsInv, SnapshotsInv
<1>7. \A i \in Jobs : job'[i].status = "none" => application'[i] = NoApplication /\ checked'[i] = "none"
  BY DEF ImportsInv, SnapshotsInv
<1>8. \A q \in Clerks : clerk[q].job # j /\ clerk[q].at \in {"reread", "apply"} => clerk'[q] = clerk[q]
  BY <1>1 DEF Validation
<1>9. ASSUME NEW i \in Jobs
      PROVE  \/ i \in moved' \/ application'[i].snapshot = checked'[i]
             \/ application'[i] = NoApplication /\ \E q \in Clerks : clerk'[q].job = i /\ clerk'[q].at \in {"reread", "apply"}
  <2>1. CASE i = j
    BY <1>1, <1>3, <2>1 DEF Validation
  <2>2. CASE i # j
    BY <1>3, <1>8, <2>2 DEF ImportsInv, SnapshotsInv
  <2> QED
    BY <2>1, <2>2
<1> QED
  BY <1>5, <1>6, <1>7, <1>9, Zenon DEF SnapshotsInv, NoApplication

\* So it does without saving its job.
LEMMA ValidationGoesOn ==
    ASSUME ImportsInv, NEW r \in Clerks, NEW new \in Clerk, clerk' = [clerk EXCEPT ![r] = new], NEW j \in Jobs,
           UNCHANGED <<template, default, upset, job, contact, checked, made, moved, cut>>,
           clerk[r].at \in Validation \cup {"idle"}, new.at \in Validation \cup {"idle"},
           clerk[r].at \in Validation => clerk[r].job = j, new.at \in Validation => new.job = j,
           \A q \in Clerks \ {r} : clerk[q].at \in Validation => clerk[q].job # j,
           application' \in [Jobs -> [template: Templates \cup {NoTemplate}, snapshot: Configs \cup {"none"}]],
           \A i \in Jobs \ {j} : application'[i] = application[i],
           Checks(new, template, job, checked, application', moved),
           job[j].status = "none" => application'[j] = NoApplication /\ checked[j] = "none",
           \/ j \in moved \/ application'[j].snapshot = checked[j]
           \/ application'[j] = NoApplication /\ new.at \in {"reread", "apply"}
    PROVE  ImportsInv'
<1>1. ImportsTypeOK'
  BY DEF ImportsInv, ImportsTypeOK
<1>2. TemplatesInv'
  BY TemplatesAside DEF templateVars, Validation, Editing
<1>3. SnapshotsInv'
  BY ValidationMoves, ZenonT(60)
<1>4. CommitsInv'
  BY CommitsAside DEF Commits, Validation
<1> QED
  BY <1>1, <1>2, <1>3, <1>4 DEF ImportsInv

\* The job that is next is no one's.
LEMMA FreeJobs ==
    ASSUME ImportsInv, NEW j \in Jobs, Free(j)
    PROVE  /\ job[j].status = "none" /\ application[j] = NoApplication /\ checked[j] = "none"
           /\ application[j].snapshot = checked[j]
           /\ \A q \in Clerks : clerk[q].at \in Validation => clerk[q].job # j
<1>1. job[j].status = "none" /\ \A q \in Clerks : clerk[q].job = j => clerk[q].at \notin {"resolve", "check", "job"}
  BY DEF Free, Unused
<1>2. \A q \in Clerks : clerk[q].at \in {"reread", "apply"} => clerk[q].job # j
  BY <1>1 DEF ImportsInv, SnapshotsInv, Checks
<1> QED
  BY <1>1, <1>2 DEF ImportsInv, SnapshotsInv, Validation, NoApplication

\* Configurations.
LEMMA ConfigsAreAsked ==
    ASSUME ImportsInv, NEW t \in Templates \cup {NoTemplate}
    PROVE  Config(t) = Asked(template, t) /\ Config(t) \in Configs /\ (Missing(t) <=> Gone(template, t))
BY DEF Config, Asked, Missing, Gone, Configs, TemplateRow, ImportsInv, ImportsTypeOK

LEMMA AskValidateKeeps ==
    ASSUME ImportsInv, NEW r \in Clerks, NEW j \in Jobs, NEW p \in Payloads, NEW t \in Templates, AskValidate(r, j, p, t)
    PROVE  ImportsInv'
<1>1. PICK config \in Configs : config = Config(t) /\ config = Asked(template, t)
  BY ConfigsAreAsked
<1>2. PICK copy : copy = [NoJob EXCEPT !.payload = p]
  OBVIOUS
<1>3. copy \in JobRow
  BY <1>2, NoOneImports DEF JobRow
<1>4. PICK new : new = [NoClerk EXCEPT !.at = "check", !.template = t, !.job = j, !.copy = copy, !.config = config]
  OBVIOUS
<1>5. new \in Clerk /\ new.at = "check" /\ new.template = t /\ new.job = j /\ new.config = config
  BY <1>3, <1>4, NoOneImports DEF Clerk, Places
<1>6. clerk' = [clerk EXCEPT ![r] = new] /\ clerk[r].at = "idle" /\ Free(j) /\ template[t].here
  BY <1>1, <1>2, <1>4, Zenon DEF AskValidate, ClerkBegins
<1>7. UNCHANGED <<template, default, upset, job, application, contact, checked, made, moved, cut>>
  BY DEF AskValidate, templateVars, jobVars
<1>8. Checks(new, template, job, checked, application, moved)
  BY <1>1, <1>5, <1>6, FreeJobs DEF Checks, Gone
<1>9. application' \in [Jobs -> [template: Templates \cup {NoTemplate}, snapshot: Configs \cup {"none"}]]
  BY <1>7 DEF ImportsInv, ImportsTypeOK
<1>10. /\ clerk[r].at \in Validation \cup {"idle"} /\ new.at \in Validation \cup {"idle"}
       /\ clerk[r].at \in Validation => clerk[r].job = j
       /\ \A q \in Clerks \ {r} : clerk[q].at \in Validation => clerk[q].job # j
       /\ \A i \in Jobs \ {j} : application'[i] = application[i]
  BY <1>5, <1>6, <1>7, FreeJobs DEF Validation
<1>11. /\ Checks(new, template, job, checked, application', moved)
       /\ application'[j] = NoApplication /\ checked[j] = "none" /\ application'[j].snapshot = checked[j]
  BY <1>6, <1>7, <1>8, FreeJobs
<1> QED
  BY <1>5, <1>6, <1>7, <1>9, <1>10, <1>11, ValidationGoesOn

LEMMA AskByDefaultKeeps ==
    ASSUME ImportsInv, NEW r \in Clerks, NEW j \in Jobs, NEW p \in Payloads, AskValidateByDefault(r, j, p)
    PROVE  ImportsInv'
<1>1. PICK t \in Templates \cup {NoTemplate} : t = default
  BY DEF ImportsInv, ImportsTypeOK
<1>2. PICK copy : copy = [NoJob EXCEPT !.payload = p]
  OBVIOUS
<1>3. copy \in JobRow
  BY <1>2, NoOneImports DEF JobRow
<1>4. PICK new : new = [NoClerk EXCEPT !.at = "resolve", !.template = t, !.job = j, !.copy = copy]
  OBVIOUS
<1>5. new \in Clerk /\ new.at = "resolve" /\ new.job = j
  BY <1>3, <1>4, NoOneImports DEF Clerk, Places
<1>6. clerk' = [clerk EXCEPT ![r] = new] /\ clerk[r].at = "idle" /\ Free(j)
  BY <1>1, <1>2, <1>4, Zenon DEF AskValidateByDefault, ClerkBegins
<1>7. UNCHANGED <<template, default, upset, job, application, contact, checked, made, moved, cut>>
  BY DEF AskValidateByDefault, templateVars, jobVars
<1>8. Checks(new, template, job, checked, application, moved)
  BY <1>5, <1>6, FreeJobs DEF Checks
<1>9. application' \in [Jobs -> [template: Templates \cup {NoTemplate}, snapshot: Configs \cup {"none"}]]
  BY <1>7 DEF ImportsInv, ImportsTypeOK
<1>10. /\ clerk[r].at \in Validation \cup {"idle"} /\ new.at \in Validation \cup {"idle"}
       /\ clerk[r].at \in Validation => clerk[r].job = j
       /\ \A q \in Clerks \ {r} : clerk[q].at \in Validation => clerk[q].job # j
       /\ \A i \in Jobs \ {j} : application'[i] = application[i]
  BY <1>5, <1>6, <1>7, FreeJobs DEF Validation
<1>11. /\ Checks(new, template, job, checked, application', moved)
       /\ application'[j] = NoApplication /\ checked[j] = "none" /\ application'[j].snapshot = checked[j]
  BY <1>6, <1>7, <1>8, FreeJobs
<1> QED
  BY <1>5, <1>6, <1>7, <1>9, <1>10, <1>11, ValidationGoesOn

\* What is known of a validation that is under way.
LEMMA OneValidation ==
    ASSUME ImportsInv, NEW r \in Clerks, clerk[r].at \in Validation
    PROVE  /\ clerk[r] \in Clerk /\ clerk[r].job \in Jobs /\ clerk[r].template \in Templates \cup {NoTemplate}
           /\ Checks(clerk[r], template, job, checked, application, moved)
           /\ \A q \in Clerks \ {r} : clerk[q].at \in Validation => clerk[q].job # clerk[r].job
           /\ application \in [Jobs -> [template: Templates \cup {NoTemplate}, snapshot: Configs \cup {"none"}]]
           /\ job[clerk[r].job].status = "none" => application[clerk[r].job] = NoApplication /\ checked[clerk[r].job] = "none"
           /\ clerk[r].at \notin {"reread", "apply"} =>
                 clerk[r].job \in moved \/ application[clerk[r].job].snapshot = checked[clerk[r].job]
<1>1. clerk[r] \in Clerk /\ clerk[r].job \in Jobs /\ clerk[r].template \in Templates \cup {NoTemplate}
  BY DEF ImportsInv, ImportsTypeOK, Clerk
<1>2. \A q \in Clerks \ {r} : clerk[q].at \in Validation => clerk[q].job # clerk[r].job
  BY DEF ImportsInv, SnapshotsInv
<1>3. \A q \in Clerks : clerk[q].at \in {"reread", "apply"} => clerk[q].at \in Validation
  BY DEF Validation
<1>4. clerk[r].at \notin {"reread", "apply"} =>
          clerk[r].job \in moved \/ application[clerk[r].job].snapshot = checked[clerk[r].job]
  BY <1>1, <1>2, <1>3 DEF ImportsInv, SnapshotsInv
<1> QED
  BY <1>1, <1>2, <1>4 DEF ImportsInv, ImportsTypeOK, SnapshotsInv

LEMMA ResolveKeeps ==
    ASSUME ImportsInv, NEW r \in Clerks, ResolveTemplate(r)
    PROVE  ImportsInv'
<1>1. clerk[r].at = "resolve" /\ clerk[r].at \in Validation
  BY DEF ResolveTemplate, Validation
<1>2. PICK c \in Clerk, j \in Jobs : c = clerk[r] /\ j = clerk[r].job
  BY <1>1, OneValidation
<1>3. c.template \in Templates \cup {NoTemplate}
  BY <1>1, <1>2, OneValidation
<1>4. PICK t \in DefaultTemplates(c.template) : clerk' = [clerk EXCEPT ![r] = [c EXCEPT !.at = "check", !.template = t, !.config = Config(t)]]
  BY <1>2 DEF ResolveTemplate, ClerkTurns
<1>5. t \in Templates \cup {NoTemplate} /\ (t # NoTemplate => template[t].here)
  BY <1>3, <1>4 DEF DefaultTemplates
<1>6. PICK config \in Configs : config = Config(t) /\ config = Asked(template, t)
  BY <1>5, ConfigsAreAsked
<1>7. PICK new : new = [c EXCEPT !.at = "check", !.template = t, !.config = config]
  OBVIOUS
<1>8. new \in Clerk /\ new.at = "check" /\ new.template = t /\ new.job = j /\ new.config = config
  BY <1>2, <1>5, <1>7 DEF Clerk, Places
<1>9. clerk' = [clerk EXCEPT ![r] = new]
  BY <1>4, <1>6, <1>7, Zenon
<1>10. UNCHANGED <<template, default, upset, job, application, contact, checked, made, moved, cut>>
  BY DEF ResolveTemplate, templateVars, jobVars
<1>11. /\ job[j].status = "none" /\ application[j] = NoApplication /\ checked[j] = "none"
       /\ j \in moved \/ application[j].snapshot = checked[j]
       /\ \A q \in Clerks \ {r} : clerk[q].at \in Validation => clerk[q].job # j
       /\ application \in [Jobs -> [template: Templates \cup {NoTemplate}, snapshot: Configs \cup {"none"}]]
  BY <1>1, <1>2, OneValidation DEF Checks
<1>12. Checks(new, template, job, checked, application', moved)
  BY <1>5, <1>6, <1>8, <1>10, <1>11 DEF Checks, Gone
<1>13. /\ clerk[r].at \in Validation \cup {"idle"} /\ new.at \in Validation \cup {"idle"}
       /\ clerk[r].job = j /\ new.job = j
       /\ application' \in [Jobs -> [template: Templates \cup {NoTemplate}, snapshot: Configs \cup {"none"}]]
       /\ \A i \in Jobs \ {j} : application'[i] = application[i]
       /\ application'[j] = NoApplication /\ checked[j] = "none"
       /\ j \in moved \/ application'[j].snapshot = checked[j]
       /\ \A q \in Clerks \ {r} : clerk[q].at \in Validation => clerk[q].job # j
  BY <1>1, <1>2, <1>8, <1>10, <1>11 DEF Validation
<1> QED
  BY <1>8, <1>9, <1>10, <1>12, <1>13, ValidationGoesOn

LEMMA CheckRowsKeeps ==
    ASSUME ImportsInv, NEW r \in Clerks, CheckRows(r)
    PROVE  ImportsInv'
<1>1. clerk[r].at = "check" /\ clerk[r].at \in Validation
  BY DEF CheckRows, Validation
<1>2. PICK c \in Clerk, j \in Jobs : c = clerk[r] /\ j = clerk[r].job
  BY <1>1, OneValidation
<1>3. PICK status \in {"VALIDATED", "FAILED"} : status = IF Accepted(c.copy.payload, c.config) THEN "VALIDATED" ELSE "FAILED"
  OBVIOUS
<1>4. PICK t \in Templates \cup {NoTemplate} : t = c.template
  BY <1>2 DEF Clerk
<1>5. PICK copy : copy = [[c.copy EXCEPT !.status = status] EXCEPT !.template = t]
  OBVIOUS
<1>6. copy \in JobRow /\ copy.status = status
  <2>1. c.copy \in JobRow
    BY DEF Clerk
  <2> QED
    BY <1>5, <2>1 DEF JobRow
<1>7. PICK new : new = [c EXCEPT !.at = "job", !.copy = copy]
  OBVIOUS
<1>8. new \in Clerk /\ new.at = "job" /\ new.template = c.template /\ new.job = j /\ new.config = c.config /\ new.copy = copy
  BY <1>2, <1>6, <1>7 DEF Clerk, Places
<1>9. clerk' = [clerk EXCEPT ![r] = new]
  <2>1. clerk' = [clerk EXCEPT ![r] = [c EXCEPT !.at = "job", !.copy.status = status, !.copy.template = t]]
    BY <1>2, <1>3, <1>4, Zenon DEF CheckRows, ClerkTurns
  <2>2. [c EXCEPT !.at = "job", !.copy.status = status, !.copy.template = t] = new
    BY <1>5, <1>7 DEF Clerk
  <2> QED
    BY <2>1, <2>2
<1>10. UNCHANGED <<template, default, upset, job, application, contact, checked, made, moved, cut>>
  BY DEF CheckRows, templateVars, jobVars
<1>11. /\ job[j].status = "none" /\ application[j] = NoApplication /\ checked[j] = "none"
       /\ j \in moved \/ application[j].snapshot = checked[j]
       /\ \A q \in Clerks \ {r} : clerk[q].at \in Validation => clerk[q].job # j
       /\ application \in [Jobs -> [template: Templates \cup {NoTemplate}, snapshot: Configs \cup {"none"}]]
       /\ Checks(c, template, job, checked, application, moved)
  BY <1>1, <1>2, OneValidation DEF Checks
<1>12. Checks(new, template, job, checked, application', moved)
  BY <1>1, <1>2, <1>6, <1>8, <1>10, <1>11 DEF Checks
<1>13. /\ clerk[r].at \in Validation \cup {"idle"} /\ new.at \in Validation \cup {"idle"}
       /\ clerk[r].job = j /\ new.job = j
       /\ application' \in [Jobs -> [template: Templates \cup {NoTemplate}, snapshot: Configs \cup {"none"}]]
       /\ \A i \in Jobs \ {j} : application'[i] = application[i]
       /\ application'[j] = NoApplication /\ checked[j] = "none"
       /\ j \in moved \/ application'[j].snapshot = checked[j]
       /\ \A q \in Clerks \ {r} : clerk[q].at \in Validation => clerk[q].job # j
  BY <1>1, <1>2, <1>8, <1>10, <1>11 DEF Validation
<1> QED
  BY <1>8, <1>9, <1>10, <1>12, <1>13, ValidationGoesOn

LEMMA RereadKeeps ==
    ASSUME ImportsInv, NEW r \in Clerks, RereadTemplate(r)
    PROVE  ImportsInv'
<1>1. clerk[r].at = "reread" /\ clerk[r].at \in Validation
  BY DEF RereadTemplate, Validation
<1>2. PICK c \in Clerk, j \in Jobs : c = clerk[r] /\ j = clerk[r].job
  BY <1>1, OneValidation
<1>3. PICK t \in Templates \cup {NoTemplate} : t = c.template
  BY <1>2 DEF Clerk
<1>4. PICK config \in Configs : config = Config(t) /\ config = Asked(template, t)
  BY ConfigsAreAsked
<1>5. PICK applying : applying = [c EXCEPT !.at = "apply", !.config = config]
  OBVIOUS
<1>6. applying \in Clerk /\ applying.at = "apply" /\ applying.template = t /\ applying.job = j /\ applying.config = config
  BY <1>2, <1>3, <1>5 DEF Clerk, Places
<1>7. PICK new \in Clerk : clerk' = [clerk EXCEPT ![r] = new] /\ new = IF Gone(template, t) THEN NoClerk ELSE applying
  <2>1. clerk' = [clerk EXCEPT ![r] = IF Missing(t) THEN NoClerk ELSE applying]
    BY <1>2, <1>3, <1>4, <1>5, Zenon DEF RereadTemplate, ClerkTurns, Reread
  <2> QED
    BY <1>6, <2>1, NoOneImports, ConfigsAreAsked
<1>8. UNCHANGED <<template, default, upset, job, application, contact, checked, made, moved, cut>>
  BY DEF RereadTemplate, templateVars, jobVars
<1>9. /\ job[j].status # "none" /\ application[j] = NoApplication
      /\ \A q \in Clerks \ {r} : clerk[q].at \in Validation => clerk[q].job # j
      /\ application \in [Jobs -> [template: Templates \cup {NoTemplate}, snapshot: Configs \cup {"none"}]]
      /\ j \in moved \/ (~Gone(template, t) /\ config = checked[j])
  BY <1>1, <1>2, <1>3, <1>4, OneValidation DEF Checks
<1>10. Checks(new, template, job, checked, application', moved)
  BY <1>6, <1>7, <1>8, <1>9, NoOneImports DEF Checks
<1>11. /\ clerk[r].at \in Validation \cup {"idle"} /\ new.at \in Validation \cup {"idle"}
       /\ new.at \in Validation => new.job = j
       /\ clerk[r].job = j /\ job[j].status # "none"
       /\ application' \in [Jobs -> [template: Templates \cup {NoTemplate}, snapshot: Configs \cup {"none"}]]
       /\ \A i \in Jobs \ {j} : application'[i] = application[i]
       /\ j \in moved \/ (application'[j] = NoApplication /\ new.at \in {"reread", "apply"})
       /\ \A q \in Clerks \ {r} : clerk[q].at \in Validation => clerk[q].job # j
  BY <1>1, <1>2, <1>6, <1>7, <1>8, <1>9, NoOneImports DEF Validation
<1>12. clerk' = [clerk EXCEPT ![r] = new]
  BY <1>7
<1>13. UNCHANGED <<template, default, upset, job, contact, checked, made, moved, cut>>
  BY <1>8
<1> QED
  BY <1>10, <1>11, <1>12, <1>13, ValidationGoesOn

LEMMA ApplicationIsSaved ==
    ASSUME ImportsInv, NEW r \in Clerks, SaveApplication(r)
    PROVE  ImportsInv'
<1>1. clerk[r].at = "apply" /\ clerk[r].at \in Validation
  BY DEF SaveApplication, Validation
<1>2. PICK c \in Clerk, j \in Jobs : c = clerk[r] /\ j = clerk[r].job
  BY <1>1, OneValidation
<1>3. PICK t \in Templates \cup {NoTemplate}, config \in Configs : t = c.template /\ config = c.config
  BY <1>2 DEF Clerk
<1>4. PICK fresh : fresh = [template |-> t, snapshot |-> config]
  OBVIOUS
<1>5. /\ clerk' = [clerk EXCEPT ![r] = NoClerk]
      /\ UNCHANGED <<template, default, upset, job, contact, checked, made, moved, cut>>
  BY DEF SaveApplication, ClerkTurns, templateVars
<1>6. application' = IF Gone(template, t) THEN application ELSE [application EXCEPT ![j] = fresh]
  <2>1. application' = IF Missing(t) THEN application ELSE [application EXCEPT ![j] = fresh]
    BY <1>2, <1>3, <1>4, Zenon DEF SaveApplication
  <2> QED
    BY <2>1, ConfigsAreAsked
<1>7. /\ job[j].status # "none" /\ application[j] = NoApplication
      /\ \A q \in Clerks \ {r} : clerk[q].at \in Validation => clerk[q].job # j
      /\ application \in [Jobs -> [template: Templates \cup {NoTemplate}, snapshot: Configs \cup {"none"}]]
      /\ j \in moved \/ (~Gone(template, t) /\ config = checked[j])
  BY <1>1, <1>2, <1>3, OneValidation DEF Checks
<1>8. application' \in [Jobs -> [template: Templates \cup {NoTemplate}, snapshot: Configs \cup {"none"}]]
  BY <1>4, <1>6, <1>7
<1>9. (\A i \in Jobs \ {j} : application'[i] = application[i]) /\ (j \in moved \/ application'[j].snapshot = checked[j])
  BY <1>4, <1>6, <1>7
<1>10. Checks(NoClerk, template, job, checked, application', moved)
  BY NoOneImports DEF Checks
<1>11. PICK none \in Clerk : none = NoClerk
  BY NoOneImports
<1>12. /\ clerk' = [clerk EXCEPT ![r] = none] /\ none.at \in Validation \cup {"idle"} /\ none.at \notin Validation
       /\ Checks(none, template, job, checked, application', moved)
  BY <1>5, <1>10, <1>11, NoOneImports DEF Validation
<1>13. /\ clerk[r].at \in Validation \cup {"idle"}
       /\ clerk[r].job = j /\ job[j].status # "none"
       /\ \A q \in Clerks \ {r} : clerk[q].at \in Validation => clerk[q].job # j
  BY <1>1, <1>2, <1>7 DEF Validation
<1>14. UNCHANGED <<template, default, upset, job, contact, checked, made, moved, cut>>
  BY <1>5
<1>15. /\ clerk[r].at \in Validation => clerk[r].job = j
       /\ none.at \in Validation => none.job = j
       /\ job[j].status = "none" => application'[j] = NoApplication /\ checked[j] = "none"
       /\ \/ j \in moved \/ application'[j].snapshot = checked[j]
          \/ application'[j] = NoApplication /\ none.at \in {"reread", "apply"}
  BY <1>9, <1>12, <1>13
<1>16. clerk' = [clerk EXCEPT ![r] = none] /\ none.at \in Validation \cup {"idle"} /\ clerk[r].at \in Validation \cup {"idle"}
  BY <1>12, <1>13
<1>17. Checks(none, template, job, checked, application', moved)
  BY <1>12
<1>18. \A i \in Jobs \ {j} : application'[i] = application[i]
  BY <1>9
<1>19. \A q \in Clerks \ {r} : clerk[q].at \in Validation => clerk[q].job # j
  BY <1>13
<1> QED
  BY <1>8, <1>14, <1>15, <1>16, <1>17, <1>18, <1>19, ValidationGoesOn, Zenon

LEMMA JobIsSaved ==
    ASSUME ImportsInv, NEW r \in Clerks, SaveJob(r)
    PROVE  ImportsInv'
<1>1. clerk[r].at = "job" /\ clerk[r].at \in Validation
  BY DEF SaveJob, Validation
<1>2. PICK c \in Clerk, j \in Jobs : c = clerk[r] /\ j = clerk[r].job
  BY <1>1, OneValidation
<1>3. PICK t \in Templates \cup {NoTemplate}, config \in Configs, copy \in JobRow : t = c.template /\ config = c.config /\ copy = c.copy
  BY <1>2 DEF Clerk
<1>4. UNCHANGED <<template, default, upset, application, contact, made, moved, cut>>
  BY DEF SaveJob, templateVars
<1>5. /\ job[j].status = "none" /\ application[j] = NoApplication /\ checked[j] = "none"
      /\ copy.status \in {"VALIDATED", "FAILED"}
      /\ j \in moved \/ application[j].snapshot = checked[j]
      /\ \A q \in Clerks \ {r} : clerk[q].at \in Validation => clerk[q].job # j
      /\ application \in [Jobs -> [template: Templates \cup {NoTemplate}, snapshot: Configs \cup {"none"}]]
      /\ j \in moved \/ (~Gone(template, t) /\ config = Asked(template, t))
  BY <1>1, <1>2, <1>3, OneValidation DEF Checks
<1>6. CASE Missing(t)
  <2>1. clerk' = [clerk EXCEPT ![r] = NoClerk] /\ job' = job /\ checked' = checked
    BY <1>2, <1>3, <1>6 DEF SaveJob, ClerkTurns
  <2>2. PICK none \in Clerk : none = NoClerk
    BY NoOneImports
  <2>3. /\ clerk' = [clerk EXCEPT ![r] = none] /\ none.at \in Validation \cup {"idle"} /\ none.at \notin Validation
        /\ Checks(none, template, job, checked, application', moved)
    BY <2>1, <2>2, NoOneImports DEF Checks, Validation
  <2>4. /\ application' \in [Jobs -> [template: Templates \cup {NoTemplate}, snapshot: Configs \cup {"none"}]]
        /\ \A i \in Jobs \ {j} : application'[i] = application[i]
        /\ application'[j] = NoApplication /\ checked[j] = "none"
        /\ j \in moved \/ application'[j].snapshot = checked[j]
    BY <1>4, <1>5
  <2>5. /\ clerk[r].at \in Validation \cup {"idle"} /\ clerk[r].job = j
        /\ \A q \in Clerks \ {r} : clerk[q].at \in Validation => clerk[q].job # j
    BY <1>1, <1>2, <1>5 DEF Validation
  <2>6. UNCHANGED <<template, default, upset, job, contact, checked, made, moved, cut>>
    BY <1>4, <2>1
  <2>7. /\ clerk[r].at \in Validation => clerk[r].job = j
        /\ none.at \in Validation => none.job = j
        /\ job[j].status = "none" => application'[j] = NoApplication /\ checked[j] = "none"
        /\ \/ j \in moved \/ application'[j].snapshot = checked[j]
           \/ application'[j] = NoApplication /\ none.at \in {"reread", "apply"}
    BY <2>3, <2>4, <2>5
  <2>8. clerk' = [clerk EXCEPT ![r] = none] /\ none.at \in Validation \cup {"idle"} /\ clerk[r].at \in Validation \cup {"idle"}
    BY <2>3, <2>5
  <2>9. Checks(none, template, job, checked, application', moved)
    BY <2>3
  <2>10. \A q \in Clerks \ {r} : clerk[q].at \in Validation => clerk[q].job # j
    BY <2>5
  <2> QED
    BY <2>4, <2>6, <2>7, <2>8, <2>9, <2>10, ValidationGoesOn, Zenon
<1>7. CASE ~Missing(t)
  <2>1. PICK new : new = [c EXCEPT !.at = "reread"]
    OBVIOUS
  <2>2. new \in Clerk /\ new.at = "reread" /\ new.template = t /\ new.job = j /\ new.config = config
    BY <1>2, <1>3, <2>1 DEF Clerk, Places
  <2>3. /\ clerk' = [clerk EXCEPT ![r] = new] /\ job' = [job EXCEPT ![j] = copy] /\ checked' = [checked EXCEPT ![j] = config]
    BY <1>2, <1>3, <1>7, <2>1 DEF SaveJob, Moves, ClerkTurns
  <2>4. /\ job' \in [Jobs -> JobRow] /\ checked' \in [Jobs -> Configs \cup {"none"}]
        /\ job'[j] = copy /\ checked'[j] = config
        /\ \A i \in Jobs \ {j} : job'[i] = job[i] /\ checked'[i] = checked[i]
    BY <2>3 DEF ImportsInv, ImportsTypeOK
  <2>5. ImportsTypeOK'
    BY <1>4, <2>2, <2>3, <2>4 DEF ImportsInv, ImportsTypeOK
  <2>6. TemplatesInv'
    <3>1. clerk[r].at \notin Editing /\ new.at \notin Editing /\ UNCHANGED templateVars
      BY <1>1, <1>4, <2>2 DEF Editing, templateVars
    <3> QED
      BY <2>2, <2>3, <3>1, TemplatesAside
  <2>7. SnapshotsInv'
    <3>1. Checks(new, template, job', checked', application', moved)
      BY <1>4, <1>5, <2>2, <2>4 DEF Checks
    <3>2. /\ job'[j].status # "none" /\ application'[j] = NoApplication /\ new.at \in {"reread", "apply"}
          /\ template' = template /\ moved' = moved
          /\ \A i \in Jobs \ {j} : job'[i] = job[i] /\ checked'[i] = checked[i] /\ application'[i] = application[i]
      BY <1>4, <1>5, <2>2, <2>4
    <3> QED
      BY <1>2, <1>5, <2>2, <2>3, <3>1, <3>2, ValidationMoves
  <2>8. CommitsInv'
    <3>1. clerk'[r] = new /\ \A q \in Clerks \ {r} : clerk'[q] = clerk[q]
      BY <2>2, <2>3, ClerksTurn DEF ImportsInv
    <3>2. \A q \in Clerks : clerk[q].job \in Jobs
      BY DEF ImportsInv, ImportsTypeOK, Clerk
    <3>3. \A q \in Clerks : Commits(clerk[q]) => clerk[q].job \in Jobs \ {j}
      BY <1>5, <3>2 DEF ImportsInv, CommitsInv
    <3>4. ~Commits(clerk[r]) /\ ~Commits(new) /\ new.at \notin {"complete", "failed"}
      BY <1>1, <2>2 DEF Commits
    <3>5. \A q \in Clerks : Commits(clerk'[q]) => clerk'[q] = clerk[q] /\ Commits(clerk[q])
      BY <3>1, <3>4
    <3>6. made' = made /\ cut' = cut
      BY <1>4
    <3>7. \A q \in Clerks : clerk'[q].at \in {"complete", "failed"} => ~clerk'[q].new
      BY <3>1, <3>4 DEF ImportsInv, CommitsInv
    <3>8. ASSUME NEW q \in Clerks, Commits(clerk'[q])
          PROVE  /\ job'[clerk'[q].job].status # "none"
                 /\ clerk'[q].job \notin cut' =>
                       /\ job'[clerk'[q].job].status = "VALIDATED"
                       /\ made'[clerk'[q].job] = IF clerk'[q].at = "complete" THEN 1 ELSE 0
                       /\ \A s \in Clerks : Commits(clerk'[s]) /\ clerk'[s].job = clerk'[q].job => s = q
      <4>1. PICK i \in Jobs \ {j} : i = clerk[q].job /\ i = clerk'[q].job
        BY <3>3, <3>5, <3>8
      <4>2. job'[i] = job[i] /\ clerk'[q] = clerk[q] /\ Commits(clerk[q])
        BY <2>4, <3>5, <3>8
      <4> QED
        BY <3>5, <3>6, <4>1, <4>2 DEF ImportsInv, CommitsInv
    <3>9. ASSUME NEW i \in Jobs \ cut'
          PROVE  \/ \E q \in Clerks : Commits(clerk'[q]) /\ clerk'[q].job = i
                 \/ job'[i].status = "COMPLETED" /\ made'[i] = 1
                 \/ job'[i].status # "COMPLETED" /\ made'[i] = 0
      <4>1. CASE i = j
        <5>1. made[j] = 0
          BY <1>5, <3>3, <3>6, <3>9, <4>1 DEF ImportsInv, CommitsInv
        <5> QED
          BY <1>5, <2>4, <3>6, <4>1, <5>1
      <4>2. CASE i # j
        <5>1. job'[i] = job[i]
          BY <2>4, <4>2
        <5>2. \A q \in Clerks : Commits(clerk[q]) => clerk'[q] = clerk[q]
          BY <3>1, <3>4
        <5> QED
          BY <3>6, <3>9, <5>1, <5>2 DEF ImportsInv, CommitsInv
      <4> QED
        BY <4>1, <4>2
    <3> QED
      BY <3>7, <3>8, <3>9, Zenon DEF CommitsInv, Commits
  <2> QED
    BY <2>5, <2>6, <2>7, <2>8 DEF ImportsInv
<1> QED
  BY <1>6, <1>7

CommitPlaces == {"exist", "insert", "complete", "failed"}

\* A commit takes a step with its job.
LEMMA CommitMoves ==
    ASSUME ImportsInv, NEW r \in Clerks, NEW new \in Clerk, clerk' = [clerk EXCEPT ![r] = new], NEW j \in Jobs,
           Commits(clerk[r]) => clerk[r].job = j, Commits(new) => new.job = j,
           \A i \in Jobs \ {j} : job'[i].status = job[i].status /\ made'[i] = made[i] /\ (i \in cut' <=> i \in cut),
           new.at \in {"complete", "failed"} => ~new.new,
           Commits(new) => job'[j].status # "none", job[j].status # "none" => job'[j].status # "none",
           j \notin cut' =>
              /\ j \notin cut /\ \A q \in Clerks \ {r} : Commits(clerk[q]) => clerk[q].job # j
              /\ IF Commits(new) THEN job'[j].status = "VALIDATED" /\ made'[j] = IF new.at = "complete" THEN 1 ELSE 0
                 ELSE \/ job'[j].status = "COMPLETED" /\ made'[j] = 1
                      \/ job'[j].status # "COMPLETED" /\ made'[j] = 0
    PROVE  CommitsInv'
<1>1. clerk'[r] = new /\ \A q \in Clerks \ {r} : clerk'[q] = clerk[q]
  BY ClerksTurn DEF ImportsInv
<1>2. \A q \in Clerks : clerk[q].job \in Jobs
  BY DEF ImportsInv, ImportsTypeOK, Clerk
<1>3. \A q \in Clerks : clerk'[q].at \in {"complete", "failed"} => ~clerk'[q].new
  BY <1>1 DEF ImportsInv, CommitsInv
<1>4. ASSUME NEW q \in Clerks, Commits(clerk'[q])
      PROVE  /\ job'[clerk'[q].job].status # "none"
             /\ clerk'[q].job \notin cut' =>
                   /\ job'[clerk'[q].job].status = "VALIDATED"
                   /\ made'[clerk'[q].job] = IF clerk'[q].at = "complete" THEN 1 ELSE 0
                   /\ \A s \in Clerks : Commits(clerk'[s]) /\ clerk'[s].job = clerk'[q].job => s = q
  <2>1. CASE q = r
    BY <1>1, <1>4, <2>1
  <2>2. CASE q # r /\ clerk[q].job = j
    <3>1. j \in cut'
      BY <1>1, <1>4, <2>2
    <3>2. job[j].status # "none"
      BY <1>1, <1>4, <2>2 DEF ImportsInv, CommitsInv
    <3> QED
      BY <1>1, <2>2, <3>1, <3>2
  <2>3. CASE q # r /\ clerk[q].job # j
    <3>1. PICK i \in Jobs \ {j} : i = clerk[q].job /\ clerk'[q] = clerk[q] /\ Commits(clerk[q])
      BY <1>1, <1>2, <1>4, <2>3
    <3>2. /\ job[i].status # "none"
          /\ i \notin cut => /\ job[i].status = "VALIDATED"
                             /\ made[i] = IF clerk[q].at = "complete" THEN 1 ELSE 0
                             /\ \A s \in Clerks : Commits(clerk[s]) /\ clerk[s].job = i => s = q
      BY <3>1 DEF ImportsInv, CommitsInv
    <3>3. \A s \in Clerks : Commits(clerk'[s]) /\ clerk'[s].job = i => Commits(clerk[s]) /\ clerk[s].job = i
      BY <1>1
    <3> QED
      BY <3>1, <3>2, <3>3
  <2> QED
    BY <2>1, <2>2, <2>3
<1>5. ASSUME NEW i \in Jobs \ cut'
      PROVE  \/ \E q \in Clerks : Commits(clerk'[q]) /\ clerk'[q].job = i
             \/ job'[i].status = "COMPLETED" /\ made'[i] = 1
             \/ job'[i].status # "COMPLETED" /\ made'[i] = 0
  <2>1. CASE i = j
    BY <1>1, <1>5, <2>1
  <2>2. CASE i # j
    <3>1. \A q \in Clerks : Commits(clerk[q]) /\ clerk[q].job = i => clerk'[q] = clerk[q]
      BY <1>1, <2>2
    <3> QED
      BY <1>5, <2>2, <3>1 DEF ImportsInv, CommitsInv
  <2> QED
    BY <2>1, <2>2
<1> QED
  BY <1>3, <1>4, <1>5, Zenon DEF CommitsInv, Commits

\* What it leaves to the rest.
LEMMA CommitGoesOn ==
    ASSUME ImportsInv, NEW r \in Clerks, NEW new \in Clerk, clerk' = [clerk EXCEPT ![r] = new], CommitsInv',
           UNCHANGED <<template, default, upset, application, checked, moved>>,
           job' \in [Jobs -> JobRow], \A j \in Jobs : job'[j].status = "none" <=> job[j].status = "none",
           contact' \subseteq Emails, made' \in [Jobs -> Nat], cut' \subseteq Jobs,
           clerk[r].at \in CommitPlaces \cup {"idle"}, new.at \in CommitPlaces \cup {"idle"}
    PROVE  ImportsInv'
<1>1. ImportsTypeOK'
  BY DEF ImportsInv, ImportsTypeOK
<1>2. TemplatesInv'
  BY TemplatesAside DEF templateVars, CommitPlaces, Editing
<1>3. SnapshotsInv'
  BY SnapshotsAside DEF CommitPlaces, Validation
<1> QED
  BY <1>1, <1>2, <1>3 DEF ImportsInv

LEMMA AskCommitKeeps ==
    ASSUME ImportsInv, NEW r \in Clerks, NEW j \in Jobs, AskCommit(r, j)
    PROVE  ImportsInv'
<1>1. PICK copy \in JobRow : copy = job[j]
  BY DEF ImportsInv, ImportsTypeOK
<1>2. PICK new : new = [NoClerk EXCEPT !.at = "exist", !.job = j, !.copy = copy]
  OBVIOUS
<1>3. new \in Clerk /\ new.at = "exist" /\ new.job = j /\ ~new.new
  BY <1>1, <1>2, NoOneImports DEF Clerk, Places
<1>4. clerk' = [clerk EXCEPT ![r] = new] /\ clerk[r].at = "idle" /\ job[j].status = "VALIDATED"
  BY <1>1, <1>2, Zenon DEF AskCommit, MayCommit, ClerkBegins
<1>5. /\ UNCHANGED <<template, default, upset, job, application, contact, checked, made, moved>>
      /\ cut' = IF Committing(j) = {} THEN cut ELSE cut \cup {j}
  BY DEF AskCommit, templateVars
<1>6. ASSUME j \notin cut'
      PROVE  j \notin cut /\ made[j] = 0 /\ \A q \in Clerks \ {r} : Commits(clerk[q]) => clerk[q].job # j
  <2>1. j \notin cut /\ \A q \in Clerks : Commits(clerk[q]) => clerk[q].job # j
    BY <1>5, <1>6 DEF Committing, Commits
  <2> QED
    BY <1>4, <2>1 DEF ImportsInv, CommitsInv
<1>7. ~Commits(clerk[r]) /\ Commits(new) /\ new.at \notin {"complete", "failed"}
  BY <1>3, <1>4 DEF Commits
<1>8. \A i \in Jobs \ {j} : job'[i].status = job[i].status /\ made'[i] = made[i] /\ (i \in cut' <=> i \in cut)
  BY <1>5
<1>9. job'[j].status = "VALIDATED" /\ made' = made
  BY <1>4, <1>5
<1>10. CommitsInv'
  BY <1>3, <1>4, <1>6, <1>7, <1>8, <1>9, CommitMoves
<1>11. job' \in [Jobs -> JobRow] /\ contact' \subseteq Emails /\ made' \in [Jobs -> Nat] /\ cut' \subseteq Jobs
  BY <1>5 DEF ImportsInv, ImportsTypeOK
<1>12. clerk[r].at \in CommitPlaces \cup {"idle"} /\ new.at \in CommitPlaces \cup {"idle"} /\ job' = job
  BY <1>3, <1>4, <1>5 DEF CommitPlaces
<1> QED
  BY <1>3, <1>4, <1>5, <1>10, <1>11, <1>12, CommitGoesOn

\* A request for rows without a job goes on, and contacts come.
LEMMA RowsGoOn ==
    ASSUME ImportsInv, NEW r \in Clerks, NEW new \in Clerk, clerk' = [clerk EXCEPT ![r] = new],
           UNCHANGED <<template, default, upset, job, application, checked, made, moved, cut>>,
           clerk[r].at \in CommitPlaces \cup {"idle"}, new.at \in {"exist", "insert", "idle"},
           ~Commits(clerk[r]), ~Commits(new), contact' \subseteq Emails
    PROVE  ImportsInv'
<1>1. CommitsInv'
  BY CommitsAside
<1>2. job' \in [Jobs -> JobRow] /\ made' \in [Jobs -> Nat] /\ cut' \subseteq Jobs /\ new.at \in CommitPlaces \cup {"idle"} /\ job' = job
  BY DEF ImportsInv, ImportsTypeOK, CommitPlaces
<1> QED
  BY <1>1, <1>2, CommitGoesOn

LEMMA AskRowsKeeps ==
    ASSUME ImportsInv, NEW r \in Clerks, NEW p \in Payloads, AskRows(r, p)
    PROVE  ImportsInv'
<1>1. PICK copy : copy = [NoJob EXCEPT !.payload = p]
  OBVIOUS
<1>2. copy \in JobRow
  BY <1>1, NoOneImports DEF JobRow
<1>3. PICK new : new = [NoClerk EXCEPT !.at = "exist", !.copy = copy, !.new = TRUE]
  OBVIOUS
<1>4. new \in Clerk /\ new.at = "exist" /\ new.new
  BY <1>2, <1>3, NoOneImports DEF Clerk, Places
<1>5. clerk' = [clerk EXCEPT ![r] = new] /\ clerk[r].at = "idle"
  BY <1>1, <1>3, Zenon DEF AskRows, ClerkBegins
<1>6. UNCHANGED <<template, default, upset, job, application, contact, checked, made, moved, cut>>
  BY DEF AskRows, templateVars, jobVars
<1>7. ~Commits(clerk[r]) /\ ~Commits(new) /\ clerk[r].at \in CommitPlaces \cup {"idle"}
  BY <1>4, <1>5 DEF Commits, CommitPlaces
<1>8. contact' \subseteq Emails
  BY <1>6 DEF ImportsInv, ImportsTypeOK
<1> QED
  BY <1>4, <1>5, <1>6, <1>7, <1>8, RowsGoOn

\* What is known of a commit under way.
LEMMA OneCommit ==
    ASSUME ImportsInv, NEW r \in Clerks, Commits(clerk[r])
    PROVE  /\ clerk[r].job \in Jobs /\ job[clerk[r].job].status # "none"
           /\ clerk[r].job \notin cut =>
                 /\ job[clerk[r].job].status = "VALIDATED"
                 /\ made[clerk[r].job] = IF clerk[r].at = "complete" THEN 1 ELSE 0
                 /\ \A q \in Clerks \ {r} : Commits(clerk[q]) => clerk[q].job # clerk[r].job
BY DEF ImportsInv, ImportsTypeOK, Clerk, CommitsInv

\* It goes on, before its rows are in.
LEMMA CommitTurns ==
    ASSUME ImportsInv, NEW r \in Clerks, NEW new \in Clerk, clerk' = [clerk EXCEPT ![r] = new],
           UNCHANGED <<template, default, upset, job, application, contact, checked, made, moved, cut>>,
           Commits(clerk[r]), clerk[r].at # "complete", Commits(new), new.at # "complete", new.job = clerk[r].job
    PROVE  ImportsInv'
<1>1. PICK j \in Jobs : j = clerk[r].job
  BY OneCommit
<1>2. /\ job[j].status # "none"
      /\ j \notin cut => /\ job[j].status = "VALIDATED" /\ made[j] = 0
                         /\ \A q \in Clerks \ {r} : Commits(clerk[q]) => clerk[q].job # j
  BY <1>1, OneCommit
<1>3. \A i \in Jobs \ {j} : job'[i].status = job[i].status /\ made'[i] = made[i] /\ (i \in cut' <=> i \in cut)
  OBVIOUS
<1>4. new.at \in {"complete", "failed"} => ~new.new
  BY DEF Commits
<1>5. CommitsInv'
  BY <1>1, <1>2, <1>3, <1>4, CommitMoves
<1>6. job' \in [Jobs -> JobRow] /\ made' \in [Jobs -> Nat] /\ cut' \subseteq Jobs /\ contact' \subseteq Emails
  BY DEF ImportsInv, ImportsTypeOK
<1>7. clerk[r].at \in CommitPlaces \cup {"idle"} /\ new.at \in CommitPlaces \cup {"idle"} /\ job' = job
  BY DEF CommitPlaces, Commits
<1> QED
  BY <1>5, <1>6, <1>7, CommitGoesOn

\* What throws before the rows are in.
LEMMA ThrowsGoesOn ==
    ASSUME ImportsInv, NEW r \in Clerks, clerk[r].at \in {"exist", "insert"}, clerk' = [clerk EXCEPT ![r] = Throws(r)],
           UNCHANGED <<template, default, upset, job, application, contact, checked, made, moved, cut>>
    PROVE  ImportsInv'
<1>1. clerk[r] \in Clerk /\ clerk[r].at \in CommitPlaces \cup {"idle"}
  BY DEF ImportsInv, ImportsTypeOK, CommitPlaces
<1>2. CASE clerk[r].new
  <2>1. PICK new : new = NoClerk
    OBVIOUS
  <2>2. clerk' = [clerk EXCEPT ![r] = new]
    BY <1>2, <2>1, Zenon DEF Throws
  <2>3. new \in Clerk /\ new.at \in {"exist", "insert", "idle"} /\ ~Commits(new) /\ ~Commits(clerk[r])
    BY <1>2, <2>1, NoOneImports DEF Commits
  <2>4. contact' \subseteq Emails
    BY DEF ImportsInv, ImportsTypeOK
  <2> QED
    BY <1>1, <2>2, <2>3, <2>4, RowsGoOn
<1>3. CASE ~clerk[r].new
  <2>1. PICK new : new = [clerk[r] EXCEPT !.at = "failed"]
    OBVIOUS
  <2>2. clerk' = [clerk EXCEPT ![r] = new]
    BY <1>3, <2>1, Zenon DEF Throws
  <2>3. new \in Clerk /\ new.at = "failed" /\ new.job = clerk[r].job /\ new.new = clerk[r].new
    BY <1>1, <2>1 DEF Clerk, Places
  <2>4. Commits(clerk[r]) /\ Commits(new) /\ clerk[r].at # "complete" /\ new.at # "complete"
    BY <1>3, <2>3 DEF Commits
  <2> QED
    BY <2>2, <2>3, <2>4, CommitTurns
<1> QED
  BY <1>2, <1>3

LEMMA CheckExistingKeeps ==
    ASSUME ImportsInv, NEW r \in Clerks, CheckExisting(r)
    PROVE  ImportsInv'
<1>1. clerk[r] \in Clerk /\ clerk[r].at \in CommitPlaces \cup {"idle"} /\ clerk[r].at = "exist"
  BY DEF ImportsInv, ImportsTypeOK, CommitPlaces, CheckExisting
<1>2. UNCHANGED <<template, default, upset, job, application, contact, checked, made, moved, cut>>
  BY DEF CheckExisting, templateVars, jobVars
<1>3. CASE clerk' = [clerk EXCEPT ![r] = [clerk[r] EXCEPT !.at = "insert"]]
  <2>1. PICK new : new = [clerk[r] EXCEPT !.at = "insert"]
    OBVIOUS
  <2>2. clerk' = [clerk EXCEPT ![r] = new]
    BY <1>3, <2>1, Zenon
  <2>3. new \in Clerk /\ new.at = "insert" /\ new.job = clerk[r].job /\ new.new = clerk[r].new
    BY <1>1, <2>1 DEF Clerk, Places
  <2>4. CASE clerk[r].new
    <3>1. ~Commits(clerk[r]) /\ ~Commits(new) /\ new.at \in {"exist", "insert", "idle"}
      BY <2>3, <2>4 DEF Commits
    <3>2. contact' \subseteq Emails
      BY <1>2 DEF ImportsInv, ImportsTypeOK
    <3> QED
      BY <1>1, <1>2, <2>2, <2>3, <3>1, <3>2, RowsGoOn
  <2>5. CASE ~clerk[r].new
    <3>1. Commits(clerk[r]) /\ Commits(new) /\ clerk[r].at # "complete" /\ new.at # "complete"
      BY <1>1, <2>3, <2>5 DEF Commits
    <3> QED
      BY <1>2, <2>2, <2>3, <3>1, CommitTurns
  <2> QED
    BY <2>4, <2>5
<1>4. CASE clerk' = [clerk EXCEPT ![r] = Throws(r)]
  BY <1>1, <1>2, <1>4, ThrowsGoesOn
<1> QED
  BY <1>3, <1>4, Zenon DEF CheckExisting, Moves, ClerkTurns

\* The rows are inserted, and counted for their job.
LEMMA InsertContactsKeeps ==
    ASSUME ImportsInv, NEW r \in Clerks, InsertContacts(r)
    PROVE  ImportsInv'
<1>1. clerk[r] \in Clerk /\ clerk[r].at \in CommitPlaces \cup {"idle"} /\ clerk[r].at = "insert"
  BY DEF ImportsInv, ImportsTypeOK, CommitPlaces, InsertContacts
<1>2. UNCHANGED <<template, default, upset, job, application, checked, moved, cut>>
  BY DEF InsertContacts, templateVars
<1>3. CASE clerk' = [clerk EXCEPT ![r] = Throws(r)] /\ UNCHANGED <<contact, made>>
  BY <1>1, <1>2, <1>3, ThrowsGoesOn
<1>4. CASE /\ contact' = contact \cup Addresses(clerk[r].copy.payload)
           /\ made' = IF clerk[r].new THEN made ELSE [made EXCEPT ![clerk[r].job] = @ + 1]
           /\ clerk' = [clerk EXCEPT ![r] = IF clerk[r].new THEN NoClerk ELSE [clerk[r] EXCEPT !.at = "complete"]]
  <2>1. contact' = contact \cup Addresses(clerk[r].copy.payload)
    BY <1>4
  <2>2. PICK p \in Payloads : p = clerk[r].copy.payload
    BY <1>1 DEF Clerk, JobRow
  <2>3. Addresses(p) \subseteq Emails
    BY DEF Addresses, Emails
  <2>4. contact' \subseteq Emails
    BY <2>1, <2>2, <2>3 DEF ImportsInv, ImportsTypeOK
  <2>5. CASE clerk[r].new
    <3>1. PICK new : new = NoClerk
      OBVIOUS
    <3>2. clerk' = [clerk EXCEPT ![r] = new] /\ made' = made
      BY <1>4, <2>5, <3>1, Zenon
    <3>3. new \in Clerk /\ new.at \in {"exist", "insert", "idle"} /\ ~Commits(new) /\ ~Commits(clerk[r])
      BY <2>5, <3>1, NoOneImports DEF Commits
    <3> QED
      BY <1>1, <1>2, <2>4, <3>2, <3>3, RowsGoOn
  <2>6. CASE ~clerk[r].new
    <3>1. PICK new : new = [clerk[r] EXCEPT !.at = "complete"]
      OBVIOUS
    <3>2. clerk' = [clerk EXCEPT ![r] = new] /\ made' = [made EXCEPT ![clerk[r].job] = @ + 1]
      BY <1>4, <2>6, <3>1, Zenon
    <3>3. new \in Clerk /\ new.at = "complete" /\ new.job = clerk[r].job /\ ~new.new
      BY <1>1, <2>6, <3>1 DEF Clerk, Places
    <3>4. Commits(clerk[r]) /\ Commits(new)
      BY <1>1, <2>6, <3>3 DEF Commits
    <3>5. PICK j \in Jobs : j = clerk[r].job
      BY <3>4, OneCommit
    <3>6. /\ job[j].status # "none"
          /\ j \notin cut => /\ job[j].status = "VALIDATED" /\ made[j] = 0
                             /\ \A q \in Clerks \ {r} : Commits(clerk[q]) => clerk[q].job # j
      BY <1>1, <3>4, <3>5, OneCommit
    <3>7. made \in [Jobs -> Nat]
      BY DEF ImportsInv, ImportsTypeOK
    <3>8. made' \in [Jobs -> Nat] /\ made'[j] = made[j] + 1 /\ \A i \in Jobs \ {j} : made'[i] = made[i]
      BY <3>2, <3>5, <3>7
    <3>9. \A i \in Jobs \ {j} : job'[i].status = job[i].status /\ made'[i] = made[i] /\ (i \in cut' <=> i \in cut)
      BY <1>2, <3>8
    <3>10. j \notin cut => made'[j] = 1
      BY <3>6, <3>8
    <3>11. job' = job /\ cut' = cut
      BY <1>2
    <3>12. CommitsInv'
      <4>1. /\ Commits(clerk[r]) => clerk[r].job = j
            /\ Commits(new) => new.job = j
            /\ new.at \in {"complete", "failed"} => ~new.new
        BY <3>3, <3>5
      <4>2. /\ Commits(new) => job'[j].status # "none"
            /\ job[j].status # "none" => job'[j].status # "none"
        BY <3>6, <3>11
      <4>3. j \notin cut' =>
              /\ j \notin cut /\ \A q \in Clerks \ {r} : Commits(clerk[q]) => clerk[q].job # j
              /\ IF Commits(new) THEN job'[j].status = "VALIDATED" /\ made'[j] = IF new.at = "complete" THEN 1 ELSE 0
                 ELSE \/ job'[j].status = "COMPLETED" /\ made'[j] = 1
                      \/ job'[j].status # "COMPLETED" /\ made'[j] = 0
        BY <3>3, <3>4, <3>6, <3>10, <3>11
      <4>4. new \in Clerk /\ clerk' = [clerk EXCEPT ![r] = new]
        BY <3>2, <3>3
      <4> QED
        BY <3>9, <4>1, <4>2, <4>3, <4>4, CommitMoves, Zenon
    <3>13. job' \in [Jobs -> JobRow] /\ cut' \subseteq Jobs /\ new.at \in CommitPlaces \cup {"idle"}
      BY <3>3, <3>11 DEF ImportsInv, ImportsTypeOK, CommitPlaces
    <3> QED
      BY <1>1, <1>2, <2>4, <3>2, <3>3, <3>8, <3>11, <3>12, <3>13, CommitGoesOn
  <2> QED
    BY <2>5, <2>6
<1> QED
  BY <1>3, <1>4, Zenon DEF InsertContacts, ClerkTurns

\* A commit is over: its job is saved as it came out.
LEMMA CommitIsSaved ==
    ASSUME ImportsInv, NEW r \in Clerks, Commits(clerk[r]), clerk' = [clerk EXCEPT ![r] = NoClerk],
           UNCHANGED <<template, default, upset, application, contact, checked, made, moved, cut>>,
           NEW status \in {"FAILED", "COMPLETED"}, status = "COMPLETED" <=> clerk[r].at = "complete",
           \/ job' = [job EXCEPT ![clerk[r].job] = [clerk[r].copy EXCEPT !.status = status]]
           \/ job' = job /\ status = "FAILED"
    PROVE  ImportsInv'
<1>1. PICK j \in Jobs : j = clerk[r].job
  BY OneCommit
<1>2. /\ job[j].status # "none"
      /\ j \notin cut => /\ job[j].status = "VALIDATED" /\ made[j] = IF clerk[r].at = "complete" THEN 1 ELSE 0
                         /\ \A q \in Clerks \ {r} : Commits(clerk[q]) => clerk[q].job # j
  BY <1>1, OneCommit
<1>3. PICK row : row = [clerk[r].copy EXCEPT !.status = status]
  OBVIOUS
<1>4. row \in JobRow /\ row.status = status
  <2>1. clerk[r].copy \in JobRow
    BY DEF ImportsInv, ImportsTypeOK, Clerk
  <2> QED
    BY <1>3, <2>1 DEF JobRow
<1>5. job' = [job EXCEPT ![j] = row] \/ (job' = job /\ status = "FAILED")
  BY <1>1, <1>3
<1>6. job \in [Jobs -> JobRow]
  BY DEF ImportsInv, ImportsTypeOK
<1>7. /\ job' \in [Jobs -> JobRow] /\ \A i \in Jobs \ {j} : job'[i] = job[i]
      /\ job'[j].status = status \/ (job'[j].status = job[j].status /\ status = "FAILED")
  BY <1>4, <1>5, <1>6
<1>8. \A i \in Jobs : job'[i].status = "none" <=> job[i].status = "none"
  BY <1>2, <1>7
<1>9. PICK new : new = NoClerk
  OBVIOUS
<1>10. new \in Clerk /\ new.at = "idle" /\ ~Commits(new) /\ clerk' = [clerk EXCEPT ![r] = new]
  BY <1>9, NoOneImports DEF Commits
<1>11. CommitsInv'
  <2>1. \A i \in Jobs \ {j} : job'[i].status = job[i].status /\ made'[i] = made[i] /\ (i \in cut' <=> i \in cut)
    BY <1>7
  <2>2. /\ Commits(clerk[r]) => clerk[r].job = j
        /\ Commits(new) => new.job = j
        /\ new.at \in {"complete", "failed"} => ~new.new
    BY <1>1, <1>10
  <2>3. /\ Commits(new) => job'[j].status # "none"
        /\ job[j].status # "none" => job'[j].status # "none"
    BY <1>8, <1>10
  <2>4. j \notin cut' =>
          /\ j \notin cut /\ \A q \in Clerks \ {r} : Commits(clerk[q]) => clerk[q].job # j
          /\ IF Commits(new) THEN job'[j].status = "VALIDATED" /\ made'[j] = IF new.at = "complete" THEN 1 ELSE 0
             ELSE \/ job'[j].status = "COMPLETED" /\ made'[j] = 1
                  \/ job'[j].status # "COMPLETED" /\ made'[j] = 0
    BY <1>2, <1>7, <1>10
  <2>5. new \in Clerk /\ clerk' = [clerk EXCEPT ![r] = new]
    BY <1>10
  <2> QED
    BY <2>1, <2>2, <2>3, <2>4, <2>5, CommitMoves, Zenon
<1>12. contact' \subseteq Emails /\ made' \in [Jobs -> Nat] /\ cut' \subseteq Jobs
  BY DEF ImportsInv, ImportsTypeOK
<1>13. clerk[r].at \in CommitPlaces \cup {"idle"} /\ new.at \in CommitPlaces \cup {"idle"}
  BY <1>10 DEF Commits, CommitPlaces
<1> QED
  BY <1>7, <1>8, <1>10, <1>11, <1>12, <1>13, CommitGoesOn

LEMMA CompleteJobKeeps ==
    ASSUME ImportsInv, NEW r \in Clerks, CompleteJob(r)
    PROVE  ImportsInv'
<1>1. clerk[r].at = "complete" /\ Commits(clerk[r])
  BY DEF CompleteJob, Commits, ImportsInv, CommitsInv
<1>2. /\ clerk' = [clerk EXCEPT ![r] = NoClerk]
      /\ job' = [job EXCEPT ![clerk[r].job] = [clerk[r].copy EXCEPT !.status = "COMPLETED"]]
      /\ UNCHANGED <<template, default, upset, application, contact, checked, made, moved, cut>>
  BY DEF CompleteJob, SavesJob, ClerkTurns, templateVars
<1> QED
  BY <1>1, <1>2, CommitIsSaved

LEMMA FailJobKeeps ==
    ASSUME ImportsInv, NEW r \in Clerks, FailJob(r)
    PROVE  ImportsInv'
<1>1. clerk[r].at = "failed" /\ Commits(clerk[r])
  BY DEF FailJob, Commits, ImportsInv, CommitsInv
<1>2. /\ clerk' = [clerk EXCEPT ![r] = NoClerk]
      /\ UNCHANGED <<template, default, upset, application, contact, checked, made, moved, cut>>
      /\ \/ job' = [job EXCEPT ![clerk[r].job] = [clerk[r].copy EXCEPT !.status = "FAILED"]]
         \/ job' = job
  BY DEF FailJob, SavesJob, ClerkTurns, templateVars
<1> QED
  BY <1>1, <1>2, CommitIsSaved

\* What throws after the rows are in.
LEMMA CompleteThrowsKeeps ==
    ASSUME ImportsInv, NEW r \in Clerks, CompleteThrows(r)
    PROVE  ImportsInv'
<1>1. clerk[r].at = "complete" /\ Commits(clerk[r]) /\ clerk[r] \in Clerk
  BY DEF CompleteThrows, Commits, ImportsInv, CommitsInv, ImportsTypeOK
<1>2. PICK j \in Jobs : j = clerk[r].job
  BY <1>1, OneCommit
<1>3. PICK new : new = [clerk[r] EXCEPT !.at = "failed"]
  OBVIOUS
<1>4. new \in Clerk /\ new.at = "failed" /\ new.job = j /\ ~new.new
  BY <1>1, <1>2, <1>3 DEF Clerk, Places, Commits
<1>5. clerk' = [clerk EXCEPT ![r].at = "failed"]
  BY DEF CompleteThrows
<1>6. clerk' = [clerk EXCEPT ![r] = new]
  BY <1>3, <1>5
<1>7. /\ UNCHANGED <<template, default, upset, job, application, contact, checked, made, moved>>
      /\ cut' = cut \cup {j}
  BY <1>2 DEF CompleteThrows, templateVars
<1>8. job[j].status # "none" /\ Commits(new)
  BY <1>1, <1>2, <1>4, OneCommit DEF Commits
<1>9. CommitsInv'
  <2>1. \A i \in Jobs \ {j} : job'[i].status = job[i].status /\ made'[i] = made[i] /\ (i \in cut' <=> i \in cut)
    BY <1>7
  <2>2. j \in cut' /\ job' = job
    BY <1>7
  <2> QED
    BY <1>2, <1>4, <1>6, <1>8, <2>1, <2>2, CommitMoves
<1>10. job' \in [Jobs -> JobRow] /\ contact' \subseteq Emails /\ made' \in [Jobs -> Nat] /\ cut' \subseteq Jobs /\ job' = job
  BY <1>7 DEF ImportsInv, ImportsTypeOK
<1>11. clerk[r].at \in CommitPlaces \cup {"idle"} /\ new.at \in CommitPlaces \cup {"idle"}
  BY <1>1, <1>4 DEF CommitPlaces
<1> QED
  BY <1>4, <1>6, <1>7, <1>9, <1>10, <1>11, CommitGoesOn

\* Contacts that others make or delete, and a step of another part.
LEMMA ImportsRest ==
    ASSUME ImportsInv, contact' \subseteq Emails,
           UNCHANGED <<template, default, upset, clerk, job, application, checked, made, moved, cut>>
    PROVE  ImportsInv'
<1>1. ImportsTypeOK'
  BY DEF ImportsInv, ImportsTypeOK
<1>2. TemplatesInv'
  BY Zenon DEF ImportsInv, TemplatesInv, MarkedIn, Quiet
<1>3. SnapshotsInv'
  BY Zenon DEF ImportsInv, SnapshotsInv, NoApplication
<1>4. CommitsInv'
  BY Zenon DEF ImportsInv, CommitsInv
<1> QED
  BY <1>1, <1>2, <1>3, <1>4 DEF ImportsInv

\* The process dies: what is halfway stays so, and is known.
LEMMA ClerksDieKeeps ==
    ASSUME ImportsInv, ClerksDie
    PROVE  ImportsInv'
<1>1. \A r \in Clerks : clerk'[r] = NoClerk
  BY DEF ClerksDie
<1>2. \A r \in Clerks : clerk'[r].at = "idle" /\ ~clerk'[r].new
  BY <1>1, NoOneImports
<1>3. template' = template /\ default' = default /\ job' = job /\ application' = application
      /\ contact' = contact /\ checked' = checked /\ made' = made
  BY DEF ClerksDie
<1>4. \A r \in Clerks : clerk[r].job \in Jobs
  BY DEF ImportsInv, ImportsTypeOK, Clerk
<1>5. /\ upset' \in BOOLEAN
      /\ ~upset' => ~upset /\ \A r \in Clerks : clerk[r].at \notin Marking
      /\ moved' \subseteq Jobs /\ moved \subseteq moved' /\ cut' \subseteq Jobs /\ cut \subseteq cut'
      /\ \A r \in Clerks : /\ clerk[r].at \in {"reread", "apply"} => clerk[r].job \in moved'
                           /\ clerk[r].at = "complete" => clerk[r].job \in cut'
  BY <1>4, ZenonT(60) DEF ClerksDie, ImportsInv, ImportsTypeOK, Marking
<1>6. ImportsTypeOK'
  <2>1. clerk' \in [Clerks -> Clerk]
    BY NoOneImports DEF ClerksDie
  <2> QED
    BY <1>3, <1>5, <2>1 DEF ImportsInv, ImportsTypeOK
<1>7. TemplatesInv'
  <2>1. ASSUME ~upset'
        PROVE  MarkedIn(template) = Named(default)
    <3>1. ~upset /\ \A r \in Clerks : clerk[r].at \in Editing => clerk[r].at \in {"count", "delete"}
      BY <1>5, <2>1 DEF Marking, Editing
    <3>2. CASE Quiet
      BY <3>1, <3>2 DEF ImportsInv, TemplatesInv
    <3>3. CASE ~Quiet
      <4>1. PICK r \in Clerks : clerk[r].at \in {"count", "delete"}
        BY <3>1, <3>3 DEF Quiet
      <4>2. Underway(clerk[r], MarkedIn(template), default)
        BY <3>1 DEF ImportsInv, TemplatesInv
      <4> QED
        BY <4>1, <4>2 DEF Underway
    <3> QED
      BY <3>2, <3>3
  <2>2. \A r \in Clerks : clerk'[r].at \notin Editing /\ clerk'[r].at \notin Marking
    BY <1>2 DEF Editing, Marking
  <2>3. \A r \in Clerks : Underway(clerk'[r], MarkedIn(template'), default')
    BY <1>2 DEF Underway
  <2>4. \A t \in Templates : ~template'[t].here => ~template'[t].is_default
    BY <1>3 DEF ImportsInv, TemplatesInv
  <2>5. ~upset' => MarkedIn(template') = Named(default')
    BY <1>3, <2>1
  <2> QED
    BY <2>2, <2>3, <2>4, <2>5, Zenon DEF TemplatesInv, MarkedIn
<1>8. SnapshotsInv'
  <2>1. \A r \in Clerks : Checks(clerk'[r], template', job', checked', application', moved')
    BY <1>2 DEF Checks
  <2>2. \A r \in Clerks : clerk'[r].at \notin Validation
    BY <1>2 DEF Validation
  <2>3. \A j \in Jobs : job'[j].status = "none" => application'[j] = NoApplication /\ checked'[j] = "none"
    BY <1>3 DEF ImportsInv, SnapshotsInv
  <2>4. \A j \in Jobs : j \in moved' \/ application'[j].snapshot = checked'[j]
    BY <1>3, <1>5 DEF ImportsInv, SnapshotsInv
  <2> QED
    BY <2>1, <2>2, <2>3, <2>4, Zenon DEF SnapshotsInv, NoApplication
<1>9. CommitsInv'
  <2>1. \A r \in Clerks : ~Commits(clerk'[r]) /\ clerk'[r].at \notin {"complete", "failed"}
    BY <1>2 DEF Commits
  <2>2. ASSUME NEW j \in Jobs \ cut'
        PROVE  \/ job[j].status = "COMPLETED" /\ made[j] = 1
               \/ job[j].status # "COMPLETED" /\ made[j] = 0
    <3>1. j \notin cut
      BY <1>5, <2>2
    <3>2. CASE \E r \in Clerks : Commits(clerk[r]) /\ clerk[r].job = j
      <4>1. PICK r \in Clerks : Commits(clerk[r]) /\ clerk[r].job = j
        BY <3>2
      <4>2. clerk[r].at # "complete"
        BY <1>5, <2>2, <4>1
      <4> QED
        BY <3>1, <4>1, <4>2, OneCommit
    <3> QED
      BY <3>1, <3>2 DEF ImportsInv, CommitsInv
  <2> QED
    BY <1>3, <2>1, <2>2, Zenon DEF CommitsInv, Commits
<1> QED
  BY <1>6, <1>7, <1>8, <1>9 DEF ImportsInv

\* A statement fails: the operation has left the mark and the reference as they agreed, or
\* is known not to have.
LEMMA EditingFails ==
    ASSUME ImportsInv, NEW r \in Clerks, ClerkFails(r), clerk[r].at \in Editing
    PROVE  ImportsInv'
<1>1. PICK new : new = NoClerk
  OBVIOUS
<1>2. /\ clerk[r].at \in {"unset", "point", "clear", "count", "delete"} /\ upset' = (upset \/ clerk[r].at = "point")
      /\ clerk' = [clerk EXCEPT ![r] = new] /\ template' = template /\ default' = default
  BY <1>1 DEF ClerkFails, Editing
<1>3. UNCHANGED jobVars
  BY <1>2 DEF ClerkFails, jobVars
<1>4. new \in Clerk /\ new.at = "idle" /\ new.at \notin Editing /\ new.at \notin Marking
  BY <1>1, NoOneImports DEF Editing, Marking
<1>5. /\ upset \in BOOLEAN /\ default \in Templates \cup {NoTemplate} /\ template \in [Templates -> TemplateRow]
      /\ \A t \in Templates : ~template[t].here => ~template[t].is_default
      /\ ~upset => /\ \A q \in Clerks \ {r} : clerk[q].at \notin Editing
                   /\ Underway(clerk[r], MarkedIn(template), default)
  BY OneOperation
<1>6. ASSUME ~upset'
      PROVE  /\ \A q \in Clerks \ {r} : clerk[q].at \notin Editing
             /\ MarkedIn(template) = Named(default)
             /\ Underway(new, MarkedIn(template), default)
  <2>1. ~upset /\ clerk[r].at \in {"unset", "clear", "count", "delete"}
    BY <1>2, <1>5, <1>6
  <2> QED
    BY <1>4, <1>5, <2>1 DEF Underway
<1> QED
  BY <1>2, <1>3, <1>4, <1>5, <1>6, MarksMove

\* A validation that fails after its job was saved is known.
LEMMA ValidationFails ==
    ASSUME ImportsInv, NEW r \in Clerks, ClerkFails(r), clerk[r].at \in Validation
    PROVE  ImportsInv'
<1>1. PICK new : new = NoClerk
  OBVIOUS
<1>2. /\ clerk' = [clerk EXCEPT ![r] = new] /\ UNCHANGED <<template, default, job, application, contact, checked, made, cut>>
      /\ upset' = upset /\ moved' = IF clerk[r].at \in {"reread", "apply"} THEN moved \cup {clerk[r].job} ELSE moved
  BY <1>1 DEF ClerkFails, Validation, ImportsInv, ImportsTypeOK
<1>3. new \in Clerk /\ new.at = "idle" /\ ~new.new
  BY <1>1, NoOneImports
<1>4. /\ clerk' \in [Clerks -> Clerk] /\ clerk'[r] = new /\ \A q \in Clerks \ {r} : clerk'[q] = clerk[q]
      /\ \A q \in Clerks : clerk[q].job \in Jobs
  BY <1>2, <1>3, ClerksTurn DEF ImportsInv, Clerk
<1>5. ImportsTypeOK'
  BY <1>2, <1>4 DEF ImportsInv, ImportsTypeOK
<1>6. TemplatesInv'
  BY <1>2, <1>3, TemplatesAside DEF Validation, Editing, templateVars
<1>7. CommitsInv'
  BY <1>2, <1>3, CommitsAside DEF Validation, Commits
<1>8. SnapshotsInv'
  <2>1. moved \subseteq moved' /\ (clerk[r].at \in {"reread", "apply"} => clerk[r].job \in moved')
    BY <1>2
  <2>2. ASSUME NEW q \in Clerks PROVE Checks(clerk'[q], template', job', checked', application', moved')
    <3>1. CASE q = r
      BY <1>3, <1>4, <3>1 DEF Checks
    <3>2. CASE q # r
      <4>1. Checks(clerk[q], template, job, checked, application, moved) /\ clerk'[q] = clerk[q]
        BY <1>4, <3>2 DEF ImportsInv, SnapshotsInv
      <4> QED
        BY <1>2, <2>1, <4>1 DEF Checks
    <3> QED
      BY <3>1, <3>2
  <2>3. \A q, s \in Clerks : clerk'[q].at \in Validation /\ clerk'[s].at \in Validation /\ clerk'[q].job = clerk'[s].job => q = s
    BY <1>3, <1>4 DEF ImportsInv, SnapshotsInv, Validation
  <2>4. \A j \in Jobs : job'[j].status = "none" => application'[j] = NoApplication /\ checked'[j] = "none"
    BY <1>2 DEF ImportsInv, SnapshotsInv
  <2>5. ASSUME NEW j \in Jobs
        PROVE  \/ j \in moved' \/ application'[j].snapshot = checked'[j]
               \/ application'[j] = NoApplication /\ \E q \in Clerks : clerk'[q].job = j /\ clerk'[q].at \in {"reread", "apply"}
    BY <1>2, <1>4, <2>1 DEF ImportsInv, SnapshotsInv
  <2> QED
    BY <2>2, <2>3, <2>4, <2>5, Zenon DEF SnapshotsInv, NoApplication
<1> QED
  BY <1>5, <1>6, <1>7, <1>8 DEF ImportsInv

LEMMA TemplateStepKeeps ==
    ASSUME ImportsInv, NEW r \in Clerks, TemplateStep(r)
    PROVE  ImportsInv'
<1>1. ASSUME NEW t \in Templates, NEW row \in TemplateRow, row.here, AskCreate(r, t, row) \/ AskUpdate(r, t, row)
      PROVE  ImportsInv'
  BY <1>1, AskCreateKeeps, AskUpdateKeeps
<1>2. ASSUME NEW t \in Templates, AskDelete(r, t) PROVE ImportsInv'
  BY <1>2, AskDeleteKeeps
<1>3. CASE UnsetOthers(r)
  BY <1>3, UnsetOthersKeeps
<1>4. CASE PointOrganization(r) \/ ClearOrganization(r)
  BY <1>4, ReferenceMoves
<1>5. CASE SaveTemplate(r)
  BY <1>5, SaveTemplateKeeps
<1>6. CASE SaveRefused(r) \/ CountTemplates(r)
  BY <1>6, RefusedOrCounted
<1>7. CASE DeleteTemplate(r)
  BY <1>7, DeleteTemplateKeeps
<1> QED
  BY <1>1, <1>2, <1>3, <1>4, <1>5, <1>6, <1>7 DEF TemplateStep

LEMMA ImportStepKeeps ==
    ASSUME ImportsInv, NEW r \in Clerks, ImportStep(r)
    PROVE  ImportsInv'
<1>1. ASSUME NEW p \in Payloads, AskRows(r, p) PROVE ImportsInv'
  BY <1>1, AskRowsKeeps
<1>2. ASSUME NEW p \in Payloads, NEW j \in Jobs, AskValidateByDefault(r, j, p) PROVE ImportsInv'
  BY <1>2, AskByDefaultKeeps
<1>3. ASSUME NEW p \in Payloads, NEW j \in Jobs, NEW t \in Templates, AskValidate(r, j, p, t) PROVE ImportsInv'
  BY <1>3, AskValidateKeeps
<1>4. CASE ResolveTemplate(r) \/ CheckRows(r) \/ RereadTemplate(r)
  BY <1>4, ResolveKeeps, CheckRowsKeeps, RereadKeeps
<1>5. CASE SaveJob(r) \/ SaveApplication(r)
  BY <1>5, JobIsSaved, ApplicationIsSaved
<1>6. ASSUME NEW j \in Jobs, AskCommit(r, j) PROVE ImportsInv'
  BY <1>6, AskCommitKeeps
<1>7. CASE CheckExisting(r) \/ InsertContacts(r)
  BY <1>7, CheckExistingKeeps, InsertContactsKeeps
<1>8. CASE CompleteJob(r) \/ CompleteThrows(r) \/ FailJob(r)
  BY <1>8, CompleteJobKeeps, CompleteThrowsKeeps, FailJobKeeps
<1>9. CASE ClerkFails(r)
  BY <1>9, EditingFails, ValidationFails DEF ClerkFails, Editing, Validation
<1> QED
  BY <1>1, <1>2, <1>3, <1>4, <1>5, <1>6, <1>7, <1>8, <1>9 DEF ImportStep

LEMMA ImportsStay ==
    ASSUME ImportsInv, ImportsNext \/ ClerksDie \/ UNCHANGED importVars
    PROVE  ImportsInv'
<1>1. ASSUME NEW r \in Clerks, TemplateStep(r) \/ ImportStep(r) PROVE ImportsInv'
  BY <1>1, TemplateStepKeeps, ImportStepKeeps
<1>2. ASSUME NEW e \in Emails, ContactMoves(e) PROVE ImportsInv'
  BY <1>2, ImportsRest DEF ContactMoves, templateVars, ImportsInv, ImportsTypeOK
<1>3. CASE ClerksDie
  BY <1>3, ClerksDieKeeps
<1>4. CASE UNCHANGED importVars
  BY <1>4, ImportsRest DEF importVars, ImportsInv, ImportsTypeOK
<1> QED
  BY <1>1, <1>2, <1>3, <1>4 DEF ImportsNext

LEMMA ImportsInvHolds == ImportsInv => ImportsHold
<1> SUFFICES ASSUME ImportsInv PROVE ImportsHold
  OBVIOUS
<1>1. DefaultAgrees
  BY Zenon DEF ImportsInv, TemplatesInv, DefaultAgrees, MarkedIn, Named
<1>2. SnapshotIsGenuine
  BY DEF ImportsInv, SnapshotsInv, SnapshotIsGenuine
<1>3. JobTellsTheTruth
  <2>1. ASSUME NEW j \in Jobs \ cut
        PROVE  \/ job[j].status = "COMPLETED" /\ made[j] = 1
               \/ job[j].status # "COMPLETED" /\ made[j] = 0
               \/ job[j].status = "VALIDATED" /\ made[j] = 1 /\ \E r \in Committing(j) : clerk[r].at = "complete"
    <3>1. CASE \E r \in Clerks : Commits(clerk[r]) /\ clerk[r].job = j
      <4>1. PICK r \in Clerks : Commits(clerk[r]) /\ clerk[r].job = j
        BY <3>1
      <4>2. job[j].status = "VALIDATED" /\ made[j] = IF clerk[r].at = "complete" THEN 1 ELSE 0
        BY <2>1, <4>1, OneCommit
      <4>3. r \in Committing(j)
        BY <4>1 DEF Committing, Commits
      <4> QED
        BY <4>2, <4>3
    <3> QED
      BY <2>1, <3>1 DEF ImportsInv, CommitsInv
  <2> QED
    BY <2>1 DEF JobTellsTheTruth
<1> QED
  BY <1>1, <1>2, <1>3 DEF ImportsHold

-----------------------------------------------------------------------------
(* Reports. *)

\* What a query returns is a set of these.
Things ==
    Forms \cup Members \cup Units \cup
    [id: Submissions, form: Forms, contact: Members \cup {Nobody}, made: Moments] \cup
    [id: Charges, of: Submissions, form: Forms, contact: Members \cup {Nobody},
     in: SUBSET Units, status: Statuses, made: Moments]

\* A payment has its submission, which came before it, and a submission its contact.
RowsInv ==
    /\ \A s \in Submissions : submission[s] # <<>> =>
          submission[s].contact \in DOMAIN members \cup {Nobody} /\ submission[s].made <= moment
    /\ \A p \in Charges : charge[p] # <<>> =>
          /\ submission[charge[p].of] # <<>>
          /\ submission[charge[p].of].made <= charge[p].made /\ charge[p].made <= moment

Timely(q) == IF q.kind = "none" THEN q = NoReader ELSE Len(q.got) <= Len(Queries[q.kind])

\* The submissions and the payments a query counts, and the row it returns for each payment.
SentRows(q) == {s \in There(submission) : InRange(q, submission[s].made) /\ OfForm(q, submission[s].form)}
PaidRows(q) == {p \in There(charge) : InRange(q, charge[p].made) /\ OfForm(q, submission[charge[p].of].form)}
Line(p) == LET s == submission[charge[p].of]
           IN [id |-> p, of |-> charge[p].of, form |-> s.form, contact |-> s.contact,
               in |-> IF s.contact = Nobody THEN {} ELSE members[s.contact],
               status |-> charge[p].status, made |-> charge[p].made]

\* Rows of payments, one for each.
AreLines(rows) ==
    /\ \A x \in rows : x.id \in Charges /\ x.made \in Moments
    /\ \A x, y \in rows : x.id = y.id => x = y

\* What a report has read of the payments and the submissions is still so, but for those that
\* were written since.
PaymentsRead(q, rows) ==
    /\ AreLines(rows)
    /\ \A x \in rows : x.id \in q.since.charges \/
          /\ x.id \in PaidRows(q) /\ x.status = charge[x.id].status /\ x.of = charge[x.id].of
          /\ x.of \in q.since.rows \/ x.contact = submission[x.of].contact
    /\ \A p \in PaidRows(q) \ q.since.charges : \E x \in rows : x.id = p

SubmissionsRead(q, rows) ==
    \A s \in SentRows(q) \ q.since.rows : \E x \in rows : x.id = s /\ x.contact = submission[s].contact

RowsRead(q) ==
    /\ q.kind = "analytics" =>
          /\ Len(q.got) >= 2 => PaymentsRead(q, q.got[2])
          /\ Len(q.got) >= 3 => PaymentsRead(q, q.got[3])
    /\ q.kind = "form" =>
          /\ Len(q.got) >= 2 => SubmissionsRead(q, q.got[2])
          /\ Len(q.got) >= 3 => PaymentsRead(q, q.got[3])

\* A walk has found each group below another that it went to before; so none twice,
\* unless the first lies below itself.
Ahead(q) == {q.todo[i] : i \in DOMAIN q.todo}
Behind(q) == {g \in Units : q.visits[g] # 0}

Walked(q, up, circle) ==
    q.since.moved \/ circle \/
        /\ \A g \in Units : q.visits[g] # 2
        /\ \A i, k \in DOMAIN q.todo : q.todo[i] = q.todo[k] => i = k
        /\ Ahead(q) \cap Behind(q) = {}
        /\ \E x \in Units \cup {Nobody} : \A g \in (Ahead(q) \cup Behind(q)) \ {x} : up[g] \in Behind(q)

Reads(q) == Timely(q) /\ RowsRead(q) /\ Walked(q, parent, OnCircle)

ReportsInv == ReportsTypeOK /\ RowsInv /\ \A r \in Readers : \A q \in Reader : report[r] = q => Reads(q)

\* The days of the analytics and their breakdown are of the same payments, with the same
\* status, but for those that were written between.
Paid(rows, status) == {x.id : x \in {y \in rows : y.status = status}}

DaysAreOfTheBreakdown ==
    \A q \in Finished("analytics"), status \in Statuses :
        Paid(q.got[2], status) \ q.since.charges = Paid(q.got[3], status) \ q.since.charges

LEMMA RowsAreNotEmpty ==
    /\ \A x \in SubmissionRow : x # <<>>
    /\ \A x \in ChargeRow : x # <<>>
<1>1. ASSUME NEW x \in SubmissionRow PROVE x # <<>>
  BY DEF SubmissionRow
<1>2. ASSUME NEW x \in ChargeRow PROVE x # <<>>
  BY DEF ChargeRow
<1> QED
  BY <1>1, <1>2

\* A report in flight has these, and one that is not there is of no kind.
LEMMA ReadersHave ==
    /\ Reader = [kind: DOMAIN Queries \cup {"none"}, form: Forms \cup {Nobody}, from: Moments, to: Moments,
                 got: Seq(SUBSET Things), todo: Seq(Units), roots: SUBSET Units, visits: [Units -> 0 .. 2],
                 since: [rows: SUBSET Submissions, charges: SUBSET Charges, moved: BOOLEAN]]
    /\ DOMAIN Queries = {"summary", "analytics", "performance", "form", "groups"}
    /\ Later \in Nat /\ 0 \in Moments /\ Later \in Moments
    /\ \A m \in Moments : m \in Nat
    /\ NoReader \in Reader /\ NoReader.kind = "none" /\ NoReader.todo = <<>> /\ NoReader.got = <<>>
    /\ NoReader.visits = [g \in Units |-> 0] /\ NoReader.roots = {}
<1>1. Reader = [kind: DOMAIN Queries \cup {"none"}, form: Forms \cup {Nobody}, from: Moments, to: Moments,
                 got: Seq(SUBSET Things), todo: Seq(Units), roots: SUBSET Units, visits: [Units -> 0 .. 2],
                 since: [rows: SUBSET Submissions, charges: SUBSET Charges, moved: BOOLEAN]]
  BY Zenon DEF Reader, Things
<1>2. DOMAIN Queries = {"summary", "analytics", "performance", "form", "groups"}
  BY DEF Queries
<1>3. Later \in Nat /\ 0 \in Moments /\ Later \in Moments /\ \A m \in Moments : m \in Nat
  BY ReportsAssumption DEF Later, Moments
<1>4. PICK visits : visits = [g \in Units |-> 0]
  OBVIOUS
<1>5. visits \in [Units -> 0 .. 2]
  BY <1>4
<1>6. PICK none : none = <<>>
  OBVIOUS
<1>7. NoReader = [kind |-> "none", form |-> Nobody, from |-> 0, to |-> 0, got |-> none,
                  todo |-> none, roots |-> {}, visits |-> visits, since |-> NoWrites]
  BY <1>4, <1>6, Zenon DEF NoReader
<1>8. NoReader \in Reader
  <2>1. PICK kinds : kinds = DOMAIN Queries \cup {"none"}
    OBVIOUS
  <2>2. PICK gots, todos : gots = Seq(SUBSET Things) /\ todos = Seq(Units)
    OBVIOUS
  <2>3. none \in gots /\ none \in todos
    BY <1>6, <2>2, EmptySeq, Zenon
  <2>4. "none" \in kinds
    BY <2>1
  <2>5. PICK writes : writes = [rows: SUBSET Submissions, charges: SUBSET Charges, moved: BOOLEAN]
    OBVIOUS
  <2>6. NoWrites \in writes
    BY <2>5 DEF NoWrites
  <2>7. NoReader \in [kind: kinds, form: Forms \cup {Nobody}, from: Moments, to: Moments,
                     got: gots, todo: todos, roots: SUBSET Units, visits: [Units -> 0 .. 2], since: writes]
    BY <1>3, <1>5, <1>7, <2>3, <2>4, <2>6
  <2> QED
    BY <1>1, <2>1, <2>2, <2>5, <2>7, Zenon
<1>9. /\ NoReader.kind = "none" /\ NoReader.todo = none /\ NoReader.got = none
       /\ NoReader.visits = visits /\ NoReader.roots = {}
  BY <1>7
<1> QED
  BY <1>1, <1>2, <1>3, <1>4, <1>6, <1>8, <1>9

\* The steps of a report, by their number.
LEMMA QueriesAre ==
    /\ Len(Queries["summary"]) = 4 /\ Len(Queries["analytics"]) = 3 /\ Len(Queries["performance"]) = 3
    /\ Len(Queries["form"]) = 3 /\ Len(Queries["groups"]) = 4
    /\ Queries["analytics"][1] = "submissions" /\ Queries["analytics"][2] = "payments" /\ Queries["analytics"][3] = "payments"
    /\ Queries["performance"][1] = "forms"
    /\ Queries["form"][1] = "form" /\ Queries["form"][2] = "submissions" /\ Queries["form"][3] = "payments"
    /\ \A kind \in DOMAIN Queries : \A i \in 1 .. Len(Queries[kind]) :
          /\ Queries[kind][i] \in {"forms", "form", "contacts", "groups", "submissions", "payments", "walk"}
          /\ Queries[kind][i] = "walk" => kind = "groups"
<1>1. /\ Queries["summary"] = <<"forms", "contacts", "submissions", "payments">>
      /\ Queries["analytics"] = <<"submissions", "payments", "payments">>
      /\ Queries["performance"] = <<"forms", "submissions", "payments">>
      /\ Queries["form"] = <<"form", "submissions", "payments">>
      /\ Queries["groups"] = <<"form", "groups", "walk", "payments">>
  BY DEF Queries
<1>2. ASSUME NEW kind \in DOMAIN Queries, NEW i \in 1 .. Len(Queries[kind])
      PROVE  /\ Queries[kind][i] \in {"forms", "form", "contacts", "groups", "submissions", "payments", "walk"}
             /\ Queries[kind][i] = "walk" => kind = "groups"
  <2>1. kind \in {"summary", "analytics", "performance", "form", "groups"}
    BY ReadersHave
  <2>2. CASE kind = "summary"
    BY <1>1, <2>2
  <2>3. CASE kind = "analytics"
    BY <1>1, <2>3
  <2>4. CASE kind = "performance"
    BY <1>1, <2>4
  <2>5. CASE kind = "form"
    BY <1>1, <2>5
  <2>6. CASE kind = "groups"
    BY <1>1, <2>6
  <2> QED
    BY <2>1, <2>2, <2>3, <2>4, <2>5, <2>6
<1> QED
  BY <1>1, <1>2

LEMMA PaymentsAre == \A q : Answer(q, "payments") = {Line(p) : p \in PaidRows(q)}
BY Zenon DEF Answer, PaidRows, Line

\* What a query returns are things.
LEMMA AnswersAreThings ==
    ASSUME ReportsTypeOK, RowsInv, NEW q \in Reader,
           NEW name \in {"forms", "form", "contacts", "groups", "submissions", "payments"}
    PROVE  Answer(q, name) \in SUBSET Things
<1>1. CASE name = "forms"
  <2>1. Answer(q, name) = forms
    BY <1>1 DEF Answer
  <2> QED
    BY <2>1 DEF ReportsTypeOK, Things
<1>2. CASE name = "form"
  <2>1. Answer(q, name) = forms \cap {q.form}
    BY <1>2 DEF Answer
  <2> QED
    BY <2>1 DEF ReportsTypeOK, Things
<1>3. CASE name = "contacts"
  <2>1. Answer(q, name) = DOMAIN members
    BY <1>3 DEF Answer
  <2> QED
    BY <2>1 DEF ReportsTypeOK, Things
<1>4. CASE name = "groups"
  <2>1. Answer(q, name) = Units
    BY <1>4 DEF Answer
  <2> QED
    BY <2>1 DEF Things
<1>5. CASE name = "submissions"
  <2>1. ASSUME NEW x \in Answer(q, name) PROVE x \in Things
    <3>1. PICK s \in There(submission) :
             x = [id |-> s, form |-> submission[s].form, contact |-> submission[s].contact, made |-> submission[s].made]
      BY <1>5, <2>1 DEF Answer
    <3>2. s \in Submissions /\ submission[s] \in SubmissionRow
      BY <3>1 DEF There, ReportsTypeOK
    <3> QED
      BY <3>1, <3>2 DEF SubmissionRow, Things
  <2> QED
    BY <2>1
<1>6. CASE name = "payments"
  <2>1. ASSUME NEW p \in PaidRows(q) PROVE Line(p) \in Things
    <3>1. p \in Charges /\ charge[p] \in ChargeRow /\ charge[p] # <<>>
      BY <2>1 DEF PaidRows, There, ReportsTypeOK
    <3>2. PICK t \in Submissions : t = charge[p].of
      BY <3>1 DEF ChargeRow
    <3>3. submission[t] \in SubmissionRow /\ submission[t].contact \in DOMAIN members \cup {Nobody}
      BY <3>1, <3>2 DEF RowsInv, ReportsTypeOK
    <3>4. PICK groups \in SUBSET Units : groups = IF submission[t].contact = Nobody THEN {} ELSE members[submission[t].contact]
      BY <3>3 DEF ReportsTypeOK
    <3>5. Line(p) = [id |-> p, of |-> t, form |-> submission[t].form, contact |-> submission[t].contact,
                     in |-> groups, status |-> charge[p].status, made |-> charge[p].made]
      BY <3>2, <3>4, Zenon DEF Line
    <3>6. Line(p) \in [id: Charges, of: Submissions, form: Forms, contact: Members \cup {Nobody},
                       in: SUBSET Units, status: Statuses, made: Moments]
      BY <3>1, <3>3, <3>5 DEF ChargeRow, SubmissionRow
    <3> QED
      BY <3>6 DEF Things
  <2> QED
    BY <1>6, <2>1, PaymentsAre
<1> QED
  BY <1>1, <1>2, <1>3, <1>4, <1>5, <1>6

\* Fresh from the tables.
LEMMA AnswersAreFresh ==
    ASSUME ReportsTypeOK, RowsInv, NEW q, NEW new, new.from = q.from, new.to = q.to, new.form = q.form
    PROVE  PaymentsRead(new, Answer(q, "payments")) /\ SubmissionsRead(new, Answer(q, "submissions"))
<1>1. \A m, f : (InRange(new, m) <=> InRange(q, m)) /\ (OfForm(new, f) <=> OfForm(q, f))
  BY DEF InRange, OfForm
<1>2. PaidRows(new) = PaidRows(q) /\ SentRows(new) = SentRows(q)
  BY <1>1 DEF PaidRows, SentRows
<1>3. PaymentsRead(new, Answer(q, "payments"))
  <2>1. \A p \in PaidRows(q) : p \in Charges /\ charge[p].made \in Moments
    BY ZenonT(60) DEF PaidRows, There, ReportsTypeOK, ChargeRow
  <2>2. \A p : /\ Line(p).id = p /\ Line(p).made = charge[p].made /\ Line(p).status = charge[p].status
               /\ Line(p).of = charge[p].of /\ Line(p).contact = submission[charge[p].of].contact
    BY DEF Line
  <2>3. PICK lines : lines = Answer(q, "payments")
    OBVIOUS
  <2>4. \A x : x \in lines <=> \E p \in PaidRows(q) : x = Line(p)
    BY <2>3, PaymentsAre
  <2>5. AreLines(lines)
    BY <2>1, <2>2, <2>4 DEF AreLines
  <2>6. \A x \in lines : /\ x.id \in PaidRows(q) /\ x.status = charge[x.id].status /\ x.of = charge[x.id].of
                         /\ x.contact = submission[x.of].contact
    BY <2>2, <2>4
  <2>7. \A p \in PaidRows(q) : \E x \in lines : x.id = p
    BY <2>2, <2>4
  <2> QED
    BY <1>2, <2>3, <2>5, <2>6, <2>7 DEF PaymentsRead
<1>4. SubmissionsRead(new, Answer(q, "submissions"))
  <2>1. ASSUME NEW s \in SentRows(q) PROVE \E x \in Answer(q, "submissions") : x.id = s /\ x.contact = submission[s].contact
    <3>1. PICK x : x = [id |-> s, form |-> submission[s].form, contact |-> submission[s].contact, made |-> submission[s].made]
      OBVIOUS
    <3>2. x \in Answer(q, "submissions")
      BY <2>1, <3>1, Zenon DEF Answer, SentRows
    <3> QED
      BY <3>1, <3>2
  <2> QED
    BY <1>2, <2>1 DEF SubmissionsRead
<1> QED
  BY <1>3, <1>4

\* While the tables stay, so does what was read of them.
LEMMA ReadsStay ==
    ASSUME UNCHANGED tables
    PROVE  \A q : Reads(q)' <=> Reads(q)
<1>1. /\ forms' = forms /\ submission' = submission /\ charge' = charge /\ members' = members
      /\ parent' = parent /\ moment' = moment
  BY DEF tables
<1>2. ASSUME NEW q PROVE Reads(q)' <=> Reads(q)
  <2>1. PaidRows(q)' = PaidRows(q) /\ SentRows(q)' = SentRows(q)
    BY <1>1, Zenon DEF PaidRows, SentRows, There
  <2>2. \A rows : (PaymentsRead(q, rows)' <=> PaymentsRead(q, rows)) /\ (SubmissionsRead(q, rows)' <=> SubmissionsRead(q, rows))
    BY <1>1, <2>1 DEF PaymentsRead, SubmissionsRead
  <2>3. OnCircle' <=> OnCircle
    BY <1>1, Zenon DEF OnCircle
  <2> QED
    BY <1>1, <2>2, <2>3, Zenon DEF Reads, RowsRead
<1> QED
  BY <1>2

LEMMA ReaderTurns ==
    ASSUME ReportsInv, NEW r \in Readers, NEW new \in Reader, report' = [report EXCEPT ![r] = new],
           UNCHANGED tables, Reads(new)
    PROVE  ReportsInv'
<1>1. report' \in [Readers -> Reader] /\ report'[r] = new /\ \A s \in Readers \ {r} : report'[s] = report[s]
  BY DEF ReportsInv, ReportsTypeOK
<1>2. ReportsTypeOK'
  BY <1>1 DEF ReportsInv, ReportsTypeOK, tables
<1>3. RowsInv'
  BY DEF ReportsInv, RowsInv, tables
<1>4. ASSUME NEW s \in Readers, NEW q \in Reader, report'[s] = q PROVE Reads(q)'
  <2>1. Reads(q)
    BY <1>1, <1>4 DEF ReportsInv
  <2> QED
    BY <2>1, ReadsStay
<1> QED
  BY <1>2, <1>3, <1>4 DEF ReportsInv

\* A report that has read nothing.
LEMMA FreshReads ==
    ASSUME NEW q \in Reader, q.got = <<>>, q.todo = <<>>, q.visits = [g \in Units |-> 0], q.kind = "none" => q = NoReader
    PROVE  Reads(q)
<1>1. Len(q.got) = 0 /\ q.kind \in DOMAIN Queries \cup {"none"}
  BY ReadersHave
<1>2. \A kind \in DOMAIN Queries : 0 <= Len(Queries[kind])
  BY ReadersHave, QueriesAre
<1>3. Timely(q)
  BY <1>1, <1>2 DEF Timely
<1>4. RowsRead(q)
  BY <1>1 DEF RowsRead
<1>5. \A g \in Units : q.visits[g] = 0
  OBVIOUS
<1>6. Ahead(q) = {} /\ Behind(q) = {}
  BY <1>5 DEF Ahead, Behind
<1>7. Walked(q, parent, OnCircle)
  BY <1>5, <1>6 DEF Walked
<1> QED
  BY <1>3, <1>4, <1>7 DEF Reads

LEMMA NoReaderReads == Reads(NoReader)
BY FreshReads, ReadersHave

LEMMA ReportsStart == ReportsInit => ReportsInv
<1> SUFFICES ASSUME ReportsInit PROVE ReportsInv
  OBVIOUS
<1>1. PICK f \in Forms, c \in Members \cup {Nobody} :
        /\ forms = {f}
        /\ submission = [t \in Submissions |-> IF t = 1 THEN [form |-> f, contact |-> c, made |-> 1] ELSE <<>>]
        /\ charge = [q \in Charges |-> IF q = 1 THEN [of |-> 1, status |-> "PENDING", made |-> 2] ELSE <<>>]
  BY DEF ReportsInit
<1>2. 1 \in Submissions /\ 1 \in Charges /\ 1 \in Moments /\ 2 \in Moments /\ moment = 2
  BY ReportsAssumption DEF Submissions, Charges, Moments, Later, ReportsInit
<1>3. PICK row : row = [form |-> f, contact |-> c, made |-> 1]
  OBVIOUS
<1>4. row \in SubmissionRow /\ row.contact = c /\ row.made = 1
  BY <1>2, <1>3 DEF SubmissionRow
<1>5. PICK bill : bill = [of |-> 1, status |-> "PENDING", made |-> 2]
  OBVIOUS
<1>6. bill \in ChargeRow /\ bill.of = 1 /\ bill.made = 2
  BY <1>2, <1>5 DEF ChargeRow, Statuses
<1>7. /\ submission = [t \in Submissions |-> IF t = 1 THEN row ELSE <<>>]
      /\ charge = [q \in Charges |-> IF q = 1 THEN bill ELSE <<>>]
  BY <1>1, <1>3, <1>5, Zenon
<1>8. DOMAIN members = Members /\ \A d \in Members : members[d] = {}
  BY DEF ReportsInit
<1>9. ReportsTypeOK
  <2>1. report \in [Readers -> Reader]
    BY ReadersHave DEF ReportsInit
  <2>2. forms \subseteq Forms /\ parent \in [Units -> Units \cup {Nobody}] /\ moment \in Moments
    BY <1>1, <1>2 DEF ReportsInit
  <2>3. submission \in [Submissions -> SubmissionRow \cup {<<>>}] /\ charge \in [Charges -> ChargeRow \cup {<<>>}]
    BY <1>4, <1>6, <1>7
  <2> QED
    BY <1>8, <2>1, <2>2, <2>3 DEF ReportsTypeOK
<1>10. RowsInv
  <2>1. row # <<>>
    BY <1>4, RowsAreNotEmpty
  <2>2. \A s \in Submissions : submission[s] # <<>> => s = 1
    BY <1>7
  <2>3. \A p \in Charges : charge[p] # <<>> => p = 1
    BY <1>7
  <2>4. submission[1] = row /\ charge[1] = bill
    BY <1>2, <1>7
  <2> QED
    BY <1>2, <1>4, <1>6, <1>8, <2>1, <2>2, <2>3, <2>4 DEF RowsInv
<1>11. \A r \in Readers : \A q \in Reader : report[r] = q => Reads(q)
  BY NoReaderReads DEF ReportsInit
<1> QED
  BY <1>9, <1>10, <1>11 DEF ReportsInv

LEMMA AskReportKeeps ==
    ASSUME ReportsInv, NEW r \in Readers, NEW kind \in DOMAIN Queries, NEW form \in Forms \cup {Nobody},
           NEW from \in {0, moment}, NEW end \in {"none", "now", "later"}, AskReport(r, kind, form, from, end)
    PROVE  ReportsInv'
<1>1. PICK to : to = EndOf(kind, end)
  OBVIOUS
<1>2. from \in Moments /\ to \in Moments /\ moment \in Nat
  BY <1>1, ReadersHave DEF ReportsInv, ReportsTypeOK, EndOf
<1>4. PICK new : new = [NoReader EXCEPT !.kind = kind, !.form = form, !.from = from, !.to = to]
  OBVIOUS
<1>5. /\ new \in Reader /\ new.kind = kind
      /\ new.got = NoReader.got /\ new.todo = NoReader.todo /\ new.visits = NoReader.visits
  <2>1. PICK kinds, gots, todos, passes, sinces :
          /\ kinds = DOMAIN Queries \cup {"none"} /\ gots = Seq(SUBSET Things) /\ todos = Seq(Units)
          /\ passes = [Units -> 0 .. 2] /\ sinces = [rows: SUBSET Submissions, charges: SUBSET Charges, moved: BOOLEAN]
    OBVIOUS
  <2>2. Reader = [kind: kinds, form: Forms \cup {Nobody}, from: Moments, to: Moments,
                  got: gots, todo: todos, roots: SUBSET Units, visits: passes, since: sinces]
    BY <2>1, ReadersHave, Zenon
  <2>3. kind \in kinds /\ NoReader \in Reader
    BY <2>1, ReadersHave
  <2> QED
    BY <1>2, <1>4, <2>2, <2>3
<1>6. "none" \notin DOMAIN Queries
  BY ReadersHave
<1>7. Reads(new)
  BY <1>5, <1>6, FreshReads, ReadersHave
<1>8. report' = [report EXCEPT ![r] = new] /\ UNCHANGED tables
  BY <1>1, <1>4, Zenon DEF AskReport
<1> QED
  BY <1>5, <1>7, <1>8, ReaderTurns

\* A report under way, and one whose fields are set.
LEMMA AReport ==
    ASSUME ReportsInv, NEW r \in Readers
    PROVE  /\ report[r] \in Reader /\ Reads(report[r])
           /\ report[r].kind # "none" => report[r].kind \in DOMAIN Queries /\ Len(report[r].got) \in Nat
           /\ moment \in Nat
<1>1. PICK q \in Reader : q = report[r]
  BY DEF ReportsInv, ReportsTypeOK
<1>2. Reads(q)
  BY <1>1 DEF ReportsInv
<1>3. q.kind \in DOMAIN Queries \cup {"none"} /\ q.got \in Seq(SUBSET Things)
  BY ReadersHave
<1> QED
  BY <1>1, <1>2, <1>3, ReadersHave DEF ReportsInv, ReportsTypeOK

With(q, got, todo, roots, visits, news) ==
    [q EXCEPT !.got = got, !.todo = todo, !.roots = roots, !.visits = visits, !.since = news]
IsWith(new, q, got, todo, roots, visits, news) ==
    /\ new.kind = q.kind /\ new.form = q.form /\ new.from = q.from /\ new.to = q.to
    /\ new.got = got /\ new.todo = todo /\ new.roots = roots /\ new.visits = visits /\ new.since = news

LEMMA ReaderFields ==
    ASSUME NEW q \in Reader, NEW got \in Seq(SUBSET Things), NEW todo \in Seq(Units), NEW roots \in SUBSET Units,
           NEW visits \in [Units -> 0 .. 2], NEW news \in [rows: SUBSET Submissions, charges: SUBSET Charges, moved: BOOLEAN],
           NEW new, new = With(q, got, todo, roots, visits, news)
    PROVE  new \in Reader /\ IsWith(new, q, got, todo, roots, visits, news)
<1>1. PICK kinds, gots, todos, passes, sinces :
        /\ kinds = DOMAIN Queries \cup {"none"} /\ gots = Seq(SUBSET Things) /\ todos = Seq(Units)
        /\ passes = [Units -> 0 .. 2] /\ sinces = [rows: SUBSET Submissions, charges: SUBSET Charges, moved: BOOLEAN]
  OBVIOUS
<1>2. Reader = [kind: kinds, form: Forms \cup {Nobody}, from: Moments, to: Moments,
                got: gots, todo: todos, roots: SUBSET Units, visits: passes, since: sinces]
  BY <1>1, ReadersHave, Zenon
<1>3. got \in gots /\ todo \in todos /\ visits \in passes /\ news \in sinces
  BY <1>1
<1> QED
  BY <1>2, <1>3 DEF With, IsWith

\* A report, by its fields.
LEMMA ReadersAre ==
    ASSUME NEW q \in Reader
    PROVE  /\ q = [kind |-> q.kind, form |-> q.form, from |-> q.from, to |-> q.to, got |-> q.got,
                   todo |-> q.todo, roots |-> q.roots, visits |-> q.visits, since |-> q.since]
           /\ q.got \in Seq(SUBSET Things) /\ q.todo \in Seq(Units) /\ q.roots \in SUBSET Units
           /\ q.visits \in [Units -> 0 .. 2]
           /\ q.since \in [rows: SUBSET Submissions, charges: SUBSET Charges, moved: BOOLEAN]
BY ReadersHave

\* Each query returns what its report still counts on.
LEMMA QueryKeeps ==
    ASSUME ReportsInv, NEW r \in Readers, Query(r)
    PROVE  ReportsInv'
<1>1. PICK q \in Reader : q = report[r]
  BY AReport
<1>2. PICK name : name = NextQuery(q)
  OBVIOUS
<1>3. PICK rows : rows = Answer(q, name)
  OBVIOUS
<1>4. /\ q.kind # "none" /\ Len(q.got) < Len(Queries[q.kind]) /\ name # "walk" /\ UNCHANGED tables
      /\ report' = [report EXCEPT ![r] =
               IF EndsEarly(q, name, rows) THEN NoReader
               ELSE [q EXCEPT !.got = Append(@, rows), !.since = Forgotten(q), !.roots = IF name = "groups" THEN rows ELSE @]]
  BY <1>1, <1>2, <1>3, Zenon DEF Query, AtWork
<1>5. Reads(q) /\ q.kind \in DOMAIN Queries /\ Len(q.got) \in Nat
  BY <1>1, <1>4, AReport
<1>6. PICK n \in Nat : n = Len(q.got) + 1
  BY <1>5
<1>7. n \in 1 .. Len(Queries[q.kind]) /\ name = Queries[q.kind][n]
  <2>1. Len(Queries[q.kind]) \in Nat
    BY <1>5, ReadersHave, QueriesAre
  <2> QED
    BY <1>2, <1>4, <1>5, <1>6, <2>1 DEF NextQuery
<1>8. name \in {"forms", "form", "contacts", "groups", "submissions", "payments"}
  BY <1>4, <1>5, <1>7, QueriesAre
<1>9. rows \in SUBSET Things
  BY <1>3, <1>8, AnswersAreThings DEF ReportsInv
<1>10. CASE EndsEarly(q, name, rows)
  <2>1. PICK new : new = NoReader
    OBVIOUS
  <2>2. report' = [report EXCEPT ![r] = new]
    BY <1>4, <1>10, <2>1, Zenon
  <2> QED
    BY <1>4, <2>1, <2>2, ReaderTurns, NoReaderReads, ReadersHave
<1>11. CASE ~EndsEarly(q, name, rows)
  <2>1. PICK roots : roots = IF name = "groups" THEN rows ELSE q.roots
    OBVIOUS
  <2>2. roots \in SUBSET Units
    <3>1. q.roots \in SUBSET Units
      BY ReadersHave
    <3>2. name = "groups" => rows = Units
      BY <1>3 DEF Answer
    <3> QED
      BY <2>1, <3>1, <3>2
  <2>3. PICK got : got = Append(q.got, rows)
    OBVIOUS
  <2>4. q.got \in Seq(SUBSET Things) /\ q.todo \in Seq(Units) /\ q.visits \in [Units -> 0 .. 2]
    BY ReadersHave
  <2>5. /\ got \in Seq(SUBSET Things) /\ Len(got) = n /\ got[n] = rows
        /\ \A i \in 1 .. Len(q.got) : got[i] = q.got[i]
    BY <1>6, <1>9, <2>3, <2>4, AppendProperties
  <2>6. PICK todo, visits, news, new :
          /\ todo = q.todo /\ visits = q.visits /\ news = Forgotten(q)
          /\ new = With(q, got, todo, roots, visits, news)
    OBVIOUS
  <2>7. /\ news \in [rows: SUBSET Submissions, charges: SUBSET Charges, moved: BOOLEAN] /\ news.moved = q.since.moved
        /\ n > 2 => news = q.since
    <3>1. q.since \in [rows: SUBSET Submissions, charges: SUBSET Charges, moved: BOOLEAN]
      BY ReadersAre
    <3>2. PICK none : none = [q.since EXCEPT !.rows = {}, !.charges = {}]
      OBVIOUS
    <3>3. none \in [rows: SUBSET Submissions, charges: SUBSET Charges, moved: BOOLEAN] /\ none.moved = q.since.moved
      BY <3>1, <3>2
    <3>4. news = IF Len(q.got) <= 1 THEN none ELSE q.since
      BY <2>6, <3>2, Zenon DEF Forgotten
    <3> QED
      BY <1>5, <1>6, <3>1, <3>3, <3>4
  <2>8. /\ new \in Reader /\ new.kind = q.kind /\ new.form = q.form /\ new.from = q.from /\ new.to = q.to
        /\ new.got = got /\ new.todo = q.todo /\ new.visits = q.visits /\ new.since = news
    <3>1. todo \in Seq(Units) /\ visits \in [Units -> 0 .. 2] /\ got \in Seq(SUBSET Things)
      BY <2>4, <2>5, <2>6, Zenon
    <3>2. new \in Reader /\ IsWith(new, q, got, todo, roots, visits, news)
      BY <2>2, <2>6, <2>7, <3>1, ReaderFields, Zenon
    <3> QED
      BY <2>6, <3>2, Zenon DEF IsWith
  <2>9. report' = [report EXCEPT ![r] = new]
    <3>1. report' = [report EXCEPT ![r] = [q EXCEPT !.got = got, !.since = news, !.roots = roots]]
      BY <1>4, <1>11, <2>1, <2>3, <2>6, Zenon
    <3>2. new = [q EXCEPT !.got = got, !.since = news, !.roots = roots]
      BY <2>6, ReadersAre DEF With
    <3> QED
      BY <3>1, <3>2
  <2>10. Timely(new)
    BY <1>4, <1>7, <2>5, <2>8 DEF Timely
  <2>11. RowsRead(new)
    <3>1. PaymentsRead(new, Answer(q, "payments")) /\ SubmissionsRead(new, Answer(q, "submissions"))
      BY <2>8, AnswersAreFresh DEF ReportsInv
    <3>2. RowsRead(q)
      BY <1>5 DEF Reads
    <3>3. n > 2 => \A lines : /\ PaymentsRead(q, lines) => PaymentsRead(new, lines)
                              /\ SubmissionsRead(q, lines) => SubmissionsRead(new, lines)
      <4>1. ASSUME n > 2 PROVE new.since = q.since /\ PaidRows(new) = PaidRows(q) /\ SentRows(new) = SentRows(q)
        BY <2>7, <2>8, <4>1 DEF PaidRows, SentRows, InRange, OfForm
      <4>2. ASSUME n > 2, NEW lines PROVE PaymentsRead(q, lines) => PaymentsRead(new, lines)
        BY <4>1, <4>2, Zenon DEF PaymentsRead
      <4>3. ASSUME n > 2, NEW lines PROVE SubmissionsRead(q, lines) => SubmissionsRead(new, lines)
        BY <4>1, <4>3, Zenon DEF SubmissionsRead
      <4> QED
        BY <4>2, <4>3
    <3>4. q.kind \in {"analytics", "form"} => n \in 1 .. 3 /\ (n = 3 => Len(q.got) = 2 /\ got[2] = q.got[2])
      <4>1. q.kind \in {"analytics", "form"} => Len(Queries[q.kind]) = 3
        BY QueriesAre
      <4>2. n = 3 => Len(q.got) = 2
        <5>1. PICK k \in Nat : k = Len(q.got)
          BY <1>5
        <5>2. n = k + 1
          BY <1>6, <5>1, Zenon
        <5>3. n = 3 => k = 2
          BY <5>2
        <5> QED
          BY <5>1, <5>3, Zenon
      <4>3. Len(q.got) = 2 => got[2] = q.got[2]
        BY <2>5
      <4>4. q.kind \in {"analytics", "form"} => n \in 1 .. 3
        BY <1>7, <4>1, Zenon
      <4> QED
        BY <4>2, <4>3, <4>4
    <3>5. /\ q.kind = "analytics" /\ n \in {2, 3} => rows = Answer(q, "payments")
          /\ q.kind = "form" /\ n = 2 => rows = Answer(q, "submissions")
          /\ q.kind = "form" /\ n = 3 => rows = Answer(q, "payments")
      BY <1>3, <1>7, QueriesAre
    <3>6. Len(new.got) = n /\ new.got[n] = rows
      BY <2>5, <2>8
    <3>7. CASE n = 3 /\ q.kind \in {"analytics", "form"}
      BY <2>8, <3>1, <3>2, <3>3, <3>4, <3>5, <3>6, <3>7 DEF RowsRead
    <3>8. CASE n = 2 /\ q.kind \in {"analytics", "form"}
      BY <2>8, <3>1, <3>5, <3>6, <3>8 DEF RowsRead
    <3>9. CASE n = 1 \/ q.kind \notin {"analytics", "form"}
      BY <2>8, <3>6, <3>9 DEF RowsRead
    <3> QED
      BY <3>4, <3>7, <3>8, <3>9
  <2>12. Walked(new, parent, OnCircle)
    <3>1. Walked(q, parent, OnCircle)
      BY <1>5 DEF Reads
    <3> QED
      BY <2>7, <2>8, <3>1 DEF Walked, Ahead, Behind
  <2>13. Reads(new)
    BY <2>10, <2>11, <2>12 DEF Reads
  <2> QED
    BY <1>4, <2>8, <2>9, <2>13, ReaderTurns
<1> QED
  BY <1>10, <1>11

\* A walk goes on: what the report has read of the tables stays.
LEMMA WalkGoesOn ==
    ASSUME ReportsInv, NEW r \in Readers, NEW q \in Reader, q = report[r], q.kind # "none",
           NEW todo \in Seq(Units), NEW roots \in SUBSET Units, NEW visits \in [Units -> 0 .. 2],
           NEW got, got = q.got, NEW news, news = q.since,
           NEW new, new = With(q, got, todo, roots, visits, news), report' = [report EXCEPT ![r] = new],
           UNCHANGED tables, Walked(new, parent, OnCircle)
    PROVE  ReportsInv'
<1>1. got \in Seq(SUBSET Things) /\ news \in [rows: SUBSET Submissions, charges: SUBSET Charges, moved: BOOLEAN]
  BY ReadersAre
<1>2. new \in Reader /\ IsWith(new, q, got, todo, roots, visits, news)
  BY <1>1, ReaderFields, Zenon
<1>3. Reads(q)
  BY AReport
<1>4. Timely(new)
  BY <1>2, <1>3 DEF Reads, Timely, IsWith
<1>5. RowsRead(new)
  <2>1. PaidRows(new) = PaidRows(q) /\ SentRows(new) = SentRows(q)
    BY <1>2 DEF PaidRows, SentRows, InRange, OfForm, IsWith
  <2>2. \A lines : /\ PaymentsRead(q, lines) => PaymentsRead(new, lines)
                   /\ SubmissionsRead(q, lines) => SubmissionsRead(new, lines)
    BY <1>2, <2>1 DEF PaymentsRead, SubmissionsRead, IsWith
  <2> QED
    BY <1>2, <1>3, <2>2 DEF Reads, RowsRead, IsWith
<1>6. Reads(new)
  BY <1>4, <1>5 DEF Reads
<1> QED
  BY <1>2, <1>6, ReaderTurns

\* A walk that has gone nowhere.
LEMMA FreshWalk ==
    ASSUME NEW q, NEW x \in Units \cup {Nobody}, Ahead(q) \subseteq {x}, \A g \in Units : q.visits[g] = 0,
           \A i, k \in DOMAIN q.todo : i = k
    PROVE  \A up, circle : Walked(q, up, circle)
<1>1. Behind(q) = {}
  BY DEF Behind
<1> QED
  BY <1>1 DEF Walked

LEMMA NextRootKeeps ==
    ASSUME ReportsInv, NEW r \in Readers, NEW g \in Units, NextRoot(r, g)
    PROVE  ReportsInv'
<1>1. PICK q \in Reader : q = report[r]
  BY AReport
<1>2. PICK todo, roots, visits, got, news :
        news = q.since /\ todo = <<g>> /\ roots = q.roots \ {g} /\ visits = [h \in Units |-> 0] /\ got = q.got
  OBVIOUS
<1>3. PICK new : new = With(q, got, todo, roots, visits, news)
  OBVIOUS
<1>4. /\ todo \in Seq(Units) /\ roots \in SUBSET Units /\ visits \in [Units -> 0 .. 2] /\ got \in Seq(SUBSET Things)
      /\ news \in [rows: SUBSET Submissions, charges: SUBSET Charges, moved: BOOLEAN]
  <2>1. q.roots \in SUBSET Units /\ q.got \in Seq(SUBSET Things)
    BY ReadersHave
  <2> QED
    BY <1>2, <2>1, ReadersAre
<1>5. new \in Reader /\ IsWith(new, q, got, todo, roots, visits, news)
  BY <1>3, <1>4, ReaderFields, Zenon
<1>6. q.kind # "none" /\ UNCHANGED tables
  BY <1>1 DEF NextRoot, AtWork
<1>7. report' = [report EXCEPT ![r] = new]
  <2>1. report' = [report EXCEPT ![r].roots = @ \ {g}, ![r].todo = todo, ![r].visits = visits]
    BY <1>2, Zenon DEF NextRoot
  <2>2. report \in [Readers -> Reader]
    BY DEF ReportsInv, ReportsTypeOK
  <2>3. report' = [report EXCEPT ![r] = [[[q EXCEPT !.roots = roots] EXCEPT !.todo = todo] EXCEPT !.visits = visits]]
    BY <1>1, <1>2, <2>1, <2>2
  <2>4. q = [kind |-> q.kind, form |-> q.form, from |-> q.from, to |-> q.to, got |-> q.got,
             todo |-> q.todo, roots |-> q.roots, visits |-> q.visits, since |-> q.since]
    BY ReadersAre
  <2>5. new = [[[q EXCEPT !.roots = roots] EXCEPT !.todo = todo] EXCEPT !.visits = visits]
    BY <1>2, <1>3, <2>4 DEF With
  <2> QED
    BY <2>3, <2>5
<1>8. Walked(new, parent, OnCircle)
  <2>1. Ahead(new) = {g} /\ \A i, k \in DOMAIN new.todo : i = k
    BY <1>2, <1>5 DEF Ahead, IsWith
  <2>2. \A h \in Units : new.visits[h] = 0
    BY <1>2, <1>5 DEF IsWith
  <2> QED
    BY <2>1, <2>2, FreshWalk
<1> QED
  BY <1>1, <1>2, <1>3, <1>4, <1>6, <1>7, <1>8, WalkGoesOn

LEMMA WalkEndsKeeps ==
    ASSUME ReportsInv, NEW r \in Readers, WalkEnds(r)
    PROVE  ReportsInv'
<1>1. PICK q \in Reader : q = report[r]
  BY AReport
<1>2. PICK todo, roots, visits, got, news :
        news = q.since /\ todo = q.todo /\ roots = q.roots /\ visits = [h \in Units |-> 0] /\ got = Append(q.got, {})
  OBVIOUS
<1>3. PICK new : new = With(q, got, todo, roots, visits, news)
  OBVIOUS
<1>4. /\ q.kind # "none" /\ Len(q.got) < Len(Queries[q.kind]) /\ UNCHANGED tables /\ q.todo = <<>>
      /\ NextQuery(q) = "walk"
  BY <1>1 DEF WalkEnds, AtWork
<1>5. q.kind \in DOMAIN Queries /\ Len(q.got) \in Nat
  BY <1>1, <1>4, AReport
<1>6. q.kind = "groups" /\ Len(q.got) + 1 <= Len(Queries[q.kind])
  <2>1. Len(Queries[q.kind]) \in Nat
    BY <1>5, ReadersHave, QueriesAre
  <2>2. Len(q.got) + 1 \in 1 .. Len(Queries[q.kind])
    BY <1>4, <1>5, <2>1
  <2> QED
    BY <1>4, <1>5, <2>1, <2>2, QueriesAre DEF NextQuery
<1>7. /\ todo \in Seq(Units) /\ roots \in SUBSET Units /\ visits \in [Units -> 0 .. 2]
      /\ got \in Seq(SUBSET Things) /\ Len(got) = Len(q.got) + 1
      /\ news \in [rows: SUBSET Submissions, charges: SUBSET Charges, moved: BOOLEAN]
  <2>1. q.roots \in SUBSET Units /\ q.got \in Seq(SUBSET Things) /\ q.todo \in Seq(Units) /\ {} \in SUBSET Things
    BY ReadersHave
  <2>2. got \in Seq(SUBSET Things) /\ Len(got) = Len(q.got) + 1
    BY <1>2, <2>1, AppendProperties
  <2> QED
    BY <1>2, <2>1, <2>2, ReadersAre
<1>8. new \in Reader /\ IsWith(new, q, got, todo, roots, visits, news)
  BY <1>3, <1>7, ReaderFields, Zenon
<1>9. report' = [report EXCEPT ![r] = new]
  <2>1. report' = [report EXCEPT ![r].got = Append(@, {}), ![r].visits = visits]
    BY <1>2, Zenon DEF WalkEnds
  <2>2. report \in [Readers -> Reader]
    BY DEF ReportsInv, ReportsTypeOK
  <2>3. report' = [report EXCEPT ![r] = [[q EXCEPT !.got = got] EXCEPT !.visits = visits]]
    BY <1>1, <1>2, <2>1, <2>2
  <2>4. q = [kind |-> q.kind, form |-> q.form, from |-> q.from, to |-> q.to, got |-> q.got,
             todo |-> q.todo, roots |-> q.roots, visits |-> q.visits, since |-> q.since]
    BY ReadersAre
  <2>5. new = [[q EXCEPT !.got = got] EXCEPT !.visits = visits]
    BY <1>2, <1>3, <2>4 DEF With
  <2> QED
    BY <2>3, <2>5
<1>10. Walked(new, parent, OnCircle)
  <2>1. Ahead(new) = {} /\ \A i, k \in DOMAIN new.todo : i = k
    BY <1>2, <1>4, <1>8 DEF Ahead, IsWith
  <2>2. \A h \in Units : new.visits[h] = 0
    BY <1>2, <1>8 DEF IsWith
  <2> QED
    BY <2>1, <2>2, FreshWalk
<1>11. Timely(new)
  BY <1>6, <1>7, <1>8 DEF Timely, IsWith
<1>12. RowsRead(new)
  BY <1>6, <1>8 DEF RowsRead, IsWith
<1>13. Reads(new)
  BY <1>10, <1>11, <1>12 DEF Reads
<1> QED
  BY <1>4, <1>8, <1>9, <1>13, ReaderTurns

LEMMA RespondKeeps ==
    ASSUME ReportsInv, NEW r \in Readers, Respond(r)
    PROVE  ReportsInv'
BY ReaderTurns, NoReaderReads, ReadersHave DEF Respond

LEMMA ReadersDieKeeps ==
    ASSUME ReportsInv, ReadersDie
    PROVE  ReportsInv'
<1>1. \A r \in Readers : report'[r] = NoReader
  BY DEF ReadersDie
<1>2. ReportsTypeOK'
  BY ReadersHave DEF ReadersDie, ReportsInv, ReportsTypeOK, tables
<1>3. RowsInv'
  BY DEF ReadersDie, ReportsInv, RowsInv, tables
<1>4. Reads(NoReader)'
  BY NoReaderReads, ReadsStay DEF ReadersDie
<1>5. \A r \in Readers : \A q \in Reader : report'[r] = q => Reads(q)'
  BY <1>1, <1>4
<1> QED
  BY <1>2, <1>3, <1>5 DEF ReportsInv

\* A group is left behind, and those below it come next.
DescendsTo(q, new, g, below, up) ==
    /\ up \in [Units -> Units \cup {Nobody}] /\ g \in Units /\ below \in Seq(Units)
    /\ q.todo \in Seq(Units) /\ q.todo # <<>> /\ g = Head(q.todo) /\ q.visits \in [Units -> 0 .. 2]
    /\ {below[i] : i \in DOMAIN below} = {h \in Units : up[h] = g}
    /\ \A i, k \in DOMAIN below : below[i] = below[k] => i = k
    /\ new.todo \in Seq(Units) /\ new.todo = below \o Tail(q.todo) /\ new.since = q.since
    /\ new.visits = [q.visits EXCEPT ![g] = IF @ = 0 THEN 1 ELSE 2]

Circle(up) == \E S \in SUBSET Units \ {{}} : \A h \in S : up[h] \in S

LEMMA WalkDescends ==
    ASSUME NEW q, NEW new, NEW g, NEW below, NEW up, DescendsTo(q, new, g, below, up),
           NEW circle \in BOOLEAN, Circle(up) => circle, Walked(q, up, circle)
    PROVE  Walked(new, up, circle)
<1> USE DEF DescendsTo, Circle
<1> SUFFICES ASSUME ~q.since.moved, ~circle PROVE Walked(new, up, circle)
  BY DEF Walked
<1>1. /\ \A h \in Units : q.visits[h] # 2
      /\ \A i, k \in DOMAIN q.todo : q.todo[i] = q.todo[k] => i = k
      /\ Ahead(q) \cap Behind(q) = {}
  BY DEF Walked
<1>2. PICK x \in Units \cup {Nobody} : \A h \in (Ahead(q) \cup Behind(q)) \ {x} : up[h] \in Behind(q)
  BY DEF Walked
<1>3. PICK n \in Nat : n = Len(q.todo) /\ n >= 1 /\ DOMAIN q.todo = 1 .. n
  BY EmptySeq
<1>4. g = q.todo[1] /\ g \in Ahead(q) /\ g \notin Behind(q)
  <2>1. g = q.todo[1]
    OBVIOUS
  <2> QED
    BY <1>1, <1>3, <2>1 DEF Ahead
<1>5. PICK tail \in Seq(Units) : tail = Tail(q.todo) /\ Len(tail) = n - 1 /\ \A i \in 1 .. n - 1 : tail[i] = q.todo[i + 1]
  <2>1. PICK todo \in Seq(Units) : todo = q.todo /\ todo # <<>>
    OBVIOUS
  <2>2. Tail(todo) \in Seq(Units) /\ Len(Tail(todo)) = Len(todo) - 1 /\ \A i \in 1 .. Len(Tail(todo)) : Tail(todo)[i] = todo[i + 1]
    BY <2>1, HeadTailProperties
  <2>3. PICK tail : tail = Tail(todo)
    OBVIOUS
  <2>4. tail \in Seq(Units) /\ Len(tail) = n - 1
    BY <1>3, <2>1, <2>2, <2>3
  <2>5. \A i \in 1 .. n - 1 : tail[i] = q.todo[i + 1]
    BY <2>1, <2>2, <2>3, <2>4
  <2> QED
    BY <2>1, <2>3, <2>4, <2>5, Zenon
<1>6. PICK m \in Nat : m = Len(below) /\ DOMAIN below = 1 .. m
  OBVIOUS
<1>7. /\ Len(new.todo) = m + (n - 1) /\ DOMAIN new.todo = 1 .. m + (n - 1)
      /\ \A i \in 1 .. m : new.todo[i] = below[i]
      /\ \A i \in m + 1 .. m + (n - 1) : new.todo[i] = q.todo[i - m + 1]
  <2>1. /\ Len(below \o tail) = Len(below) + Len(tail)
        /\ \A i \in 1 .. Len(below) + Len(tail) : (below \o tail)[i] = IF i <= Len(below) THEN below[i] ELSE tail[i - Len(below)]
    BY ConcatProperties
  <2>2. /\ Len(new.todo) = m + (n - 1)
        /\ \A i \in 1 .. m + (n - 1) : new.todo[i] = IF i <= m THEN below[i] ELSE tail[i - m]
    BY <1>5, <1>6, <2>1
  <2>3. \A i \in m + 1 .. m + (n - 1) : i \in 1 .. m + (n - 1) /\ ~(i <= m) /\ i - m \in 1 .. n - 1
    OBVIOUS
  <2> QED
    BY <1>5, <2>2, <2>3
<1>8. \A h \in Units : up[h] = g => h \notin Ahead(q) \cup Behind(q)
  <2>1. ASSUME NEW h \in Units, up[h] = g, h \in Ahead(q) \cup Behind(q) PROVE FALSE
    <3>1. h = x
      BY <1>2, <1>4, <2>1
    <3>2. Ahead(q) \cup Behind(q) \subseteq Units
      BY <1>3 DEF Ahead, Behind
    <3>3. \A k \in Ahead(q) \cup Behind(q) : up[k] \in Ahead(q) \cup Behind(q)
      BY <1>2, <1>4, <2>1, <3>1
    <3> QED
      BY <1>4, <3>2, <3>3
  <2> QED
    BY <2>1
<1>9. \A i \in 1 .. m : below[i] \in Units /\ up[below[i]] = g /\ below[i] \notin Ahead(q) \cup Behind(q)
  <2>1. \A i \in 1 .. m : below[i] \in {h \in Units : up[h] = g}
    BY <1>6
  <2> QED
    BY <1>8, <2>1
<1>10. \A i \in 2 .. n : q.todo[i] \in Ahead(q) /\ q.todo[i] # g
  BY <1>1, <1>3, <1>4 DEF Ahead
<1>11. ASSUME NEW i \in 1 .. m + (n - 1), NEW k \in 1 .. m + (n - 1), new.todo[i] = new.todo[k]
       PROVE  i = k
  <2>1. CASE i <= m /\ k <= m
    <3>1. i \in 1 .. m /\ k \in 1 .. m
      BY <2>1
    <3>2. below[i] = below[k]
      BY <1>7, <1>11, <3>1
    <3> QED
      BY <1>6, <3>1, <3>2
  <2>2. CASE i > m /\ k > m
    <3>1. i - m + 1 \in 2 .. n /\ k - m + 1 \in 2 .. n /\ i \in m + 1 .. m + (n - 1) /\ k \in m + 1 .. m + (n - 1)
      BY <2>2
    <3>2. q.todo[i - m + 1] = q.todo[k - m + 1]
      BY <1>7, <1>11, <3>1
    <3>3. i - m + 1 = k - m + 1
      BY <1>1, <1>3, <3>1, <3>2
    <3> QED
      BY <3>3
  <2>3. CASE i <= m /\ k > m
    <3>1. k - m + 1 \in 2 .. n /\ k \in m + 1 .. m + (n - 1) /\ i \in 1 .. m
      BY <2>3
    <3>2. new.todo[i] = below[i] /\ new.todo[k] = q.todo[k - m + 1]
      BY <1>7, <3>1
    <3>3. below[i] \notin Ahead(q) /\ q.todo[k - m + 1] \in Ahead(q)
      BY <1>9, <1>10, <3>1
    <3> QED
      BY <1>11, <3>2, <3>3
  <2>4. CASE i > m /\ k <= m
    <3>1. i - m + 1 \in 2 .. n /\ i \in m + 1 .. m + (n - 1) /\ k \in 1 .. m
      BY <2>4
    <3>2. new.todo[k] = below[k] /\ new.todo[i] = q.todo[i - m + 1]
      BY <1>7, <3>1
    <3>3. below[k] \notin Ahead(q) /\ q.todo[i - m + 1] \in Ahead(q)
      BY <1>9, <1>10, <3>1
    <3> QED
      BY <1>11, <3>2, <3>3
  <2> QED
    BY <2>1, <2>2, <2>3, <2>4
<1>12. /\ new.visits[g] = 1 /\ \A h \in Units \ {g} : new.visits[h] = q.visits[h]
       /\ Behind(new) = Behind(q) \cup {g}
  <2>1. q.visits[g] = 0
    BY <1>4 DEF Behind
  <2> QED
    BY <2>1 DEF Behind
<1>13. ASSUME NEW h \in Ahead(new) PROVE h \notin Behind(new) /\ (h # x => up[h] \in Behind(new))
  <2>1. PICK i \in 1 .. m + (n - 1) : h = new.todo[i]
    BY <1>7, <1>13 DEF Ahead
  <2>2. CASE i <= m
    <3>1. h = below[i] /\ i \in 1 .. m
      BY <1>7, <2>1, <2>2
    <3>2. up[h] = g /\ h \notin Ahead(q) \cup Behind(q)
      BY <1>9, <3>1
    <3> QED
      BY <1>4, <1>12, <3>2
  <2>3. CASE i > m
    <3>1. i - m + 1 \in 2 .. n /\ i \in m + 1 .. m + (n - 1)
      BY <2>3
    <3>2. h = q.todo[i - m + 1]
      BY <1>7, <2>1, <3>1
    <3>3. h \in Ahead(q) /\ h # g
      BY <1>10, <3>1, <3>2
    <3> QED
      BY <1>1, <1>2, <1>12, <3>3
  <2> QED
    BY <2>2, <2>3
<1>14. \A h \in Behind(new) : h # x => up[h] \in Behind(new)
  BY <1>2, <1>4, <1>12
<1>15. \A h \in Units : new.visits[h] # 2
  BY <1>1, <1>12
<1>16. \A i, k \in DOMAIN new.todo : new.todo[i] = new.todo[k] => i = k
  BY <1>7, <1>11
<1>17. Ahead(new) \cap Behind(new) = {} /\ \A h \in (Ahead(new) \cup Behind(new)) \ {x} : up[h] \in Behind(new)
  BY <1>13, <1>14
<1> QED
  BY <1>15, <1>16, <1>17 DEF Walked

LEMMA DescendKeeps ==
    ASSUME ReportsInv, NEW r \in Readers, NEW S \in SUBSET Units, NEW below \in Orders(S), Descend(r, below)
    PROVE  ReportsInv'
<1>1. PICK q \in Reader : q = report[r]
  BY AReport
<1>2. /\ q.kind # "none" /\ q.todo # <<>> /\ UNCHANGED tables
      /\ {below[i] : i \in DOMAIN below} = Children(Head(q.todo))
      /\ report' = [report EXCEPT ![r].todo = below \o Tail(@), ![r].visits[Head(q.todo)] = IF @ = 0 THEN 1 ELSE 2]
  BY <1>1, Zenon DEF Descend, AtWork
<1>3. /\ q.todo \in Seq(Units) /\ q.got \in Seq(SUBSET Things) /\ q.roots \in SUBSET Units /\ q.visits \in [Units -> 0 .. 2]
      /\ q.since \in [rows: SUBSET Submissions, charges: SUBSET Charges, moved: BOOLEAN]
  BY ReadersAre
<1>4. PICK g \in Units : g = Head(q.todo)
  BY <1>2, <1>3, HeadTailProperties
<1>5. below \in Seq(Units) /\ \A i, k \in DOMAIN below : below[i] = below[k] => i = k
  <2>1. IsFiniteSet(S)
    BY ReportsAssumption, FS_Subset
  <2>2. PICK n \in Nat : n = Cardinality(S)
    BY <2>1, FS_CardinalityType
  <2>3. below \in [1 .. n -> S] /\ \A i, k \in DOMAIN below : below[i] = below[k] => i = k
    BY <2>2 DEF Orders
  <2> QED
    BY <2>3
<1>6. PICK todo : todo = below \o Tail(q.todo)
  OBVIOUS
<1>7. todo \in Seq(Units)
  <2>1. Tail(q.todo) \in Seq(Units)
    BY <1>2, <1>3, HeadTailProperties
  <2> QED
    BY <1>5, <1>6, <2>1, ConcatProperties
<1>8. PICK visits : visits = [q.visits EXCEPT ![g] = IF @ = 0 THEN 1 ELSE 2]
  OBVIOUS
<1>9. visits \in [Units -> 0 .. 2]
  BY <1>3, <1>8
<1>10. PICK roots, got, news : roots = q.roots /\ got = q.got /\ news = q.since
  OBVIOUS
<1>11. PICK new : new = With(q, got, todo, roots, visits, news)
  OBVIOUS
<1>12. new \in Reader /\ IsWith(new, q, got, todo, roots, visits, news)
  BY <1>3, <1>7, <1>9, <1>10, <1>11, ReaderFields, Zenon
<1>13. report' = [report EXCEPT ![r] = new]
  <2>1. report' = [report EXCEPT ![r].todo = below \o Tail(@), ![r].visits[g] = IF @ = 0 THEN 1 ELSE 2]
    BY <1>2, <1>4, Zenon
  <2>2. report \in [Readers -> Reader]
    BY DEF ReportsInv, ReportsTypeOK
  <2>3. q = [kind |-> q.kind, form |-> q.form, from |-> q.from, to |-> q.to, got |-> q.got,
             todo |-> q.todo, roots |-> q.roots, visits |-> q.visits, since |-> q.since]
    BY ReadersAre
  <2>4. report' = [report EXCEPT ![r] = [[q EXCEPT !.todo = todo] EXCEPT !.visits = visits]]
    BY <1>1, <1>6, <1>8, <2>1, <2>2, <2>3
  <2>5. new = [[q EXCEPT !.todo = todo] EXCEPT !.visits = visits]
    BY <1>10, <1>11, <2>3 DEF With
  <2> QED
    BY <2>4, <2>5
<1>14. Walked(q, parent, OnCircle)
  BY <1>1, AReport DEF Reads
<1>15. PICK circle : circle = OnCircle
  OBVIOUS
<1>16. circle \in BOOLEAN /\ (Circle(parent) => circle)
  BY <1>15 DEF OnCircle, Circle
<1>17. parent \in [Units -> Units \cup {Nobody}] /\ {below[i] : i \in DOMAIN below} = {h \in Units : parent[h] = g}
  <2>1. {below[i] : i \in DOMAIN below} = Children(g)
    BY <1>2, <1>4, Zenon
  <2> QED
    BY <2>1, Zenon DEF Children, ReportsInv, ReportsTypeOK
<1>18. Walked(new, parent, circle)
  <2>1. new.todo \in Seq(Units) /\ new.todo = below \o Tail(q.todo) /\ new.since = q.since
    BY <1>6, <1>7, <1>10, <1>12, Zenon DEF IsWith
  <2>2. new.visits = [q.visits EXCEPT ![g] = IF @ = 0 THEN 1 ELSE 2]
    BY <1>8, <1>12, Zenon DEF IsWith
  <2>3. q.todo \in Seq(Units) /\ q.visits \in [Units -> 0 .. 2] /\ q.todo # <<>> /\ g = Head(q.todo)
    BY <1>2, <1>3, <1>4
  <2>4. Walked(q, parent, circle)
    BY <1>14, <1>15
  <2> QED
    <3>1. DescendsTo(q, new, g, below, parent)
      BY <1>5, <1>17, <2>1, <2>2, <2>3 DEF DescendsTo
    <3> QED
      BY <1>16, <2>4, <3>1, WalkDescends, Zenon
<1> QED
  BY <1>1, <1>2, <1>3, <1>7, <1>9, <1>10, <1>11, <1>13, <1>15, <1>18, WalkGoesOn

\* But for these rows, the submissions and the payments stay; a payment's submission keeps its form.
Unwritten(S, C) ==
    /\ \A s \in Submissions \ S : submission'[s] = submission[s]
    /\ \A p \in Charges \ C :
          /\ charge'[p] = charge[p]
          /\ charge[p] # <<>> => /\ charge[p].of \in Submissions
                                 /\ submission'[charge[p].of].form = submission[charge[p].of].form

\* What was read of the rest stays read.
LEMMA WhatWasReadStays ==
    ASSUME NEW S \in SUBSET Submissions, NEW C \in SUBSET Charges, Unwritten(S, C),
           DOMAIN charge = Charges, DOMAIN charge' = Charges,
           DOMAIN submission = Submissions, DOMAIN submission' = Submissions,
           NEW o, NEW q, q.from = o.from, q.to = o.to, q.form = o.form,
           q.since.rows = o.since.rows \cup S, q.since.charges = o.since.charges \cup C
    PROVE  \A rows : /\ PaymentsRead(o, rows) => PaymentsRead(q, rows)'
                     /\ SubmissionsRead(o, rows) => SubmissionsRead(q, rows)'
<1>1. \A m, f : (InRange(q, m) <=> InRange(o, m)) /\ (OfForm(q, f) <=> OfForm(o, f))
  BY DEF InRange, OfForm
<1>2. ASSUME NEW p \in Charges \ C PROVE p \in PaidRows(q)' <=> p \in PaidRows(o)
  <2>1. charge'[p] = charge[p]
    BY <1>2 DEF Unwritten
  <2>2. charge[p] # <<>> => submission'[charge[p].of].form = submission[charge[p].of].form
    BY <1>2 DEF Unwritten
  <2>3. p \in PaidRows(o) <=> charge[p] # <<>> /\ InRange(o, charge[p].made) /\ OfForm(o, submission[charge[p].of].form)
    BY <1>2, Zenon DEF PaidRows, There
  <2>4. p \in PaidRows(q)' <=> charge'[p] # <<>> /\ InRange(q, charge'[p].made) /\ OfForm(q, submission'[charge'[p].of].form)
    BY <1>2, Zenon DEF PaidRows, There, InRange, OfForm
  <2> QED
    BY <1>1, <2>1, <2>2, <2>3, <2>4
<1>3. ASSUME NEW s \in Submissions \ S PROVE s \in SentRows(q)' <=> s \in SentRows(o)
  <2>1. submission'[s] = submission[s]
    BY <1>3 DEF Unwritten
  <2>2. s \in SentRows(o) <=> submission[s] # <<>> /\ InRange(o, submission[s].made) /\ OfForm(o, submission[s].form)
    BY <1>3, Zenon DEF SentRows, There
  <2>3. s \in SentRows(q)' <=> submission'[s] # <<>> /\ InRange(q, submission'[s].made) /\ OfForm(q, submission'[s].form)
    BY <1>3, Zenon DEF SentRows, There, InRange, OfForm
  <2> QED
    BY <1>1, <2>1, <2>2, <2>3
<1>4. PaidRows(o) \subseteq Charges /\ PaidRows(q)' \subseteq Charges /\ SentRows(q)' \subseteq Submissions
  BY Zenon DEF PaidRows, SentRows, There
<1>5. ASSUME NEW rows, PaymentsRead(o, rows) PROVE PaymentsRead(q, rows)'
  <2>1. ASSUME NEW x \in rows, x.id \notin q.since.charges
        PROVE  /\ x.id \in PaidRows(q)' /\ x.status = charge'[x.id].status /\ x.of = charge'[x.id].of
               /\ x.of \in q.since.rows \/ x.contact = submission'[x.of].contact
    <3>1. /\ x.id \in PaidRows(o) /\ x.status = charge[x.id].status /\ x.of = charge[x.id].of
          /\ x.of \in o.since.rows \/ x.contact = submission[x.of].contact
      BY <1>5, <2>1 DEF PaymentsRead
    <3>2. x.id \in Charges \ C
      BY <1>4, <2>1, <3>1
    <3>3. charge'[x.id] = charge[x.id] /\ charge[x.id] # <<>>
      BY <3>1, <3>2 DEF Unwritten, PaidRows, There
    <3>4. x.of \in S \/ submission'[x.of] = submission[x.of]
      BY <3>1, <3>2, <3>3 DEF Unwritten
    <3> QED
      BY <1>2, <3>1, <3>2, <3>3, <3>4
  <2>2. ASSUME NEW p \in PaidRows(q)', p \notin q.since.charges PROVE \E x \in rows : x.id = p
    BY <1>2, <1>4, <1>5, <2>2 DEF PaymentsRead
  <2> QED
    BY <1>5, <2>1, <2>2 DEF PaymentsRead
<1>6. ASSUME NEW rows, SubmissionsRead(o, rows) PROVE SubmissionsRead(q, rows)'
  <2>1. ASSUME NEW s \in SentRows(q)', s \notin q.since.rows PROVE \E x \in rows : x.id = s /\ x.contact = submission'[s].contact
    <3>1. s \in Submissions \ S /\ s \notin o.since.rows
      BY <1>4, <2>1
    <3>2. submission'[s] = submission[s] /\ s \in SentRows(o)
      BY <1>3, <2>1, <3>1 DEF Unwritten
    <3> QED
      BY <1>6, <3>1, <3>2 DEF SubmissionsRead
  <2> QED
    BY <2>1 DEF SubmissionsRead
<1> QED
  BY <1>5, <1>6

\* A write is noticed by the reports under way.
LEMMA TablesGoOn ==
    ASSUME ReportsInv, NEW S \in SUBSET Submissions, NEW C \in SUBSET Charges, NEW regrouped \in BOOLEAN,
           Writes(S, C, regrouped), Unwritten(S, C),
           forms' \subseteq Forms, submission' \in [Submissions -> SubmissionRow \cup {<<>>}],
           charge' \in [Charges -> ChargeRow \cup {<<>>}],
           DOMAIN members' \subseteq Members, \A c \in DOMAIN members' : members'[c] \subseteq Units,
           parent' \in [Units -> Units \cup {Nobody}], moment' \in Moments, RowsInv',
           parent' = parent \/ regrouped
    PROVE  ReportsInv'
<1>1. \A r \in Readers : report'[r] = IF report[r].kind = "none" THEN report[r]
                                       ELSE [report[r] EXCEPT !.since = Noticed(@, S, C, regrouped)]
  BY DEF Writes
<1>2. /\ DOMAIN charge = Charges /\ DOMAIN charge' = Charges
      /\ DOMAIN submission = Submissions /\ DOMAIN submission' = Submissions
  BY DEF ReportsInv, ReportsTypeOK
<1>3. ASSUME NEW r \in Readers
      PROVE  report'[r] \in Reader /\ \A q \in Reader : report'[r] = q => Reads(q)'
  <2>1. PICK o \in Reader : o = report[r] /\ Reads(o)
    BY AReport
  <2>2. CASE o.kind = "none"
    <3>1. o = NoReader /\ report'[r] = o
      BY <1>1, <2>1, <2>2 DEF Reads, Timely
    <3>2. /\ o.todo = <<>> /\ \A g \in Units : o.visits[g] = 0
      BY <3>1, ReadersHave
    <3>3. Ahead(o) = {} /\ Behind(o) = {}
      BY <3>2 DEF Ahead, Behind
    <3>4. Timely(o) /\ RowsRead(o)'
      BY <2>2, <3>1 DEF Timely, RowsRead
    <3>5. Walked(o, parent', OnCircle')
      BY <3>2, <3>3 DEF Walked
    <3>6. Reads(o)'
      BY <3>4, <3>5 DEF Reads
    <3> QED
      BY <3>1, <3>6
  <2>3. CASE o.kind # "none"
    <3>1. PICK noticed : noticed = Noticed(o.since, S, C, regrouped)
      OBVIOUS
    <3>2. PICK got, todo, roots, visits : got = o.got /\ todo = o.todo /\ roots = o.roots /\ visits = o.visits
      OBVIOUS
    <3>3. /\ noticed \in [rows: SUBSET Submissions, charges: SUBSET Charges, moved: BOOLEAN]
          /\ noticed.rows = o.since.rows \cup S /\ noticed.charges = o.since.charges \cup C
          /\ noticed.moved = (o.since.moved \/ regrouped)
      <4>1. PICK news \in [rows: SUBSET Submissions, charges: SUBSET Charges, moved: BOOLEAN] : news = o.since
        BY ReadersAre
      <4>2. noticed = [rows |-> news.rows \cup S, charges |-> news.charges \cup C, moved |-> news.moved \/ regrouped]
        BY <3>1, <4>1 DEF Noticed
      <4> QED
        BY <4>1, <4>2
    <3>4. PICK q : q = With(o, got, todo, roots, visits, noticed)
      OBVIOUS
    <3>5. q \in Reader /\ IsWith(q, o, got, todo, roots, visits, noticed)
      <4>1. got \in Seq(SUBSET Things) /\ todo \in Seq(Units) /\ roots \in SUBSET Units /\ visits \in [Units -> 0 .. 2]
        BY <3>2, ReadersAre
      <4> QED
        BY <3>3, <3>4, <4>1, ReaderFields, Zenon
    <3>6. report'[r] = q
      <4>1. report'[r] = [o EXCEPT !.since = noticed]
        BY <1>1, <2>1, <2>3, <3>1
      <4>2. q = [o EXCEPT !.since = noticed]
        BY <3>2, <3>4, ReadersAre DEF With
      <4> QED
        BY <4>1, <4>2
    <3>7. Timely(q)
      BY <2>1, <2>3, <3>2, <3>5 DEF Reads, Timely, IsWith
    <3>8. RowsRead(q)'
      <4>1. \A rows : /\ PaymentsRead(o, rows) => PaymentsRead(q, rows)'
                      /\ SubmissionsRead(o, rows) => SubmissionsRead(q, rows)'
        <5>1. /\ q.from = o.from /\ q.to = o.to /\ q.form = o.form
              /\ q.since.rows = o.since.rows \cup S /\ q.since.charges = o.since.charges \cup C
          BY <3>3, <3>5 DEF IsWith
        <5> QED
          BY <1>2, <5>1, WhatWasReadStays
      <4>2. RowsRead(o) /\ q.kind = o.kind /\ q.got = o.got
        BY <2>1, <3>2, <3>5 DEF Reads, IsWith
      <4> QED
        BY <4>1, <4>2 DEF RowsRead
    <3>9. Walked(q, parent', OnCircle')
      <4>1. q.since.moved = (o.since.moved \/ regrouped) /\ q.todo = o.todo /\ q.visits = o.visits
        BY <3>2, <3>3, <3>5 DEF IsWith
      <4>2. CASE regrouped
        BY <4>1, <4>2 DEF Walked
      <4>3. CASE parent' = parent
        <5>1. OnCircle' <=> OnCircle
          BY <4>3, Zenon DEF OnCircle
        <5>2. Walked(o, parent, OnCircle)
          BY <2>1 DEF Reads
        <5>3. Ahead(q) = Ahead(o) /\ Behind(q) = Behind(o)
          BY <4>1 DEF Ahead, Behind
        <5>4. CASE o.since.moved \/ OnCircle
          BY <4>1, <5>1, <5>4 DEF Walked
        <5>5. CASE ~(o.since.moved \/ OnCircle)
          BY <4>1, <4>3, <5>2, <5>3, <5>5, Zenon DEF Walked
        <5> QED
          BY <5>4, <5>5
      <4> QED
        BY <4>2, <4>3
    <3>10. Reads(q)'
      BY <3>7, <3>8, <3>9 DEF Reads
    <3> QED
      BY <3>5, <3>6, <3>10
  <2> QED
    BY <2>2, <2>3
<1>4. report' \in [Readers -> Reader]
  <2>1. report' = [r \in Readers |-> report'[r]]
    BY DEF Writes
  <2> QED
    BY <1>3, <2>1
<1>5. ReportsTypeOK'
  BY <1>4 DEF ReportsTypeOK
<1> QED
  BY <1>3, <1>5 DEF ReportsInv

\* What the writes may rely on.
LEMMA TablesAre ==
    ASSUME ReportsInv
    PROVE  /\ forms \subseteq Forms /\ submission \in [Submissions -> SubmissionRow \cup {<<>>}]
           /\ charge \in [Charges -> ChargeRow \cup {<<>>}] /\ DOMAIN charge = Charges
           /\ DOMAIN members \subseteq Members /\ \A c \in DOMAIN members : members[c] \subseteq Units
           /\ parent \in [Units -> Units \cup {Nobody}] /\ moment \in Moments /\ moment \in Nat
           /\ RowsInv /\ Moments \subseteq Nat
           /\ \A p \in Charges : charge[p] # <<>> => charge[p].of \in Submissions /\ charge[p].made \in Nat
           /\ \A s \in Submissions : submission[s] # <<>> => submission[s].made \in Nat
<1>1. moment \in Nat /\ Moments \subseteq Nat
  BY ReadersHave DEF ReportsInv, ReportsTypeOK
<1>2. \A p \in Charges : charge[p] # <<>> => charge[p].of \in Submissions /\ charge[p].made \in Nat
  BY ReadersHave, ZenonT(60) DEF ReportsInv, ReportsTypeOK, ChargeRow
<1>3. \A s \in Submissions : submission[s] # <<>> => submission[s].made \in Nat
  BY ReadersHave, ZenonT(60) DEF ReportsInv, ReportsTypeOK, SubmissionRow
<1> QED
  BY <1>1, <1>2, <1>3 DEF ReportsInv, ReportsTypeOK

LEMMA SubmittedKeeps ==
    ASSUME ReportsInv, NEW s \in Submissions, NEW f \in Forms, NEW c \in Members \cup {Nobody},
           NEW at \in Moments, Submitted(s, f, c, at)
    PROVE  ReportsInv'
<1>1. PICK row : row = [form |-> f, contact |-> c, made |-> at]
  OBVIOUS
<1>2. /\ submission' = [submission EXCEPT ![s] = row] /\ moment' = moment + 1 /\ submission[s] = <<>>
      /\ c \in DOMAIN members \cup {Nobody} /\ moment < Later /\ at <= moment'
      /\ forms' = forms /\ charge' = charge /\ members' = members /\ parent' = parent /\ Writes({s}, {}, FALSE)
  BY <1>1 DEF Submitted, IsNextRow
<1>3. moment' \in Moments /\ moment <= moment'
  BY <1>2, TablesAre, ReadersHave DEF Moments
<1>4. row \in SubmissionRow /\ row.contact = c /\ row.made = at
  BY <1>1, <1>2 DEF SubmissionRow
<1>5. submission' \in [Submissions -> SubmissionRow \cup {<<>>}]
  BY <1>2, <1>4, TablesAre
<1>6. \A t \in Submissions : t # s => submission'[t] = submission[t]
  BY <1>2, TablesAre
<1>7. submission'[s] = row
  BY <1>2, TablesAre
<1>8. \A p \in Charges : charge[p] # <<>> => charge[p].of \in Submissions /\ charge[p].of # s
  BY <1>2, TablesAre DEF RowsInv
<1>9. RowsInv'
  <2>1. \A t \in Submissions : submission'[t] # <<>> =>
           submission'[t].contact \in DOMAIN members' \cup {Nobody} /\ submission'[t].made <= moment'
    BY <1>2, <1>4, <1>6, <1>7, TablesAre DEF RowsInv
  <2>2. ASSUME NEW p \in Charges, charge'[p] # <<>>
        PROVE  /\ submission'[charge'[p].of] # <<>>
               /\ submission'[charge'[p].of].made <= charge'[p].made /\ charge'[p].made <= moment'
    <3>1. submission'[charge[p].of] = submission[charge[p].of]
      BY <1>2, <1>6, <1>8, <2>2
    <3> QED
      BY <1>2, <2>2, <3>1, TablesAre DEF RowsInv
  <2> QED
    BY <2>1, <2>2 DEF RowsInv
<1>10. Unwritten({s}, {})
  BY <1>2, <1>6, <1>8 DEF Unwritten
<1> QED
  BY <1>2, <1>3, <1>5, <1>9, <1>10, TablesGoOn, TablesAre

LEMMA BilledKeeps ==
    ASSUME ReportsInv, NEW p \in Charges, NEW s \in Submissions, NEW at \in Moments, Billed(p, s, at)
    PROVE  ReportsInv'
<1>1. PICK row : row = [of |-> s, status |-> "PENDING", made |-> at]
  OBVIOUS
<1>2. /\ charge' = [charge EXCEPT ![p] = row] /\ moment' = moment + 1 /\ charge[p] = <<>> /\ submission[s] # <<>>
      /\ moment < Later /\ submission[s].made <= at /\ at <= moment'
      /\ forms' = forms /\ submission' = submission /\ members' = members /\ parent' = parent /\ Writes({}, {p}, FALSE)
  BY <1>1 DEF Billed, IsNextRow
<1>3. moment' \in Moments /\ moment <= moment'
  BY <1>2, TablesAre, ReadersHave DEF Moments
<1>4. row \in ChargeRow /\ row.of = s /\ row.made = at
  BY <1>1 DEF ChargeRow, Statuses
<1>5. charge' \in [Charges -> ChargeRow \cup {<<>>}] /\ charge'[p] = row /\ \A x \in Charges : x # p => charge'[x] = charge[x]
  BY <1>2, <1>4, TablesAre
<1>7. RowsInv'
  <2>1. \A t \in Submissions : submission'[t] # <<>> =>
           submission'[t].contact \in DOMAIN members' \cup {Nobody} /\ submission'[t].made <= moment'
    BY <1>2, TablesAre DEF RowsInv
  <2>2. ASSUME NEW x \in Charges, charge'[x] # <<>>
        PROVE  /\ submission'[charge'[x].of] # <<>>
               /\ submission'[charge'[x].of].made <= charge'[x].made /\ charge'[x].made <= moment'
    BY <1>2, <1>4, <1>5, <2>2, TablesAre DEF RowsInv
  <2> QED
    BY <2>1, <2>2 DEF RowsInv
<1>8. Unwritten({}, {p})
  BY <1>2, <1>5, TablesAre DEF Unwritten
<1> QED
  BY <1>2, <1>3, <1>5, <1>7, <1>8, TablesGoOn, TablesAre

LEMMA SettledKeeps ==
    ASSUME ReportsInv, NEW p \in Charges, NEW status \in Statuses, Settled(p, status)
    PROVE  ReportsInv'
<1>1. PICK row : row = [charge[p] EXCEPT !.status = status]
  OBVIOUS
<1>2. /\ charge' = [charge EXCEPT ![p] = row] /\ charge[p] # <<>> /\ Writes({}, {p}, FALSE)
      /\ forms' = forms /\ submission' = submission /\ members' = members /\ parent' = parent /\ moment' = moment
  <2>1. charge' = [charge EXCEPT ![p].status = status]
    BY DEF Settled
  <2> QED
    BY <1>1, <2>1 DEF Settled
<1>3. row \in ChargeRow /\ row.of = charge[p].of /\ row.made = charge[p].made
  <2>1. charge[p] \in ChargeRow
    BY <1>2, TablesAre
  <2> QED
    BY <1>1, <2>1 DEF ChargeRow
<1>4. charge' \in [Charges -> ChargeRow \cup {<<>>}] /\ charge'[p] = row /\ \A x \in Charges : x # p => charge'[x] = charge[x]
  BY <1>2, <1>3, TablesAre
<1>5. RowsInv'
  <2>1. \A x \in Charges : charge'[x] # <<>> => charge[x] # <<>> /\ charge'[x].of = charge[x].of /\ charge'[x].made = charge[x].made
    BY <1>2, <1>3, <1>4
  <2> QED
    BY <1>2, <2>1, TablesAre DEF RowsInv
<1>6. Unwritten({}, {p})
  BY <1>2, <1>4, TablesAre DEF Unwritten
<1> QED
  BY <1>2, <1>4, <1>5, <1>6, TablesGoOn, TablesAre

LEMMA PurgedKeeps ==
    ASSUME ReportsInv, NEW s \in Submissions, Purged(s)
    PROVE  ReportsInv'
<1>1. /\ submission' = [submission EXCEPT ![s] = <<>>] /\ Writes({s}, ChargesOf(s), FALSE)
      /\ charge' = [p \in Charges |-> IF p \in ChargesOf(s) THEN <<>> ELSE charge[p]]
      /\ forms' = forms /\ members' = members /\ parent' = parent /\ moment' = moment
  BY DEF Purged
<1>2. submission' \in [Submissions -> SubmissionRow \cup {<<>>}] /\ charge' \in [Charges -> ChargeRow \cup {<<>>}]
  BY <1>1, TablesAre
<1>3. /\ \A t \in Submissions : submission'[t] # <<>> => submission'[t] = submission[t]
      /\ \A t \in Submissions : t # s => submission'[t] = submission[t]
  BY <1>1, TablesAre
<1>4. \A p \in Charges : charge'[p] # <<>> => charge'[p] = charge[p] /\ charge[p].of # s /\ charge[p].of \in Submissions
  BY <1>1, TablesAre DEF ChargesOf, There
<1>5. RowsInv'
  <2>1. \A p \in Charges : charge'[p] # <<>> => charge'[p] = charge[p] /\ submission'[charge[p].of] = submission[charge[p].of]
    BY <1>3, <1>4
  <2> QED
    BY <1>1, <1>3, <2>1, TablesAre DEF RowsInv
<1>6. ChargesOf(s) \subseteq Charges /\ \A p \in Charges \ ChargesOf(s) : charge[p] # <<>> => charge[p].of # s
  BY TablesAre DEF ChargesOf, There
<1>7. Unwritten({s}, ChargesOf(s))
  BY <1>1, <1>3, <1>6, TablesAre DEF Unwritten
<1> QED
  BY <1>1, <1>2, <1>5, <1>6, <1>7, TablesGoOn, TablesAre

LEMMA ContactGoneKeeps ==
    ASSUME ReportsInv, NEW c \in Members, ContactGone(c)
    PROVE  ReportsInv'
<1>1. /\ members' = [d \in DOMAIN members \ {c} |-> members[d]] /\ Writes(SubmissionsOf(c), {}, FALSE)
      /\ submission' = [s \in Submissions |->
            IF s \in SubmissionsOf(c)
            THEN [submission[s] EXCEPT !.contact = Nobody] ELSE submission[s]]
      /\ forms' = forms /\ charge' = charge /\ parent' = parent /\ moment' = moment
  BY DEF ContactGone
<1>2. DOMAIN members' = DOMAIN members \ {c} /\ \A d \in DOMAIN members' : members'[d] = members[d]
  BY <1>1
<1>3. ASSUME NEW s \in Submissions
      PROVE  /\ submission'[s] \in SubmissionRow \cup {<<>>}
             /\ submission'[s] # <<>> <=> submission[s] # <<>>
             /\ s \notin SubmissionsOf(c) => submission'[s] = submission[s]
             /\ submission'[s] # <<>> => /\ submission'[s].made = submission[s].made
                                         /\ submission'[s].form = submission[s].form
                                         /\ submission'[s].contact \in DOMAIN members' \cup {Nobody}
  <2>1. CASE s \in SubmissionsOf(c)
    <3>1. PICK row : row = [submission[s] EXCEPT !.contact = Nobody]
      OBVIOUS
    <3>2. submission'[s] = row /\ submission[s] \in SubmissionRow
      BY <1>1, <2>1, <3>1, TablesAre DEF SubmissionsOf, There
    <3>3. row \in SubmissionRow /\ row.contact = Nobody /\ row.made = submission[s].made /\ row.form = submission[s].form
      BY <3>1, <3>2 DEF SubmissionRow
    <3> QED
      BY <2>1, <3>2, <3>3, RowsAreNotEmpty
  <2>2. CASE s \notin SubmissionsOf(c)
    <3>1. submission'[s] = submission[s]
      BY <1>1, <2>2
    <3>2. submission[s] # <<>> => submission[s].contact \in (DOMAIN members \cup {Nobody}) \ {c} \/ submission[s].contact = Nobody
      BY <2>2, TablesAre DEF RowsInv, SubmissionsOf, There
    <3> QED
      BY <1>2, <2>2, <3>1, <3>2, TablesAre
  <2> QED
    BY <2>1, <2>2
<1>4. submission' \in [Submissions -> SubmissionRow \cup {<<>>}]
  <2>1. submission' = [s \in Submissions |-> submission'[s]]
    BY <1>1
  <2> QED
    BY <1>3, <2>1
<1>5. RowsInv'
  <2>1. \A s \in Submissions : submission'[s] # <<>> => submission'[s].made <= moment'
    BY <1>1, <1>3, TablesAre DEF RowsInv
  <2>2. ASSUME NEW p \in Charges, charge'[p] # <<>>
        PROVE  /\ submission'[charge'[p].of] # <<>>
               /\ submission'[charge'[p].of].made <= charge'[p].made /\ charge'[p].made <= moment'
    <3>1. charge'[p] = charge[p] /\ charge[p].of \in Submissions /\ submission[charge[p].of] # <<>>
      BY <1>1, <2>2, TablesAre DEF RowsInv
    <3>2. submission'[charge[p].of] # <<>> /\ submission'[charge[p].of].made = submission[charge[p].of].made
      BY <1>3, <3>1
    <3> QED
      BY <1>1, <2>2, <3>1, <3>2, TablesAre DEF RowsInv
  <2> QED
    BY <1>3, <2>1, <2>2 DEF RowsInv
<1>6. DOMAIN members' \subseteq Members /\ \A d \in DOMAIN members' : members'[d] \subseteq Units
  BY <1>2, TablesAre
<1>7. SubmissionsOf(c) \subseteq Submissions
  BY TablesAre DEF SubmissionsOf, There
<1>8. Unwritten(SubmissionsOf(c), {})
  BY <1>1, <1>3, TablesAre DEF Unwritten, RowsInv
<1> QED
  BY <1>1, <1>4, <1>5, <1>6, <1>7, <1>8, TablesGoOn, TablesAre

LEMMA FormsMove ==
    ASSUME ReportsInv, NEW f \in Forms, FormMade(f) \/ FormGone(f)
    PROVE  ReportsInv'
<1>1. /\ forms' \subseteq Forms /\ submission' = submission /\ charge' = charge /\ members' = members
      /\ parent' = parent /\ moment' = moment
  BY TablesAre DEF FormMade, FormGone
<1>2. Writes({}, {}, FALSE)
  BY DEF FormMade, FormGone
<1>3. RowsInv'
  BY <1>1, TablesAre DEF RowsInv
<1>4. Unwritten({}, {})
  BY <1>1, TablesAre DEF Unwritten
<1> QED
  BY <1>1, <1>2, <1>3, <1>4, TablesGoOn, TablesAre

LEMMA JoinedKeeps ==
    ASSUME ReportsInv, NEW c \in Members, NEW groups \in SUBSET Units, Joined(c, groups)
    PROVE  ReportsInv'
<1>1. /\ members' = [members EXCEPT ![c] = groups] /\ Writes({}, {}, FALSE)
      /\ forms' = forms /\ submission' = submission /\ charge' = charge /\ parent' = parent /\ moment' = moment
  BY DEF Joined
<1>2. DOMAIN members' = DOMAIN members /\ \A d \in DOMAIN members' : members'[d] \subseteq Units
  BY <1>1, TablesAre
<1>3. RowsInv'
  BY <1>1, <1>2, TablesAre DEF RowsInv
<1>4. Unwritten({}, {})
  BY <1>1, TablesAre DEF Unwritten
<1> QED
  BY <1>1, <1>2, <1>3, <1>4, TablesGoOn, TablesAre

LEMMA GroupMovedKeeps ==
    ASSUME ReportsInv, NEW g \in Units, NEW h \in Units \cup {Nobody}, GroupMoved(g, h)
    PROVE  ReportsInv'
<1>1. /\ parent' \in [Units -> Units \cup {Nobody}] /\ Writes({}, {}, TRUE)
      /\ forms' = forms /\ submission' = submission /\ charge' = charge /\ members' = members /\ moment' = moment
  BY TablesAre DEF GroupMoved
<1>2. RowsInv'
  BY <1>1, TablesAre DEF RowsInv
<1>3. Unwritten({}, {})
  BY <1>1, TablesAre DEF Unwritten
<1> QED
  BY <1>1, <1>2, <1>3, TablesGoOn, TablesAre

LEMMA ReportsRest ==
    ASSUME ReportsInv, UNCHANGED reportVars
    PROVE  ReportsInv'
<1>1. report' = report /\ UNCHANGED tables
  BY DEF reportVars, tables
<1>2. ReportsTypeOK'
  BY <1>1 DEF ReportsInv, ReportsTypeOK, tables
<1>3. RowsInv'
  BY <1>1 DEF ReportsInv, RowsInv, tables
<1>4. \A r \in Readers : \A q \in Reader : report'[r] = q => Reads(q)'
  BY <1>1, ReadsStay DEF ReportsInv
<1> QED
  BY <1>2, <1>3, <1>4 DEF ReportsInv

LEMMA ReportsStay ==
    ASSUME ReportsInv, ReportsNext \/ ReadersDie \/ UNCHANGED reportVars
    PROVE  ReportsInv'
<1>1. ASSUME NEW r \in Readers, ReportStep(r) PROVE ReportsInv'
  <2>1. ASSUME NEW kind \in DOMAIN Queries, NEW form \in Forms \cup {Nobody}, NEW from \in {0, moment},
               NEW end \in {"none", "now", "later"}, AskReport(r, kind, form, from, end)
        PROVE  ReportsInv'
    BY <2>1, AskReportKeeps
  <2>2. ASSUME NEW g \in Units, NextRoot(r, g) PROVE ReportsInv'
    BY <2>2, NextRootKeeps
  <2>3. ASSUME NEW S \in SUBSET Units, NEW below \in Orders(S), Descend(r, below) PROVE ReportsInv'
    BY <2>3, DescendKeeps
  <2>4. CASE Query(r) \/ WalkEnds(r) \/ Respond(r)
    BY <2>4, QueryKeeps, WalkEndsKeeps, RespondKeeps
  <2> QED
    BY <1>1, <2>1, <2>2, <2>3, <2>4 DEF ReportStep
<1>2. CASE TablesMove
  <2>1. ASSUME NEW s \in Submissions, NEW f \in Forms, NEW c \in Members \cup {Nobody},
               NEW at \in Moments, Submitted(s, f, c, at)
        PROVE  ReportsInv'
    BY <2>1, SubmittedKeeps
  <2>2. ASSUME NEW s \in Submissions, NEW p \in Charges, NEW at \in Moments, Billed(p, s, at) PROVE ReportsInv'
    BY <2>2, BilledKeeps
  <2>3. ASSUME NEW s \in Submissions, Purged(s) PROVE ReportsInv'
    BY <2>3, PurgedKeeps
  <2>4. ASSUME NEW p \in Charges, NEW status \in Statuses, Settled(p, status) PROVE ReportsInv'
    BY <2>4, SettledKeeps
  <2>5. ASSUME NEW c \in Members, ContactGone(c) PROVE ReportsInv'
    BY <2>5, ContactGoneKeeps
  <2>6. ASSUME NEW c \in Members, NEW groups \in SUBSET Units, Joined(c, groups) PROVE ReportsInv'
    BY <2>6, JoinedKeeps
  <2>7. ASSUME NEW f \in Forms, FormMade(f) \/ FormGone(f) PROVE ReportsInv'
    BY <2>7, FormsMove
  <2>8. ASSUME NEW g \in Units, NEW h \in Units \cup {Nobody}, GroupMoved(g, h) PROVE ReportsInv'
    BY <2>8, GroupMovedKeeps
  <2> QED
    BY <1>2, <2>1, <2>2, <2>3, <2>4, <2>5, <2>6, <2>7, <2>8 DEF TablesMove
<1>3. CASE ReadersDie
  BY <1>3, ReadersDieKeeps
<1>4. CASE UNCHANGED reportVars
  BY <1>4, ReportsRest
<1> QED
  BY <1>1, <1>2, <1>3, <1>4 DEF ReportsNext

LEMMA ReportsInvHolds == ReportsInv => DaysAreOfTheBreakdown /\ PaymentsHaveSubmissions /\ WalkVisitsOnce
<1> SUFFICES ASSUME ReportsInv PROVE DaysAreOfTheBreakdown /\ PaymentsHaveSubmissions /\ WalkVisitsOnce
  OBVIOUS
<1>1. ASSUME NEW kind \in {"analytics", "form"}, NEW q \in Finished(kind)
      PROVE  q \in Reader /\ RowsRead(q) /\ q.kind = kind /\ Len(q.got) = 3
  <2>1. PICK r \in Readers : q = report[r] /\ report[r].kind = kind /\ ~AtWork(r)
    BY <1>1 DEF Finished
  <2>2. q \in Reader /\ Reads(q) /\ q.kind \in DOMAIN Queries /\ Len(q.got) \in Nat
    BY <2>1, AReport
  <2>3. q.kind = kind /\ kind # "none" /\ Len(Queries[kind]) = 3
    BY <2>1, QueriesAre
  <2>4. Len(q.got) <= Len(Queries[q.kind]) /\ ~(Len(q.got) < Len(Queries[q.kind]))
    BY <2>1, <2>2, <2>3, Zenon DEF Reads, Timely, AtWork
  <2>5. PICK n \in Nat : n = Len(q.got)
    BY <2>2
  <2>6. n <= 3 /\ ~(n < 3)
    BY <2>3, <2>4, <2>5, Zenon
  <2>7. n = 3
    BY <2>6
  <2> QED
    BY <2>2, <2>3, <2>5, <2>7, Zenon DEF Reads
<1>2. DaysAreOfTheBreakdown
  <2>1. ASSUME NEW q \in Finished("analytics"), NEW status \in Statuses
        PROVE  Paid(q.got[2], status) \ q.since.charges = Paid(q.got[3], status) \ q.since.charges
    <3>1. PaymentsRead(q, q.got[2]) /\ PaymentsRead(q, q.got[3])
      BY <1>1 DEF RowsRead
    <3>2. ASSUME NEW a, NEW b, PaymentsRead(q, a), PaymentsRead(q, b), NEW p \in Paid(a, status) \ q.since.charges
          PROVE  p \in Paid(b, status)
      <4>1. PICK x \in a : x.id = p /\ x.status = status
        BY <3>2 DEF Paid
      <4>2. p \in PaidRows(q) /\ charge[p].status = status
        BY <3>2, <4>1 DEF PaymentsRead
      <4>3. PICK y \in b : y.id = p
        BY <3>2, <4>2 DEF PaymentsRead
      <4>4. y.status = status
        BY <3>2, <4>2, <4>3 DEF PaymentsRead
      <4> QED
        BY <4>3, <4>4 DEF Paid
    <3> QED
      BY <3>1, <3>2
  <2> QED
    BY <2>1 DEF DaysAreOfTheBreakdown
<1>3. PaymentsHaveSubmissions
  <2>1. ASSUME NEW q \in Finished("form"), q.from = 0, NEW x \in q.got[3], x.id \notin q.since.charges, x.of \notin q.since.rows
        PROVE  \E s \in q.got[2] : s.id = x.of /\ s.contact = x.contact
    <3>1. q \in Reader /\ SubmissionsRead(q, q.got[2]) /\ PaymentsRead(q, q.got[3])
      BY <1>1 DEF RowsRead
    <3>2. PICK p \in PaidRows(q) : x.id = p /\ x.of = charge[p].of /\ x.contact = submission[x.of].contact
      BY <2>1, <3>1 DEF PaymentsRead
    <3>3. /\ p \in Charges /\ charge[p] # <<>> /\ charge[p].made <= q.to
          /\ OfForm(q, submission[charge[p].of].form)
      BY <3>2 DEF PaidRows, There, InRange, ReportsInv, ReportsTypeOK
    <3>4. PICK t \in Submissions : t = charge[p].of
      BY <3>3, TablesAre
    <3>5. submission[t] # <<>> /\ submission[t].made <= charge[p].made /\ submission[t].made \in Nat /\ charge[p].made \in Nat
      BY <3>3, <3>4, TablesAre DEF RowsInv
    <3>6. q.to \in Nat
      BY <3>1, ReadersHave
    <3>7. InRange(q, submission[t].made)
      BY <2>1, <3>3, <3>5, <3>6 DEF InRange
    <3>8. t \in SentRows(q)
      BY <3>3, <3>4, <3>5, <3>7, TablesAre DEF SentRows, There
    <3> QED
      BY <2>1, <3>1, <3>2, <3>4, <3>8 DEF SubmissionsRead
  <2> QED
    BY <2>1 DEF PaymentsHaveSubmissions
<1>4. WalkVisitsOnce
  <2>1. ASSUME NEW r \in Readers, NEW g \in Units, report[r].visits[g] = 2
        PROVE  OnCircle \/ report[r].since.moved
    <3>1. Walked(report[r], parent, OnCircle)
      BY AReport DEF Reads
    <3> QED
      BY <2>1, <3>1 DEF Walked
  <2> QED
    BY <2>1 DEF WalkVisitsOnce
<1> QED
  BY <1>2, <1>3, <1>4

-----------------------------------------------------------------------------
(* What may come in. *)

LEMMA ImportsBudget ==
    ImportsNext => Comes("templates") \/ Comes("imports") \/ Comes("chance") \/ UNCHANGED left
BY ZenonT(60) DEF AskCommit, AskCreate, AskDelete, AskRows, AskUpdate, AskValidate, AskValidateByDefault,
    CheckExisting, CheckRows, ClearOrganization, ClerkBegins, ClerkFails, ClerkTurns, CompleteJob,
    CompleteThrows, ContactMoves, CountTemplates, DeleteTemplate, FailJob, ImportStep, ImportsNext,
    InsertContacts, Moves, Opens, PointOrganization, RereadTemplate, ResolveTemplate,
    SaveApplication, SaveJob, SaveRefused, SaveTemplate, TemplateStep, UnsetOthers

LEMMA MarketBudget ==
    MarketNext => Comes("plans") \/ Comes("books") \/ Comes("chance") \/ UNCHANGED left
BY Zenon DEF AgentTurns, AskAssign, AskAudit, AskFlags, AskPlan, AskPlans, AskSession, AskSetup,
    AskTenant, Asks, AuditStep, AuditThrows, CompleteAudit, CreatePlan, CreateSession, DeleteItems,
    Ends, EntryMoves, InsertItems, ItemsThrow, KeepItems, MarketNext, OpenAccounts, PlanStep,
    ReadAccounts, SaveExceptions, SavePlan, SaveSession, SaveTenant, Scan, SetupStep,
    UpdateException, UpdateFlags

LEMMA BroadcastsBudget ==
    BroadcastsNext => Comes("broadcasts") \/ Comes("chance") \/ UNCHANGED left
BY Zenon DEF AdminMoves, AskBroadcast, BroadcastStep, BroadcastThrows, BroadcastsNext,
    FinishBroadcast, InsertChunk, OrganizationMoves, RecordBroadcast, ResolveRecipients, RowsAreIn,
    Send, SenderTurns, SendsAreOver

LEMMA TrailBudget ==
    TrailNext => Comes("trail") \/ Comes("chance") \/ UNCHANGED left
BY Zenon DEF Ask, AskAct, AskCall, AskCompliance, AskList, AskPolicy, AskPurge, CallStep,
    CallThrows, ColumnFails, ColumnIsKnown, DayPasses, Handle, HasColumn, InsertFails, InsertLog,
    List, LogAction, PurgeContacts, PurgeLogs, PurgeSubmissions, SaveLimits, TrailNext

LEMMA NoticesBudget ==
    NoticesNext => Comes("notices") \/ Comes("chance") \/ UNCHANGED left
BY Zenon DEF AllSent, AskInternal, AskMark, AskNotice, AskReminder, AskStatus, ContactComesOrGoes,
    FindTargets, NoticeStep, NoticesNext, RecordUsage, SaveMark, SaveNotice, SendFails, SendOne,
    UsageIsLost, WriterBegins, WriterTurns

LEMMA ReportsBudget ==
    ReportsNext => Comes("reports") \/ Comes("chance") \/ UNCHANGED left
BY Zenon DEF AskReport, Billed, ContactGone, Descend, FormGone, FormMade, GroupMoved, Joined,
    NextRoot, Purged, Query, ReportStep, ReportsNext, Respond, Settled, Submitted, TablesMove,
    WalkEnds, Writes

LEMMA EnrolmentBudget ==
    EnrolmentNext => Comes("invites") \/ Comes("chance") \/ UNCHANGED left
BY Zenon DEF AskAccept, AskInvite, CheckAccept, CloseFails, CloseInvitation, DropInvitation,
    EnrolmentNext, GuestComes, GuestLeaves, GuestTurns, InvitationExpires, InviteStep, Join,
    LookForInvitation, Register, WriteInvitation

LEMMA ScansBudget ==
    ScansNext => Comes("scans") \/ Comes("chance") \/ UNCHANGED left
BY Zenon DEF AskView, BearerGone, CardMoves, ReadContact, ReadPayments, RecordScan, Reissue,
    ScansNext, Switch, ViewFails, ViewStep

LEMMA BrowserBudget ==
    BrowserNext => Comes("browser") \/ Comes("chance") \/ UNCHANGED left
BY Zenon DEF BrowserNext, HearCall, HearLogin, HearLogout, HearMe, Hears, NoAnswer, NotRefreshed,
    OtherTab, Refreshed, RefusedAgain, RefusedOnce, SendCall, Visit
LEMMA BrowserInvHolds == BrowserInv => BrowserHolds
BY DEF BrowserInv, BrowserHolds, OneAccount, OneSession

-----------------------------------------------------------------------------
(* The back office: each step is one of a part, or the process dies. *)

LEMMA StepsArePartsSteps ==
    ASSUME [Next]_vars
    PROVE  /\ ImportsNext \/ ClerksDie \/ UNCHANGED importVars
           /\ MarketNext \/ AgentsDie \/ UNCHANGED marketVars
           /\ BroadcastsNext \/ SendersDie \/ UNCHANGED broadcastVars
           /\ TrailNext \/ CallsDie \/ UNCHANGED trailVars
           /\ NoticesNext \/ WritersDie \/ UNCHANGED noticeVars
           /\ ReportsNext \/ ReadersDie \/ UNCHANGED reportVars
           /\ EnrolmentNext \/ GuestsDie \/ UNCHANGED enrolmentVars
           /\ ScansNext \/ ViewsDie \/ UNCHANGED scanVars
           /\ BrowserNext \/ UNCHANGED browserVars
<1>1. CASE Next
  BY <1>1, Zenon DEF Next, Crash
<1>2. CASE UNCHANGED vars
  BY <1>2, Zenon DEF vars
<1> QED
  BY <1>1, <1>2

\* The books: a plan has the items of the list saved last, unless two overlapped or one was
\* cut off; an account owes what its plan asked for, and a completed session keeps its date,
\* unless an old copy was saved; and a reconciliation says how many exceptions it has.
THEOREM BooksCorrect == Spec => []BooksHold
<1>1. Init => MarketInv
  BY MarketStarts DEF Init
<1>2. MarketInv /\ [Next]_vars => MarketInv'
  BY StepsArePartsSteps, MarketStays
<1> QED
  BY <1>1, <1>2, MarketInvHolds, PTL DEF Spec

\* The trail: an answer that must be logged has its log unless the database or the process
\* failed it, no log waits for an answer that no one asked for, a compliance request has
\* left its own log exactly if it succeeded, and a purge removes nothing that the limits
\* keep unless they were saved since it began.
THEOREM TrailCorrect == Spec => []TrailHolds
<1>1. Init => TrailInv
  BY TrailStarts DEF Init
<1>2. TrailInv /\ [Next]_vars => TrailInv'
  BY StepsArePartsSteps, TrailStays
<1> QED
  BY <1>1, <1>2, TrailInvHolds, PTL DEF Spec

\* Broadcasts: one that is over has a row for each mail that went out and the numbers of its
\* rows; one is queued as long as a request is at it, or for good if that was cut off; and
\* none reaches an address of an organization twice, or an organization not asked for.
THEOREM BroadcastsCorrect == Spec => []BroadcastsHold
<1>1. Init => BroadcastsInv
  BY BroadcastsStart DEF Init
<1>2. BroadcastsInv /\ [Next]_vars => BroadcastsInv'
  BY StepsArePartsSteps, BroadcastsStay
<1> QED
  BY <1>1, <1>2, BroadcastsInvHolds, PTL DEF Spec

\* Reminders and notices: who was told that a notice is marked as read is on its list,
\* unless two marked it at once; every mail that went out is charged once, or its request
\* is at it, or died; and a reminder's notice names only those its mails went to.
THEOREM NoticesCorrect == Spec => []NoticesHold
<1>1. Init => NoticesInv
  BY NoticesStart DEF Init
<1>2. NoticesInv /\ [Next]_vars => NoticesInv'
  BY StepsArePartsSteps, NoticesStay
<1> QED
  BY <1>1, <1>2, NoticesInvHolds, PTL DEF Spec

\* The invitation of staff: an address whose accounts all came by invitation has one, unless
\* two acceptances overlapped; an accepted invitation has its account, and an account leaves
\* no invitation open, unless its acceptance was cut off or the invitation was renewed.
THEOREM EnrolmentCorrect == Spec => []EnrolmentHolds
<1>1. Init => EnrolmentInv
  BY EnrolmentStarts DEF Init
<1>2. EnrolmentInv /\ [Next]_vars => EnrolmentInv'
  BY StepsArePartsSteps, EnrolmentStays
<1> QED
  BY <1>1, <1>2, EnrolmentInvHolds, PTL DEF Spec

\* The QR codes of contacts: every view that was answered left a scan as long as the contact
\* is there, and was answered by the code in force unless that moved meanwhile.
THEOREM ScansCorrect == Spec => []ScansHold
<1>1. Init => ScansInv
  BY ScansStart DEF Init
<1>2. ScansInv /\ [Next]_vars => ScansInv'
  BY StepsArePartsSteps, ScansStay
<1> QED
  BY <1>1, <1>2, ScansInvHolds, PTL DEF Spec

\* The browser: calls wait exactly while a refresh is in flight, and the tab's token and user
\* are those of the cookies, unless answers of two sessions crossed or another tab changed them.
THEOREM BrowserCorrect == Spec => []BrowserHolds
<1>1. Init => BrowserInv
  BY BrowserStarts DEF Init
<1>2. BrowserInv /\ [Next]_vars => BrowserInv'
  BY StepsArePartsSteps, BrowserStays
<1> QED
  BY <1>1, <1>2, BrowserInvHolds, PTL DEF Spec

\* Imports: the organization and the mark name the same template unless operations on templates
\* overlapped or failed midway; a validated job has its template's snapshot unless that was
\* written meanwhile; and a job is completed exactly when its rows are in, once, unless two
\* requests committed it or one was cut off.
THEOREM ImportsCorrect == Spec => []ImportsHold
<1>1. Init => ImportsInv
  BY ImportsStart DEF Init
<1>2. ImportsInv /\ [Next]_vars => ImportsInv'
  BY StepsArePartsSteps, ImportsStay
<1> QED
  BY <1>1, <1>2, ImportsInvHolds, PTL DEF Spec

\* Reports: the days of the analytics and their breakdown are of the same payments with the same
\* status, but for those written between the two queries; a payment of a form's report is of a
\* submission it has read, unless one of the two was written meanwhile; and a walk comes to no
\* group twice, unless the groups go round in a circle or were moved meanwhile.
THEOREM ReportsCorrect == Spec => [](DaysAreOfTheBreakdown /\ PaymentsHaveSubmissions /\ WalkVisitsOnce)
<1>1. Init => ReportsInv
  BY ReportsStart DEF Init
<1>2. ReportsInv /\ [Next]_vars => ReportsInv'
  BY StepsArePartsSteps, ReportsStay
<1> QED
  BY <1>1, <1>2, ReportsInvHolds, PTL DEF Spec

\* What comes in was left.
LEMMA DeskStays ==
    ASSUME DeskTypeOK, [Next]_vars
    PROVE  DeskTypeOK'
<1>1. UNCHANGED left \/ \E kind \in Kinds : Comes(kind)
  <2>1. /\ "templates" \in Kinds /\ "imports" \in Kinds /\ "plans" \in Kinds /\ "books" \in Kinds /\ "broadcasts" \in Kinds
        /\ "trail" \in Kinds /\ "notices" \in Kinds /\ "reports" \in Kinds /\ "invites" \in Kinds /\ "scans" \in Kinds
        /\ "browser" \in Kinds /\ "chance" \in Kinds
    BY DEF Kinds
  <2>2. CASE ImportsNext
    BY <2>1, <2>2, ImportsBudget
  <2>3. CASE MarketNext
    BY <2>1, <2>3, MarketBudget
  <2>4. CASE BroadcastsNext
    BY <2>1, <2>4, BroadcastsBudget
  <2>5. CASE TrailNext
    BY <2>1, <2>5, TrailBudget
  <2>6. CASE NoticesNext
    BY <2>1, <2>6, NoticesBudget
  <2>7. CASE ReportsNext
    BY <2>1, <2>7, ReportsBudget
  <2>8. CASE EnrolmentNext
    BY <2>1, <2>8, EnrolmentBudget
  <2>9. CASE ScansNext
    BY <2>1, <2>9, ScansBudget
  <2>10. CASE BrowserNext
    BY <2>1, <2>10, BrowserBudget
  <2>11. CASE Crash
    BY <2>1, <2>11 DEF Crash
  <2>12. CASE UNCHANGED vars
    BY <2>12 DEF vars
  <2> QED
    BY <2>2, <2>3, <2>4, <2>5, <2>6, <2>7, <2>8, <2>9, <2>10, <2>11, <2>12, Zenon DEF Next
<1>2. ASSUME NEW kind \in Kinds, Comes(kind) PROVE DeskTypeOK'
  <2>1. left \in [Kinds -> Nat] /\ left[kind] > 0 /\ left' = [left EXCEPT ![kind] = @ - 1]
    BY <1>2 DEF Comes, May, DeskTypeOK
  <2>2. left[kind] - 1 \in Nat
    BY <2>1
  <2> QED
    BY <2>1, <2>2 DEF DeskTypeOK
<1> QED
  BY <1>1, <1>2 DEF DeskTypeOK

PartsInv == ImportsInv /\ MarketInv /\ BroadcastsInv /\ TrailInv /\ NoticesInv /\ ReportsInv /\ EnrolmentInv /\ ScansInv /\ BrowserInv

LEMMA PartsInvTypes == DeskTypeOK /\ PartsInv => TypeOK
BY Zenon DEF PartsInv, TypeOK, ImportsInv, MarketInv, BroadcastsInv, TrailInv, NoticesInv, ReportsInv, EnrolmentInv,
    ScansInv, BrowserInv

\* Every variable of the back office has its type, and what is left of the budget is never negative.
THEOREM TypeCorrect == Spec => []TypeOK
<1>1. Init => DeskTypeOK /\ PartsInv
  <2>1. DeskInit => DeskTypeOK
    BY DeskAssumption DEF DeskInit, DeskTypeOK
  <2> QED
    BY <2>1, ImportsStart, MarketStarts, BroadcastsStart, TrailStarts, NoticesStart, ReportsStart, EnrolmentStarts,
       ScansStart, BrowserStarts, Zenon DEF Init, PartsInv
<1>2. DeskTypeOK /\ PartsInv /\ [Next]_vars => DeskTypeOK' /\ PartsInv'
  BY StepsArePartsSteps, DeskStays, ImportsStay, MarketStays, BroadcastsStay, TrailStays, NoticesStay, ReportsStay,
     EnrolmentStays, ScansStay, BrowserStays, Zenon DEF PartsInv
<1> QED
  BY <1>1, <1>2, PartsInvTypes, PTL DEF Spec
=============================================================================
