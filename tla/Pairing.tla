------------------------------- MODULE Pairing --------------------------------
(***************************************************************************)
(* The one-time credentials with which a headset is bound to the server    *)
(* (core/pairing.py).  The dashboard creates a pairing, which answers to   *)
(* its token and to a short code until it is exchanged, revoked or         *)
(* expired; the exchange URL it was printed with is chosen by the service. *)
(* Every method runs in one piece.  A ticket stands for a pairing_id with  *)
(* its token, and is new again once its session is forgotten.  What a      *)
(* request must look like, the certificate pin, the expected remote        *)
(* address and the rate limit only refuse calls and are left out.          *)
(***************************************************************************)
EXTENDS Naturals, FiniteSets, Functions

CONSTANTS Tickets, Codes,
          Owners,          \* users of the dashboard
          Panel,           \* the owner as which the series panel calls, whoever uses it
          MaxActive,       \* max_active_sessions
          MaxOwner,        \* max_owner_sessions
          Urls             \* the URLs a credential may be printed with

NoUrl == 0

ASSUME PairingAssumption ==
    /\ IsFiniteSet(Tickets)
    /\ MaxActive \in Nat \ {0} /\ MaxOwner \in Nat \ {0}
    /\ NoUrl \notin Urls
    /\ Panel \notin Owners

VARIABLES exchangeUrl,   \* manager.exchange_url
          pairing,       \* _sessions: what is known of a ticket
          aged,          \* waiting tickets past expires_at
          codeIndex      \* _code_index: the ticket a short code answers to

pairingVars == <<exchangeUrl, pairing, aged, codeIndex>>

Ended == {"consumed", "revoked", "expired"}

Unknown == [state |-> "unknown"]
Session(o, c, u) == [state |-> "waiting", owner |-> o, code |-> c, url |-> u]

WaitingIn(p) == {t \in Tickets : p[t].state = "waiting"}
Waiting == WaitingIn(pairing)

NoSessions(u) ==
    /\ exchangeUrl = u
    /\ pairing = [t \in Tickets |-> Unknown] /\ aged = {}
    /\ codeIndex = << >>

-----------------------------------------------------------------------------
(* _deactivate_locked for a set of sessions: the code is taken out of the
   index, whoever it answers to.  (The URL is not looked at again.) *)
Deactivated(p, gone, s) ==
    [t \in Tickets |-> IF t \in gone THEN [p[t] EXCEPT !.state = s, !.url = NoUrl] ELSE p[t]]

Without(codes, p, gone) ==
    Restrict(codes, {c \in DOMAIN codes : \A t \in gone : p[t].code # c})

Deactivate(gone, s) ==
    /\ pairing' = Deactivated(pairing, gone, s)
    /\ codeIndex' = Without(codeIndex, pairing, gone)
    /\ aged' = aged \ gone

(* _expire_locked, with which every call on behalf of a person begins: sessions
   past their time expire now, and of those that ended some time ago "old" are
   forgotten. *)
Expired == Waiting \cap aged
Over    == {t \in Tickets : pairing[t].state \in Ended}

Swept(old) == Deactivated([t \in Tickets |-> IF t \in old THEN Unknown ELSE pairing[t]],
                          Expired, "expired")
SweptCodes == Without(codeIndex, pairing, Expired)

(* The sweep, then the end of the sessions in "gone". *)
SweepAnd(old, gone, s) ==
    /\ pairing' = Deactivated(Swept(old), gone, s)
    /\ codeIndex' = Without(SweptCodes, pairing, gone)
    /\ aged' = {}

-----------------------------------------------------------------------------
(* Seeded fault: the credentials that wait stay as they are. *)
ConfigureKeeping(u) == exchangeUrl' = u /\ UNCHANGED <<pairing, aged, codeIndex>>

(* configure_exchange_url: credentials with another URL are void. *)
Configure(u) ==
    /\ exchangeUrl' = u
    /\ IF u # exchangeUrl THEN Deactivate(Waiting, "revoked") ELSE UNCHANGED <<pairing, aged, codeIndex>>

(* create; the handler revokes the pairing again when its QR code cannot be
   drawn. *)
Create(o, t, old) ==
    /\ exchangeUrl # NoUrl
    /\ pairing[t] = Unknown
    /\ LET active == WaitingIn(Swept(old)) IN
       /\ Cardinality(active) < MaxActive
       /\ Cardinality({x \in active : pairing[x].owner = o}) < MaxOwner
    /\ \E c \in Codes \ DOMAIN SweptCodes :
          LET created == [Swept(old) EXCEPT ![t] = Session(o, c, exchangeUrl)] IN
          \/ /\ pairing' = created
             /\ codeIndex' = [x \in DOMAIN SweptCodes \cup {c} |-> IF x = c THEN t ELSE SweptCodes[x]]
          \/ /\ pairing' = Deactivated(created, {t}, "revoked")
             /\ codeIndex' = SweptCodes
    /\ aged' = {}
    /\ UNCHANGED exchangeUrl

(* status, and the calls that find nothing after the sweep. *)
Look(old) == SweepAnd(old, {}, "expired") /\ UNCHANGED exchangeUrl

Revoke(o, t, old) ==
    /\ t \notin old /\ pairing[t].state # "unknown" /\ pairing[t].owner = o
    /\ SweepAnd(old, {t} \cap WaitingIn(Swept(old)), "revoked")
    /\ UNCHANGED exchangeUrl

(* Seeded fault: the sessions past their time are not looked for. *)
ExchangeUnswept(t, old) ==
    /\ t \in Waiting
    /\ Deactivate({t}, "consumed")
    /\ UNCHANGED exchangeUrl

(* exchange with a ticket that was found by its token or by a code. *)
Exchange(t, old) ==
    /\ t \in WaitingIn(Swept(old))
    /\ SweepAnd(old, {t}, "consumed")
    /\ UNCHANGED exchangeUrl

(* revoke_waiting *)
RevokeWaiting ==
    /\ Deactivate(Waiting, "revoked")
    /\ UNCHANGED exchangeUrl

(* close: everything is forgotten; the URL stays. *)
ClosePairing ==
    /\ pairing' = [t \in Tickets |-> Unknown] /\ aged' = {}
    /\ codeIndex' = << >>
    /\ UNCHANGED exchangeUrl

(* The lifetime of a credential is over. *)
Age(t) ==
    /\ t \in Waiting \ aged
    /\ aged' = aged \cup {t}
    /\ UNCHANGED <<exchangeUrl, pairing, codeIndex>>

Dashboard(old) ==
    \/ Look(old)
    \/ \E o \in Owners, t \in Tickets : Create(o, t, old) \/ Revoke(o, t, old)

(* The panel of the series may also revoke the credentials of everybody, without
   a sweep.  (Its status is a Look like the dashboard's.) *)
SeriesPanel(old) ==
    \/ \E t \in Tickets : Create(Panel, t, old) \/ Revoke(Panel, t, old)
    \/ old = {} /\ RevokeWaiting

(* A headset has the token, from a QR code, or types the short code. *)
Headset(old) ==
    \E t \in Tickets \cup Range(SweptCodes) : Exchange(t, old)

PairingCalls ==
    \/ \E t \in Tickets : Age(t)
    \/ \E old \in SUBSET Over : Dashboard(old) \/ SeriesPanel(old) \/ Headset(old)

-----------------------------------------------------------------------------
PairingTypeOK ==
    /\ exchangeUrl \in Urls \cup {NoUrl}
    /\ \A t \in Tickets :
          \/ pairing[t] = Unknown
          \/ pairing[t] \in [state : {"waiting"}, owner : Owners \cup {Panel}, code : Codes, url : Urls]
          \/ pairing[t] \in [state : Ended, owner : Owners \cup {Panel}, code : Codes, url : {NoUrl}]
    /\ aged \subseteq Waiting
    /\ DOMAIN codeIndex \subseteq Codes /\ \A c \in DOMAIN codeIndex : codeIndex[c] \in Tickets

(* A code answers for the credential that is waiting under it and for no other,
   although codes are drawn again and sessions outlive their codes. *)
CodesAgree ==
    /\ \A t \in Waiting : pairing[t].code \in DOMAIN codeIndex /\ codeIndex[pairing[t].code] = t
    /\ \A c \in DOMAIN codeIndex : pairing[codeIndex[c]].state = "waiting"

(* A credential that waits can be exchanged: by its code, and at the URL it was
   printed with, however the listener, the port and the public address were
   switched since. *)
CredentialsAreCurrent == CodesAgree /\ \A t \in Waiting : pairing[t].url = exchangeUrl

(* The end of a credential is final, and it is never exchanged past its time. *)
EndIsFinal ==
    [][\A t \in Tickets :
          /\ pairing[t].state \in Ended => pairing'[t].state \in {pairing[t].state, "unknown"}
          /\ pairing[t].state = "waiting" /\ t \in aged => pairing'[t].state # "consumed"]_pairingVars
==============================================================================
