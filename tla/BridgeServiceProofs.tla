------------------------- MODULE BridgeServiceProofs -------------------------
(***************************************************************************)
(* The safety properties of BridgeService, and of Pairing below it, for    *)
(* any number of credentials, codes, ports and clients.                    *)
(***************************************************************************)
EXTENDS BridgeService, TLAPS

-----------------------------------------------------------------------------
(* The pairing manager.  What must hold of the sessions p, the waiting tickets
   past their time a, and the code index, when the URL is u. *)

Ticket(s) ==
    \/ s = Unknown
    \/ s \in [state : {"waiting"}, owner : Owners \cup {Panel}, code : Codes, url : Urls]
    \/ s \in [state : Ended, owner : Owners \cup {Panel}, code : Codes, url : {NoUrl}]

AllTickets(p) == \A t \in Tickets : Ticket(p[t])

Consistent(u, p, a, codes) ==
    /\ u \in Urls \cup {NoUrl}
    /\ AllTickets(p)
    /\ a \subseteq WaitingIn(p)
    /\ DOMAIN codes \subseteq Codes
    /\ \A c \in DOMAIN codes : codes[c] \in WaitingIn(p) /\ p[codes[c]].code = c
    /\ \A t \in WaitingIn(p) :
          p[t].url = u /\ p[t].code \in DOMAIN codes /\ codes[p[t].code] = t

PairingInv == Consistent(exchangeUrl, pairing, aged, codeIndex)

-----------------------------------------------------------------------------
(* The service. *)

(* What an operation that is turning the service on, that has turned it off, and
   that moves the port of a service that is on, is doing. *)
TurningOn  == {"enable start", "stop failed", "enable undo"}
TurningOff == {"disable close", "stop"}
Moving     == {"port close", "port start", "undo stop", "undo start", "port undo"}

ControlSteps ==
    {"idle", "enable save", "disable save", "port save", "url save", "port stop", "address save"}
        \cup TurningOn \cup TurningOff \cup Moving
StartupSteps  == {"begin", "start", "stop unused", "stop disabled", "done"}
ShutdownSteps == {"up", "close", "sessions", "down"}

Files     == [enabled : BOOLEAN, port : Ports]
Listeners == [ready : BOOLEAN, closed : BOOLEAN, port : Ports, url : Ports \cup {NoUrl}]

DataInv ==
    /\ setup \in Setups
    /\ config \in Files /\ file \in Files /\ adrift \subseteq {"enabled", "port"}
    /\ enabled \in BOOLEAN /\ accepting \in BOOLEAN /\ terminated \in BOOLEAN
    /\ sessions \subseteq Clients /\ starting \subseteq Clients /\ closing \subseteq Clients
    /\ listener \in Listeners /\ (listener.ready => setup.listener)
    /\ lock \in Tasks \cup {"none"}

StepInv ==
    /\ DOMAIN pc = Tasks
    /\ pc["startup"] \in StartupSteps /\ pc["control"] \in ControlSteps
    /\ pc["shutdown"] \in ShutdownSteps
    /\ wanted \in Ports \cup {NoUrl}
    /\ undo \in [port : Ports \cup {NoUrl}, ready : BOOLEAN]
    /\ pc["control"] \in {"port save", "port stop"} \cup Moving => wanted \in Ports
    /\ pc["control"] \in {"port stop"} \cup Moving => undo.port \in Ports

(* Whoever holds the listener's lock is at work on the listener, which a stop has
   already taken down. *)
LockIsHeld ==
    lock # "none" => pc[lock] \in Stops \cup Starts /\ (pc[lock] \in Stops => ~listener.ready)

(* Nothing overlaps the start of the plugin but clients. *)
StartIsFirst ==
    pc["startup"] # "done" =>
        /\ pc["control"] = "idle" /\ pc["shutdown"] = "up"
        /\ exchangeUrl \notin Ports /\ ~listener.ready
        /\ pc["startup"] \in {"start", "stop unused"} => enabled
        /\ pc["startup"] = "stop disabled" => ~enabled
        /\ pc["startup"] # "begin" => ~accepting
        /\ ~enabled => starting = {}

(* The switch is thrown before or after an operation works the listener. *)
SwitchIsThrown ==
    /\ pc["control"] \in {"disable save"} \cup Moving => enabled
    /\ pc["control"] \in {"enable save"} \cup TurningOn \cup TurningOff => ~enabled

(* A service that is off has neither listener nor sessions, but what the operation
   that turned it off has not ended yet. *)
OffIsQuiet ==
    ~enabled =>
        /\ listener.ready => pc["control"] = "disable close"
                          \/ (pc["control"] = "stop" /\ lock # "control")
        /\ sessions \subseteq IF pc["control"] = "disable close" THEN closing ELSE {}

GateInv == GateIsClosed /\ (terminated => ~accepting)

(* The listener answers at the URL that credentials carry, but for an operation that
   is working it and will tell the pairing manager in the end. *)
UrlIsServed ==
    ( /\ pc["shutdown"] = "up" /\ exchangeUrl \in Ports
      /\ pc["control"] \notin {"stop", "port stop"} \cup (Moving \ {"port close"}) )
    => listener.ready /\ listener.url = exchangeUrl

(* The settings of the file, and those in memory, at every step of an operation. *)
Agrees(c) ==
    /\ "enabled" \notin adrift => (c.enabled <=> enabled \/ pc["control"] \in TurningOn)
    /\ "port" \notin adrift /\ pc["control"] \notin {"port close", "port stop", "undo start", "port undo"}
          => c.port = listener.port
    /\ pc["control"] \in {"port close", "port stop"} => c.port = wanted

SettingsAgree ==
    /\ Agrees(file) /\ Agrees(config)
    /\ pc["control"] \in {"undo start", "port undo"} => listener.port = undo.port

ServiceInv ==
    /\ DataInv /\ StepInv /\ LockIsHeld /\ StartIsFirst /\ SwitchIsThrown /\ OffIsQuiet /\ GateInv
    /\ UrlIsServed /\ SettingsAgree

IInv == PairingInv /\ ServiceInv

-----------------------------------------------------------------------------
(* The end of a ticket changes its state and takes its URL. *)
EndOf(r, s) == [r EXCEPT !.state = s, !.url = NoUrl]

LEMMA EndedTicket ==
    ASSUME NEW r, Ticket(r), r.state = "waiting", NEW s \in Ended
    PROVE  Ticket(EndOf(r, s)) /\ EndOf(r, s).state = s /\ EndOf(r, s).code = r.code
<1>1. r \in [state : {"waiting"}, owner : Owners \cup {Panel}, code : Codes, url : Urls]
  BY DEF Ticket, Unknown, Ended
<1>2. EndOf(r, s) \in [state : {s}, owner : Owners \cup {Panel}, code : Codes, url : {NoUrl}]
  BY <1>1 DEF EndOf
<1>3. EndOf(r, s).code = r.code
  BY <1>1 DEF EndOf
<1> QED
  BY <1>2, <1>3 DEF Ticket

(* A waiting ticket is a credential, and not unknown. *)
LEMMA WaitingTicket ==
    ASSUME NEW r, Ticket(r)
    PROVE  /\ r.state = "waiting" => r.owner \in Owners \cup {Panel} /\ r.code \in Codes /\ r.url \in Urls
           /\ r.state \in Ended \cup {"waiting", "unknown"}
           /\ "waiting" \notin Ended /\ "unknown" \notin Ended
BY DEF Ticket, Unknown, Ended

(* _deactivate_locked keeps the sessions and the code index together. *)
LEMMA DeactivatedFacts ==
    ASSUME NEW p, AllTickets(p), NEW gone \in SUBSET WaitingIn(p), NEW s \in Ended
    PROVE  /\ WaitingIn(Deactivated(p, gone, s)) = WaitingIn(p) \ gone
           /\ AllTickets(Deactivated(p, gone, s))
           /\ \A t \in Tickets \ gone : Deactivated(p, gone, s)[t] = p[t]
           /\ \A t \in gone : Deactivated(p, gone, s)[t].state = s
<1> DEFINE q == Deactivated(p, gone, s)
<1>1. \A t \in Tickets \ gone : q[t] = p[t]
  BY DEF Deactivated
<1>2. ASSUME NEW t \in gone PROVE Ticket(q[t]) /\ q[t].state = s
  <2>1. q[t] = EndOf(p[t], s)
    BY DEF Deactivated, WaitingIn, EndOf
  <2>2. Ticket(p[t]) /\ p[t].state = "waiting"
    BY DEF WaitingIn, AllTickets
  <2> QED
    BY <2>1, <2>2, EndedTicket
<1> HIDE DEF q
<1>3. WaitingIn(q) = WaitingIn(p) \ gone
  BY <1>1, <1>2 DEF WaitingIn, Ended
<1>4. AllTickets(q)
  BY <1>1, <1>2 DEF AllTickets
<1> QED
  BY <1>1, <1>2, <1>3, <1>4 DEF q

(* The sessions that are ended are in that end state. *)
LEMMA DeactivatedState ==
    ASSUME NEW p, AllTickets(p), NEW gone \in SUBSET WaitingIn(p), NEW s \in Ended, NEW t \in gone
    PROVE  Deactivated(p, gone, s)[t].state = s
<1>1. Deactivated(p, gone, s)[t] = EndOf(p[t], s)
  BY DEF Deactivated, WaitingIn, EndOf
<1>2. Ticket(p[t]) /\ p[t].state = "waiting"
  BY DEF WaitingIn, AllTickets
<1> QED
  BY <1>1, <1>2, EndedTicket

(* ... so a session that is ended leaves codes and sessions in agreement. *)
LEMMA ConsistentDeactivated ==
    ASSUME NEW u, NEW p, NEW a, NEW codes, Consistent(u, p, a, codes),
           NEW gone \in SUBSET WaitingIn(p), NEW s \in Ended
    PROVE  Consistent(u, Deactivated(p, gone, s), a \ gone, Without(codes, p, gone))
<1> DEFINE q == Deactivated(p, gone, s)
<1>0. AllTickets(p)
  BY DEF Consistent
<1>1. /\ WaitingIn(q) = WaitingIn(p) \ gone
      /\ AllTickets(q)
      /\ \A t \in Tickets \ gone : q[t] = p[t]
  BY <1>0, DeactivatedFacts
<1> HIDE DEF q
<1>2. /\ DOMAIN Without(codes, p, gone) = {c \in DOMAIN codes : \A t \in gone : p[t].code # c}
      /\ \A c \in DOMAIN Without(codes, p, gone) : Without(codes, p, gone)[c] = codes[c]
  BY DEF Without, Restrict
<1>3. \A c \in DOMAIN Without(codes, p, gone) :
         Without(codes, p, gone)[c] \in WaitingIn(q) /\ q[Without(codes, p, gone)[c]].code = c
  BY <1>1, <1>2 DEF Consistent, WaitingIn
<1>4. \A t \in WaitingIn(q) : p[t].code \in DOMAIN Without(codes, p, gone)
  BY <1>1, <1>2 DEF Consistent
<1>5. \A t \in WaitingIn(q) :
         q[t].url = u /\ q[t].code \in DOMAIN Without(codes, p, gone)
           /\ Without(codes, p, gone)[q[t].code] = t
  BY <1>1, <1>2, <1>4 DEF Consistent, WaitingIn
<1>6. Consistent(u, q, a \ gone, Without(codes, p, gone))
  BY <1>1, <1>2, <1>3, <1>5 DEF Consistent
<1> QED
  BY <1>6 DEF q

(* Sessions that ended may be forgotten. *)
LEMMA ConsistentForgotten ==
    ASSUME NEW u, NEW p, NEW a, NEW codes, Consistent(u, p, a, codes),
           NEW old \in SUBSET Tickets, \A t \in old : p[t].state \in Ended
    PROVE  LET q == [t \in Tickets |-> IF t \in old THEN Unknown ELSE p[t]]
           IN Consistent(u, q, a, codes) /\ WaitingIn(q) = WaitingIn(p)
<1> DEFINE q == [t \in Tickets |-> IF t \in old THEN Unknown ELSE p[t]]
<1>1. Unknown.state = "unknown" /\ Ticket(Unknown)
  BY DEF Unknown, Ticket
<1>2. \A t \in Tickets : q[t] = IF t \in old THEN Unknown ELSE p[t]
  OBVIOUS
<1> HIDE DEF q
<1>3. WaitingIn(q) = WaitingIn(p)
  BY <1>1, <1>2 DEF WaitingIn, Ended
<1>4. \A t \in WaitingIn(p) : q[t] = p[t]
  BY <1>2 DEF WaitingIn, Ended
<1>5. AllTickets(q)
  BY <1>1, <1>2 DEF Consistent, AllTickets
<1>6. Consistent(u, q, a, codes)
  BY <1>3, <1>4, <1>5 DEF Consistent
<1> QED
  BY <1>3, <1>6 DEF q

(* _expire_locked *)
LEMMA ConsistentSwept ==
    ASSUME PairingInv, NEW old \in SUBSET Over
    PROVE  /\ Consistent(exchangeUrl, Swept(old), {}, SweptCodes)
           /\ WaitingIn(Swept(old)) = Waiting \ aged
           /\ \A t \in Waiting \ aged : Swept(old)[t] = pairing[t]
<1> DEFINE kept == [t \in Tickets |-> IF t \in old THEN Unknown ELSE pairing[t]]
<1>1. old \in SUBSET Tickets /\ \A t \in old : pairing[t].state \in Ended
  BY DEF Over
<1>2. Consistent(exchangeUrl, kept, aged, codeIndex) /\ WaitingIn(kept) = Waiting
  BY <1>1, ConsistentForgotten DEF PairingInv, Waiting
<1>3. \A t \in Tickets : t \notin old => kept[t] = pairing[t]
  OBVIOUS
<1>4. Swept(old) = Deactivated(kept, Expired, "expired")
  BY DEF Swept
<1> HIDE DEF kept
<1>5. Expired \in SUBSET WaitingIn(kept) /\ Expired = aged
  BY <1>2 DEF Expired, PairingInv, Consistent, Waiting
<1>6. \A t \in Waiting : t \notin old /\ kept[t] = pairing[t]
  BY <1>1, <1>3 DEF Waiting, WaitingIn, Ended
<1>7. Without(codeIndex, kept, Expired) = SweptCodes
  BY <1>2, <1>5, <1>6 DEF SweptCodes, Without
<1>8. "expired" \in Ended /\ aged \ Expired = {} /\ AllTickets(kept)
  BY <1>2, <1>5 DEF Ended, Consistent
<1>9. Consistent(exchangeUrl, Swept(old), {}, SweptCodes)
  BY <1>2, <1>4, <1>5, <1>7, <1>8, ConsistentDeactivated
<1>10. /\ WaitingIn(Deactivated(kept, Expired, "expired")) = WaitingIn(kept) \ Expired
       /\ \A t \in Tickets \ Expired : Deactivated(kept, Expired, "expired")[t] = kept[t]
  BY <1>5, <1>8, DeactivatedFacts
<1> QED
  BY <1>2, <1>4, <1>5, <1>6, <1>9, <1>10 DEF Waiting, WaitingIn

(* What the sweep does to each session. *)
LEMMA SweptTickets ==
    ASSUME PairingInv, NEW old \in SUBSET Over, NEW t \in Tickets
    PROVE  /\ t \in old => Swept(old)[t] = Unknown
           /\ t \in aged => Swept(old)[t].state = "expired"
           /\ t \notin old \cup aged => Swept(old)[t] = pairing[t]
<1> DEFINE kept == [x \in Tickets |-> IF x \in old THEN Unknown ELSE pairing[x]]
<1>1. Swept(old) = Deactivated(kept, Expired, "expired")
  BY DEF Swept
<1>2. kept[t] = IF t \in old THEN Unknown ELSE pairing[t]
  OBVIOUS
<1>3. Ticket(pairing[t]) /\ aged \subseteq Waiting /\ Expired = aged
  BY DEF PairingInv, Consistent, AllTickets, Expired, Waiting
<1>4. t \in aged => pairing[t].state = "waiting" /\ t \notin old
  BY <1>3 DEF Waiting, WaitingIn, Over, Ended
<1> HIDE DEF kept
<1>5. Swept(old)[t] = IF t \in aged THEN EndOf(kept[t], "expired") ELSE kept[t]
  BY <1>1, <1>3 DEF Deactivated, EndOf
<1>6. t \in aged => Swept(old)[t].state = "expired"
  BY <1>2, <1>3, <1>4, <1>5, EndedTicket DEF Ended
<1> QED
  BY <1>2, <1>4, <1>5, <1>6

-----------------------------------------------------------------------------
(* What no step of the pairing manager does to a session: EndIsFinal of one step. *)
Final ==
    \A t \in Tickets :
        /\ pairing[t].state \in Ended => pairing'[t].state \in {pairing[t].state, "unknown"}
        /\ pairing[t].state = "waiting" /\ t \in aged => pairing'[t].state # "consumed"

(* Sessions that wait are ended, without a sweep, but not by an exchange. *)
LEMMA DeactivateKeeps ==
    ASSUME PairingInv, NEW gone \in SUBSET Waiting, Deactivate(gone, "revoked"),
           exchangeUrl' = exchangeUrl \/ gone = Waiting, exchangeUrl' \in Urls \cup {NoUrl}
    PROVE  PairingInv' /\ Final
<1>1. AllTickets(pairing) /\ gone \in SUBSET WaitingIn(pairing) /\ "revoked" \in Ended
  BY DEF PairingInv, Consistent, Waiting, Ended
<1>2. pairing' = Deactivated(pairing, gone, "revoked")
  BY DEF Deactivate
<1>3. Consistent(exchangeUrl, Deactivated(pairing, gone, "revoked"), aged \ gone,
                 Without(codeIndex, pairing, gone))
  BY <1>1, ConsistentDeactivated DEF PairingInv
<1>4. /\ WaitingIn(Deactivated(pairing, gone, "revoked")) = WaitingIn(pairing) \ gone
      /\ \A t \in Tickets \ gone : Deactivated(pairing, gone, "revoked")[t] = pairing[t]
  BY <1>1, DeactivatedFacts
<1>8. \A t \in gone : Deactivated(pairing, gone, "revoked")[t].state = "revoked"
  BY <1>1, DeactivatedState
<1>5. Consistent(exchangeUrl, pairing', aged', codeIndex')
  BY <1>3 DEF Deactivate
<1>6. PairingInv'
  BY <1>2, <1>4, <1>5 DEF PairingInv, Consistent, Waiting
<1>7. Final
  <2> SUFFICES ASSUME NEW t \in Tickets
               PROVE  /\ pairing[t].state \in Ended => pairing'[t].state \in {pairing[t].state, "unknown"}
                      /\ pairing[t].state = "waiting" => pairing'[t].state # "consumed"
    BY DEF Final
  <2>1. CASE t \in gone
    BY <2>1, <1>2, <1>8 DEF Waiting, WaitingIn, Ended
  <2>2. CASE t \notin gone
    BY <2>2, <1>2, <1>4 DEF Ended
  <2> QED
    BY <2>1, <2>2
<1> QED
  BY <1>6, <1>7

(* A sweep, and the end of some sessions that still wait. *)
LEMMA SweepKeeps ==
    ASSUME PairingInv, NEW old \in SUBSET Over, NEW gone \in SUBSET WaitingIn(Swept(old)),
           NEW s \in Ended, SweepAnd(old, gone, s), exchangeUrl' = exchangeUrl
    PROVE  PairingInv' /\ Final
<1>1. /\ Consistent(exchangeUrl, Swept(old), {}, SweptCodes)
      /\ WaitingIn(Swept(old)) = Waiting \ aged
      /\ \A t \in Waiting \ aged : Swept(old)[t] = pairing[t]
  BY ConsistentSwept
<1>2. Consistent(exchangeUrl, Deactivated(Swept(old), gone, s), {} \ gone,
                 Without(SweptCodes, Swept(old), gone))
  BY <1>1, ConsistentDeactivated
<1>3. Without(SweptCodes, Swept(old), gone) = Without(SweptCodes, pairing, gone)
  BY <1>1 DEF Without
<1>4. PairingInv'
  <2>1. {} \ gone = {}
    OBVIOUS
  <2> QED
    BY <1>2, <1>3, <2>1 DEF PairingInv, SweepAnd
<1>5. AllTickets(Swept(old))
  BY <1>1 DEF Consistent
<1>6. pairing' = Deactivated(Swept(old), gone, s)
  BY DEF SweepAnd
<1>7. /\ \A t \in Tickets \ gone : Deactivated(Swept(old), gone, s)[t] = Swept(old)[t]
      /\ \A t \in gone : Deactivated(Swept(old), gone, s)[t].state = s
  BY <1>5, DeactivatedFacts
<1>8. Final
  <2> SUFFICES ASSUME NEW t \in Tickets
               PROVE  /\ pairing[t].state \in Ended => pairing'[t].state \in {pairing[t].state, "unknown"}
                      /\ pairing[t].state = "waiting" /\ t \in aged => pairing'[t].state # "consumed"
    BY DEF Final
  <2>1. CASE t \in gone
    BY <2>1, <1>1 DEF Waiting, WaitingIn, Ended
  <2>2. CASE t \notin gone
    <3>1. pairing'[t] = Swept(old)[t]
      BY <2>2, <1>6, <1>7
    <3>2. aged \subseteq Waiting
      BY DEF PairingInv, Consistent, Waiting
    <3>3. pairing[t].state \in Ended => t \notin aged
      BY <3>2 DEF Waiting, WaitingIn, Ended
    <3>4. pairing[t].state = "waiting" => t \notin old
      BY DEF Over, Ended
    <3> QED
      BY <3>1, <3>3, <3>4, SweptTickets DEF Unknown
  <2> QED
    BY <2>1, <2>2
<1> QED
  BY <1>4, <1>8

(* create *)
LEMMA CreateKeeps ==
    ASSUME PairingInv, NEW o \in Owners \cup {Panel}, NEW t \in Tickets, NEW old \in SUBSET Over,
           Create(o, t, old)
    PROVE  PairingInv' /\ Final
<1>1. /\ Consistent(exchangeUrl, Swept(old), {}, SweptCodes)
      /\ WaitingIn(Swept(old)) = Waiting \ aged
  BY ConsistentSwept
<1>2. aged \subseteq Waiting /\ exchangeUrl \in Urls /\ pairing[t].state = "unknown" /\ exchangeUrl' = exchangeUrl
  BY DEF PairingInv, Consistent, Waiting, Create, Unknown
<1>3. PICK c \in Codes \ DOMAIN SweptCodes :
         LET created == [Swept(old) EXCEPT ![t] = Session(o, c, exchangeUrl)] IN
         \/ /\ pairing' = created
            /\ codeIndex' = [x \in DOMAIN SweptCodes \cup {c} |-> IF x = c THEN t ELSE SweptCodes[x]]
         \/ /\ pairing' = Deactivated(created, {t}, "revoked")
            /\ codeIndex' = SweptCodes
  BY DEF Create
<1> DEFINE created == [Swept(old) EXCEPT ![t] = Session(o, c, exchangeUrl)]
           codes == [x \in DOMAIN SweptCodes \cup {c} |-> IF x = c THEN t ELSE SweptCodes[x]]
<1>4. DOMAIN Swept(old) = Tickets
  BY DEF Swept, Deactivated
<1>5. created[t] = Session(o, c, exchangeUrl) /\ \A x \in Tickets \ {t} : created[x] = Swept(old)[x]
  BY <1>4
<1>6. /\ DOMAIN codes = DOMAIN SweptCodes \cup {c} /\ codes[c] = t
      /\ \A x \in DOMAIN SweptCodes : codes[x] = SweptCodes[x]
  OBVIOUS
<1>7. \/ pairing' = created /\ codeIndex' = codes
      \/ pairing' = Deactivated(created, {t}, "revoked") /\ codeIndex' = SweptCodes
  BY <1>3
<1> HIDE DEF created, codes
<1>8. /\ Session(o, c, exchangeUrl).state = "waiting" /\ Session(o, c, exchangeUrl).code = c
      /\ Session(o, c, exchangeUrl).url = exchangeUrl /\ Ticket(Session(o, c, exchangeUrl))
  BY <1>2 DEF Session, Ticket
<1>9. t \notin WaitingIn(Swept(old))
  BY <1>1, <1>2 DEF Waiting, WaitingIn
<1>10. WaitingIn(created) = WaitingIn(Swept(old)) \cup {t}
  BY <1>5, <1>8 DEF WaitingIn
<1>11. AllTickets(created)
  BY <1>1, <1>5, <1>8 DEF Consistent, AllTickets
<1>12. Consistent(exchangeUrl, created, {}, codes)
  <2>1. \A x \in DOMAIN codes : codes[x] \in WaitingIn(created) /\ created[codes[x]].code = x
    BY <1>1, <1>5, <1>6, <1>8, <1>9, <1>10 DEF Consistent, WaitingIn
  <2>2. \A x \in WaitingIn(created) :
           created[x].url = exchangeUrl /\ created[x].code \in DOMAIN codes /\ codes[created[x].code] = x
    BY <1>1, <1>5, <1>6, <1>8, <1>9, <1>10 DEF Consistent, WaitingIn
  <2>3. DOMAIN codes \subseteq Codes
    BY <1>1, <1>6 DEF Consistent
  <2> QED
    BY <1>2, <1>11, <2>1, <2>2, <2>3 DEF Consistent
<1>13. "revoked" \in Ended /\ {t} \in SUBSET WaitingIn(created) /\ {} \ {t} = {}
  BY <1>10 DEF Ended
<1>14. Consistent(exchangeUrl, Deactivated(created, {t}, "revoked"), {} \ {t},
                  Without(codes, created, {t}))
  BY <1>12, <1>13, ConsistentDeactivated
<1>15. Without(codes, created, {t}) = SweptCodes
  <2>1. {x \in DOMAIN codes : \A y \in {t} : created[y].code # x} = DOMAIN SweptCodes
    BY <1>5, <1>6, <1>8
  <2>2. SweptCodes = [x \in DOMAIN SweptCodes |-> SweptCodes[x]]
    BY DEF SweptCodes, Without, Restrict
  <2> QED
    BY <2>1, <2>2, <1>6 DEF Without, Restrict
<1>16. PairingInv'
  BY <1>2, <1>7, <1>12, <1>13, <1>14, <1>15 DEF PairingInv, Create
<1>17. /\ \A x \in Tickets \ {t} : pairing'[x] = Swept(old)[x]
       /\ pairing'[t].state # "consumed" 
  <2>1. \A x \in Tickets \ {t} : Deactivated(created, {t}, "revoked")[x] = created[x]
    BY DEF Deactivated
  <2>2. Deactivated(created, {t}, "revoked")[t].state = "revoked"
    BY <1>11, <1>13, DeactivatedState
  <2> QED
    BY <2>1, <2>2, <1>5, <1>7, <1>8
<1>18. Final
  <2> SUFFICES ASSUME NEW x \in Tickets
               PROVE  /\ pairing[x].state \in Ended => pairing'[x].state \in {pairing[x].state, "unknown"}
                      /\ pairing[x].state = "waiting" /\ x \in aged => pairing'[x].state # "consumed"
    BY DEF Final
  <2>1. CASE x = t
    BY <2>1, <1>2 DEF Ended
  <2>2. CASE x # t
    <3>1. pairing'[x] = Swept(old)[x]
      BY <2>2, <1>17
    <3>2. pairing[x].state \in Ended => x \notin aged
      BY <1>2 DEF Waiting, WaitingIn, Ended
    <3>3. pairing[x].state = "waiting" => x \notin old
      BY DEF Over, Ended
    <3> QED
      BY <3>1, <3>2, <3>3, SweptTickets DEF Unknown
  <2> QED
    BY <2>1, <2>2
<1> QED
  BY <1>16, <1>18

(* configure_exchange_url *)
LEMMA ConfigureKeeps ==
    ASSUME PairingInv, NEW u \in Urls \cup {NoUrl}, Configure(u)
    PROVE  PairingInv' /\ Final
<1>1. CASE u # exchangeUrl
  <2>1. Deactivate(Waiting, "revoked") /\ exchangeUrl' = u
    BY <1>1 DEF Configure
  <2> QED
    BY <2>1, DeactivateKeeps
<1>2. CASE u = exchangeUrl
  <2>1. UNCHANGED pairingVars
    BY <1>2 DEF Configure, pairingVars
  <2> QED
    BY <2>1 DEF pairingVars, PairingInv, Final, Ended
<1> QED
  BY <1>1, <1>2

(* close: everything is forgotten. *)
LEMMA ClosePairingKeeps ==
    ASSUME PairingInv, ClosePairing
    PROVE  PairingInv' /\ Final
<1>1. \A t \in Tickets : pairing'[t] = Unknown
  BY DEF ClosePairing
<1>2. DOMAIN codeIndex' = {} /\ aged' = {} /\ exchangeUrl' = exchangeUrl
  BY DEF ClosePairing
<1>3. Unknown.state = "unknown" /\ Ticket(Unknown)
  BY DEF Unknown, Ticket
<1>4. WaitingIn(pairing') = {} /\ AllTickets(pairing')
  BY <1>1, <1>3 DEF WaitingIn, AllTickets
<1>5. exchangeUrl' \in Urls \cup {NoUrl}
  BY <1>2 DEF PairingInv, Consistent
<1>6. Consistent(exchangeUrl', pairing', aged', codeIndex')
  BY <1>2, <1>4, <1>5 DEF Consistent
<1>7. PairingInv'
  BY <1>6 DEF PairingInv
<1>8. Final
  BY <1>1, <1>3 DEF Final
<1> QED
  BY <1>7, <1>8

(* revoke_waiting *)
LEMMA RevokeWaitingKeeps ==
    ASSUME PairingInv, RevokeWaiting
    PROVE  PairingInv' /\ Final
<1>1. Deactivate(Waiting, "revoked") /\ exchangeUrl' = exchangeUrl /\ exchangeUrl' \in Urls \cup {NoUrl}
  BY DEF RevokeWaiting, PairingInv, Consistent
<1> QED
  BY <1>1, DeactivateKeeps

(* The lifetime of a credential is over. *)
LEMMA AgeKeeps ==
    ASSUME PairingInv, NEW t \in Tickets, Age(t)
    PROVE  PairingInv' /\ Final
<1>1. /\ exchangeUrl' = exchangeUrl /\ pairing' = pairing /\ codeIndex' = codeIndex
      /\ aged' = aged \cup {t} /\ t \in WaitingIn(pairing)
  BY DEF Age, Waiting
<1>2. Consistent(exchangeUrl, pairing, aged \cup {t}, codeIndex)
  BY <1>1 DEF PairingInv, Consistent
<1>3. PairingInv'
  BY <1>1, <1>2 DEF PairingInv
<1>4. Final
  BY <1>1 DEF Final, Ended
<1> QED
  BY <1>3, <1>4

(* Every call of the pairing manager. *)
LEMMA PairingCallKeeps ==
    ASSUME PairingInv, PairingCalls
    PROVE  PairingInv' /\ Final
<1>1. ASSUME NEW t \in Tickets, Age(t) PROVE PairingInv' /\ Final
  BY <1>1, AgeKeeps
<1>2. ASSUME NEW old \in SUBSET Over, Dashboard(old) \/ SeriesPanel(old) \/ Headset(old)
      PROVE  PairingInv' /\ Final
  <2>1. CASE Look(old)
    <3>1. /\ SweepAnd(old, {}, "expired") /\ exchangeUrl' = exchangeUrl
          /\ {} \in SUBSET WaitingIn(Swept(old)) /\ "expired" \in Ended
      BY <2>1 DEF Look, Ended
    <3> QED
      BY <3>1, SweepKeeps
  <2>2. ASSUME NEW o \in Owners \cup {Panel}, NEW t \in Tickets, Create(o, t, old)
        PROVE  PairingInv' /\ Final
    BY <2>2, CreateKeeps
  <2>3. ASSUME NEW o \in Owners \cup {Panel}, NEW t \in Tickets, Revoke(o, t, old)
        PROVE  PairingInv' /\ Final
    <3>1. PICK gone \in SUBSET WaitingIn(Swept(old)) : gone = {t} \cap WaitingIn(Swept(old))
      OBVIOUS
    <3>2. SweepAnd(old, gone, "revoked") /\ exchangeUrl' = exchangeUrl /\ "revoked" \in Ended
      BY <2>3, <3>1 DEF Revoke, Ended
    <3> QED
      BY <3>2, SweepKeeps
  <2>4. CASE RevokeWaiting
    BY <2>4, RevokeWaitingKeeps
  <2>5. CASE Headset(old)
    <3>1. PICK t : Exchange(t, old)
      BY <2>5 DEF Headset
    <3>2. /\ SweepAnd(old, {t}, "consumed") /\ exchangeUrl' = exchangeUrl
          /\ {t} \in SUBSET WaitingIn(Swept(old)) /\ "consumed" \in Ended
      BY <3>1 DEF Exchange, Ended
    <3> QED
      BY <3>2, SweepKeeps
  <2> QED
    BY <1>2, <2>1, <2>2, <2>3, <2>4, <2>5 DEF Dashboard, SeriesPanel
<1> QED
  BY <1>1, <1>2 DEF PairingCalls

(* What the invariant says of the credentials. *)
LEMMA PairingInvImplies ==
    ASSUME PairingInv
    PROVE  PairingTypeOK /\ CredentialsAreCurrent
<1>1. PairingTypeOK
  <2>1. \A t \in Tickets : Ticket(pairing[t])
    BY DEF PairingInv, Consistent, AllTickets
  <2>2. aged \subseteq Waiting /\ DOMAIN codeIndex \subseteq Codes /\ exchangeUrl \in Urls \cup {NoUrl}
    BY DEF PairingInv, Consistent, Waiting
  <2>3. \A c \in DOMAIN codeIndex : codeIndex[c] \in Tickets
    BY DEF PairingInv, Consistent, WaitingIn
  <2> QED
    BY <2>1, <2>2, <2>3 DEF PairingTypeOK, Ticket
<1>2. CodesAgree
  BY DEF PairingInv, Consistent, CodesAgree, Waiting, WaitingIn
<1>3. \A t \in Waiting : pairing[t].url = exchangeUrl
  BY DEF PairingInv, Consistent, Waiting
<1> QED
  BY <1>1, <1>2, <1>3 DEF CredentialsAreCurrent

-----------------------------------------------------------------------------
(* The service. *)

(* After the pairing manager was told, a port it carries is the one that is served. *)
SyncedWell == exchangeUrl' \in Ports => listener'.ready /\ listener'.url = exchangeUrl'

LEMMA SyncTells == Sync => SyncedWell
BY ServiceAssumption, PairingAssumption DEF Sync, SyncedUrl, ProxyUrl, Configure, SyncedWell

(* What the handler of the public URL tells, when that is a port. *)
LEMMA AnnounceTells ==
    ASSUME NEW u, Announce(u), exchangeUrl' \in Ports
    PROVE  (~setup.listener /\ exchangeUrl' = exchangeUrl) \/ (listener.ready /\ exchangeUrl' = u)
<1>1. NoUrl \notin Ports
  BY ServiceAssumption, PairingAssumption
<1>2. CASE ~setup.listener
  <2>1. UNCHANGED pairingVars
    BY <1>2 DEF Announce
  <2>2. exchangeUrl' = exchangeUrl
    BY <2>1 DEF pairingVars
  <2> QED
    BY <1>2, <2>2
<1>3. CASE setup.listener /\ ~listener.ready
  BY <1>1, <1>3 DEF Announce, Configure
<1>4. CASE setup.listener /\ listener.ready
  BY <1>1, <1>4 DEF Announce, Configure
<1> QED
  BY <1>2, <1>3, <1>4

(* Only the service configures the URL. *)
LEMMA PairingCallsKeepUrl == PairingCalls => exchangeUrl' = exchangeUrl
BY DEF PairingCalls, Age, Dashboard, SeriesPanel, Headset, Look, Create, Revoke, Exchange,
     RevokeWaiting

(* The sets of steps are expanded wherever they occur. *)
USE DEF ServiceInv, Tasks, Stops, Starts, TurningOn, TurningOff, Moving

(* The start of the plugin closes the gate. *)
LEMMA StartUpKeeps ==
    ASSUME ServiceInv, StartUp
    PROVE  ServiceInv'
<1>1. /\ DOMAIN pc' = Tasks /\ pc'["control"] = pc["control"] /\ pc'["shutdown"] = pc["shutdown"]
      /\ pc["startup"] = "begin" /\ accepting' = FALSE
      /\ pc'["startup"] \in {"start", "stop unused", "stop disabled"}
      /\ pc'["startup"] = "stop disabled" <=> ~enabled
      /\ UNCHANGED <<exchangeUrl, setup, config, file, enabled, terminated, sessions, starting, closing,
                     listener, lock, wanted, undo, adrift>>
  BY DEF StartUp, Gate, StepInv, At, Goto, pairingVars, settingVars, gateVars, controlVars
<1>2. DataInv'
  BY <1>1 DEF DataInv
<1>3. StepInv'
  BY <1>1 DEF StepInv, ControlSteps, StartupSteps, ShutdownSteps
<1>4. LockIsHeld'
  BY <1>1 DEF LockIsHeld, DataInv
<1>5. StartIsFirst'
  BY <1>1 DEF StartIsFirst
<1>6. SwitchIsThrown'
  BY <1>1 DEF SwitchIsThrown
<1>7. OffIsQuiet'
  BY <1>1 DEF OffIsQuiet
<1>8. GateInv'
  BY <1>1 DEF GateInv, GateIsClosed, DataInv
<1>9. UrlIsServed'
  BY <1>1 DEF UrlIsServed
<1>10. SettingsAgree'
  BY <1>1 DEF SettingsAgree, Agrees
<1> QED
  BY <1>2, <1>3, <1>4, <1>5, <1>6, <1>7, <1>8, <1>9, <1>10

(* The start of the plugin ends: a service that is off stays closed. *)
LEMMA StartedKeeps ==
    ASSUME ServiceInv, Started
    PROVE  ServiceInv'
<1>1. /\ DOMAIN pc' = Tasks /\ pc'["control"] = pc["control"] /\ pc'["shutdown"] = pc["shutdown"]
      /\ pc["startup"] \in {"start", "stop unused", "stop disabled"} /\ pc'["startup"] = "done"
      /\ lock = "startup" /\ lock' = "none"
      /\ listener' \in Listeners /\ listener'.port = listener.port /\ listener'.url = listener.url
      /\ listener.ready => listener'.ready
      /\ listener'.ready => listener.ready \/ setup.listener
      /\ pc["startup"] # "start" => listener' = listener
      /\ pc["startup"] # "stop disabled" => (accepting' <=> ~terminated) /\ accepting' \in BOOLEAN
      /\ pc["startup"] = "stop disabled" => accepting' = accepting
      /\ SyncedWell
      /\ UNCHANGED <<setup, config, file, enabled, terminated, sessions, starting, closing, wanted, undo,
                     adrift>>
  BY SyncTells DEF Started, DataInv, Listeners, Ready, Gate, StepInv, At, Goto, pairingVars,
       settingVars, gateVars, controlVars
<1>2. DataInv'
  BY <1>1 DEF DataInv
<1>3. StepInv'
  BY <1>1 DEF StepInv, ControlSteps, StartupSteps, ShutdownSteps
<1>4. LockIsHeld'
  BY <1>1 DEF LockIsHeld
<1>5. StartIsFirst'
  BY <1>1 DEF StartIsFirst
<1>6. SwitchIsThrown'
  BY <1>1 DEF SwitchIsThrown, StartIsFirst
<1>7. OffIsQuiet'
  BY <1>1 DEF OffIsQuiet, StartIsFirst
<1>8. GateInv'
  BY <1>1 DEF GateInv, GateIsClosed, DataInv, StartIsFirst
<1>9. UrlIsServed'
  BY <1>1 DEF UrlIsServed, SyncedWell
<1>10. SettingsAgree'
  BY <1>1 DEF SettingsAgree, Agrees, StartIsFirst
<1> QED
  BY <1>2, <1>3, <1>4, <1>5, <1>6, <1>7, <1>8, <1>9, <1>10

(* The dashboard asks for one of its operations. *)
LEMMA AskKeeps ==
    ASSUME ServiceInv, NEW step \in {"enable save", "disable save", "port save", "url save"},
           NEW w \in Ports \cup {NoUrl}, step = "port save" => w \in Ports,
           step = "enable save" => ~enabled, step = "disable save" => enabled, Ask(step, w)
    PROVE  ServiceInv'
<1>1. /\ DOMAIN pc' = Tasks /\ pc'["startup"] = pc["startup"] /\ pc'["shutdown"] = pc["shutdown"]
      /\ pc["startup"] = "done" /\ pc["control"] = "idle" /\ pc'["control"] = step
      /\ wanted' = w
      /\ UNCHANGED <<exchangeUrl, setup, config, file, enabled, accepting, terminated, sessions, starting,
                     closing, listener, lock, undo, adrift>>
  BY DEF Ask, StepInv, At, Goto, pairingVars, settingVars, gateVars, controlVars
<1>2. DataInv'
  BY <1>1 DEF DataInv
<1>3. StepInv'
  BY <1>1 DEF StepInv, ControlSteps, StartupSteps, ShutdownSteps
<1>4. LockIsHeld'
  BY <1>1 DEF LockIsHeld, DataInv
<1>5. StartIsFirst'
  BY <1>1 DEF StartIsFirst
<1>6. SwitchIsThrown'
  BY <1>1 DEF SwitchIsThrown
<1>7. OffIsQuiet'
  BY <1>1 DEF OffIsQuiet
<1>8. GateInv'
  BY <1>1 DEF GateInv, GateIsClosed
<1>9. UrlIsServed'
  BY <1>1 DEF UrlIsServed
<1>10. SettingsAgree'
  BY <1>1 DEF SettingsAgree, Agrees
<1> QED
  BY <1>2, <1>3, <1>4, <1>5, <1>6, <1>7, <1>8, <1>9, <1>10

(* An operation whose setting is not saved changes nothing. *)
LEMMA SaveFailsKeeps ==
    ASSUME ServiceInv, SaveFails
    PROVE  ServiceInv'
<1>1. /\ DOMAIN pc' = Tasks /\ pc'["startup"] = pc["startup"] /\ pc'["shutdown"] = pc["shutdown"]
      /\ pc["control"] \in {"enable save", "disable save", "port save", "url save"} /\ pc'["control"] = "idle"
      /\ wanted' = NoUrl /\ undo' = Nothing
      /\ UNCHANGED <<exchangeUrl, setup, config, file, enabled, accepting, terminated, sessions, starting,
                     closing, listener, lock, adrift>>
  BY DEF SaveFails, SaveSteps, StepInv, At, Goto, Return, Continue, Gate, pairingVars, settingVars, gateVars, controlVars
<1>2. DataInv'
  BY <1>1 DEF DataInv
<1>3. StepInv'
  BY <1>1 DEF StepInv, ControlSteps, StartupSteps, ShutdownSteps, Nothing
<1>4. LockIsHeld'
  BY <1>1 DEF LockIsHeld, DataInv
<1>5. StartIsFirst'
  BY <1>1 DEF StartIsFirst
<1>6. SwitchIsThrown'
  BY <1>1 DEF SwitchIsThrown
<1>7. OffIsQuiet'
  BY <1>1 DEF OffIsQuiet
<1>8. GateInv'
  BY <1>1 DEF GateInv, GateIsClosed
<1>9. UrlIsServed'
  BY <1>1 DEF UrlIsServed
<1>10. SettingsAgree'
  BY <1>1 DEF SettingsAgree, Agrees
<1> QED
  BY <1>2, <1>3, <1>4, <1>5, <1>6, <1>7, <1>8, <1>9, <1>10

(* set_enabled(True) is saved. *)
LEMMA EnableSavedKeeps ==
    ASSUME ServiceInv, EnableSaved
    PROVE  ServiceInv'
<1>1. /\ DOMAIN pc' = Tasks /\ pc'["startup"] = pc["startup"] /\ pc'["shutdown"] = pc["shutdown"]
      /\ pc["control"] = "enable save" /\ pc'["control"] = "enable start"
      /\ file' = [config EXCEPT !.enabled = TRUE] /\ config' = file' /\ adrift' = adrift \ {"enabled"}
      /\ accepting' = FALSE
      /\ UNCHANGED <<exchangeUrl, setup, enabled, terminated, sessions, starting, closing, listener,
                     lock, wanted, undo>>
  BY DEF EnableSaved, PersistedAt, Persisted, Changed, Touched, StepInv, At, Goto, Return, Continue, Gate, pairingVars, settingVars, gateVars, controlVars
<1>2. DataInv'
  BY <1>1 DEF DataInv, Files
<1>3. StepInv'
  BY <1>1 DEF StepInv, ControlSteps, StartupSteps, ShutdownSteps
<1>4. LockIsHeld'
  BY <1>1 DEF LockIsHeld, DataInv
<1>5. StartIsFirst'
  BY <1>1 DEF StartIsFirst
<1>6. SwitchIsThrown'
  BY <1>1 DEF SwitchIsThrown
<1>7. OffIsQuiet'
  BY <1>1 DEF OffIsQuiet
<1>8. GateInv'
  BY <1>1 DEF GateInv, GateIsClosed, DataInv
<1>9. UrlIsServed'
  BY <1>1 DEF UrlIsServed
<1>10. SettingsAgree'
  BY <1>1 DEF SettingsAgree, Agrees, DataInv, Files
<1> QED
  BY <1>2, <1>3, <1>4, <1>5, <1>6, <1>7, <1>8, <1>9, <1>10

(* How set_enabled(True) and set_listener_port end, and how they go on. *)
Serves == listener' \in Listeners /\ listener'.port = listener.port /\ (listener'.ready => setup.listener)

TurnedOn ==
    /\ pc["control"] \in {"enable start", "stop failed"} /\ lock = "control" /\ lock' = "none"
    /\ Serves /\ Enabled /\ UNCHANGED <<setup, config, file, adrift>>

NotTurnedOn(step) ==
    /\ pc["control"] \in TurningOn /\ step \in TurningOn /\ lock = "control" /\ lock' = "none"
    /\ Serves /\ ~listener'.ready /\ (accepting' => accepting) /\ accepting' \in BOOLEAN /\ Continue(step)
    /\ UNCHANGED <<pairingVars, setup, config, file, enabled, terminated, sessions, starting, closing,
                   adrift>>

PortAgrees == "port" \notin adrift => listener'.port = file.port /\ listener'.port = config.port

PortServes == listener' \in Listeners /\ PortAgrees
              /\ (listener'.ready => enabled /\ setup.listener)

PortMoved ==
    /\ pc["control"] \in {"port stop", "port start"} /\ lock = "control" /\ lock' = "none"
    /\ PortServes /\ Return /\ Sync /\ Gate(enabled)
    /\ UNCHANGED <<setup, config, file, enabled, terminated, sessions, starting, closing, adrift>>

PortGoesOn(step) ==
    /\ pc["control"] \in {"port stop", "port start"} /\ lock = "control" /\ lock' = "none"
    /\ enabled /\ PortServes /\ step \in {"port start", "undo stop"} /\ Continue(step)
    /\ UNCHANGED <<pairingVars, setup, config, file, gateVars, adrift>>

PortAnnounced ==
    /\ pc["control"] = "port start" /\ lock = "control" /\ lock' = "none"
    /\ enabled /\ PortServes /\ Sync /\ Continue("address save")
    /\ UNCHANGED <<setup, config, file, gateVars, adrift>>

(* The service is on. *)
LEMMA TurnedOnKeeps ==
    ASSUME ServiceInv, TurnedOn
    PROVE  ServiceInv'
<1>1. /\ DOMAIN pc' = Tasks /\ pc'["startup"] = pc["startup"] /\ pc'["shutdown"] = pc["shutdown"]
      /\ pc["control"] \in {"enable start", "stop failed"} /\ lock = "control" /\ lock' = "none" /\ pc'["control"] = "idle"
      /\ enabled' /\ (accepting' <=> ~terminated) /\ enabled' \in BOOLEAN /\ accepting' \in BOOLEAN
      /\ wanted' = NoUrl /\ undo' = Nothing /\ SyncedWell
      /\ listener' \in Listeners /\ listener'.port = listener.port
      /\ listener'.ready => setup.listener
      /\ UNCHANGED <<setup, config, file, terminated, sessions, starting, closing, adrift>>
  BY SyncTells DEF TurnedOn, Serves, Enabled, StepInv, At, Goto, Return, Continue, Gate,
       pairingVars, settingVars, gateVars, controlVars
<1>2. DataInv'
  BY <1>1 DEF DataInv
<1>3. StepInv'
  BY <1>1 DEF StepInv, ControlSteps, StartupSteps, ShutdownSteps, Nothing
<1>4. LockIsHeld'
  BY <1>1 DEF LockIsHeld
<1>5. StartIsFirst'
  BY <1>1 DEF StartIsFirst
<1>6. SwitchIsThrown'
  BY <1>1 DEF SwitchIsThrown
<1>7. OffIsQuiet'
  BY <1>1 DEF OffIsQuiet
<1>8. GateInv'
  BY <1>1 DEF GateInv, GateIsClosed, DataInv
<1>9. UrlIsServed'
  BY <1>1 DEF UrlIsServed, SyncedWell
<1>10. SettingsAgree'
  BY <1>1 DEF SettingsAgree, Agrees, SwitchIsThrown
<1> QED
  BY <1>2, <1>3, <1>4, <1>5, <1>6, <1>7, <1>8, <1>9, <1>10

(* The listener was not started: it is stopped, and the setting taken back. *)
LEMMA NotTurnedOnKeeps ==
    ASSUME ServiceInv, NEW step, NotTurnedOn(step)
    PROVE  ServiceInv'
<1>1. /\ DOMAIN pc' = Tasks /\ pc'["startup"] = pc["startup"] /\ pc'["shutdown"] = pc["shutdown"]
      /\ pc["control"] \in TurningOn /\ lock = "control" /\ lock' = "none" /\ pc'["control"] \in TurningOn
      /\ (accepting' => accepting) /\ accepting' \in BOOLEAN
      /\ listener' \in Listeners /\ listener'.port = listener.port /\ ~listener'.ready
      /\ UNCHANGED <<exchangeUrl, setup, config, file, enabled, terminated, sessions, starting, closing,
                     wanted, undo, adrift>>
  BY DEF NotTurnedOn, Serves, DataInv, StepInv, At, Goto, Return, Continue, Gate, pairingVars,
       settingVars, gateVars, controlVars
<1>2. DataInv'
  BY <1>1 DEF DataInv
<1>3. StepInv'
  BY <1>1 DEF StepInv, ControlSteps, StartupSteps, ShutdownSteps
<1>4. LockIsHeld'
  BY <1>1 DEF LockIsHeld
<1>5. StartIsFirst'
  BY <1>1 DEF StartIsFirst
<1>6. SwitchIsThrown'
  BY <1>1 DEF SwitchIsThrown
<1>7. OffIsQuiet'
  BY <1>1 DEF OffIsQuiet, SwitchIsThrown
<1>8. GateInv'
  BY <1>1 DEF GateInv, GateIsClosed, DataInv
<1>9. UrlIsServed'
  BY <1>1 DEF UrlIsServed, OffIsQuiet, SwitchIsThrown
<1>10. SettingsAgree'
  BY <1>1 DEF SettingsAgree, Agrees, SwitchIsThrown
<1> QED
  BY <1>2, <1>3, <1>4, <1>5, <1>6, <1>7, <1>8, <1>9, <1>10

(* A rollback, whatever becomes of its save: the other setting stays as it was, and so
   does this one where it is not restored. *)
SettingsRolledBack(s, old) ==
    /\ config' \in Files /\ file' \in Files /\ adrift' \subseteq {"enabled", "port"}
    /\ s \notin adrift' => config'[s] = old /\ file'[s] = old
    /\ \A x \in {"enabled", "port"} \ {s} :
          /\ x \in adrift' <=> x \in adrift
          /\ config'[x] = config[x] /\ file'[x] \in {file[x], config[x]}

LEMMA RollbackSettings ==
    ASSUME config \in Files, file \in Files, adrift \subseteq {"enabled", "port"},
           NEW s \in {"enabled", "port"}, NEW old,
           s = "enabled" => old \in BOOLEAN, s = "port" => old \in Ports,
           NEW new, new = [config EXCEPT ![s] = old], RolledBack(new, {s})
    PROVE  SettingsRolledBack(s, old)
<1>1. new \in Files /\ new[s] = old /\ \A x \in {"enabled", "port"} \ {s} : new[x] = config[x]
  BY DEF Files
<1>2. CASE Persisted(new, {s})
  BY <1>1, <1>2 DEF Persisted, SettingsRolledBack
<1>3. CASE config' \in {config, new} /\ Adrift({s}) /\ UNCHANGED file
  BY <1>1, <1>3 DEF Adrift, SettingsRolledBack
<1> QED
  BY <1>2, <1>3 DEF RolledBack

(* The setting is taken back, or cannot be. *)
LEMMA EnableUndoneKeeps ==
    ASSUME ServiceInv, EnableUndone
    PROVE  ServiceInv'
<1>1. /\ DOMAIN pc' = Tasks /\ pc'["startup"] = pc["startup"] /\ pc'["shutdown"] = pc["shutdown"]
      /\ pc["control"] = "enable undo" /\ pc'["control"] = "idle"
      /\ wanted' = NoUrl /\ undo' = Nothing
      /\ RolledBack([config EXCEPT !.enabled = FALSE], {"enabled"})
      /\ UNCHANGED <<exchangeUrl, setup, enabled, accepting, terminated, sessions, starting,
                     closing, listener, lock>>
  BY DEF EnableUndone, StepInv, At, Goto, Return, Continue, Gate, pairingVars, settingVars, gateVars, controlVars
<1>0. SettingsRolledBack("enabled", FALSE)
  BY <1>1, RollbackSettings DEF DataInv, Files
<1>2. DataInv'
  BY <1>0, <1>1 DEF DataInv, SettingsRolledBack
<1>3. StepInv'
  BY <1>1 DEF StepInv, ControlSteps, StartupSteps, ShutdownSteps, Nothing
<1>4. LockIsHeld'
  BY <1>1 DEF LockIsHeld, DataInv
<1>5. StartIsFirst'
  BY <1>1 DEF StartIsFirst
<1>6. SwitchIsThrown'
  BY <1>1 DEF SwitchIsThrown
<1>7. OffIsQuiet'
  BY <1>1 DEF OffIsQuiet
<1>8. GateInv'
  BY <1>1 DEF GateInv, GateIsClosed
<1>9. UrlIsServed'
  BY <1>1 DEF UrlIsServed
<1>10. SettingsAgree'
  BY <1>0, <1>1 DEF SettingsAgree, Agrees, SettingsRolledBack, SwitchIsThrown
<1> QED
  BY <1>2, <1>3, <1>4, <1>5, <1>6, <1>7, <1>8, <1>9, <1>10

(* set_enabled(False) is saved: the sessions of the moment will be closed. *)
LEMMA DisableSavedKeeps ==
    ASSUME ServiceInv, DisableSaved
    PROVE  ServiceInv'
<1>1. /\ DOMAIN pc' = Tasks /\ pc'["startup"] = pc["startup"] /\ pc'["shutdown"] = pc["shutdown"]
      /\ pc["control"] = "disable save" /\ pc'["control"] = "disable close"
      /\ file' = [config EXCEPT !.enabled = FALSE] /\ config' = file' /\ adrift' = adrift \ {"enabled"}
      /\ enabled' = FALSE /\ accepting' = FALSE /\ closing' = sessions
      /\ UNCHANGED <<exchangeUrl, setup, terminated, sessions, starting, listener, lock, wanted,
                     undo>>
  BY DEF DisableSaved, PersistedAt, Persisted, Changed, Touched, StepInv, At, Goto, Return, Continue, Gate, pairingVars, settingVars, gateVars, controlVars
<1>2. DataInv'
  BY <1>1 DEF DataInv, Files
<1>3. StepInv'
  BY <1>1 DEF StepInv, ControlSteps, StartupSteps, ShutdownSteps
<1>4. LockIsHeld'
  BY <1>1 DEF LockIsHeld, DataInv
<1>5. StartIsFirst'
  BY <1>1 DEF StartIsFirst
<1>6. SwitchIsThrown'
  BY <1>1 DEF SwitchIsThrown
<1>7. OffIsQuiet'
  BY <1>1 DEF OffIsQuiet
<1>8. GateInv'
  BY <1>1 DEF GateInv, GateIsClosed, DataInv
<1>9. UrlIsServed'
  BY <1>1 DEF UrlIsServed
<1>10. SettingsAgree'
  BY <1>1 DEF SettingsAgree, Agrees, DataInv, Files
<1> QED
  BY <1>2, <1>3, <1>4, <1>5, <1>6, <1>7, <1>8, <1>9, <1>10

(* A session of the snapshot is closed. *)
LEMMA CloseOneKeeps ==
    ASSUME ServiceInv, CloseOne
    PROVE  ServiceInv'
<1>1. /\ \E c \in closing : closing' = closing \ {c} /\ sessions' = sessions \ {c}
      /\ pc' = pc
      /\ UNCHANGED <<exchangeUrl, setup, config, file, enabled, accepting, terminated, starting, listener,
                     lock, wanted, undo, adrift>>
  BY DEF CloseOne, pairingVars, settingVars, gateVars, controlVars
<1>2. DataInv'
  BY <1>1 DEF DataInv
<1>3. StepInv'
  BY <1>1 DEF StepInv
<1>4. LockIsHeld'
  BY <1>1 DEF LockIsHeld
<1>5. StartIsFirst'
  BY <1>1 DEF StartIsFirst
<1>6. SwitchIsThrown'
  BY <1>1 DEF SwitchIsThrown
<1>7. OffIsQuiet'
  BY <1>1 DEF OffIsQuiet
<1>8. GateInv'
  BY <1>1 DEF GateInv, GateIsClosed
<1>9. UrlIsServed'
  BY <1>1 DEF UrlIsServed
<1>10. SettingsAgree'
  BY <1>1 DEF SettingsAgree, Agrees
<1> QED
  BY <1>2, <1>3, <1>4, <1>5, <1>6, <1>7, <1>8, <1>9, <1>10

(* When the snapshot is empty, a service that is off has no session. *)
LEMMA AllClosedKeeps ==
    ASSUME ServiceInv, AllClosed
    PROVE  ServiceInv'
<1>1. /\ DOMAIN pc' = Tasks /\ pc'["startup"] = pc["startup"] /\ pc'["shutdown"] = pc["shutdown"]
      /\ \/ pc["control"] = "disable close" /\ pc'["control"] = "stop"
         \/ pc["control"] = "port close" /\ pc'["control"] = "port stop"
      /\ closing = {}
      /\ UNCHANGED <<exchangeUrl, setup, config, file, enabled, accepting, terminated, sessions, starting,
                     closing, listener, lock, wanted, undo, adrift>>
  BY DEF AllClosed, RevokeWaiting, settingVars, gateVars, pairingVars, StepInv, At, Goto, Continue
<1>2. DataInv'
  BY <1>1 DEF DataInv
<1>3. StepInv'
  BY <1>1 DEF StepInv, ControlSteps, StartupSteps, ShutdownSteps, SettingsAgree
<1>4. LockIsHeld'
  BY <1>1 DEF LockIsHeld, DataInv
<1>5. StartIsFirst'
  BY <1>1 DEF StartIsFirst
<1>6. SwitchIsThrown'
  BY <1>1 DEF SwitchIsThrown
<1>7. OffIsQuiet'
  BY <1>1 DEF OffIsQuiet, SwitchIsThrown, LockIsHeld
<1>8. GateInv'
  BY <1>1 DEF GateInv, GateIsClosed
<1>9. UrlIsServed'
  BY <1>1 DEF UrlIsServed
<1>10. SettingsAgree'
  BY <1>1 DEF SettingsAgree, Agrees
<1> QED
  BY <1>2, <1>3, <1>4, <1>5, <1>6, <1>7, <1>8, <1>9, <1>10

(* set_enabled(False) is done. *)
LEMMA DisableStoppedKeeps ==
    ASSUME ServiceInv, DisableStopped
    PROVE  ServiceInv'
<1>1. /\ DOMAIN pc' = Tasks /\ pc'["startup"] = pc["startup"] /\ pc'["shutdown"] = pc["shutdown"]
      /\ pc["control"] = "stop" /\ pc'["control"] = "idle" /\ lock = "control" /\ lock' = "none"
      /\ wanted' = NoUrl /\ undo' = Nothing
      /\ SyncedWell
      /\ UNCHANGED <<setup, config, file, enabled, accepting, terminated, sessions, starting, closing,
                     listener, adrift>>
  BY SyncTells DEF DisableStopped, StepInv, At, Goto, Return, Continue, Gate, pairingVars,
       settingVars, gateVars, controlVars
<1>2. DataInv'
  BY <1>1 DEF DataInv
<1>3. StepInv'
  BY <1>1 DEF StepInv, ControlSteps, StartupSteps, ShutdownSteps, Nothing
<1>4. LockIsHeld'
  BY <1>1 DEF LockIsHeld
<1>5. StartIsFirst'
  BY <1>1 DEF StartIsFirst
<1>6. SwitchIsThrown'
  BY <1>1 DEF SwitchIsThrown
<1>7. OffIsQuiet'
  BY <1>1 DEF OffIsQuiet, LockIsHeld
<1>8. GateInv'
  BY <1>1 DEF GateInv, GateIsClosed, SwitchIsThrown
<1>9. UrlIsServed'
  BY <1>1 DEF UrlIsServed, SyncedWell
<1>10. SettingsAgree'
  BY <1>1 DEF SettingsAgree, Agrees, SwitchIsThrown
<1> QED
  BY <1>2, <1>3, <1>4, <1>5, <1>6, <1>7, <1>8, <1>9, <1>10

(* The new port is saved; sessions are closed if the listener serves. *)
LEMMA PortSavedKeeps ==
    ASSUME ServiceInv, PortSaved
    PROVE  ServiceInv'
<1>1. /\ DOMAIN pc' = Tasks /\ pc'["startup"] = pc["startup"] /\ pc'["shutdown"] = pc["shutdown"]
      /\ pc["control"] = "port save" /\ accepting' = FALSE
      /\ \/ pc'["control"] = "port close" /\ listener.ready /\ closing' = sessions
         \/ pc'["control"] = "port stop" /\ closing' = closing
      /\ file' = [config EXCEPT !.port = wanted] /\ config' = file' /\ adrift' = adrift \ {"port"}
      /\ undo' = [port |-> listener.port, ready |-> FALSE]
      /\ UNCHANGED <<exchangeUrl, setup, enabled, terminated, sessions, starting, listener, lock,
                     wanted>>
  BY DEF PortSaved, PersistedAt, Persisted, Changed, Touched, StepInv, At, Goto, Return, Continue, Gate, pairingVars, settingVars, gateVars, controlVars
<1>2. DataInv'
  BY <1>1 DEF DataInv, Files, StepInv
<1>3. StepInv'
  BY <1>1 DEF StepInv, ControlSteps, StartupSteps, ShutdownSteps, DataInv, Files, Listeners
<1>4. LockIsHeld'
  BY <1>1 DEF LockIsHeld, DataInv
<1>5. StartIsFirst'
  BY <1>1 DEF StartIsFirst
<1>6. SwitchIsThrown'
  BY <1>1 DEF SwitchIsThrown, OffIsQuiet, DataInv
<1>7. OffIsQuiet'
  BY <1>1 DEF OffIsQuiet, DataInv
<1>8. GateInv'
  BY <1>1 DEF GateInv, GateIsClosed, DataInv
<1>9. UrlIsServed'
  BY <1>1 DEF UrlIsServed
<1>10. SettingsAgree'
  BY <1>1 DEF SettingsAgree, Agrees, DataInv, Files, OffIsQuiet
<1> QED
  BY <1>2, <1>3, <1>4, <1>5, <1>6, <1>7, <1>8, <1>9, <1>10

(* The listener is at the new port, and serves there if the service is on. *)
LEMMA PortMovedKeeps ==
    ASSUME ServiceInv, PortMoved
    PROVE  ServiceInv'
<1>1. /\ DOMAIN pc' = Tasks /\ pc'["startup"] = pc["startup"] /\ pc'["shutdown"] = pc["shutdown"]
      /\ pc["control"] \in {"port stop", "port start"} /\ lock = "control" /\ lock' = "none" /\ pc'["control"] = "idle"
      /\ (accepting' <=> enabled /\ ~terminated) /\ accepting' \in BOOLEAN
      /\ wanted' = NoUrl /\ undo' = Nothing /\ SyncedWell
      /\ listener' \in Listeners /\ PortAgrees
      /\ listener'.ready => enabled /\ setup.listener
      /\ UNCHANGED <<setup, config, file, enabled, terminated, sessions, starting, closing, adrift>>
  BY SyncTells DEF PortMoved, PortServes, DataInv, StepInv, At, Goto, Return, Continue, Gate,
       pairingVars, settingVars, gateVars, controlVars
<1>2. DataInv'
  BY <1>1 DEF DataInv
<1>3. StepInv'
  BY <1>1 DEF StepInv, ControlSteps, StartupSteps, ShutdownSteps, Nothing
<1>4. LockIsHeld'
  BY <1>1 DEF LockIsHeld
<1>5. StartIsFirst'
  BY <1>1 DEF StartIsFirst
<1>6. SwitchIsThrown'
  BY <1>1 DEF SwitchIsThrown
<1>7. OffIsQuiet'
  BY <1>1 DEF OffIsQuiet, SwitchIsThrown
<1>8. GateInv'
  BY <1>1 DEF GateInv, GateIsClosed, DataInv
<1>9. UrlIsServed'
  BY <1>1 DEF UrlIsServed, SyncedWell
<1>10. SettingsAgree'
  BY <1>1 DEF SettingsAgree, Agrees, PortAgrees
<1> QED
  BY <1>2, <1>3, <1>4, <1>5, <1>6, <1>7, <1>8, <1>9, <1>10

(* The listener of a service that is on is moved, or cannot be. *)
LEMMA PortGoesOnKeeps ==
    ASSUME ServiceInv, NEW step, PortGoesOn(step)
    PROVE  ServiceInv'
<1>1. /\ DOMAIN pc' = Tasks /\ pc'["startup"] = pc["startup"] /\ pc'["shutdown"] = pc["shutdown"]
      /\ pc["control"] \in {"port stop", "port start"} /\ lock = "control" /\ lock' = "none"
      /\ pc'["control"] \in {"port start", "undo stop"} /\ enabled
      /\ listener' \in Listeners /\ PortAgrees
      /\ listener'.ready => enabled /\ setup.listener
      /\ UNCHANGED <<exchangeUrl, setup, config, file, enabled, accepting, terminated, sessions, starting,
                     closing, wanted, undo, adrift>>
  BY DEF PortGoesOn, PortServes, StepInv, At, Goto, Return, Continue, Gate, pairingVars,
       settingVars, gateVars, controlVars
<1>2. DataInv'
  BY <1>1 DEF DataInv
<1>3. StepInv'
  BY <1>1 DEF StepInv, ControlSteps, StartupSteps, ShutdownSteps
<1>4. LockIsHeld'
  BY <1>1 DEF LockIsHeld
<1>5. StartIsFirst'
  BY <1>1 DEF StartIsFirst
<1>6. SwitchIsThrown'
  BY <1>1 DEF SwitchIsThrown
<1>7. OffIsQuiet'
  BY <1>1 DEF OffIsQuiet
<1>8. GateInv'
  BY <1>1 DEF GateInv, GateIsClosed
<1>9. UrlIsServed'
  BY <1>1 DEF UrlIsServed
<1>10. SettingsAgree'
  BY <1>1 DEF SettingsAgree, Agrees, PortAgrees
<1> QED
  BY <1>2, <1>3, <1>4, <1>5, <1>6, <1>7, <1>8, <1>9, <1>10

(* The listener goes back to its port. *)
LEMMA UndoStoppedKeeps ==
    ASSUME ServiceInv, UndoStopped
    PROVE  ServiceInv'
<1>1. /\ DOMAIN pc' = Tasks /\ pc'["startup"] = pc["startup"] /\ pc'["shutdown"] = pc["shutdown"]
      /\ pc["control"] = "undo stop" /\ pc'["control"] = "undo start" /\ lock = "control" /\ lock' = "none"
      /\ listener' \in Listeners /\ listener'.ready = listener.ready /\ listener'.port = undo.port
      /\ UNCHANGED <<exchangeUrl, setup, config, file, enabled, accepting, terminated, sessions, starting,
                     closing, wanted, undo, adrift>>
  BY DEF UndoStopped, Moved, DataInv, Listeners, StepInv, At, Goto, Return, Continue, Gate,
       pairingVars, settingVars, gateVars, controlVars
<1>2. DataInv'
  BY <1>1 DEF DataInv
<1>3. StepInv'
  BY <1>1 DEF StepInv, ControlSteps, StartupSteps, ShutdownSteps
<1>4. LockIsHeld'
  BY <1>1 DEF LockIsHeld
<1>5. StartIsFirst'
  BY <1>1 DEF StartIsFirst
<1>6. SwitchIsThrown'
  BY <1>1 DEF SwitchIsThrown
<1>7. OffIsQuiet'
  BY <1>1 DEF OffIsQuiet, SwitchIsThrown
<1>8. GateInv'
  BY <1>1 DEF GateInv, GateIsClosed
<1>9. UrlIsServed'
  BY <1>1 DEF UrlIsServed
<1>10. SettingsAgree'
  BY <1>1 DEF SettingsAgree, Agrees
<1> QED
  BY <1>2, <1>3, <1>4, <1>5, <1>6, <1>7, <1>8, <1>9, <1>10

(* The listener is started at its old port, if it can be. *)
LEMMA UndoStartedKeeps ==
    ASSUME ServiceInv, UndoStarted
    PROVE  ServiceInv'
<1>1. /\ DOMAIN pc' = Tasks /\ pc'["startup"] = pc["startup"] /\ pc'["shutdown"] = pc["shutdown"]
      /\ pc["control"] = "undo start" /\ pc'["control"] = "port undo" /\ lock = "control" /\ lock' = "none"
      /\ listener' \in Listeners /\ listener'.port = listener.port /\ listener'.url = listener.url
      /\ listener.ready => listener'.ready
      /\ listener'.ready => listener.ready \/ setup.listener
      /\ undo' = [undo EXCEPT !.ready = listener'.ready] /\ listener'.ready \in BOOLEAN
      /\ UNCHANGED <<exchangeUrl, setup, config, file, enabled, accepting, terminated, sessions, starting,
                     closing, wanted, adrift>>
  <2>1. PICK r \in Ready :
           listener' = [listener EXCEPT !.ready = r] /\ undo' = [undo EXCEPT !.ready = r]
    BY DEF UndoStarted
  <2>2. r \in BOOLEAN /\ (r => listener.ready \/ setup.listener) /\ (listener.ready => r)
    BY DEF Ready, DataInv, Listeners
  <2>3. /\ listener' \in Listeners /\ listener'.ready = r
        /\ listener'.port = listener.port /\ listener'.url = listener.url
    BY <2>1, <2>2 DEF DataInv, Listeners
  <2> QED
    BY <2>1, <2>2, <2>3 DEF UndoStarted, StepInv, At, Goto, pairingVars, settingVars, gateVars
<1>2. DataInv'
  BY <1>1 DEF DataInv
<1>3. StepInv'
  BY <1>1 DEF StepInv, ControlSteps, StartupSteps, ShutdownSteps
<1>4. LockIsHeld'
  BY <1>1 DEF LockIsHeld
<1>5. StartIsFirst'
  BY <1>1 DEF StartIsFirst
<1>6. SwitchIsThrown'
  BY <1>1 DEF SwitchIsThrown
<1>7. OffIsQuiet'
  BY <1>1 DEF OffIsQuiet, SwitchIsThrown
<1>8. GateInv'
  BY <1>1 DEF GateInv, GateIsClosed
<1>9. UrlIsServed'
  BY <1>1 DEF UrlIsServed
<1>10. SettingsAgree'
  BY <1>1 DEF SettingsAgree, Agrees, StepInv
<1> QED
  BY <1>2, <1>3, <1>4, <1>5, <1>6, <1>7, <1>8, <1>9, <1>10

(* The old port is saved again, or cannot be. *)
LEMMA PortUndoneKeeps ==
    ASSUME ServiceInv, PortUndone
    PROVE  ServiceInv'
<1>0. undo.port \in Ports /\ SettingsRolledBack("port", undo.port)
  <2>1. undo.port \in Ports
    BY DEF PortUndone, At, StepInv, Moving
  <2>2. RolledBack([config EXCEPT !.port = undo.port], {"port"})
    BY DEF PortUndone
  <2> QED
    BY <2>1, <2>2, RollbackSettings DEF DataInv, Files
<1>1. /\ DOMAIN pc' = Tasks /\ pc'["startup"] = pc["startup"] /\ pc'["shutdown"] = pc["shutdown"]
      /\ pc["control"] = "port undo" /\ pc'["control"] = "idle"
      /\ wanted' = NoUrl /\ undo' = Nothing
      /\ (accepting' <=> enabled /\ undo.ready /\ ~terminated) /\ accepting' \in BOOLEAN /\ SyncedWell
      /\ UNCHANGED <<setup, enabled, terminated, sessions, starting, closing, listener, lock>>
  BY SyncTells DEF PortUndone, DataInv, Files, Moving, StepInv, At, Goto, Return, Continue,
       Gate, pairingVars, settingVars, gateVars, controlVars
<1>2. DataInv'
  BY <1>0, <1>1 DEF DataInv, SettingsRolledBack
<1>3. StepInv'
  BY <1>1 DEF StepInv, ControlSteps, StartupSteps, ShutdownSteps, Nothing
<1>4. LockIsHeld'
  BY <1>1 DEF LockIsHeld, DataInv
<1>5. StartIsFirst'
  BY <1>1 DEF StartIsFirst
<1>6. SwitchIsThrown'
  BY <1>1 DEF SwitchIsThrown
<1>7. OffIsQuiet'
  BY <1>1 DEF OffIsQuiet
<1>8. GateInv'
  BY <1>1 DEF GateInv, GateIsClosed, DataInv
<1>9. UrlIsServed'
  BY <1>1 DEF UrlIsServed, SyncedWell
<1>10. SettingsAgree'
  BY <1>0, <1>1 DEF SettingsAgree, Agrees, SettingsRolledBack
<1> QED
  BY <1>2, <1>3, <1>4, <1>5, <1>6, <1>7, <1>8, <1>9, <1>10

(* The listener serves at the new port, and the address of the panel is to be saved. *)
LEMMA PortAnnouncedKeeps ==
    ASSUME ServiceInv, PortAnnounced
    PROVE  ServiceInv'
<1>1. /\ DOMAIN pc' = Tasks /\ pc'["startup"] = pc["startup"] /\ pc'["shutdown"] = pc["shutdown"]
      /\ pc["control"] = "port start" /\ lock = "control" /\ lock' = "none" /\ pc'["control"] = "address save"
      /\ enabled /\ ~accepting /\ SyncedWell
      /\ listener' \in Listeners /\ PortAgrees
      /\ listener'.ready => enabled /\ setup.listener
      /\ UNCHANGED <<setup, config, file, enabled, accepting, terminated, sessions, starting, closing,
                     wanted, undo, adrift>>
  <2>1. pc["startup"] = "done"
    BY DEF PortAnnounced, StartIsFirst
  <2>2. ~accepting
    BY <2>1 DEF PortAnnounced, GateInv, GateIsClosed
  <2> QED
    BY <2>2, SyncTells DEF PortAnnounced, PortServes, StepInv, At, Goto, Continue, gateVars
<1>2. DataInv'
  BY <1>1 DEF DataInv
<1>3. StepInv'
  BY <1>1 DEF StepInv, ControlSteps, StartupSteps, ShutdownSteps, Nothing, Moving
<1>4. LockIsHeld'
  BY <1>1 DEF LockIsHeld, DataInv
<1>5. StartIsFirst'
  BY <1>1 DEF StartIsFirst
<1>6. SwitchIsThrown'
  BY <1>1 DEF SwitchIsThrown, Moving, TurningOn, TurningOff
<1>7. OffIsQuiet'
  BY <1>1 DEF OffIsQuiet
<1>8. GateInv'
  BY <1>1 DEF GateInv, GateIsClosed, DataInv
<1>9. UrlIsServed'
  BY <1>1 DEF UrlIsServed, SyncedWell, Moving
<1>10. SettingsAgree'
  BY <1>1 DEF SettingsAgree, Agrees, PortAgrees, TurningOn
<1> QED
  BY <1>2, <1>3, <1>4, <1>5, <1>6, <1>7, <1>8, <1>9, <1>10

(* The address of the panel is saved, or not, and the gate is set. *)
LEMMA AddressSavedKeeps ==
    ASSUME ServiceInv, AddressSaved
    PROVE  ServiceInv'
<1>1. /\ DOMAIN pc' = Tasks /\ pc'["startup"] = pc["startup"] /\ pc'["shutdown"] = pc["shutdown"]
      /\ pc["control"] = "address save" /\ pc'["control"] = "idle"
      /\ wanted' = NoUrl /\ undo' = Nothing
      /\ file' \in {file, config}
      /\ (accepting' => enabled /\ ~terminated) /\ accepting' \in BOOLEAN
      /\ UNCHANGED <<exchangeUrl, setup, config, enabled, terminated, sessions, starting, closing,
                     listener, lock, adrift>>
  <2>1. enabled \in BOOLEAN /\ terminated \in BOOLEAN
    BY DEF DataInv
  <2> QED
    BY <2>1 DEF AddressSaved, Gate, StepInv, At, Goto, Return, pairingVars
<1>2. DataInv'
  BY <1>1 DEF DataInv
<1>3. StepInv'
  BY <1>1 DEF StepInv, ControlSteps, StartupSteps, ShutdownSteps, Nothing, Moving
<1>4. LockIsHeld'
  BY <1>1 DEF LockIsHeld, DataInv
<1>5. StartIsFirst'
  BY <1>1 DEF StartIsFirst
<1>6. SwitchIsThrown'
  BY <1>1 DEF SwitchIsThrown, Moving, TurningOn, TurningOff
<1>7. OffIsQuiet'
  BY <1>1 DEF OffIsQuiet
<1>8. GateInv'
  BY <1>1 DEF GateInv, GateIsClosed, DataInv
<1>9. UrlIsServed'
  BY <1>1 DEF UrlIsServed, SyncedWell, Moving
<1>10. SettingsAgree'
  BY <1>1 DEF SettingsAgree, Agrees, PortAgrees, TurningOn
<1> QED
  BY <1>2, <1>3, <1>4, <1>5, <1>6, <1>7, <1>8, <1>9, <1>10

(* The save of another form brings the file to what is in memory. *)
LEMMA OtherFormSavedKeeps ==
    ASSUME ServiceInv, OtherFormSaved
    PROVE  ServiceInv'
<1>1. /\ file' = config /\ pc' = pc
      /\ UNCHANGED <<exchangeUrl, setup, config, enabled, accepting, terminated, sessions, starting,
                     closing, listener, lock, wanted, undo, adrift>>
  BY DEF OtherFormSaved, pairingVars, gateVars, controlVars
<1>2. DataInv'
  BY <1>1 DEF DataInv
<1>3. StepInv'
  BY <1>1 DEF StepInv, ControlSteps, StartupSteps, ShutdownSteps, Nothing, Moving
<1>4. LockIsHeld'
  BY <1>1 DEF LockIsHeld, DataInv
<1>5. StartIsFirst'
  BY <1>1 DEF StartIsFirst
<1>6. SwitchIsThrown'
  BY <1>1 DEF SwitchIsThrown, Moving, TurningOn, TurningOff
<1>7. OffIsQuiet'
  BY <1>1 DEF OffIsQuiet
<1>8. GateInv'
  BY <1>1 DEF GateInv, GateIsClosed, DataInv
<1>9. UrlIsServed'
  BY <1>1 DEF UrlIsServed, SyncedWell, Moving
<1>10. SettingsAgree'
  BY <1>1 DEF SettingsAgree, Agrees, PortAgrees, TurningOn
<1> QED
  BY <1>2, <1>3, <1>4, <1>5, <1>6, <1>7, <1>8, <1>9, <1>10

(* A superseded save leaves in memory what is adrift from now on. *)
LEMMA SaveSupersededKeeps ==
    ASSUME ServiceInv, SaveSuperseded
    PROVE  ServiceInv'
<1>0. PICK step \in SaveSteps :
         At("control", step) /\ config' = Changed(step) /\ Adrift(Touched(step))
  BY DEF SaveSuperseded
<1>1. /\ DOMAIN pc' = Tasks /\ pc'["startup"] = pc["startup"] /\ pc'["shutdown"] = pc["shutdown"]
      /\ pc["control"] \in {"enable save", "disable save", "port save", "url save"}
      /\ pc'["control"] = "idle"
      /\ wanted' = NoUrl /\ undo' = Nothing
      /\ UNCHANGED <<exchangeUrl, setup, file, enabled, accepting, terminated, sessions, starting,
                     closing, listener, lock>>
  BY <1>0 DEF SaveSuperseded, SaveSteps, StepInv, At, Goto, Return, pairingVars, gateVars
<1>11. /\ config' \in Files /\ adrift \subseteq adrift' /\ adrift' \subseteq {"enabled", "port"}
       /\ "enabled" \notin adrift' => config'.enabled = config.enabled
       /\ "port" \notin adrift' => config'.port = config.port
  <2>1. config \in Files /\ adrift \subseteq {"enabled", "port"} /\ adrift' = adrift \cup Touched(step)
    BY <1>0 DEF DataInv, Adrift
  <2>2. step = "port save" => wanted \in Ports
    BY <1>0 DEF StepInv, At
  <2> QED
    BY <1>0, <2>1, <2>2 DEF Changed, Touched, Files, SaveSteps
<1>2. DataInv'
  BY <1>1, <1>11 DEF DataInv
<1>3. StepInv'
  BY <1>1 DEF StepInv, ControlSteps, StartupSteps, ShutdownSteps, Nothing, Moving
<1>4. LockIsHeld'
  BY <1>1 DEF LockIsHeld, DataInv
<1>5. StartIsFirst'
  BY <1>1 DEF StartIsFirst
<1>6. SwitchIsThrown'
  BY <1>1 DEF SwitchIsThrown, Moving, TurningOn, TurningOff
<1>7. OffIsQuiet'
  BY <1>1 DEF OffIsQuiet
<1>8. GateInv'
  BY <1>1 DEF GateInv, GateIsClosed, DataInv
<1>9. UrlIsServed'
  BY <1>1 DEF UrlIsServed, SyncedWell, Moving
<1>10. SettingsAgree'
  BY <1>1, <1>11 DEF SettingsAgree, Agrees, PortAgrees, TurningOn
<1> QED
  BY <1>2, <1>3, <1>4, <1>5, <1>6, <1>7, <1>8, <1>9, <1>10

(* The public URL is configured, and the pairing manager told. *)
LEMMA UrlSavedKeeps ==
    ASSUME ServiceInv, UrlSaved
    PROVE  ServiceInv'
<1>1. /\ DOMAIN pc' = Tasks /\ pc'["startup"] = pc["startup"] /\ pc'["shutdown"] = pc["shutdown"]
      /\ pc["control"] = "url save" /\ pc'["control"] = "idle"
      /\ wanted' = NoUrl /\ undo' = Nothing
      /\ file' = config /\ config' = config /\ listener' = [listener EXCEPT !.url = wanted]
      /\ exchangeUrl' \in Ports => (~setup.listener /\ exchangeUrl' = exchangeUrl) \/ (listener.ready /\ exchangeUrl' = wanted)
      /\ UNCHANGED <<setup, enabled, accepting, terminated, sessions, starting, closing, lock,
                     adrift>>
  BY AnnounceTells DEF UrlSaved, PersistedAt, Persisted, Changed, Touched, ConfigurePublicUrl, StepInv, At, Goto, Return, Continue, Gate,
       pairingVars, settingVars, gateVars, controlVars
<1>2. DataInv'
  BY <1>1 DEF DataInv, Files, StepInv, Listeners
<1>3. StepInv'
  BY <1>1 DEF StepInv, ControlSteps, StartupSteps, ShutdownSteps, Nothing
<1>4. LockIsHeld'
  BY <1>1 DEF LockIsHeld, DataInv, Listeners
<1>5. StartIsFirst'
  BY <1>1 DEF StartIsFirst, DataInv, Listeners
<1>6. SwitchIsThrown'
  BY <1>1 DEF SwitchIsThrown
<1>7. OffIsQuiet'
  BY <1>1 DEF OffIsQuiet, DataInv, Listeners
<1>8. GateInv'
  BY <1>1 DEF GateInv, GateIsClosed
<1>9. UrlIsServed'
  BY <1>1 DEF UrlIsServed, DataInv, Listeners
<1>10. SettingsAgree'
  BY <1>1 DEF SettingsAgree, Agrees, DataInv, Files, Listeners
<1> QED
  BY <1>2, <1>3, <1>4, <1>5, <1>6, <1>7, <1>8, <1>9, <1>10

(* The plugin is being terminated. *)
LEMMA TerminateKeeps ==
    ASSUME ServiceInv, Terminate
    PROVE  ServiceInv'
<1>1. /\ DOMAIN pc' = Tasks /\ pc'["startup"] = pc["startup"] /\ pc'["control"] = pc["control"]
      /\ pc["shutdown"] = "up" /\ pc'["shutdown"] = "close" /\ pc["startup"] = "done"
      /\ UNCHANGED <<exchangeUrl, setup, config, file, enabled, accepting, terminated, sessions, starting,
                     closing, listener, lock, wanted, undo, adrift>>
  BY DEF Terminate, StepInv, At, Goto, pairingVars, settingVars, gateVars, controlVars
<1>2. DataInv'
  BY <1>1 DEF DataInv
<1>3. StepInv'
  BY <1>1 DEF StepInv, ControlSteps, StartupSteps, ShutdownSteps
<1>4. LockIsHeld'
  BY <1>1 DEF LockIsHeld, DataInv
<1>5. StartIsFirst'
  BY <1>1 DEF StartIsFirst
<1>6. SwitchIsThrown'
  BY <1>1 DEF SwitchIsThrown
<1>7. OffIsQuiet'
  BY <1>1 DEF OffIsQuiet
<1>8. GateInv'
  BY <1>1 DEF GateInv, GateIsClosed
<1>9. UrlIsServed'
  BY <1>1 DEF UrlIsServed
<1>10. SettingsAgree'
  BY <1>1 DEF SettingsAgree, Agrees
<1> QED
  BY <1>2, <1>3, <1>4, <1>5, <1>6, <1>7, <1>8, <1>9, <1>10

(* The listener is closed. *)
LEMMA ListenerClosedKeeps ==
    ASSUME ServiceInv, ListenerClosed
    PROVE  ServiceInv'
<1>1. /\ DOMAIN pc' = Tasks /\ pc'["startup"] = pc["startup"] /\ pc'["control"] = pc["control"]
      /\ pc["shutdown"] = "close" /\ pc'["shutdown"] = "sessions" /\ lock' = "none"
      /\ UNCHANGED <<exchangeUrl, setup, config, file, enabled, accepting, terminated, sessions, starting,
                     closing, listener, wanted, undo, adrift>>
  BY DEF ListenerClosed, ClosePairing, StepInv, At, Goto, pairingVars, settingVars, gateVars, controlVars
<1>2. DataInv'
  BY <1>1 DEF DataInv
<1>3. StepInv'
  BY <1>1 DEF StepInv, ControlSteps, StartupSteps, ShutdownSteps
<1>4. LockIsHeld'
  BY <1>1 DEF LockIsHeld
<1>5. StartIsFirst'
  BY <1>1 DEF StartIsFirst
<1>6. SwitchIsThrown'
  BY <1>1 DEF SwitchIsThrown
<1>7. OffIsQuiet'
  BY <1>1 DEF OffIsQuiet
<1>8. GateInv'
  BY <1>1 DEF GateInv, GateIsClosed
<1>9. UrlIsServed'
  BY <1>1 DEF UrlIsServed
<1>10. SettingsAgree'
  BY <1>1 DEF SettingsAgree, Agrees
<1> QED
  BY <1>2, <1>3, <1>4, <1>5, <1>6, <1>7, <1>8, <1>9, <1>10

(* The sessions are closed for good. *)
LEMMA SessionsTerminatedKeeps ==
    ASSUME ServiceInv, SessionsTerminated
    PROVE  ServiceInv'
<1>1. /\ DOMAIN pc' = Tasks /\ pc'["startup"] = pc["startup"] /\ pc'["control"] = pc["control"]
      /\ pc["shutdown"] = "sessions" /\ pc'["shutdown"] = "down"
      /\ accepting' = FALSE /\ terminated' = TRUE /\ sessions' = {}
      /\ UNCHANGED <<exchangeUrl, setup, config, file, enabled, starting, closing, listener, lock, wanted,
                     undo, adrift>>
  BY DEF SessionsTerminated, StepInv, At, Goto, pairingVars, settingVars, gateVars, controlVars
<1>2. DataInv'
  BY <1>1 DEF DataInv
<1>3. StepInv'
  BY <1>1 DEF StepInv, ControlSteps, StartupSteps, ShutdownSteps
<1>4. LockIsHeld'
  BY <1>1 DEF LockIsHeld, DataInv
<1>5. StartIsFirst'
  BY <1>1 DEF StartIsFirst
<1>6. SwitchIsThrown'
  BY <1>1 DEF SwitchIsThrown
<1>7. OffIsQuiet'
  BY <1>1 DEF OffIsQuiet
<1>8. GateInv'
  BY <1>1 DEF GateInv, GateIsClosed
<1>9. UrlIsServed'
  BY <1>1 DEF UrlIsServed
<1>10. SettingsAgree'
  BY <1>1 DEF SettingsAgree, Agrees
<1> QED
  BY <1>2, <1>3, <1>4, <1>5, <1>6, <1>7, <1>8, <1>9, <1>10

(* Clients come and go. *)
LEMMA ClientKeeps ==
    ASSUME ServiceInv, Client
    PROVE  ServiceInv'
<1>1. /\ sessions' \subseteq Clients /\ starting' \subseteq Clients /\ pc' = pc
      /\ ~enabled => starting' \subseteq starting
      /\ ~enabled /\ (starting = {} \/ ~accepting) => sessions' \subseteq sessions
      /\ UNCHANGED <<exchangeUrl, setup, config, file, enabled, accepting, terminated, closing, listener,
                     lock, wanted, undo, adrift>>
  BY DEF Client, BeginStart, StartSession, EndSession, DataInv, pairingVars, settingVars, gateVars, controlVars
<1>2. DataInv'
  BY <1>1 DEF DataInv
<1>3. StepInv'
  BY <1>1 DEF StepInv
<1>4. LockIsHeld'
  BY <1>1 DEF LockIsHeld
<1>5. StartIsFirst'
  BY <1>1 DEF StartIsFirst
<1>6. SwitchIsThrown'
  BY <1>1 DEF SwitchIsThrown
<1>7. OffIsQuiet'
  BY <1>1 DEF OffIsQuiet, GateInv, GateIsClosed, StartIsFirst
<1>8. GateInv'
  BY <1>1 DEF GateInv, GateIsClosed
<1>9. UrlIsServed'
  BY <1>1 DEF UrlIsServed
<1>10. SettingsAgree'
  BY <1>1 DEF SettingsAgree, Agrees
<1> QED
  BY <1>2, <1>3, <1>4, <1>5, <1>6, <1>7, <1>8, <1>9, <1>10

(* A start or stop of the listener has its turn. *)
LEMMA TakeLockKeeps ==
    ASSUME ServiceInv, NEW task \in Tasks, TakeLock(task)
    PROVE  ServiceInv'
<1>1. /\ lock = "none" /\ lock' = task /\ pc[task] \in Stops \cup Starts /\ pc' = pc
      /\ listener' \in Listeners /\ listener'.port = listener.port /\ listener'.url = listener.url
      /\ listener'.ready => listener.ready /\ pc[task] \in Starts
      /\ pc[task] \in Starts => listener'.ready = listener.ready
      /\ UNCHANGED <<exchangeUrl, setup, config, file, enabled, accepting, terminated, sessions, starting,
                     closing, wanted, undo, adrift>>
  BY DEF TakeLock, DataInv, Listeners, pairingVars, settingVars, gateVars, controlVars
<1>2. DataInv'
  BY <1>1 DEF DataInv
<1>3. StepInv'
  BY <1>1 DEF StepInv
<1>4. LockIsHeld'
  BY <1>1 DEF LockIsHeld
<1>5. StartIsFirst'
  BY <1>1 DEF StartIsFirst
<1>6. SwitchIsThrown'
  BY <1>1 DEF SwitchIsThrown
<1>7. OffIsQuiet'
  BY <1>1 DEF OffIsQuiet
<1>8. GateInv'
  BY <1>1 DEF GateInv, GateIsClosed
<1>9. UrlIsServed'
  <2>1. CASE pc[task] \in Starts
    BY <1>1, <2>1 DEF UrlIsServed
  <2>2. CASE pc[task] \in Stops /\ task = "startup"
    BY <1>1, <2>2 DEF UrlIsServed, StartIsFirst
  <2>3. CASE pc[task] \in Stops /\ task = "shutdown"
    BY <1>1, <2>3 DEF UrlIsServed
  <2>4. CASE pc[task] \in Stops /\ task = "control"
    <3>1. pc["control"] = "stop failed" => ~listener.ready
      BY DEF OffIsQuiet, SwitchIsThrown
    <3>2. pc["control"] \in Stops \cap ControlSteps
      BY <2>4 DEF StepInv
    <3>3. pc["control"] \in {"stop", "port stop", "undo stop", "stop failed"}
      BY <3>2 DEF ControlSteps
    <3> QED
      BY <1>1, <3>1, <3>3 DEF UrlIsServed
  <2> QED
    BY <1>1, <2>1, <2>2, <2>3, <2>4
<1>10. SettingsAgree'
  BY <1>1 DEF SettingsAgree, Agrees
<1> QED
  BY <1>2, <1>3, <1>4, <1>5, <1>6, <1>7, <1>8, <1>9, <1>10

(* The pairing manager alone does not change its URL. *)
LEMMA CredentialsKeeps ==
    ASSUME ServiceInv, Credentials
    PROVE  ServiceInv'
<1>1. /\ pc' = pc
      /\ UNCHANGED <<exchangeUrl, setup, config, file, enabled, accepting, terminated, sessions, starting,
                     closing, listener, lock, wanted, undo, adrift>>
  BY PairingCallsKeepUrl DEF Credentials, settingVars, gateVars, controlVars
<1>2. DataInv'
  BY <1>1 DEF DataInv
<1>3. StepInv'
  BY <1>1 DEF StepInv
<1>4. LockIsHeld'
  BY <1>1 DEF LockIsHeld
<1>5. StartIsFirst'
  BY <1>1 DEF StartIsFirst
<1>6. SwitchIsThrown'
  BY <1>1 DEF SwitchIsThrown
<1>7. OffIsQuiet'
  BY <1>1 DEF OffIsQuiet
<1>8. GateInv'
  BY <1>1 DEF GateInv, GateIsClosed
<1>9. UrlIsServed'
  BY <1>1 DEF UrlIsServed
<1>10. SettingsAgree'
  BY <1>1 DEF SettingsAgree, Agrees
<1> QED
  BY <1>2, <1>3, <1>4, <1>5, <1>6, <1>7, <1>8, <1>9, <1>10

(* set_enabled(True) after the start of the listener. *)
LEMMA EnableStartedKeeps ==
    ASSUME ServiceInv, EnableStarted
    PROVE  ServiceInv'
<1>1. PICK r \in Ready :
         /\ listener' = [listener EXCEPT !.ready = r]
         /\ IF r \/ ~setup.listener
            THEN Enabled
            ELSE /\ Gate(FALSE) /\ Continue("stop failed")
                 /\ UNCHANGED <<pairingVars, enabled, terminated, sessions, starting, closing>>
  BY DEF EnableStarted
<1>2. r \in BOOLEAN /\ (r => setup.listener)
  BY DEF Ready, DataInv, Listeners
<1>3. Serves /\ (listener'.ready <=> r)
  BY <1>1, <1>2 DEF Serves, DataInv, Listeners
<1>4. pc["control"] = "enable start" /\ lock = "control" /\ lock' = "none" /\ UNCHANGED <<setup, config, file, adrift>>
  BY DEF EnableStarted, At, settingVars
<1>5. CASE r \/ ~setup.listener
  <2>1. TurnedOn
    BY <1>1, <1>3, <1>4, <1>5 DEF TurnedOn
  <2> QED
    BY <2>1, TurnedOnKeeps
<1>6. CASE ~(r \/ ~setup.listener)
  <2>1. accepting' = FALSE
    BY <1>1, <1>6 DEF Gate
  <2>2. NotTurnedOn("stop failed")
    BY <1>1, <1>3, <1>4, <1>6, <2>1 DEF NotTurnedOn
  <2> QED
    BY <2>2, NotTurnedOnKeeps
<1> QED
  BY <1>5, <1>6

(* ... and after the listener that could not start was stopped. *)
LEMMA FailedStoppedKeeps ==
    ASSUME ServiceInv, FailedStopped
    PROVE  ServiceInv'
<1>1. /\ pc["control"] = "stop failed" /\ lock = "control" /\ lock' = "none"
      /\ UNCHANGED <<setup, config, file, adrift>> /\ listener' = listener
  BY DEF FailedStopped, At, settingVars
<1>2. Serves
  BY <1>1 DEF Serves, DataInv
<1>3. CASE setup.tls
  <2>1. ~listener'.ready /\ accepting' = accepting /\ accepting \in BOOLEAN
    BY <1>1, <1>3 DEF LockIsHeld, FailedStopped, gateVars, DataInv
  <2>2. Continue("enable undo") /\ UNCHANGED pairingVars
        /\ UNCHANGED <<enabled, terminated, sessions, starting, closing>>
    BY <1>3 DEF FailedStopped, gateVars
  <2>3. NotTurnedOn("enable undo")
    BY <1>1, <1>2, <2>1, <2>2 DEF NotTurnedOn
  <2> QED
    BY <2>3, NotTurnedOnKeeps
<1>4. CASE ~setup.tls
  <2>1. Enabled
    BY <1>4 DEF FailedStopped
  <2>2. TurnedOn
    BY <1>1, <1>2, <2>1 DEF TurnedOn
  <2> QED
    BY <2>2, TurnedOnKeeps
<1> QED
  BY <1>3, <1>4

(* set_listener_port after the stop of the listener. *)
LEMMA PortStoppedKeeps ==
    ASSUME ServiceInv, PortStopped
    PROVE  ServiceInv'
<1>1. /\ pc["control"] = "port stop" /\ lock = "control" /\ lock' = "none" /\ listener' = Moved(wanted)
      /\ UNCHANGED <<setup, config, file, enabled, terminated, sessions, starting, closing, adrift>>
  BY DEF PortStopped, At, settingVars
<1>2. wanted \in Ports /\ file.port = wanted /\ config.port = wanted /\ ~listener.ready
  BY <1>1 DEF StepInv, SettingsAgree, Agrees, LockIsHeld
<1>3. PortServes
  BY <1>1, <1>2 DEF PortServes, PortAgrees, Moved, DataInv, Listeners
<1>4. CASE enabled /\ setup.listener
  <2>1. Continue("port start") /\ accepting' = accepting /\ UNCHANGED pairingVars
    BY <1>4 DEF PortStopped
  <2>2. PortGoesOn("port start")
    BY <1>1, <1>3, <1>4, <2>1 DEF PortGoesOn, gateVars
  <2> QED
    BY <2>2, PortGoesOnKeeps
<1>5. CASE ~(enabled /\ setup.listener)
  <2>1. Return /\ Sync /\ Gate(enabled)
    BY <1>5 DEF PortStopped
  <2>2. PortMoved
    BY <1>1, <1>3, <2>1 DEF PortMoved
  <2> QED
    BY <2>2, PortMovedKeeps
<1> QED
  BY <1>4, <1>5

(* ... and after its start at the new port. *)
LEMMA PortStartedKeeps ==
    ASSUME ServiceInv, PortStarted
    PROVE  ServiceInv'
<1>1. PICK r \in Ready :
         /\ listener' = [listener EXCEPT !.ready = r]
         /\ \/ r /\ Sync /\ Return /\ Gate(enabled)
            \/ r /\ Sync /\ listener.url # NoUrl /\ Continue("address save") /\ UNCHANGED accepting
            \/ ~r /\ Continue("undo stop") /\ UNCHANGED <<pairingVars, accepting>>
  BY DEF PortStarted
<1>2. /\ pc["control"] = "port start" /\ lock = "control" /\ lock' = "none"
      /\ UNCHANGED <<setup, config, file, enabled, terminated, sessions, starting, closing, adrift>>
  BY DEF PortStarted, At, settingVars
<1>3. r \in BOOLEAN /\ (r => setup.listener)
  BY DEF Ready, DataInv, Listeners
<1>4. enabled /\ ("port" \in adrift \/ (file.port = listener.port /\ config.port = listener.port))
  BY <1>2 DEF SwitchIsThrown, Moving, SettingsAgree, Agrees
<1>5. PortServes
  BY <1>1, <1>3, <1>4 DEF PortServes, PortAgrees, DataInv, Listeners
<1>6. CASE Sync /\ Return /\ Gate(enabled)
  <2>1. PortMoved
    BY <1>2, <1>5, <1>6 DEF PortMoved
  <2> QED
    BY <2>1, PortMovedKeeps
<1>7. CASE Sync /\ Continue("address save") /\ UNCHANGED accepting
  <2>1. PortAnnounced
    BY <1>2, <1>4, <1>5, <1>7 DEF PortAnnounced, gateVars
  <2> QED
    BY <2>1, PortAnnouncedKeeps
<1>8. CASE ~r /\ Continue("undo stop") /\ UNCHANGED <<pairingVars, accepting>>
  <2>1. PortGoesOn("undo stop")
    BY <1>2, <1>4, <1>5, <1>8 DEF PortGoesOn, gateVars
  <2> QED
    BY <2>1, PortGoesOnKeeps
<1> QED
  BY <1>1, <1>6, <1>7, <1>8

-----------------------------------------------------------------------------
(* The invariant. *)

(* The invariant holds when the plugin is loaded. *)
LEMMA InitInvariant ==
    ASSUME Init
    PROVE  IInv
<1>1. /\ exchangeUrl = ProxyUrl /\ \A t \in Tickets : pairing[t] = Unknown
      /\ aged = {} /\ DOMAIN codeIndex = {}
  BY DEF Init, NoSessions
<1>2. ProxyUrl \in Urls \cup {NoUrl} /\ ProxyUrl \notin Ports
  BY ServiceAssumption, PairingAssumption DEF ProxyUrl
<1>3. WaitingIn(pairing) = {} /\ AllTickets(pairing)
  BY <1>1 DEF WaitingIn, AllTickets, Unknown, Ticket
<1>4. PairingInv
  BY <1>1, <1>2, <1>3 DEF PairingInv, Consistent
<1>5. PICK on \in BOOLEAN, p \in Ports, u \in Ports \cup {NoUrl} :
         /\ config = [enabled |-> on, port |-> p] /\ file = config
         /\ enabled = on
         /\ listener = [ready |-> FALSE, closed |-> FALSE, port |-> p, url |-> u]
  BY DEF Init
<1>6. /\ setup \in Setups /\ accepting = TRUE /\ terminated = FALSE /\ adrift = {}
      /\ sessions = {} /\ starting = {} /\ closing = {} /\ lock = "none"
      /\ wanted = NoUrl /\ undo = Nothing
  BY DEF Init
<1>7. DOMAIN pc = Tasks /\ pc["startup"] = "begin" /\ pc["control"] = "idle" /\ pc["shutdown"] = "up"
  BY DEF Init
<1>8. DataInv
  BY <1>5, <1>6 DEF DataInv, Files, Listeners
<1>9. StepInv
  BY <1>6, <1>7 DEF StepInv, StartupSteps, ControlSteps, ShutdownSteps, Nothing
<1>10. LockIsHeld /\ SwitchIsThrown
  BY <1>6, <1>7 DEF LockIsHeld, SwitchIsThrown
<1>11. StartIsFirst /\ UrlIsServed
  BY <1>1, <1>2, <1>5, <1>6, <1>7 DEF StartIsFirst, UrlIsServed
<1>12. OffIsQuiet /\ GateInv
  BY <1>5, <1>6, <1>7 DEF OffIsQuiet, GateInv, GateIsClosed
<1>13. SettingsAgree
  BY <1>5, <1>6, <1>7 DEF SettingsAgree, Agrees
<1> QED
  BY <1>4, <1>8, <1>9, <1>10, <1>11, <1>12, <1>13 DEF IInv

(* Every step of an operation of the dashboard. *)
LEMMA ControlKeeps ==
    ASSUME ServiceInv, Control
    PROVE  ServiceInv'
<1>1. CASE AskService
  <2>1. PICK step \in {"enable save", "disable save"} :
           step = IF enabled THEN "disable save" ELSE "enable save"
    OBVIOUS
  <2>2. Ask(step, NoUrl)
    BY <1>1, <2>1 DEF AskService
  <2> QED
    BY <2>1, <2>2, AskKeeps
<1>2. CASE AskPort
  BY <1>2, AskKeeps DEF AskPort
<1>3. CASE AskUrl
  BY <1>3, AskKeeps DEF AskUrl
<1> QED
  BY <1>1, <1>2, <1>3, SaveFailsKeeps, SaveSupersededKeeps, AddressSavedKeeps, EnableSavedKeeps, EnableStartedKeeps, FailedStoppedKeeps,
     EnableUndoneKeeps, DisableSavedKeeps, CloseOneKeeps, AllClosedKeeps, DisableStoppedKeeps,
     PortSavedKeeps, PortStoppedKeeps, PortStartedKeeps, UndoStoppedKeeps, UndoStartedKeeps,
     PortUndoneKeeps, UrlSavedKeeps DEF Control

(* Every step keeps the service's part of the invariant. *)
LEMMA ServiceNext ==
    ASSUME ServiceInv, [Next]_vars
    PROVE  ServiceInv'
<1>1. CASE UNCHANGED vars
  <2>1. UNCHANGED <<exchangeUrl, setup, config, file, enabled, accepting, terminated, sessions, starting,
                    closing,
                    listener, lock, pc, wanted, undo, adrift>>
    BY <1>1 DEF vars, pairingVars, settingVars, gateVars, controlVars
  <2>2. DataInv'
    BY <2>1 DEF DataInv
  <2>6. StepInv'
    BY <2>1 DEF StepInv
  <2>3. LockIsHeld' /\ StartIsFirst' /\ SwitchIsThrown'
    BY <2>1 DEF LockIsHeld, StartIsFirst, SwitchIsThrown
  <2>4. OffIsQuiet' /\ GateInv'
    BY <2>1 DEF OffIsQuiet, GateInv, GateIsClosed
  <2>5. UrlIsServed' /\ SettingsAgree'
    BY <2>1 DEF UrlIsServed, SettingsAgree, Agrees
  <2> QED
    BY <2>2, <2>3, <2>4, <2>5, <2>6
<1>2. CASE Plugin
  BY <1>2, StartUpKeeps, StartedKeeps, TerminateKeeps, ListenerClosedKeeps, SessionsTerminatedKeeps
     DEF Plugin
<1> QED
  BY <1>1, <1>2, ControlKeeps, OtherFormSavedKeeps, ClientKeeps, CredentialsKeeps, TakeLockKeeps DEF Next

(* What the service may do to the pairing manager. *)
LEMMA PairingSteps ==
    ASSUME [Next]_vars
    PROVE  \/ UNCHANGED pairingVars
           \/ PairingCalls \/ RevokeWaiting \/ ClosePairing
           \/ Sync
           \/ pc["control"] = "url save" /\ Announce(wanted)
<1>1. CASE Control
  <2>1. CASE AskService \/ AskPort \/ AskUrl \/ SaveFails \/ SaveSuperseded \/ EnableSaved \/ EnableUndone
    BY <2>1 DEF AskService, AskPort, AskUrl, Ask, SaveFails, SaveSuperseded, EnableSaved, EnableUndone
  <2>2. CASE EnableStarted \/ FailedStopped
    BY <2>2 DEF EnableStarted, FailedStopped, Enabled
  <2>3. CASE DisableSaved \/ CloseOne \/ AllClosed \/ DisableStopped
    BY <2>3 DEF DisableSaved, CloseOne, AllClosed, DisableStopped
  <2>4. CASE PortSaved \/ PortStopped \/ PortStarted \/ AddressSaved
    BY <2>4 DEF PortSaved, PortStopped, PortStarted, AddressSaved
  <2>5. CASE UndoStopped \/ UndoStarted \/ PortUndone \/ UrlSaved
    BY <2>5 DEF UndoStopped, UndoStarted, PortUndone, UrlSaved, PersistedAt, At
  <2> QED
    BY <1>1, <2>1, <2>2, <2>3, <2>4, <2>5 DEF Control
<1>2. CASE Plugin
  BY <1>2 DEF Plugin, StartUp, Started, Terminate, ListenerClosed, SessionsTerminated
<1>3. CASE Client \/ OtherFormSaved \/ \E task \in Tasks : TakeLock(task)
  BY <1>3 DEF OtherFormSaved, Client, BeginStart, StartSession, EndSession, TakeLock
<1>4. CASE Credentials \/ UNCHANGED vars
  BY <1>4 DEF Credentials, vars
<1> QED
  BY <1>1, <1>2, <1>3, <1>4 DEF Next

(* Every step keeps the pairing manager's part, and the end of a credential final. *)
LEMMA PairingNext ==
    ASSUME IInv, ServiceInv', [Next]_vars
    PROVE  PairingInv' /\ [Final]_pairingVars
<1>1. PairingInv /\ ServiceInv
  BY DEF IInv
<1>2. CASE UNCHANGED pairingVars
  BY <1>1, <1>2 DEF pairingVars, PairingInv
<1>3. CASE PairingCalls \/ RevokeWaiting \/ ClosePairing
  BY <1>1, <1>3, PairingCallKeeps, RevokeWaitingKeeps, ClosePairingKeeps
<1>4. CASE Sync
  <2>1. listener'.url \in Urls \cup {NoUrl}
    BY ServiceAssumption DEF DataInv, Listeners
  <2>2. SyncedUrl(listener'.ready, listener'.url) \in Urls \cup {NoUrl}
    BY <2>1, ServiceAssumption DEF SyncedUrl, ProxyUrl
  <2> QED
    BY <1>1, <1>4, <2>2, ConfigureKeeps DEF Sync
<1>5. CASE pc["control"] = "url save" /\ Announce(wanted)
  <2>1. wanted \in Urls \cup {NoUrl} /\ NoUrl \in Urls \cup {NoUrl}
    BY <1>1, ServiceAssumption DEF StepInv
  <2>2. UNCHANGED pairingVars \/ Configure(NoUrl) \/ Configure(wanted)
    BY <1>5 DEF Announce
  <2> QED
    BY <1>1, <1>2, <2>1, <2>2, ConfigureKeeps
<1> QED
  BY <1>2, <1>3, <1>4, <1>5, PairingSteps

(* The inductive invariant, for all instances. *)
LEMMA Invariant == Spec => []IInv
<1>1. IInv /\ [Next]_vars => IInv'
  BY ServiceNext, PairingNext DEF IInv
<1> QED
  BY <1>1, InitInvariant, PTL DEF Spec

-----------------------------------------------------------------------------
(* A credential that waits can be exchanged, by its code and at its URL. *)
THEOREM CredentialsAreCurrentHolds == Spec => []CredentialsAreCurrent
<1>1. IInv => CredentialsAreCurrent
  BY PairingInvImplies DEF IInv
<1> QED
  BY <1>1, Invariant, PTL

(* The end of a credential is final, and it is never exchanged past its time. *)
THEOREM EndIsFinalHolds == Spec => EndIsFinal
<1>1. IInv /\ IInv' /\ [Next]_vars => [Final]_pairingVars
  BY PairingNext DEF IInv
<1>2. Spec => [][Final]_pairingVars
  BY <1>1, Invariant, PTL DEF Spec
<1> QED
  BY <1>2 DEF EndIsFinal, Final

(* The switch is obeyed by the sessions, the listener and the gate alike. *)
THEOREM SwitchIsObeyedHolds == Spec => []SwitchIsObeyed
<1>1. ASSUME IInv PROVE SwitchIsObeyed
  <2>1. PairingTypeOK
    BY <1>1, PairingInvImplies DEF IInv
  <2>2. TypeOK
    BY <1>1, <2>1 DEF IInv, DataInv, Files, Listeners, TypeOK
  <2>3. StoppedServiceIsQuiet
    BY <1>1 DEF IInv, OffIsQuiet, StoppedServiceIsQuiet, Quiet
  <2>4. GateIsClosed
    BY <1>1 DEF IInv, GateInv
  <2> QED
    BY <2>2, <2>3, <2>4 DEF SwitchIsObeyed
<1> QED
  BY <1>1, Invariant, PTL

(* Between operations a credential's URL is served by the listener or the proxy. *)
THEOREM UrlIsLiveHolds == Spec => []UrlIsLive
<1>1. IInv => UrlIsLive
  BY DEF IInv, UrlIsServed, UrlIsLive, Quiet
<1> QED
  BY <1>1, Invariant, PTL

(* Between operations a restart of the service changes nothing. *)
THEOREM RestartChangesNothingHolds == Spec => []RestartChangesNothing
<1>1. ASSUME IInv PROVE RestartChangesNothing
  BY <1>1 DEF IInv, SettingsAgree, Agrees, RestartChangesNothing, Quiet, DataInv, Files
<1> QED
  BY <1>1, Invariant, PTL
=============================================================================
