---------------------------- MODULE BridgeService -----------------------------
(***************************************************************************)
(* The switch of the bridge (core/service_control.py): the service is      *)
(* turned on and off, and its listener moved to another port, while        *)
(* clients start sessions, the dashboard creates credentials and the       *)
(* plugin is being terminated.  Each operation saves the setting, closes   *)
(* the session gate, works the listener (transport/builtin_listener.py),   *)
(* opens the gate again and tells the pairing manager which URL is good    *)
(* now (main.py); any of these may fail, and so may the rollback.  A save  *)
(* goes through the configuration in memory (core/config_persistence.py),  *)
(* which the saves of all other forms write to the same file.              *)
(*                                                                         *)
(* A step is what a task does up to its next suspension: the save, a start *)
(* or stop of the listener, the end of a session.  service._lock lets one  *)
(* operation of the dashboard run at a time.  The start and the end of the *)
(* plugin do not take it: the dashboard is taken to wait for the start,    *)
(* the end comes when it comes.  A call of the listener waits for its      *)
(* _lifecycle_lock.                                                        *)
(***************************************************************************)
EXTENDS Pairing

CONSTANTS Ports,          \* listener ports; a URL is known by its port
          Proxy,          \* the external exchange URL of the configuration
          Clients,
          MaxAdrift       \* bound on the settings left by saves that were not done

ASSUME ServiceAssumption ==
    /\ Urls = Ports \cup {Proxy}
    /\ Proxy \notin Ports
    /\ MaxAdrift \in Nat

VARIABLES setup,          \* the fixed configuration: listener, TLS, proxy URL
          config,         \* the switch and the port in memory
          file,           \* external: the same in the configuration's file
          enabled,        \* service.enabled
          accepting,      \* sessions._accepting
          terminated,     \* sessions._terminated
          sessions,       \* open sessions
          starting,       \* session starts that found the service enabled
          closing,        \* the snapshot that close_all_sessions works through
          listener,       \* ready, closed, port and public URL
          lock,           \* who holds the listener's _lifecycle_lock
          pc,             \* where each of the three tasks is
          wanted,         \* the port or URL of the operation
          undo,           \* what set_listener_port goes back to, and whether it did
          adrift          \* history: settings whose last save, or rollback, was not done

settingVars == <<config, file, adrift>>
gateVars    == <<enabled, accepting, terminated, sessions, starting, closing>>
controlVars == <<wanted, undo>>
vars == <<pairingVars, setup, settingVars, gateVars, listener, lock, pc, controlVars>>

Tasks == {"startup", "control", "shutdown"}

Stops  == {"stop unused", "stop disabled", "stop failed", "stop", "port stop", "undo stop", "close"}
SaveSteps == {"enable save", "disable save", "port save", "url save"}
Starts == {"start", "enable start", "port start", "undo start"}

Setups == {s \in [listener : BOOLEAN, tls : BOOLEAN, proxy : BOOLEAN] :
              s.tls => s.listener /\ ~s.proxy}

Nothing == [port |-> NoUrl, ready |-> FALSE]

ProxyUrl == IF setup.proxy THEN Proxy ELSE NoUrl

Init ==
    /\ setup \in Setups
    /\ \E on \in BOOLEAN, p \in Ports, u \in Ports \cup {NoUrl} :
          /\ config = [enabled |-> on, port |-> p] /\ file = config
          /\ enabled = on
          /\ listener = [ready |-> FALSE, closed |-> FALSE, port |-> p, url |-> u]
    /\ NoSessions(ProxyUrl)
    /\ accepting = TRUE /\ terminated = FALSE
    /\ sessions = {} /\ starting = {} /\ closing = {}
    /\ lock = "none"
    /\ pc = [startup |-> "begin", control |-> "idle", shutdown |-> "up"]
    /\ wanted = NoUrl /\ undo = Nothing
    /\ adrift = {}

-----------------------------------------------------------------------------
(* main._sync_pairing_transport *)
SyncedUrl(ready, url) ==
    IF ready /\ url # NoUrl THEN url
    ELSE IF setup.tls THEN NoUrl
    ELSE ProxyUrl

Sync == Configure(SyncedUrl(listener'.ready, listener'.url))

(* Seeded fault: the end of the plugin is overruled. *)
GateUnguarded(open) == accepting' = open

(* set_accepting *)
Gate(open) == accepting' = (open /\ ~terminated)

At(task, step) == pc[task] = step /\ (step \in Stops \cup Starts => lock = task)
Goto(task, step) == pc' = [pc EXCEPT ![task] = step]

(* The operation is over, and its local variables with it. *)
Return == Goto("control", "idle") /\ wanted' = NoUrl /\ undo' = Nothing
Continue(step) == Goto("control", step) /\ UNCHANGED <<wanted, undo>>

(* The outcomes of listener.start: it never raises, and does nothing when the
   listener is ready, closed or off. *)
Ready == IF listener.ready THEN {TRUE}
         ELSE IF listener.closed \/ ~setup.listener THEN {FALSE}
         ELSE BOOLEAN

(* configure_port moves the public URL too. *)
Moved(p) == [listener EXCEPT !.port = p, !.url = IF @ = NoUrl THEN NoUrl ELSE p]

-----------------------------------------------------------------------------
(* The listener's lock: a stop takes the listener down at once, then waits for
   its requests to end. *)

TakeLock(task) ==
    /\ lock = "none" /\ pc[task] \in Stops \cup Starts
    /\ lock' = task
    /\ listener' = [listener EXCEPT !.ready = @ /\ pc[task] \in Starts,
                                    !.closed = @ \/ pc[task] = "close"]
    /\ UNCHANGED <<pairingVars, setup, settingVars, gateVars, pc, controlVars>>

-----------------------------------------------------------------------------
(* service.initialize, without service._lock. *)

StartUp ==
    /\ At("startup", "begin")
    /\ Gate(FALSE)
    /\ Goto("startup", IF ~enabled THEN "stop disabled"
                       ELSE IF setup.listener THEN "start" ELSE "stop unused")
    /\ UNCHANGED <<pairingVars, setup, settingVars, enabled, terminated, sessions, starting, closing,
                   listener, lock, controlVars>>

Started ==
    /\ \E step \in {"start", "stop unused", "stop disabled"} :
          /\ At("startup", step)
          /\ IF step = "start" THEN \E r \in Ready : listener' = [listener EXCEPT !.ready = r]
                               ELSE UNCHANGED listener
          /\ IF step = "stop disabled" THEN UNCHANGED accepting ELSE Gate(TRUE)
    /\ Sync
    /\ lock' = "none" /\ Goto("startup", "done")
    /\ UNCHANGED <<setup, settingVars, enabled, terminated, sessions, starting, closing, controlVars>>

-----------------------------------------------------------------------------
(* The dashboard, once the plugin has started. *)

Ask(step, w) ==
    /\ pc["startup"] = "done" /\ pc["control"] = "idle" /\ pc["shutdown"] # "down"
    /\ Goto("control", step)
    /\ wanted' = w
    /\ UNCHANGED <<pairingVars, setup, settingVars, gateVars, listener, lock, undo>>

AskService == Ask(IF enabled THEN "disable save" ELSE "enable save", NoUrl)
AskPort == \E p \in Ports \ {listener.port} : Ask("port save", p)
AskUrl == \E u \in Ports \cup {NoUrl} : Ask("url save", u)

(* What the operation makes of the settings.  The URLs are left out of them: the plugin
   keeps its own. *)
Changed(step) ==
    CASE step = "enable save"  -> [config EXCEPT !.enabled = TRUE]
      [] step = "disable save" -> [config EXCEPT !.enabled = FALSE]
      [] step = "port save"    -> [config EXCEPT !.port = wanted]
      [] step = "url save"     -> config

Touched(step) == CASE step = "port save" -> {"port"} [] step = "url save" -> {} [] OTHER -> {"enabled"}

Adrift(settings) == adrift' = adrift \cup settings /\ Cardinality(adrift') <= MaxAdrift

(* _persist_changes.  A save that is done has written all that is in memory. *)
Persisted(new, settings) == config' = new /\ file' = new /\ adrift' = adrift \ settings
PersistedAt(step) == At("control", step) /\ Persisted(Changed(step), Touched(step))

(* Seeded fault: what could not be saved stays in memory. *)
SaveForgotten ==
    /\ \E step \in SaveSteps : At("control", step) /\ config' = Changed(step)
    /\ Return
    /\ UNCHANGED <<pairingVars, setup, file, adrift, gateVars, listener, lock>>

(* A save that fails is put back. *)
SaveFails ==
    /\ \E step \in SaveSteps : At("control", step)
    /\ Return
    /\ UNCHANGED <<pairingVars, setup, settingVars, gateVars, listener, lock>>

(* One that the host calls superseded is refused too, but stays in memory. *)
SaveSuperseded ==
    /\ \E step \in SaveSteps :
          /\ At("control", step)
          /\ config' = Changed(step) /\ Adrift(Touched(step))
    /\ Return
    /\ UNCHANGED <<pairingVars, setup, file, gateVars, listener, lock>>

(* A rollback may end in the same three ways; the operation goes on all the same. *)
RolledBack(old, settings) ==
    \/ Persisted(old, settings)
    \/ config' \in {config, old} /\ Adrift(settings) /\ UNCHANGED file

(* The save of another form of the dashboard writes all that is in memory, too. *)
OtherFormSaved ==
    /\ file' = config
    /\ UNCHANGED <<pairingVars, setup, config, adrift, gateVars, listener, lock, pc, controlVars>>

(* set_enabled(True) *)
EnableSaved ==
    /\ PersistedAt("enable save")
    /\ Gate(FALSE)
    /\ Continue("enable start")
    /\ UNCHANGED <<pairingVars, setup, enabled, terminated, sessions, starting, closing, listener,
                   lock>>

Enabled ==
    /\ enabled' = TRUE
    /\ Gate(TRUE)
    /\ Sync
    /\ Return
    /\ UNCHANGED <<terminated, sessions, starting, closing>>

EnableStarted ==
    /\ At("control", "enable start")
    /\ lock' = "none"
    /\ \E r \in Ready :
          /\ listener' = [listener EXCEPT !.ready = r]
          /\ IF r \/ ~setup.listener
             THEN Enabled
             ELSE /\ Gate(FALSE) /\ Continue("stop failed")
                  /\ UNCHANGED <<pairingVars, enabled, terminated, sessions, starting, closing>>
    /\ UNCHANGED <<setup, settingVars>>

(* Without TLS the service goes on without its listener. *)
FailedStopped ==
    /\ At("control", "stop failed")
    /\ lock' = "none" /\ UNCHANGED listener
    /\ IF setup.tls
       THEN Continue("enable undo") /\ UNCHANGED <<pairingVars, gateVars>>
       ELSE Enabled
    /\ UNCHANGED <<setup, settingVars>>

EnableUndone ==
    /\ At("control", "enable undo")
    /\ RolledBack([config EXCEPT !.enabled = FALSE], {"enabled"})
    /\ Return
    /\ UNCHANGED <<pairingVars, setup, gateVars, listener, lock>>

(* set_enabled(False). *)
DisableSaved ==
    /\ PersistedAt("disable save")
    /\ enabled' = FALSE /\ Gate(FALSE)
    /\ closing' = sessions
    /\ Continue("disable close")
    /\ UNCHANGED <<pairingVars, setup, terminated, sessions, starting, listener, lock>>

CloseOne ==
    /\ \E step \in {"disable close", "port close"} : At("control", step)
    /\ \E c \in closing : closing' = closing \ {c} /\ sessions' = sessions \ {c}
    /\ UNCHANGED <<pairingVars, setup, settingVars, enabled, accepting, terminated, starting, listener,
                   lock, pc, controlVars>>

AllClosed ==
    /\ closing = {}
    /\ \/ At("control", "disable close") /\ RevokeWaiting /\ Continue("stop")
       \/ At("control", "port close") /\ Continue("port stop") /\ UNCHANGED pairingVars
    /\ UNCHANGED <<setup, settingVars, gateVars, listener, lock>>

DisableStopped ==
    /\ At("control", "stop")
    /\ lock' = "none" /\ Return
    /\ UNCHANGED listener /\ Sync
    /\ UNCHANGED <<setup, settingVars, gateVars>>

(* set_listener_port *)
PortSaved ==
    /\ PersistedAt("port save")
    /\ undo' = [port |-> listener.port, ready |-> FALSE]
    /\ Gate(FALSE)
    /\ IF listener.ready
       THEN closing' = sessions /\ Goto("control", "port close")
       ELSE UNCHANGED closing /\ Goto("control", "port stop")
    /\ UNCHANGED <<pairingVars, setup, enabled, terminated, sessions, starting, listener, lock, wanted>>

PortStopped ==
    /\ At("control", "port stop")
    /\ lock' = "none"
    /\ listener' = Moved(wanted)
    /\ IF enabled /\ setup.listener
       THEN Continue("port start") /\ UNCHANGED <<pairingVars, accepting>>
       ELSE Return /\ Sync /\ Gate(enabled)
    /\ UNCHANGED <<setup, settingVars, enabled, terminated, sessions, starting, closing>>

PortStarted ==
    /\ At("control", "port start")
    /\ lock' = "none"
    /\ \E r \in Ready :
          /\ listener' = [listener EXCEPT !.ready = r]
          /\ \/ r /\ Sync /\ Return /\ Gate(enabled)
             \/ r /\ Sync /\ listener.url # NoUrl /\ Continue("address save") /\ UNCHANGED accepting
             \/ ~r /\ Continue("undo stop") /\ UNCHANGED <<pairingVars, accepting>>
    /\ UNCHANGED <<setup, settingVars, enabled, terminated, sessions, starting, closing>>

(* A panel without an address of its own gets the listener's, which is saved before
   the gate opens, without the lock of the other saves.  A save that fails or is
   superseded goes unnoticed. *)
AddressSaved ==
    /\ At("control", "address save")
    /\ file' \in {file, config} /\ Gate(enabled)
    /\ Return
    /\ UNCHANGED <<pairingVars, setup, config, adrift, enabled, terminated, sessions, starting,
                   closing, listener, lock>>

UndoStopped ==
    /\ At("control", "undo stop")
    /\ lock' = "none" /\ Continue("undo start")
    /\ listener' = Moved(undo.port)
    /\ UNCHANGED <<pairingVars, setup, settingVars, gateVars>>

UndoStarted ==
    /\ At("control", "undo start")
    /\ lock' = "none" /\ Goto("control", "port undo")
    /\ \E r \in Ready :
          /\ listener' = [listener EXCEPT !.ready = r]
          /\ undo' = [undo EXCEPT !.ready = r]
    /\ UNCHANGED <<pairingVars, setup, settingVars, gateVars, wanted>>

(* Seeded fault: the pairing manager is not told. *)
PortUndoneSilently ==
    /\ At("control", "port undo")
    /\ RolledBack([config EXCEPT !.port = undo.port], {"port"})
    /\ Gate(enabled /\ undo.ready)
    /\ Return
    /\ UNCHANGED <<pairingVars, listener, setup, enabled, terminated, sessions, starting, closing,
                   lock>>

PortUndone ==
    /\ At("control", "port undo")
    /\ RolledBack([config EXCEPT !.port = undo.port], {"port"})
    /\ Gate(enabled /\ undo.ready)
    /\ Return
    /\ UNCHANGED listener /\ Sync
    /\ UNCHANGED <<setup, enabled, terminated, sessions, starting, closing, lock>>

(* set_public_urls, and what its handler tells the pairing manager.  Under TLS
   a URL of another authority than the certificate's is not taken. *)
ConfigurePublicUrl(u) == listener' = [listener EXCEPT !.url = u]

Announce(u) ==
    IF ~setup.listener THEN UNCHANGED pairingVars
    ELSE IF ~listener.ready THEN Configure(NoUrl)
    ELSE Configure(u) \/ (setup.tls /\ Configure(NoUrl))

UrlSaved ==
    /\ PersistedAt("url save")
    /\ ConfigurePublicUrl(wanted)
    /\ Announce(wanted)
    /\ Return
    /\ UNCHANGED <<setup, gateVars, lock>>

-----------------------------------------------------------------------------
(* main.terminate *)

Terminate ==
    /\ pc["startup"] = "done" /\ At("shutdown", "up")
    /\ Goto("shutdown", "close")
    /\ UNCHANGED <<pairingVars, setup, settingVars, gateVars, listener, lock, controlVars>>

ListenerClosed ==
    /\ At("shutdown", "close")
    /\ lock' = "none" /\ Goto("shutdown", "sessions")
    /\ ClosePairing
    /\ UNCHANGED <<setup, settingVars, gateVars, listener, controlVars>>

SessionsTerminated ==
    /\ At("shutdown", "sessions")
    /\ accepting' = FALSE /\ terminated' = TRUE /\ sessions' = {}
    /\ Goto("shutdown", "down")
    /\ UNCHANGED <<pairingVars, setup, settingVars, enabled, starting, closing, listener, lock, controlVars>>

-----------------------------------------------------------------------------
(* Clients.  A start looks at the switch, then waits for the identity of the
   user before it comes to the gate.  (The limit of sessions is left out: it only
   refuses.) *)

BeginStart(c) ==
    /\ enabled /\ c \notin starting
    /\ starting' = starting \cup {c}
    /\ UNCHANGED <<pairingVars, setup, settingVars, enabled, accepting, terminated, sessions, closing,
                   listener, lock, pc, controlVars>>

StartSession(c) ==
    /\ c \in starting
    /\ starting' = starting \ {c}
    /\ sessions' = IF accepting THEN sessions \cup {c} ELSE sessions
    /\ UNCHANGED <<pairingVars, setup, settingVars, enabled, accepting, terminated, closing, listener, lock,
                   pc, controlVars>>

EndSession(c) ==
    /\ enabled /\ c \in sessions
    /\ sessions' = sessions \ {c}
    /\ UNCHANGED <<pairingVars, setup, settingVars, enabled, accepting, terminated, starting, closing,
                   listener, lock, pc, controlVars>>

-----------------------------------------------------------------------------
Control ==
    \/ AskService \/ AskPort \/ AskUrl \/ SaveFails \/ SaveSuperseded
    \/ EnableSaved \/ EnableStarted \/ FailedStopped \/ EnableUndone
    \/ DisableSaved \/ CloseOne \/ AllClosed \/ DisableStopped
    \/ PortSaved \/ PortStopped \/ PortStarted \/ AddressSaved
    \/ UndoStopped \/ UndoStarted \/ PortUndone \/ UrlSaved

Plugin == StartUp \/ Started \/ Terminate \/ ListenerClosed \/ SessionsTerminated

Client == \E c \in Clients : BeginStart(c) \/ StartSession(c) \/ EndSession(c)

Credentials ==
    /\ PairingCalls
    /\ UNCHANGED <<setup, settingVars, gateVars, listener, lock, pc, controlVars>>

Next == Control \/ OtherFormSaved \/ Plugin \/ Client \/ Credentials \/ \E task \in Tasks : TakeLock(task)

Spec == Init /\ [][Next]_vars

-----------------------------------------------------------------------------
TypeOK ==
    /\ PairingTypeOK
    /\ {config, file} \subseteq [enabled : BOOLEAN, port : Ports]
    /\ adrift \subseteq {"enabled", "port"}
    /\ \A b \in {enabled, accepting, terminated} : b \in BOOLEAN
    /\ sessions \subseteq Clients /\ starting \subseteq Clients /\ closing \subseteq Clients
    /\ listener \in [ready : BOOLEAN, closed : BOOLEAN, port : Ports, url : Ports \cup {NoUrl}]
    /\ lock \in Tasks \cup {"none"}

Quiet == pc["startup"] = "done" /\ pc["control"] = "idle"

(* A service that was turned off and confirmed so has no session and no listener,
   whatever clients started in the meantime.  (An operation that overtakes the
   start of the plugin is excepted.) *)
StoppedServiceIsQuiet == Quiet /\ ~enabled => sessions = {} /\ ~listener.ready

(* The gate is never open for a service that is off, moving to another port or
   terminated, whichever of the steps failed. *)
GateIsClosed ==
    accepting /\ pc["startup"] = "done" =>
        enabled /\ ~terminated /\ pc["control"] \in {"idle", "disable save", "port save", "url save"}

(* The switch is obeyed by the sessions, the listener and the gate alike. *)
SwitchIsObeyed == TypeOK /\ StoppedServiceIsQuiet /\ GateIsClosed

(* Between operations the URL that new credentials carry is that of a listener
   that is serving, or the external proxy's. *)
UrlIsLive ==
    Quiet /\ pc["shutdown"] = "up" /\ exchangeUrl \in Ports =>
        listener.ready /\ listener.url = exchangeUrl

(* Between operations the switch and the port in the file are those in force, so that
   a restart changes nothing, and those in memory too, so that no save of another form
   changes that.  Excepted is a setting whose last save was superseded, and one whose
   rollback was not done, until it is saved again. *)
RestartChangesNothing ==
    Quiet => \A c \in {file, config} :
        /\ "enabled" \notin adrift => c.enabled = enabled
        /\ "port" \notin adrift => c.port = listener.port
==============================================================================
