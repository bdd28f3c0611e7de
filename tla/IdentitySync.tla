----------------------------- MODULE IdentitySync -----------------------------
(***************************************************************************)
(* The identity under which Quest sessions run.  It is kept in four places *)
(* that change one after the other: the plugin's configuration, the server *)
(* identity file (core/server_identity.py), the identity guardian (another *)
(* plugin, behind adapters/identity_control_plane.py) and the adapter that *)
(* authorizes sessions (adapters/identity.py).  The dashboard saves it     *)
(* (core/operator_settings.py, transport/pairing.py), or lets the relation *)
(* plugin resolve it for a natural person; a session start repeats the     *)
(* latter until it has succeeded once.  A save is "pending" in the         *)
(* configuration until every place has it.                                 *)
(*                                                                         *)
(* A save of the configuration is one step with the code that runs on      *)
(* after it.  _identity_sync_lock is held from the first write of a save   *)
(* to the last.  A client stands for the client id and the digest of its   *)
(* API key, which are always written together; an account for bot and user.*)
(***************************************************************************)
EXTENDS Naturals, FiniteSets

CONSTANTS Clients, Platforms, Accounts, Persons,
          Unset            \* "": not configured

ASSUME IdentityAssumption ==
    Unset \notin Clients \cup Platforms \cup Accounts \cup Persons

VARIABLES config,           \* the saved settings
          file,             \* the account of the server identity file
          readOnly,         \* external: the guardian's read-only binding of each client
          adapter,          \* what sessions are authorized against
          refreshed,        \* relationship_refresh_ready
          doing             \* what the dashboard and the session start are doing

identityVars == <<config, file, readOnly, adapter, refreshed, doing>>

Tasks == {"dashboard", "session"}
AtRest == [step |-> "idle"]

(* QuestSessionAuthorizationAdapter as the plugin builds it. *)
Loaded(saved, account) ==
    LET ready == saved.sync = "ready"
    IN [client |-> saved.client, platform |-> saved.platform, person |-> saved.person,
        account |-> IF ready THEN account ELSE Unset, ready |-> ready]

(* A new installation: nothing is configured and nothing is pending. *)
IdentityInit ==
    /\ config = [client |-> Unset, platform |-> Unset, person |-> Unset,
                 source |-> "manual", sync |-> "ready"]
    /\ file = Unset
    /\ readOnly = [c \in Clients |-> Unset]
    /\ adapter = Loaded(config, file)
    /\ refreshed = TRUE
    /\ doing = [t \in Tasks |-> AtRest]

At(t, step) == doing[t].step = step
Goto(t, step) == doing' = [doing EXCEPT ![t].step = step]
Finish(t) == doing' = [doing EXCEPT ![t] = AtRest]
Closing(selection) ==
    doing' = [doing EXCEPT !["dashboard"] = [step |-> "close", selection |-> selection]]

(* A save holds the identity lock from its first write to its last. *)
Locked(t) == doing[t].step \in {"bind", "store", "ready", "revoke", "clear"}
LockFree == \A t \in Tasks : ~Locked(t)

-----------------------------------------------------------------------------
(* A save, of the manual identity (person = Unset) or of a resolved one: the
   configuration says pending, the guardian binds, the file is written, the
   configuration says ready.  Any step may fail; the save then ends there. *)

SaveQuestIdentity(c, p, a) ==
    /\ At("dashboard", "idle")
    /\ doing' = [doing EXCEPT !["dashboard"] =
                    [step |-> "save", client |-> c, platform |-> p, account |-> a, person |-> Unset]]
    /\ UNCHANGED <<config, file, readOnly, adapter, refreshed>>

MarkedPending(t) ==
    /\ At(t, "save") /\ LockFree
    /\ config' = IF doing[t].person = Unset
                 THEN [client |-> doing[t].client, platform |-> doing[t].platform,
                       person |-> Unset, source |-> "manual", sync |-> "pending"]
                 ELSE [config EXCEPT !.platform = doing[t].platform, !.person = doing[t].person,
                                     !.source = "relationship", !.sync = "pending"]
    /\ adapter' = [adapter EXCEPT !.ready = FALSE]
    /\ Goto(t, "bind")
    /\ UNCHANGED <<file, readOnly, refreshed>>

(* The guardian's owner binding, of a manual identity, leaves its read-only one alone. *)
OwnerBound(t) ==
    /\ At(t, "bind") /\ doing[t].person = Unset
    /\ Goto(t, "store")
    /\ UNCHANGED <<config, file, readOnly, adapter, refreshed>>

ReadOnlyBound(t) ==
    /\ At(t, "bind") /\ doing[t].person # Unset
    /\ readOnly' = [readOnly EXCEPT ![doing[t].client] = doing[t].account]
    /\ Goto(t, "store")
    /\ UNCHANGED <<config, file, adapter, refreshed>>

AccountStored(t) ==
    /\ At(t, "store")
    /\ file' = doing[t].account
    /\ Goto(t, "ready")
    /\ UNCHANGED <<config, readOnly, adapter, refreshed>>

MarkedReady(t) ==
    /\ At(t, "ready")
    /\ config' = [config EXCEPT !.sync = "ready"]
    /\ adapter' = [client |-> doing[t].client, platform |-> doing[t].platform,
                   person |-> doing[t].person, account |-> doing[t].account, ready |-> TRUE]
    /\ IF t = "session" THEN refreshed' = TRUE /\ Finish(t)
       ELSE UNCHANGED refreshed /\ Closing(doing[t].person # Unset)
    /\ UNCHANGED <<file, readOnly>>

(* A failed refresh of a session start is tried again by the next. *)
StepFails(t) ==
    /\ doing[t].step \in {"save", "bind", "store", "ready", "revoke", "clear", "pend",
                        "close"}
    /\ At(t, "save") => LockFree
    /\ refreshed' = (refreshed /\ t # "session")
    /\ Finish(t)
    /\ UNCHANGED <<config, file, readOnly, adapter>>

-----------------------------------------------------------------------------
(* The relation plugin is asked for the account of a person.  The client is read
   when the answer comes, before the lock is taken. *)

SelectPerson(x) ==
    /\ At("dashboard", "idle")
    /\ doing' = [doing EXCEPT !["dashboard"] = [step |-> "resolve", person |-> x]]
    /\ UNCHANGED <<config, file, readOnly, adapter, refreshed>>

RefreshIdentity ==
    /\ At("session", "idle") /\ ~refreshed
    /\ IF config.person = Unset
       THEN refreshed' = TRUE /\ UNCHANGED doing
       ELSE /\ doing' = [doing EXCEPT !["session"] = [step |-> "resolve", person |-> config.person]]
            /\ UNCHANGED refreshed
    /\ UNCHANGED <<config, file, readOnly, adapter>>

PersonResolved(t, p, a) ==
    /\ At(t, "resolve")
    /\ IF config.client = Unset THEN Finish(t)
       ELSE doing' = [doing EXCEPT ![t] = [step |-> "save", client |-> config.client,
                         platform |-> p, account |-> a, person |-> doing[t].person]]
    /\ UNCHANGED <<config, file, readOnly, adapter, refreshed>>

PersonUnresolved(t) ==
    /\ At(t, "resolve")
    /\ IF t = "session" /\ config.person # Unset THEN Goto(t, "pend") ELSE Finish(t)
    /\ refreshed' = (refreshed /\ t # "session")
    /\ UNCHANGED <<config, file, readOnly, adapter>>

(* Seeded fault: the configuration is marked pending, the adapter is not told. *)
MarkedUnresolvedInFile ==
    /\ At("session", "pend")
    /\ config' = [config EXCEPT !.sync = "pending"]
    /\ refreshed' = FALSE
    /\ Finish("session")
    /\ UNCHANGED <<file, readOnly, adapter>>

(* mark_relationship_identity_sync_pending does not take the identity lock. *)
MarkedUnresolved ==
    /\ At("session", "pend")
    /\ config' = [config EXCEPT !.sync = "pending"]
    /\ adapter' = [adapter EXCEPT !.ready = FALSE]
    /\ refreshed' = FALSE
    /\ Finish("session")
    /\ UNCHANGED <<file, readOnly>>

-----------------------------------------------------------------------------
(* The person is given up: the guardian revokes its binding, and the rest of the
   identity, as it was read at the beginning, stays in force. *)

Preserved == config.client # Unset /\ config.platform # Unset /\ file # Unset

ClearPerson ==
    /\ At("dashboard", "idle") /\ LockFree
    /\ doing' = [doing EXCEPT !["dashboard"] =
                    [step |-> IF config.source = "relationship" THEN "revoke" ELSE "clear",
                     preserved |-> Preserved, client |-> config.client,
                     platform |-> config.platform, account |-> file]]
    /\ UNCHANGED <<config, file, readOnly, adapter, refreshed>>

(* Seeded fault: a guardian that fails to revoke does not stop the person being cleared. *)
BindingRevokedOrNot ==
    /\ At("dashboard", "revoke") /\ config.client # Unset
    /\ readOnly' \in {readOnly, [readOnly EXCEPT ![config.client] = Unset]}
    /\ Goto("dashboard", "clear")
    /\ UNCHANGED <<config, file, adapter, refreshed>>

BindingRevoked ==
    /\ At("dashboard", "revoke") /\ config.client # Unset
    /\ readOnly' = [readOnly EXCEPT ![config.client] = Unset]
    /\ Goto("dashboard", "clear")
    /\ UNCHANGED <<config, file, adapter, refreshed>>

PersonCleared ==
    /\ At("dashboard", "clear")
    /\ LET kept == doing["dashboard"]
       IN /\ config' = [config EXCEPT !.person = Unset,
                            !.source = IF @ = "relationship" THEN "preserved" ELSE @,
                            !.sync = IF kept.preserved THEN "ready" ELSE @]
          /\ adapter' = IF kept.preserved
                        THEN [client |-> kept.client, platform |-> kept.platform,
                              person |-> Unset, account |-> kept.account, ready |-> TRUE]
                        ELSE [adapter EXCEPT !.person = Unset]
    /\ Closing(TRUE)
    /\ UNCHANGED <<file, readOnly, refreshed>>

(* After every save the dashboard ends the sessions, which suspends, before a
   selection or the end of one counts as the refresh that session starts wait for. *)
SessionsClosed ==
    /\ At("dashboard", "close")
    /\ refreshed' = (refreshed \/ doing["dashboard"].selection)
    /\ Finish("dashboard")
    /\ UNCHANGED <<config, file, readOnly, adapter>>

(* save_trusted_platform_id does not take the identity lock either. *)
SaveTrustedPlatform(p) ==
    /\ config' = [config EXCEPT !.platform = p]
    /\ adapter' = [adapter EXCEPT !.platform = p]
    /\ UNCHANGED <<file, readOnly, refreshed, doing>>

(* The plugin is started again, after an orderly end or a crash. *)
IdentityRestart ==
    /\ adapter' = Loaded(config, file)
    /\ refreshed' = (config.person = Unset)
    /\ doing' = [t \in Tasks |-> AtRest]
    /\ UNCHANGED <<config, file, readOnly>>

-----------------------------------------------------------------------------
IdentityNext ==
    \/ \E c \in Clients, p \in Platforms, a \in Accounts : SaveQuestIdentity(c, p, a)
    \/ \E x \in Persons : SelectPerson(x)
    \/ RefreshIdentity \/ MarkedUnresolved
    \/ ClearPerson \/ BindingRevoked \/ PersonCleared \/ SessionsClosed
    \/ \E p \in Platforms \cup {Unset} : SaveTrustedPlatform(p)
    \/ \E t \in Tasks :
           \/ MarkedPending(t) \/ OwnerBound(t) \/ ReadOnlyBound(t)
           \/ AccountStored(t) \/ MarkedReady(t) \/ StepFails(t) \/ PersonUnresolved(t)
           \/ \E p \in Platforms, a \in Accounts : PersonResolved(t, p, a)
    \/ IdentityRestart

IdentitySpec == IdentityInit /\ [][IdentityNext]_identityVars

-----------------------------------------------------------------------------
IdentityTypeOK ==
    /\ config \in [client : Clients \cup {Unset}, platform : Platforms \cup {Unset},
                   person : Persons \cup {Unset},
                   source : {"manual", "relationship", "preserved"}, sync : {"ready", "pending"}]
    /\ file \in Accounts \cup {Unset}
    /\ readOnly \in [Clients -> Accounts \cup {Unset}]
    /\ adapter \in [client : Clients \cup {Unset}, platform : Platforms \cup {Unset},
                    person : Persons \cup {Unset}, account : Accounts \cup {Unset},
                    ready : BOOLEAN]
    /\ refreshed \in BOOLEAN
    /\ Cardinality({t \in Tasks : Locked(t)}) <= 1

(* Whatever step of a save failed, and whoever saves beside it, sessions are
   authorized exactly when the configuration says that the identity is complete,
   and then against the account of the identity file, for the configured person: a
   restart changes none of it. *)
BindingIsPersisted ==
    /\ IdentityTypeOK
    /\ adapter.ready <=> config.sync = "ready"
    /\ adapter.ready => adapter.account = file /\ adapter.person = config.person

(* An identity in force is not replaced: another account or person comes into force
   only after a state in which no session is authorized, whoever saves, refreshes or
   restarts meanwhile.  Only giving up the person leaves the rest in force. *)
IdentityIsNotSwapped ==
    [][adapter.ready /\ adapter'.ready =>
           /\ adapter'.account = adapter.account
           /\ adapter'.person \in {adapter.person, Unset}]_identityVars

(* Once the person is given up, the guardian no longer grants its account to the
   configured client. *)
OptOutRevokes ==
    config.source = "preserved" => readOnly[config.client] = Unset

==============================================================================
