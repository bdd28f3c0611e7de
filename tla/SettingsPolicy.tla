---------------------------- MODULE SettingsPolicy ----------------------------
(***************************************************************************)
(* The runtime policy of the bridge has two masters.  The dashboard saves  *)
(* settings of the plugin's own configuration and puts them into force     *)
(* (core/operator_settings.py).  The series kernel lays an overlay of      *)
(* managed values over it, which the plugin keeps in a file of its own     *)
(* (series_control.py), and may write values into the configuration itself *)
(* (main.py).                                                              *)
(*                                                                         *)
(* Two settings stand for all: "log", a switch that the dashboard saves    *)
(* with the diagnostics, and "limit", a number that it saves with the TTS  *)
(* settings.  Both are fields of the series contract.  A save holds        *)
(* _config_save_lock and suspends in the host's configuration, which takes *)
(* the new values into memory at once or from a thread, and then writes    *)
(* its file.  Overlay operations do not suspend.  That a caller's revision *)
(* is current is taken for granted: a stale one is refused before anything *)
(* else.                                                                   *)
(***************************************************************************)
EXTENDS Naturals

CONSTANTS Limits,         \* the well-formed values of limit
          Malformed       \* a value of limit that the configuration was given by hand

ASSUME LimitAssumption == Malformed \notin Limits

VARIABLES policyConfig,   \* the configuration in memory
          policyFile,     \* external: the configuration's file
          overlay,        \* the managed values
          overlayFile,    \* series-control.json
          mode,           \* "managed": the overlay is in force
          policyRuntime,  \* what the components work with
          saves,          \* the save of the dashboard and of the kernel
          undone,         \* history: settings that a failed save put back wrongly
          unsaved,        \* history: a rollback of the overlay could not be saved
          unheeded        \* history: policies that were put out of force

saved      == <<policyConfig, policyFile, undone>>
overlays   == <<overlay, overlayFile, mode, unsaved>>
policyVars == <<saved, overlays, policyRuntime, saves, unheeded>>

Settings == {"log", "limit"}
Writers  == {"dashboard", "kernel"}

Values(s) == IF s = "limit" THEN Limits ELSE BOOLEAN

(* Some of the settings with well-formed values: what _validate lets through. *)
Changes(ss) == {c \in [ss -> Limits \cup BOOLEAN] : \A s \in ss : c[s] \in Values(s)}
Patches == UNION {Changes(ss) : ss \in (SUBSET Settings) \ {{}}}
NoOverlay == [s \in {} |-> TRUE]

PolicyConfigs == [log : BOOLEAN, limit : Limits \cup {Malformed}]

NoSave == [step |-> "idle"]
PolicyGoto(w, step) == saves' = [saves EXCEPT ![w].step = step]

-----------------------------------------------------------------------------
(* Some of the values replaced. *)
Overlaid(changes, base) ==
    [s \in DOMAIN base |-> IF s \in DOMAIN changes THEN changes[s] ELSE base[s]]

(* effective_config, with an overlay that is in force. *)
Effective(conf, over) == Overlaid(over, conf)
InForce(m, over) == IF m = "managed" THEN over ELSE NoOverlay

(* _apply_series_control_runtime: it sets the logs first and raises on a malformed
   number. *)
Raises(policy) == policy.limit = Malformed
Applied(policy) ==
    [log |-> policy.log, limit |-> IF Raises(policy) THEN policyRuntime.limit ELSE policy.limit]

(* Where a runtime departs from the policy. *)
Departing(conf, m, over, run) ==
    LET policy == Effective(conf, InForce(m, over))
    IN {s \in Settings : run[s] # policy[s]}

(* sync_runtime, with the configuration as it is after the step. *)
PolicySync(over) ==
    LET policy == Effective(policyConfig', over)
    IN /\ policyRuntime' = Applied(policy)
       /\ unheeded' = IF Raises(policy) \/ over # InForce(mode', overlay')
                      THEN Departing(policyConfig', mode', overlay', policyRuntime') ELSE {}

-----------------------------------------------------------------------------
PolicyInit ==
    /\ policyConfig \in PolicyConfigs
    /\ policyFile = policyConfig
    /\ overlay \in Patches \cup {NoOverlay}
    /\ overlayFile = overlay
    /\ mode = IF overlay = NoOverlay THEN "native" ELSE "managed"
    /\ policyRuntime = Effective(policyConfig, overlay) /\ ~Raises(policyRuntime)
    /\ saves = [w \in Writers |-> NoSave]
    /\ undone = {} /\ unheeded = {}
    /\ unsaved = FALSE

-----------------------------------------------------------------------------
(* A save: it waits for the lock, remembers the old values, has the host take the
   new ones into memory, and the host writes its file or fails. *)

SaveDiagnosticsSettings ==
    /\ saves["dashboard"] = NoSave
    /\ \E c \in Changes({"log"}) :
          saves' = [saves EXCEPT !["dashboard"] = [step |-> "wait", changes |-> c]]
    /\ UNCHANGED <<saved, overlays, policyRuntime, unheeded>>

SaveTtsSettings ==
    /\ saves["dashboard"] = NoSave
    /\ \E c \in Changes({"limit"}) :
          saves' = [saves EXCEPT !["dashboard"] = [step |-> "wait", changes |-> c]]
    /\ UNCHANGED <<saved, overlays, policyRuntime, unheeded>>

(* What a failed save goes back to. *)
Previous(changes) == [s \in DOMAIN changes |-> policyConfig[s]]

(* The kernel's values are checked, and read for the case of a failure before the wait. *)
NativeWrite ==
    /\ saves["kernel"] = NoSave
    /\ \E s \in Settings : \E c \in Changes({s}) :
          saves' = [saves EXCEPT !["kernel"] =
                      [step |-> "wait", changes |-> c, previous |-> Previous(c)]]
    /\ UNCHANGED <<saved, overlays, policyRuntime, unheeded>>

PolicySaving(w) == saves[w].step \in {"saving", "written"}

PolicyLockTaken(w) ==
    /\ saves[w].step = "wait"
    /\ \A v \in Writers : ~PolicySaving(v)
    /\ saves' = [saves EXCEPT ![w] = [step |-> "saving", changes |-> @.changes, previous |->
                   IF w = "kernel" THEN @.previous ELSE Previous(@.changes)]]
    /\ UNCHANGED <<saved, overlays, policyRuntime, unheeded>>

(* The host's part: values that are not saved yet can already be read. *)
MemoryWritten(w) ==
    /\ saves[w].step = "saving"
    /\ policyConfig' = Overlaid(saves[w].changes, policyConfig)
    /\ PolicyGoto(w, "written")
    /\ UNCHANGED <<policyFile, undone, overlays, policyRuntime, unheeded>>

(* The host writes all it has in memory, and the save is over. *)
PolicyCommitted(w) ==
    /\ saves[w].step = "written"
    /\ policyFile' = policyConfig
    /\ undone' = {}
    /\ saves' = [saves EXCEPT ![w] = NoSave]
    /\ UNCHANGED <<policyConfig, overlays>>

(* The dashboard puts its settings into force, whatever the overlay says. *)
DashboardSaved ==
    /\ PolicyCommitted("dashboard")
    /\ LET changes == saves["dashboard"].changes
       IN /\ policyRuntime' = Overlaid(changes, policyRuntime)
          /\ unheeded' =
                (unheeded \ DOMAIN changes)
                \cup (DOMAIN changes \cap Departing(policyConfig, mode, overlay, policyRuntime'))

(* Seeded fault: the values are saved and not put into force. *)
NativeWrittenOnly == PolicyCommitted("kernel") /\ UNCHANGED <<policyRuntime, unheeded>>

NativeWritten == PolicyCommitted("kernel") /\ PolicySync(InForce(mode, overlay))

(* Seeded fault: what the host took into memory stays there. *)
DashboardFailedOnly ==
    /\ PolicySaving("dashboard")
    /\ saves' = [saves EXCEPT !["dashboard"] = NoSave]
    /\ UNCHANGED <<saved, overlays, policyRuntime, unheeded>>

(* The runtime was not touched by this save, but somebody may have read what the
   save now takes back. *)
DashboardFailed ==
    /\ PolicySaving("dashboard")
    /\ policyConfig' = Overlaid(saves["dashboard"].previous, policyConfig)
    /\ saves' = [saves EXCEPT !["dashboard"] = NoSave]
    /\ unheeded' = unheeded \cup (DOMAIN saves["dashboard"].changes
                                  \cap Departing(policyConfig', mode, overlay, policyRuntime))
    /\ UNCHANGED <<policyFile, undone, overlays, policyRuntime>>

NativeFailed ==
    /\ PolicySaving("kernel")
    /\ policyConfig' = Overlaid(saves["kernel"].previous, policyConfig)
    /\ undone' = {s \in Settings : policyConfig'[s] # policyFile[s]}
    /\ saves' = [saves EXCEPT !["kernel"] = NoSave]
    /\ UNCHANGED <<policyFile, overlays>>
    /\ PolicySync(InForce(mode, overlay))

-----------------------------------------------------------------------------
(* The overlay.  A change is saved and put into force; if either fails, the old
   overlay is, as far as that succeeds. *)

SetMode(m) ==
    /\ mode' = m
    /\ UNCHANGED <<saved, overlay, overlayFile, unsaved, saves>>
    /\ PolicySync(InForce(m, overlay))

(* Seeded fault: the old overlay is not saved again. *)
RestoredInMemory(written) ==
    /\ overlay' = overlay
    /\ overlayFile' = written /\ UNCHANGED unsaved
    /\ PolicySync(overlay)

(* _restore, after the file was written or not: the old overlay is saved again, if
   that succeeds, and put into force whatever the mode is. *)
RestoredAfter(written) ==
    /\ overlay' = overlay
    /\ \/ overlayFile' = overlay /\ unsaved' = FALSE
       \/ overlayFile' = written /\ unsaved' = (written # overlay)
    /\ PolicySync(overlay)

Changed(over) ==
    /\ UNCHANGED <<saved, saves>>
    /\ \/ /\ ~Raises(Effective(policyConfig, InForce(mode', over)))
          /\ overlay' = over /\ overlayFile' = over /\ unsaved' = FALSE
          /\ PolicySync(InForce(mode', over))
       \/ /\ Raises(Effective(policyConfig, InForce(mode', over)))
          /\ RestoredAfter(over)
       \/ RestoredAfter(overlayFile)

Patched(patch) ==
    [s \in DOMAIN patch \cup DOMAIN overlay |->
        IF s \in DOMAIN patch THEN patch[s] ELSE overlay[s]]

ApplyPatch == mode' = "managed" /\ \E patch \in Patches : Changed(Patched(patch))

ResetOverride ==
    /\ mode' = mode
    /\ \E ss \in SUBSET Settings : Changed([s \in DOMAIN overlay \ ss |-> overlay[s]])

(* The plugin is started again, after an orderly end or a crash.  With a malformed
   number in force it does not come up. *)
PolicyRestart ==
    /\ policyConfig' = policyFile
    /\ overlay' = overlayFile
    /\ mode' = IF overlayFile = NoOverlay THEN "native" ELSE "managed"
    /\ ~Raises(Effective(policyFile, overlayFile))
    /\ saves' = [w \in Writers |-> NoSave]
    /\ unsaved' = FALSE
    /\ undone' = {}
    /\ UNCHANGED <<policyFile, overlayFile>>
    /\ PolicySync(overlayFile)

-----------------------------------------------------------------------------
PolicyNext ==
    \/ SaveDiagnosticsSettings \/ SaveTtsSettings \/ NativeWrite
    \/ \E w \in Writers : PolicyLockTaken(w) \/ MemoryWritten(w)
    \/ DashboardSaved \/ DashboardFailed \/ NativeWritten \/ NativeFailed
    \/ \E m \in {"native", "managed"} : SetMode(m)
    \/ ApplyPatch \/ ResetOverride
    \/ PolicyRestart

PolicySpec == PolicyInit /\ [][PolicyNext]_policyVars

-----------------------------------------------------------------------------
PolicyTypeOK ==
    /\ policyConfig \in PolicyConfigs /\ policyFile \in PolicyConfigs
    /\ overlay \in Patches \cup {NoOverlay} /\ overlayFile \in Patches \cup {NoOverlay}
    /\ mode \in {"native", "managed"}
    /\ policyRuntime \in [log : BOOLEAN, limit : Limits]
    /\ \A w \in Writers : saves[w].step \in {"idle", "wait", "saving", "written"}
    /\ \A v, w \in Writers : PolicySaving(v) /\ PolicySaving(w) => v = w
    /\ undone \subseteq Settings /\ unheeded \subseteq Settings /\ unsaved \in BOOLEAN

Pending == UNION {IF saves[w].step = "written" THEN DOMAIN saves[w].changes ELSE {} : w \in Writers}

(* No save loses another: memory, which the next save writes to the file as a whole,
   has what the file has, but for the save under way.  Only a native write that fails
   may put back what it read before it waited. *)
SavesAreKept ==
    PolicyTypeOK /\ \A s \in Settings : policyConfig[s] = policyFile[s] \/ s \in undone \cup Pending

(* The managed values outlive a restart as they are; a change that failed leaves
   none of its values behind, unless the rollback could not be saved. *)
OverlayIsPersisted == unsaved \/ overlayFile = overlay

(* The components work with the overlay's value of what is managed, and with the
   saved value of the rest.  What is excused: a setting that the dashboard saved
   over a managed value, a rollback that put the overlay into force in native mode,
   a malformed number, and a value that was read while it was being saved and then
   was not. *)
PolicyIsInForce ==
    Departing(policyConfig, mode, overlay, policyRuntime) \subseteq unheeded \cup Pending
==============================================================================
