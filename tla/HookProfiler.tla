------------------------------ MODULE HookProfiler ------------------------------
(***************************************************************************)
(* The hook profiler (core/plugin_hook_profiler.py) measures the handlers  *)
(* that other plugins registered with the host: it puts a wrapper of its   *)
(* own in their place in the host's registry, which outlives the plugin.   *)
(* The instances of a plugin that is reloaded follow each other.  Handlers *)
(* are loaded and unloaded under them, the administrator switches the      *)
(* measuring on and off, and a save that was under way when its instance   *)
(* was terminated still comes to its end.                                  *)
(*                                                                         *)
(* Only what the profiler does to the registry is modelled, not what a     *)
(* wrapper records.  Handlers are coroutines of the profiled events, the   *)
(* others are never touched; a partial that binds a handler to its plugin  *)
(* stays around whatever is put in it.                                     *)
(***************************************************************************)
EXTENDS FiniteSets, Sequences, SequencesExt

CONSTANTS Handlers,       \* handlers that other plugins register
          Instances       \* the lives of the plugin, one after the other

VARIABLES wrappers,       \* star_handlers_registry: the owners of a handler's wrappers, outermost first
          loaded,         \* external: the handlers that are registered
          fresh,          \* external: those whose plugin's loaded hooks have not run yet
          life,           \* of each instance
          enabled,        \* PluginHookProfiler.enabled
          saving,         \* the saves under way, with the value they will put into force
          late            \* history: instances that were switched on after their termination began

registry     == <<loaded, fresh>>
profilerVars == <<wrappers, registry, life, enabled, saving, late>>

(* The dashboard's form, and a value that the series kernel writes. *)
Saves == [by : {"dashboard", "kernel"}, on : BOOLEAN]

(* The routes and the operations of an instance answer until the host has unloaded it. *)
Answers(i) == life[i] \in {"constructed", "ready", "closing"}
Over(i)    == life[i] \in {"closing", "ended"}

-----------------------------------------------------------------------------
(* _unwrap_wrapper goes down to the raw handler and names its innermost owner. *)
OwnedBy(i, stack) == stack # <<>> /\ Last(stack) = i

(* install: the handlers of this instance stay, the others are unwrapped to the
   bottom and get one wrapper. *)
Installed(i, stacks) ==
    [h \in Handlers |-> IF h \notin loaded THEN <<>>
                        ELSE IF OwnedBy(i, stacks[h]) THEN stacks[h] ELSE <<i>>]

Uninstalled(i, stacks) ==
    [h \in Handlers |-> IF OwnedBy(i, stacks[h]) THEN <<>> ELSE stacks[h]]

(* configure: a profiler that is switched off takes its wrappers away. *)
Configured(i, on, stacks) == IF enabled[i] /\ ~on THEN Uninstalled(i, stacks) ELSE stacks

(* configure, and then install if the caller may: it does nothing for a profiler that
   is off. *)
PutIntoForce(i, on, install) ==
    LET stacks == Configured(i, on, wrappers)
    IN /\ enabled' = [enabled EXCEPT ![i] = on]
       /\ wrappers' = IF on /\ install THEN Installed(i, stacks) ELSE stacks
       /\ late' = IF Over(i) /\ on THEN late \cup {i} ELSE late

-----------------------------------------------------------------------------
ProfilerInit ==
    /\ wrappers = [h \in Handlers |-> <<>>]
    /\ loaded \in SUBSET Handlers
    /\ fresh = {}
    /\ life = [i \in Instances |-> "absent"]
    /\ enabled = [i \in Instances |-> FALSE]
    /\ saving = [i \in Instances |-> {}]
    /\ late = {}

(* The constructor installs nothing, whatever the configuration says: the host has
   not bound the handlers yet. *)
Construct(i) ==
    /\ life[i] = "absent"
    /\ \A j \in Instances : life[j] \in {"absent", "ended"}
    /\ life' = [life EXCEPT ![i] = "constructed"]
    /\ \E on \in BOOLEAN : enabled' = [enabled EXCEPT ![i] = on]
    /\ UNCHANGED <<wrappers, registry, saving, late>>

Initialize(i) ==
    /\ life[i] = "constructed"
    /\ life' = [life EXCEPT ![i] = "ready"]
    /\ wrappers' = IF enabled[i] THEN Installed(i, wrappers) ELSE wrappers
    /\ UNCHANGED <<registry, enabled, saving, late>>

(* The series kernel lays its overlay or lifts it: no wait. *)
Sync(i) ==
    /\ Answers(i)
    /\ \E on \in BOOLEAN : PutIntoForce(i, on, life[i] # "constructed")
    /\ UNCHANGED <<registry, life, saving>>

(* A save waits for the configuration's file. *)
BeginSave(i) ==
    /\ Answers(i)
    /\ \E s \in Saves : saving' = [saving EXCEPT ![i] = @ \cup {s}]
    /\ UNCHANGED <<wrappers, registry, life, enabled, late>>

(* Nothing looks at _terminated here.  The dashboard installs without asking whether
   the instance is initialized, the kernel's write asks. *)
SaveDone(i) ==
    \E s \in saving[i] :
       /\ saving' = [saving EXCEPT ![i] = @ \ {s}]
       /\ PutIntoForce(i, s.on, s.by = "dashboard" \/ life[i] # "constructed")
       /\ UNCHANGED <<registry, life>>

SwitchSaveFails(i) ==
    \E s \in saving[i] :
       /\ saving' = [saving EXCEPT ![i] = @ \ {s}]
       /\ UNCHANGED <<wrappers, registry, life, enabled, late>>

(* terminate takes the wrappers away first and then waits for the other parts.  The
   profiler stays enabled. *)
Terminate(i) ==
    /\ life[i] = "ready"
    /\ life' = [life EXCEPT ![i] = "closing"]
    /\ wrappers' = Uninstalled(i, wrappers)
    /\ UNCHANGED <<registry, enabled, saving, late>>

Ended(i) ==
    /\ life[i] = "closing"
    /\ life' = [life EXCEPT ![i] = "ended"]
    /\ UNCHANGED <<wrappers, registry, enabled, saving, late>>

-----------------------------------------------------------------------------
(* The host registers handlers raw, and removes them with their wrappers. *)
LoadHandler(h) ==
    /\ h \notin loaded
    /\ loaded' = loaded \cup {h}
    /\ fresh' = fresh \cup {h}
    /\ UNCHANGED <<wrappers, life, enabled, saving, late>>

UnloadHandler(h) ==
    /\ h \in loaded
    /\ loaded' = loaded \ {h}
    /\ fresh' = fresh \ {h}
    /\ wrappers' = [wrappers EXCEPT ![h] = <<>>]
    /\ UNCHANGED <<life, enabled, saving, late>>

(* The host runs the loaded hooks, one of which is refresh_plugin_hook_profiler.  It
   starts and ends plugins one at a time, so none is halfway. *)
PluginLoaded ==
    /\ fresh # {}
    /\ \A i \in Instances : life[i] \notin {"constructed", "closing"}
    /\ fresh' = {}
    /\ LET measuring == {i \in Instances : life[i] = "ready" /\ enabled[i]}
       IN IF measuring = {} THEN UNCHANGED wrappers
          ELSE \E i \in measuring : wrappers' = Installed(i, wrappers)
    /\ UNCHANGED <<loaded, life, enabled, saving, late>>

-----------------------------------------------------------------------------
ProfilerNext ==
    \/ \E i \in Instances :
          \/ Construct(i) \/ Initialize(i) \/ Sync(i)
          \/ BeginSave(i) \/ SaveDone(i) \/ SwitchSaveFails(i)
          \/ Terminate(i) \/ Ended(i)
    \/ \E h \in Handlers : LoadHandler(h) \/ UnloadHandler(h)
    \/ PluginLoaded

ProfilerSpec == ProfilerInit /\ [][ProfilerNext]_profilerVars

-----------------------------------------------------------------------------
(* A handler is never measured twice, by whatever instances and in whatever order they
   come, go and save: no wrapper is ever put around a wrapper (install and
   _unwrap_wrapper). *)
MeasuredOnce == \A h \in Handlers : Len(wrappers[h]) <= 1

(* The running instance does what its switch says.  On, every handler whose plugin has
   been loaded is measured by it, unless a dead instance came back and took handlers
   away from it.  Off, it measures none (configure, install,
   refresh_plugin_hook_profiler). *)
SwitchIsHeeded ==
    \A i \in Instances : life[i] = "ready" =>
       IF enabled[i] THEN late = {} => \A h \in loaded \ fresh : OwnedBy(i, wrappers[h])
       ELSE \A h \in Handlers : ~Contains(wrappers[h], i)

(* A terminated instance has left no wrapper behind, unless it was switched on once more
   after the termination began (terminate, uninstall). *)
TerminationRestores ==
    \A i \in Instances \ late : Over(i) => \A h \in Handlers : ~Contains(wrappers[h], i)
=============================================================================
