-------------------------- MODULE LuaPluginProps ---------------------------
(***************************************************************************)
(* What a hot reload promises to whoever sends the signal.                  *)
(***************************************************************************)
EXTENDS LuaPlugin

\* Where a request of the machine can still be waiting to be served.
Waiting(v) == \/ v \in {Main, Other} /\ flag[v]
              \/ v \in Workers /\ (v \in bits \/ at[v] = "clear" \/ v \in stale)
              \/ v = Other /\ at[v] = "hook"

\* A request that arrives while an earlier one is served is not swallowed: as
\* long as the machine has not run its OnReload since the last call of reload(),
\* its flag is up or its OnReload is about to run.  It matters that the tick
\* lowers the flag before the hook and not after it (on_main_tick, on_worker_tick,
\* on_other_tick).  The flags of the workers share a word, and a worker can lose
\* a request when another thread writes an old copy of it back.
RequestKept == \A v \in owed : Waiting(v)

\* What the handlers are made of: they, and all that is required on the way, MapSvr
\* included; what MapSvr itself requires only if a handler requires it too.
OfHandlers == {m \in Mods : \A S \in SUBSET Mods :
                  (Handlers \subseteq S /\ \A s \in S \ {MapSvr} : Needs[s] \subseteq S) => m \in S}

\* While the game runs and no request is waiting, every module the message
\* handlers are made of runs with the functions of one version of its file, and
\* that version is not older than the one installed at the last request: what
\* pcall hides in MapSvr.OnReload ends the process in MsgHandler:OnReload.
HandlersFresh == proc = "up" /\ at[Other] = "loop" /\ Other \notin owed =>
                    \A m \in OfHandlers : \E v \in code[m] : v >= want[m] /\ code[m] = {v}

\* A request to the main or to the other machine is served, unless the thread
\* stops or the process exits.
Served == \A v \in {Main, Other} :
             at[v] # "none" /\ v \in owed ~>
                v \notin owed \/ at[v] = "done" \/ proc = "exited"
============================================================================
