----------------------------- MODULE LuaPlugin -----------------------------
(***************************************************************************)
(* The Lua plugin of the C++ host (src/src/app/lua_plugin.cpp): one virtual *)
(* machine for the main thread, one for each worker thread and one for the  *)
(* thread "other" that runs the game, and the hot reload of their scripts.  *)
(*                                                                         *)
(* reload() is called when the process receives SIGUSR1 and only raises a   *)
(* flag for each machine; the thread of the machine lowers its flag in its  *)
(* next tick and runs the script's OnReload instead of its OnTick.  The     *)
(* flags of the main and of the other machine are two bools.  Those of the  *)
(* workers are a std::vector<bool>, so several flags share a word: to raise *)
(* or to lower one is to read the word and to write it back.                *)
(*                                                                         *)
(* OnReload of the other machine loads the game's modules again in two      *)
(* halves.  Other:OnReload requires MapSvr, while what MapSvr requires is    *)
(* still in package.loaded; when MapSvr fails the process exits.             *)
(* MapSvr.OnReload then clears its list and requires each module of it under *)
(* pcall: one that fails keeps its old functions, or some of them.  Last,    *)
(* the message handlers are required without pcall, and when one of those is *)
(* missing the process exits.                                                *)
(*                                                                         *)
(* Lua's require (LuaJIT 2.1) leaves a mark in package.loaded while a module *)
(* runs: a module that raised an error cannot be required again before its   *)
(* entry is cleared, one that does not parse can.                            *)
(***************************************************************************)
EXTENDS Integers

CONSTANTS Main,        \* the machine of the main thread
          Other,       \* the machine of the thread "other"
          NWorkers,    \* worker_lua_cnt
          MapSvr,      \* the module Other.lua requires
          Mods,        \* MapSvr and the modules of its reloadList
          Needs,       \* Needs[m]: the modules m requires while it is loaded
          Handlers,    \* the modules MsgHandler:OnReload requires without pcall
          Stopping,    \* bound: the machines whose threads may stop
          MaxEdits     \* bound: the revisions of the files on disk

Workers == 0 .. (NWorkers - 1)
Vms == Workers \cup {Main, Other}
Listed == Mods \ {MapSvr}

ASSUME VmsDiffer == Main # Other /\ Main \notin Workers /\ Other \notin Workers
ASSUME WorkersAssumption == NWorkers \in Nat
ASSUME ModsAssumption == /\ MapSvr \in Mods
                         /\ Needs \in [Mods -> SUBSET Mods]
                         /\ Handlers \subseteq Listed
ASSUME BoundsAssumption == Stopping \subseteq Vms /\ MaxEdits \in Nat

VARIABLES at,     \* where each thread is: "none", "loop", "clear", "hook", "done"
          flag,   \* lua_state_be_reload and other_lua_state_be_reload
          bits,   \* worker_lua_state_be_reload: the workers whose flag is up
          word,   \* the copy of bits that a worker which lowers its flag holds
          sig,    \* reload(): the next thing it does, and its copy of bits
          owed,   \* the machines asked to reload since their last OnReload
          stale,  \* the workers whose flag an old copy of bits has overwritten
          disk,   \* the files: the version of each, and what comes of running it
          package,\* package.loaded: "absent", "loaded", or "failed" for the mark
          code,   \* the versions of the functions the module runs with
          want,   \* the version on disk when the other machine was last asked
          proc    \* "up", or "exited" after a failed ASSERT_LOG_EXIT

vars == <<at, flag, bits, word, sig, owed, stale, disk, package, code, want, proc>>
threads == <<at, word>>
lua == <<package, code>>
files == <<disk, lua>>

\* reload() is idle, about to copy the word for worker w, about to write it
\* back, or about to raise the flag of the other machine.
SigAt == [pc : {"idle", "read", "write", "other"}, w : Nat, copy : SUBSET Workers]

TypeOK == /\ at \in [Vms -> {"none", "loop", "clear", "hook", "done"}]
          /\ flag \in [{Main, Other} -> BOOLEAN]
          /\ bits \in SUBSET Workers
          /\ word \in [Workers -> SUBSET Workers]
          /\ sig \in SigAt
          /\ owed \in SUBSET Vms
          /\ stale \in SUBSET Workers
          /\ disk \in [Mods -> [ver : Nat, file : {"good", "raises", "unparsable"}]]
          /\ package \in [Mods -> {"absent", "loaded", "failed"}]
          /\ code \in [Mods -> SUBSET Nat]
          /\ want \in [Mods -> Nat]
          /\ proc \in {"up", "exited"}

Init == /\ at = [v \in Vms |-> "none"]
        /\ flag = [v \in {Main, Other} |-> FALSE]
        /\ bits = {}
        /\ word = [w \in Workers |-> {}]
        /\ sig = [pc |-> "idle", w |-> 0, copy |-> {}]
        /\ owed = {}
        /\ stale = {}
        /\ disk = [m \in Mods |-> [ver |-> 0, file |-> "good"]]
        /\ package = [m \in Mods |-> "absent"]
        /\ code = [m \in Mods |-> {}]
        /\ want = [m \in Mods |-> 0]
        /\ proc = "up"

----------------------------------------------------------------------------
\* The machines: created by their thread, stopped by it, and closed when the
\* plugin is destroyed.

\* The main machine, which gives the workers' vectors their size, and then the
\* workers'.  Their scripts only log, and no thread ticks before it has started.
Start == /\ at[Main] = "none"
         /\ at' = [v \in Vms |-> IF v = Other THEN at[v] ELSE "loop"]
         /\ UNCHANGED <<flag, bits, word, sig, owed, stale, files, want, proc>>

\* A failed ASSERT_LOG_EXIT: nothing but the files is left of the process.
Exit == /\ proc' = "exited"
        /\ at' = [v \in Vms |-> "done"]
        /\ flag' = [v \in {Main, Other} |-> FALSE]
        /\ bits' = {} /\ owed' = {} /\ stale' = {}
        /\ word' = [w \in Workers |-> {}]
        /\ sig' = [pc |-> "idle", w |-> 0, copy |-> {}]
        /\ package' = [m \in Mods |-> "absent"]
        /\ code' = [m \in Mods |-> {}]
        /\ UNCHANGED <<disk, want>>

\* What require("MapSvr") runs when MapSvr itself is not in package.loaded: MapSvr,
\* and all that it needs, directly or not, through modules that are not there
\* either.
Anew == {m \in Mods : \A S \in SUBSET Mods :
            (MapSvr \in S /\ \A s \in S : {n \in Needs[s] : package[n] # "loaded"} \subseteq S)
                => m \in S}

MapSvrLoads == /\ \A m \in Anew : disk[m].file = "good"
               /\ \A m \in Anew \ {MapSvr} : package[m] # "failed"

AfterRequire == [m \in Mods |-> IF m \in Anew THEN {disk[m].ver} ELSE code[m]]

\* Other.lua requires MapSvr, and an error ends the process; the script's OnInit
\* then calls its OnReload.
OnOtherInit ==
    /\ at[Main] # "none" /\ at[Other] = "none"
    /\ \/ /\ MapSvrLoads
          /\ code' = AfterRequire
          /\ package' = [m \in Mods |-> IF m \in Anew THEN "loaded" ELSE package[m]]
          /\ at' = [at EXCEPT ![Other] = "hook"]
          /\ UNCHANGED <<flag, bits, word, sig, owed, stale, disk, want, proc>>
       \/ ~MapSvrLoads /\ Exit

OnStop(v) == /\ v \in Stopping /\ at[v] = "loop"
             /\ at' = [at EXCEPT ![v] = "done"]
             /\ UNCHANGED <<flag, bits, word, sig, owed, stale, files, want, proc>>

----------------------------------------------------------------------------
\* reload(), step by step.

ReloadMain == /\ sig.pc = "idle"
              /\ flag' = [flag EXCEPT ![Main] = TRUE]
              /\ owed' = owed \cup {Main}
              /\ sig' = [sig EXCEPT !.pc = IF at[Main] # "none" /\ NWorkers > 0 THEN "read" ELSE "other",
                                    !.w = 0]
              /\ UNCHANGED <<threads, bits, stale, files, want, proc>>

ReloadRead == /\ sig.pc = "read"
              /\ sig' = [sig EXCEPT !.pc = "write", !.copy = bits]
              /\ UNCHANGED <<threads, flag, bits, owed, stale, files, want, proc>>

\* Who else's flag the write of an old copy puts back to what it was.
Overwritten(copy, w) == {u \in Workers \ {w} : (u \in copy) # (u \in bits)}

ReloadWrite == /\ sig.pc = "write"
               /\ bits' = sig.copy \cup {sig.w}
               /\ stale' = stale \cup Overwritten(sig.copy, sig.w)
               /\ owed' = owed \cup {sig.w}
               /\ sig' = [sig EXCEPT !.pc = IF sig.w + 1 \in Workers THEN "read" ELSE "other",
                                     !.w = @ + 1, !.copy = {}]
               /\ UNCHANGED <<threads, flag, files, want, proc>>

\* Mutant: reload() leaves the other machine out.
OtherForgotten == flag

OtherRaised == [flag EXCEPT ![Other] = TRUE]

ReloadOther == /\ sig.pc = "other"
               /\ flag' = OtherRaised
               /\ owed' = owed \cup {Other}
               /\ want' = [m \in Mods |-> disk[m].ver]
               /\ sig' = [sig EXCEPT !.pc = "idle", !.w = 0]
               /\ UNCHANGED <<threads, bits, stale, files, proc>>

----------------------------------------------------------------------------
\* The ticks.

\* OnMainReload and OnWorkerReload only log, so they are one step with the
\* write that lowers the flag.
OnMainTick == /\ at[Main] = "loop" /\ flag[Main]
              /\ flag' = [flag EXCEPT ![Main] = FALSE]
              /\ owed' = owed \ {Main}
              /\ UNCHANGED <<threads, bits, sig, stale, files, want, proc>>

\* A worker's flag shares its word: it is read with the others' ...
OnWorkerTick(w) == /\ at[w] = "loop" /\ w \in bits
                   /\ word' = [word EXCEPT ![w] = bits]
                   /\ at' = [at EXCEPT ![w] = "clear"]
                   /\ UNCHANGED <<flag, bits, sig, owed, stale, files, want, proc>>

\* Mutant: a worker that reloads lowers the flags of all.
AllLowered(w) == {}

Lowered(w) == word[w] \ {w}

\* ... and written back with them.
WorkerReload(w) == /\ at[w] = "clear"
                   /\ bits' = Lowered(w)
                   /\ stale' = stale \cup Overwritten(word[w], w)
                   /\ owed' = owed \ {w}
                   /\ word' = [word EXCEPT ![w] = {}]
                   /\ at' = [at EXCEPT ![w] = "loop"]
                   /\ UNCHANGED <<flag, sig, files, want, proc>>

\* The other machine's flag is lowered before its OnReload runs.
OnOtherTick == /\ at[Other] = "loop" /\ flag[Other]
               /\ flag' = [flag EXCEPT ![Other] = FALSE]
               /\ at' = [at EXCEPT ![Other] = "hook"]
               /\ UNCHANGED <<bits, word, sig, owed, stale, files, want, proc>>

\* The modules of the list that load once it is cleared: their file is good and so
\* is all that it requires but MapSvr, which is in package.loaded.
Loadable == UNION {S \in SUBSET Listed :
                     \A m \in S : disk[m].file = "good" /\ Needs[m] \ {MapSvr} \subseteq S}

\* A file that raises an error has all that it requires, and may have replaced some
\* of its module's functions; what requires it fails before it replaces any.
Raising == {m \in Listed : disk[m].file = "raises" /\ Needs[m] \ {MapSvr} \subseteq Loadable}

\* Mutant: the handlers are required under pcall as well.
HandlersForgiven == TRUE

HandlersRequired == Handlers \subseteq Loadable

\* OnOtherReload: Other:OnReload, and MapSvr.OnReload when MapSvr has loaded.
OtherReload ==
    /\ at[Other] = "hook"
    /\ \/ /\ MapSvrLoads /\ HandlersRequired
          /\ \E half \in SUBSET Raising :
                code' = [m \in Mods |->
                           IF m \in Loadable \cup {MapSvr} THEN {disk[m].ver}
                           ELSE AfterRequire[m] \cup {disk[x].ver : x \in half \cap {m}}]
          /\ package' = [m \in Mods |-> IF m \in Loadable \cup {MapSvr} THEN "loaded"
                                       ELSE IF disk[m].file = "unparsable" THEN "absent"
                                       ELSE "failed"]
          /\ at' = [at EXCEPT ![Other] = "loop"]
          /\ owed' = owed \ {Other}
          /\ UNCHANGED <<flag, bits, word, sig, stale, disk, want, proc>>
       \/ ~(MapSvrLoads /\ HandlersRequired) /\ Exit

\* An error in the script's OnTick, in a message handler or in what OnReload calls
\* ends the process.
OtherFails == /\ \/ at[Other] = "loop" /\ ~flag[Other]
                 \/ at[Other] = "hook"
              /\ Exit

\* Somebody installs a new revision of a file; it may not load.
Edit(m) == /\ \E r \in 1 .. MaxEdits, file \in {"good", "raises", "unparsable"} :
                 /\ \A x \in Mods : disk[x].ver < r
                 /\ disk' = [disk EXCEPT ![m] = [ver |-> r, file |-> file]]
           /\ UNCHANGED <<threads, flag, bits, sig, owed, stale, lua, want, proc>>

----------------------------------------------------------------------------
Signal == ReloadMain \/ ReloadRead \/ ReloadWrite \/ ReloadOther

Next == /\ proc = "up"
        /\ \/ Signal
           \/ Start \/ OnMainTick
           \/ \E w \in Workers : OnWorkerTick(w) \/ WorkerReload(w)
           \/ OnOtherInit \/ OnOtherTick \/ OtherReload \/ OtherFails
           \/ \E v \in Vms : OnStop(v)
           \/ \E m \in Mods : Edit(m)

Spec == Init /\ [][Next]_vars

\* The threads tick again and again.
Fairness == /\ WF_vars(proc = "up" /\ OnMainTick)
            /\ WF_vars(proc = "up" /\ (OnOtherTick \/ OtherReload))

FairSpec == Spec /\ Fairness
============================================================================
