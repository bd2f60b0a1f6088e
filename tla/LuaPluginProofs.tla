-------------------------- MODULE LuaPluginProofs --------------------------
(***************************************************************************)
(* Proofs about the hot reload, for any number of workers and any modules.  *)
(*                                                                         *)
(* RequestKept needs two more facts: reload() copies the word only for an   *)
(* existing worker, and no worker ticks before the machines have started.   *)
(* HandlersFresh needs that the files never get older than the last request *)
(* asked for, and that what loads is closed under what it requires, but for  *)
(* MapSvr, which Other:OnReload has just loaded again.                       *)
(***************************************************************************)
EXTENDS LuaPluginProps, TLAPS

SigInv == sig.pc \in {"read", "write"} => sig.w \in Workers

StartInv == at[Main] = "none" => \A w \in Workers : at[w] = "none"

WantInv == \A m \in Mods : want[m] <= disk[m].ver

IInv == TypeOK /\ SigInv /\ StartInv /\ WantInv /\ RequestKept /\ HandlersFresh

----------------------------------------------------------------------------
\* What loads has all that it requires, MapSvr apart, and all that the handlers
\* are made of loads when the handlers do.
LEMMA LoadableClosed == /\ Loadable \subseteq Listed
                        /\ \A m \in Loadable : Needs[m] \subseteq Loadable \cup {MapSvr}
  BY DEF Loadable

LEMMA HandlersLoad == Handlers \subseteq Loadable => OfHandlers \subseteq Loadable \cup {MapSvr}
  <1>1. SUFFICES ASSUME Handlers \subseteq Loadable, NEW m \in OfHandlers
                 PROVE m \in Loadable \cup {MapSvr}
    OBVIOUS
  <1> DEFINE S == Loadable \cup {MapSvr}
  <1>2. S \in SUBSET Mods /\ Handlers \subseteq S
    BY <1>1, LoadableClosed, ModsAssumption DEF Listed
  <1>3. \A s \in S \ {MapSvr} : Needs[s] \subseteq S
    BY LoadableClosed
  <1> QED BY <1>2, <1>3 DEF OfHandlers

\* The machines differ.
LEMMA Machines == /\ Main \in Vms /\ Other \in Vms /\ Workers \subseteq Vms
                  /\ Main # Other /\ Main \notin Workers /\ Other \notin Workers
  BY VmsDiffer DEF Vms

----------------------------------------------------------------------------
LEMMA InitInv == Init => IInv
  BY Machines DEF Init, IInv, TypeOK, SigAt, SigInv, StartInv, WantInv, RequestKept, HandlersFresh

\* A failed assertion leaves nothing that the invariant speaks of.
LEMMA ExitInv == IInv /\ Exit => IInv'
  <1>1. SUFFICES ASSUME IInv, Exit PROVE IInv'
    OBVIOUS
  <1>2. TypeOK' /\ SigInv'
    BY <1>1 DEF IInv, Exit, TypeOK, SigAt, SigInv
  <1>3. StartInv' /\ RequestKept' /\ HandlersFresh'
    BY <1>1, Machines DEF Exit, StartInv, RequestKept, HandlersFresh
  <1>4. WantInv'
    BY <1>1 DEF IInv, Exit, WantInv
  <1> QED BY <1>2, <1>3, <1>4 DEF IInv

\* The steps of reload().
LEMMA SignalInv == IInv /\ Signal => IInv'
  <1>1. SUFFICES ASSUME IInv, Signal PROVE IInv'
    OBVIOUS
  <1> USE <1>1, Machines
  <1>2. TypeOK' /\ SigInv'
    <2>1. CASE ReloadMain
      <3>1. NWorkers > 0 => 0 \in Workers
        BY WorkersAssumption DEF Workers
      <3>2. sig' \in SigAt /\ SigInv'
        BY <2>1, <3>1 DEF IInv, ReloadMain, TypeOK, SigAt, SigInv
      <3>3. flag' \in [{Main, Other} -> BOOLEAN] /\ owed' \in SUBSET Vms
        BY <2>1 DEF IInv, ReloadMain, TypeOK
      <3> QED BY <2>1, <3>2, <3>3 DEF IInv, ReloadMain, TypeOK, threads, files, lua
    <2>2. CASE ReloadRead
      BY <2>2 DEF IInv, ReloadRead, TypeOK, SigAt, SigInv, threads, files, lua
    <2>3. CASE ReloadWrite
      <3>1. sig.w \in Workers /\ sig.copy \subseteq Workers
        BY <2>3 DEF IInv, ReloadWrite, TypeOK, SigAt, SigInv
      <3>2. sig' \in SigAt
        <4>1. sig.w + 1 \in Nat
          BY <3>1 DEF Workers
        <4> QED BY <2>3, <4>1 DEF IInv, ReloadWrite, TypeOK, SigAt
      <3>3. TypeOK'
        BY <2>3, <3>1, <3>2 DEF IInv, ReloadWrite, TypeOK, threads, files, lua, Overwritten
      <3>4. SigInv'
        BY <2>3 DEF IInv, ReloadWrite, TypeOK, SigAt, SigInv
      <3> QED BY <3>3, <3>4
    <2>4. CASE ReloadOther
      BY <2>4 DEF IInv, ReloadOther, OtherRaised, TypeOK, SigAt, SigInv, threads, files, lua
    <2> QED BY <2>1, <2>2, <2>3, <2>4 DEF Signal
  <1>3. StartInv'
    BY DEF IInv, StartInv, Signal, ReloadMain, ReloadRead, ReloadWrite, ReloadOther, OtherRaised, threads
  <1>4. WantInv'
    BY DEF IInv, TypeOK, WantInv, Signal, ReloadMain, ReloadRead, ReloadWrite, ReloadOther, OtherRaised, files, lua
  <1>5. RequestKept'
    <2>1. CASE ReloadMain \/ ReloadRead \/ ReloadOther
      BY <2>1 DEF IInv, TypeOK, RequestKept, Waiting, ReloadMain, ReloadRead, ReloadOther, OtherRaised, threads
    <2>2. CASE ReloadWrite
      BY <2>2 DEF IInv, TypeOK, SigInv, RequestKept, Waiting, ReloadWrite, Overwritten, threads
    <2> QED BY <2>1, <2>2 DEF Signal
  <1>6. HandlersFresh'
    BY DEF IInv, SigInv, HandlersFresh, OfHandlers, Signal, ReloadMain, ReloadRead, ReloadWrite, ReloadOther, OtherRaised, threads, files, lua
  <1> QED BY <1>2, <1>3, <1>4, <1>5, <1>6 DEF IInv

\* The steps of the main machine and of the workers'.
WorkerStep == Start \/ OnMainTick \/ \E w \in Workers : OnWorkerTick(w) \/ WorkerReload(w)

LEMMA WorkerInv == IInv /\ WorkerStep => IInv'
  <1>1. SUFFICES ASSUME IInv, WorkerStep PROVE IInv'
    OBVIOUS
  <1> USE <1>1, Machines
  <1>2. CASE Start
    BY <1>2 DEF IInv, TypeOK, SigInv, StartInv, WantInv, RequestKept, Waiting, HandlersFresh, OfHandlers, Start, files, lua
  <1>3. CASE OnMainTick
    BY <1>3 DEF IInv, TypeOK, SigInv, StartInv, WantInv, RequestKept, Waiting, HandlersFresh, OfHandlers, OnMainTick, threads, files, lua
  <1>4. ASSUME NEW w \in Workers, OnWorkerTick(w) PROVE IInv'
    BY <1>4 DEF IInv, TypeOK, SigInv, StartInv, WantInv, RequestKept, Waiting, HandlersFresh, OfHandlers, OnWorkerTick, files, lua
  <1>5. ASSUME NEW w \in Workers, WorkerReload(w) PROVE IInv'
    <2>1. TypeOK' /\ SigInv'
      BY <1>5 DEF IInv, TypeOK, SigInv, WorkerReload, Lowered, Overwritten, files, lua
    <2>2. StartInv' /\ WantInv' /\ HandlersFresh'
      BY <1>5 DEF IInv, TypeOK, StartInv, WantInv, HandlersFresh, OfHandlers, WorkerReload, Lowered, files, lua
    <2>3. RequestKept'
      BY <1>5 DEF IInv, TypeOK, RequestKept, Waiting, WorkerReload, Lowered, Overwritten
    <2> QED BY <2>1, <2>2, <2>3 DEF IInv
  <1> QED BY <1>2, <1>3, <1>4, <1>5 DEF WorkerStep

\* The steps of the other machine, of the threads that stop and of the files.
OtherStep == \/ OnOtherInit \/ OnOtherTick \/ OtherReload \/ OtherFails
             \/ (\E v \in Vms : OnStop(v)) \/ (\E m \in Mods : Edit(m))

\* The versions that Other:OnReload leaves a module with.
LEMMA LoadedTyped == TypeOK => AfterRequire \in [Mods -> SUBSET Nat]
  BY DEF TypeOK, AfterRequire

LEMMA OtherInv == IInv /\ OtherStep => IInv'
  <1>1. SUFFICES ASSUME IInv, OtherStep, ~Exit PROVE IInv'
    BY ExitInv
  <1> USE <1>1, Machines
  <1>2. CASE OnOtherInit
    <2>1. TypeOK' /\ SigInv' /\ StartInv' /\ WantInv'
      BY <1>2, LoadedTyped DEF IInv, TypeOK, SigInv, StartInv, WantInv, OnOtherInit
    <2>2. RequestKept' /\ HandlersFresh'
      BY <1>2 DEF IInv, TypeOK, RequestKept, Waiting, HandlersFresh, OnOtherInit
    <2> QED BY <2>1, <2>2 DEF IInv
  <1>3. CASE OnOtherTick
    BY <1>3 DEF IInv, TypeOK, SigInv, StartInv, WantInv, RequestKept, Waiting, HandlersFresh, OnOtherTick, files, lua
  <1>4. CASE OtherReload
    <2>1. PICK half \in SUBSET Raising :
             code' = [m \in Mods |->
                        IF m \in Loadable \cup {MapSvr} THEN {disk[m].ver}
                        ELSE AfterRequire[m] \cup {disk[x].ver : x \in half \cap {m}}]
      BY <1>4 DEF OtherReload, HandlersRequired
    <2>2. code' \in [Mods -> SUBSET Nat]
      BY <2>1, LoadedTyped, LoadableClosed DEF IInv, TypeOK
    <2>3. TypeOK' /\ SigInv' /\ StartInv' /\ WantInv'
      BY <1>4, <2>2 DEF IInv, TypeOK, SigInv, StartInv, WantInv, OtherReload, HandlersRequired
    <2>4. RequestKept'
      BY <1>4 DEF IInv, TypeOK, RequestKept, Waiting, OtherReload, HandlersRequired
    <2>5. OfHandlers \subseteq Loadable \cup {MapSvr}
      BY <1>4, HandlersLoad DEF OtherReload, HandlersRequired
    <2>6. \A m \in OfHandlers : code'[m] = {disk[m].ver} /\ disk[m].ver >= want[m]
      BY <2>1, <2>5 DEF IInv, TypeOK, WantInv, OfHandlers
    <2>7. HandlersFresh'
      BY <1>4, <2>6 DEF HandlersFresh, OfHandlers, OtherReload, HandlersRequired
    <2> QED BY <2>3, <2>4, <2>7 DEF IInv
  <1>5. ASSUME NEW v \in Vms, OnStop(v) PROVE IInv'
    BY <1>5 DEF IInv, TypeOK, SigInv, StartInv, WantInv, RequestKept, Waiting, HandlersFresh, OfHandlers, OnStop, files, lua
  <1>6. ASSUME NEW m \in Mods, Edit(m) PROVE IInv'
    <2>1. PICK r \in 1 .. MaxEdits, file \in {"good", "raises", "unparsable"} :
             /\ \A x \in Mods : disk[x].ver < r
             /\ disk' = [disk EXCEPT ![m] = [ver |-> r, file |-> file]]
      BY <1>6 DEF Edit
    <2>2. TypeOK' /\ WantInv'
      BY <1>6, <2>1, BoundsAssumption DEF IInv, TypeOK, WantInv, Edit, threads, lua
    <2>3. SigInv' /\ StartInv' /\ RequestKept' /\ HandlersFresh'
      BY <1>6 DEF IInv, SigInv, StartInv, RequestKept, Waiting, HandlersFresh, OfHandlers, Edit, threads, lua
    <2> QED BY <2>2, <2>3 DEF IInv
  <1> QED BY <1>2, <1>3, <1>4, <1>5, <1>6 DEF OtherStep, OtherFails

LEMMA StutterInv == IInv /\ UNCHANGED vars => IInv'
  BY DEF IInv, TypeOK, SigInv, StartInv, WantInv, RequestKept, Waiting, HandlersFresh, OfHandlers, vars

LEMMA Inductive == Spec => []IInv
  <1>1. IInv /\ [Next]_vars => IInv'
    BY SignalInv, WorkerInv, OtherInv, StutterInv DEF Next, WorkerStep, OtherStep
  <1> QED BY InitInv, <1>1, PTL DEF Spec

----------------------------------------------------------------------------
\* The plugin's variables keep their types: reload() only ever raises the flags
\* of workers that exist.
THEOREM PluginTypes == Spec => []TypeOK
  BY Inductive, PTL DEF IInv

\* No request to reload is swallowed while an earlier one is served; a worker
\* loses one only to an old copy of the word of flags.
THEOREM PluginRequests == Spec => []RequestKept
  BY Inductive, PTL DEF IInv

\* The handlers and all that they require run whole modules, not older than the last
\* request asked for, and so does MapSvr; of what MapSvr alone requires nothing is said.
THEOREM PluginHandlers == Spec => []HandlersFresh
  BY Inductive, PTL DEF IInv
============================================================================
