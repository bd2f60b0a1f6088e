--------------------------- MODULE CoroutineProps ---------------------------
(***************************************************************************)
(* Correctness properties of CoroutineMgr.                                 *)
(***************************************************************************)
EXTENDS CoroutineMgr

(* The slots that OnTick has not passed yet.                               *)
Ahead == {i \in Slots : phase = "resume" => i >= head}

Queued(s) == \E i \in Ahead : readyQueue[i] = s

Suspended(s) == sessions[s] # Nil /\ sessions[s].co \in {"created", "waiting"}

(* A suspended coroutine is in the ready queue exactly if it has an answer: *)
(* no Wakeup that was accepted, and no expired timer, is dropped with the   *)
(* slots that a tick empties, and no coroutine is resumed for nothing.  And *)
(* it is there once, so that no later Wait of it returns with nothing.     *)
ReadyIffAnswered ==
  /\ \A s \in Sids : Suspended(s) => (sessions[s].result # Nil <=> Queued(s))
  /\ \A i, j \in Ahead : readyQueue[i] = readyQueue[j] /\ readyQueue[i] # Nil => i = j

(* Whoever answers first wins: an answer, be it of a Wakeup or of a timer,  *)
(* is kept until the coroutine runs or is killed ("result" must be handled  *)
(* once before it is set again).                                           *)
AnswerKept ==
  [][\A s \in Sids :
       Suspended(s) /\ sessions[s].result # Nil =>
         \/ running' = s
         \/ sessions'[s] = Nil
         \/ sessions'[s] = sessions[s]]_vars

(* A timer ends only the Wait that set it, and not before its time: one     *)
(* left over from an earlier Wait of the same coroutine is ignored.         *)
TimeoutIsDue ==
  \A s \in Sids : Suspended(s) /\ sessions[s].isTimeout =>
    sessions[s].wakeupTime # Nil /\ sessions[s].wakeupTime <= lastTickMS

(* And no Wait is overlooked: once a tick has popped its timers, nobody is  *)
(* left waiting whose time had come by then, whatever older timers of the   *)
(* same coroutine are still in the heap.                                   *)
NobodyOverdue ==
  phase # "timers" =>
    \A s \in Sids :
      Suspended(s) /\ sessions[s].result = Nil /\ sessions[s].wakeupTime # Nil
        => sessions[s].wakeupTime > lastTickMS

-----------------------------------------------------------------------------
(* Between two ticks the ready queue starts at its first slot.             *)
NoHoles == phase = "idle" => \A i, j \in Slots :
             i < j /\ readyQueue[j] # Nil => readyQueue[i] # Nil

(* A Wait with a timeout ends, provided that no tick leaves anything in the *)
(* ready queue: none reaches the limit.                                    *)
TimedWaitEnds ==
  []NoHoles =>
    \A s \in Sids : \A w \in 1 .. MaxNow :
      (Suspended(s) /\ sessions[s].wakeupTime = w)
        ~> (Suspended(s) => sessions[s].wakeupTime # w)

(* A coroutine that is in the ready queue with its answer runs in this tick *)
(* or in a later one: what OnTick promises when it logs that it is          *)
(* "delaying to next frame".                                               *)
Ready(s) == Suspended(s) /\ sessions[s].result # Nil /\ Queued(s)

ReadyRuns == \A s \in Sids : Ready(s) ~> ~Ready(s)
=============================================================================
