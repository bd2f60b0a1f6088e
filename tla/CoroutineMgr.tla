---------------------------- MODULE CoroutineMgr ----------------------------
(***************************************************************************)
(* The coroutine scheduler of the "other" Lua VM.                          *)
(*                                                                         *)
(* A session is a coroutine that gives up control only in Wait.  Wakeup, or *)
(* the timer of the Wait, stores an answer in the session and puts its id   *)
(* in the ready queue; the next OnTick resumes it with that answer.        *)
(*                                                                         *)
(* OnTick is several steps here, since the coroutines it resumes call back  *)
(* into the scheduler.  Message handlers call it between two ticks.        *)
(***************************************************************************)
EXTENDS Integers

CONSTANTS
  MaxSessions,  \* bound: coroutines ever spawned
  Args,         \* what a Wakeup may hand over
  Timeouts,     \* the timeouts a Wait may ask for
  MaxNow,       \* bound: the clock, in ms
  MaxIdx,       \* bound: slots of the ready queue
  MAX_RESUME_PER_TICK,
  Nested,       \* environment: a running coroutine may spawn and wake, itself too
  Nil,
  Lengths(_)    \* what the length operator may return for a queue

Sids  == 1 .. MaxSessions
Slots == 1 .. MaxIdx

Queues == [Slots -> Sids \cup {Nil}]

(* The length of a table is one of its borders: there is just one if the    *)
(* table has no holes, and if it has, the table's capacity decides.        *)
Borders(q) == {n \in 0 .. MaxIdx :
                 /\ n = 0 \/ q[n] # Nil
                 /\ n = MaxIdx \/ q[n + 1] = Nil}

ASSUME LengthsAssumption == \A q \in Queues : Lengths(q) \subseteq Borders(q)

ASSUME CoroutineAssumption ==
  /\ MaxSessions \in Nat /\ MaxIdx \in Nat /\ MaxNow \in Nat
  /\ MAX_RESUME_PER_TICK \in Nat \ {0}
  /\ Timeouts \subseteq Nat \ {0}
  /\ Nested \in BOOLEAN
  /\ Nil \notin Nat /\ Nil \notin Args /\ {"spawned", "expired"} \cap (Args \cup {Nil}) = {}

VARIABLES
  sessionSeed,  \* CoroutineMgr.sessionSeed
  sessions,     \* CoroutineMgr.sessions
  readyQueue,   \* CoroutineMgr.readyQueue, a table that may have holes
  sleepList,    \* CoroutineMgr.sleepList, the heap as a set of its items
  now,          \* TimeMgr.GetMS()
  lastTickMS,   \* CoroutineMgr.lastTickMS
  phase,        \* where OnTick is: outside, popping timers, or resuming
  head, queueSize, \* the locals of its resume loop
  running       \* the session whose coroutine has control, or Nil

tickVars == <<phase, head, queueSize>>
vars == <<sessionSeed, sessions, readyQueue, sleepList, now, lastTickMS, phase,
          head, queueSize, running>>

(* A session's coroutine is created, running, waiting, or ended by an error *)
(* (one that returns takes its session with it).                           *)
Session == [co : {"created", "running", "waiting", "failed"},
            result : Args \cup {"spawned", "expired", Nil},
            isTimeout : BOOLEAN,
            wakeupTime : Nat \cup {Nil}]

TypeOK ==
  /\ sessionSeed \in 0 .. MaxSessions
  /\ sessions \in [Sids -> Session \cup {Nil}]
  /\ readyQueue \in Queues
  /\ sleepList \subseteq [sessionID : Sids, wakeupTime : Nat]
  /\ now \in Nat /\ lastTickMS \in Nat
  /\ phase \in {"idle", "timers", "resume"}
  /\ head \in 1 .. MaxIdx + 1 /\ queueSize \in 0 .. MaxIdx
  /\ running \in Sids \cup {Nil}

Init ==
  /\ sessionSeed = 0
  /\ sessions = [s \in Sids |-> Nil]
  /\ readyQueue = [i \in Slots |-> Nil]
  /\ sleepList = {}
  /\ now = 0 /\ lastTickMS = 0
  /\ phase = "idle" /\ head = 1 /\ queueSize = 0
  /\ running = Nil

-----------------------------------------------------------------------------
(* table.insert.                                                           *)
Enqueue(s) ==
  \E n \in Lengths(readyQueue) :
    /\ n < MaxIdx
    /\ readyQueue' = [readyQueue EXCEPT ![n + 1] = s]

(* Who may put a session in the queue: a handler between two ticks, or the  *)
(* running coroutine.                                                      *)
CallerRuns == phase = "idle" \/ (Nested /\ running # Nil)

Spawn ==
  /\ CallerRuns
  /\ sessionSeed < MaxSessions
  /\ sessionSeed' = sessionSeed + 1
  /\ sessions' = [sessions EXCEPT ![sessionSeed'] =
       [co |-> "created", result |-> "spawned", isTimeout |-> FALSE, wakeupTime |-> Nil]]
  /\ Enqueue(sessionSeed')
  /\ UNCHANGED <<sleepList, now, lastTickMS, tickVars, running>>

(* A refused Wakeup returns false and changes nothing.  A coroutine can wake *)
(* itself (CurrentSessionID): its next Wait drops that answer, and the entry *)
(* it leaves in the queue ends the Wait with nothing.                       *)
Wakeup(s, arg) ==
  /\ CallerRuns
  /\ sessions[s] # Nil
  /\ sessions[s].result = Nil
  /\ sessions' = [sessions EXCEPT ![s].result = arg, ![s].isTimeout = FALSE]
  /\ Enqueue(s)
  /\ UNCHANGED <<sessionSeed, sleepList, now, lastTickMS, tickVars, running>>

Kill(s) ==
  /\ phase = "idle" \/ running # Nil
  /\ sessions[s] # Nil
  /\ sessions' = [sessions EXCEPT ![s] = Nil]
  /\ UNCHANGED <<sessionSeed, readyQueue, sleepList, now, lastTickMS, tickVars, running>>

-----------------------------------------------------------------------------
(* What ends the run of a coroutine.                                       *)

\* Mutant: a session that still has an item in the heap gets no second one.
WaitReusesTimer(timeout) ==
  /\ running # Nil
  /\ sessions[running] # Nil
  /\ LET deadline == IF timeout = Nil THEN Nil ELSE now + timeout IN
       /\ timeout # Nil => deadline <= MaxNow
       /\ sessions' = [sessions EXCEPT
            ![running].co = "waiting", ![running].result = Nil,
            ![running].wakeupTime = IF timeout = Nil THEN @ ELSE deadline]
       /\ sleepList' =
            IF timeout = Nil \/ \E item \in sleepList : item.sessionID = running
            THEN sleepList
            ELSE sleepList \cup {[sessionID |-> running, wakeupTime |-> deadline]}
  /\ running' = Nil
  /\ UNCHANGED <<sessionSeed, readyQueue, now, lastTickMS, tickVars>>

(* Wait up to its yield, with a timer or without one.                      *)
Wait(timeout) ==
  /\ running # Nil
  /\ sessions[running] # Nil
  /\ LET deadline == IF timeout = Nil THEN Nil ELSE now + timeout IN
       /\ timeout # Nil => deadline <= MaxNow
       /\ sessions' = [sessions EXCEPT
            ![running].co = "waiting", ![running].result = Nil,
            ![running].wakeupTime = IF timeout = Nil THEN @ ELSE deadline]
       /\ sleepList' = IF timeout = Nil THEN sleepList
            ELSE sleepList \cup {[sessionID |-> running, wakeupTime |-> deadline]}
  /\ running' = Nil
  /\ UNCHANGED <<sessionSeed, readyQueue, now, lastTickMS, tickVars>>

Return ==
  /\ running # Nil
  /\ sessions' = [sessions EXCEPT ![running] = Nil]
  /\ running' = Nil
  /\ UNCHANGED <<sessionSeed, readyQueue, sleepList, now, lastTickMS, tickVars>>

(* An error ends the coroutine and leaves its session behind.  A coroutine  *)
(* that killed its own session fails when it waits.                        *)
Fail ==
  /\ running # Nil
  /\ sessions' = IF sessions[running] = Nil THEN sessions
                 ELSE [sessions EXCEPT ![running].co = "failed"]
  /\ running' = Nil
  /\ UNCHANGED <<sessionSeed, readyQueue, sleepList, now, lastTickMS, tickVars>>

-----------------------------------------------------------------------------
(* OnTick.                                                                 *)

Clock ==
  /\ now < MaxNow
  /\ now' = now + 1
  /\ UNCHANGED <<sessionSeed, sessions, readyQueue, sleepList, lastTickMS, tickVars, running>>

TickStart ==
  /\ phase = "idle"
  /\ phase' = "timers"
  /\ lastTickMS' = now
  /\ UNCHANGED <<sessionSeed, sessions, readyQueue, sleepList, now, head, queueSize, running>>

Due == {item \in sleepList : item.wakeupTime <= lastTickMS}

\* Mutants: one of the reasons to ignore an item is forgotten.
ExpiresOldTimer(item) ==
  sessions[item.sessionID] # Nil /\ sessions[item.sessionID].result = Nil
ExpiresAnswered(item) ==
  /\ sessions[item.sessionID] # Nil
  /\ sessions[item.sessionID].wakeupTime = item.wakeupTime

(* The item belongs to the Wait the session is in, and nobody was faster.   *)
Expires(item) ==
  /\ sessions[item.sessionID] # Nil
  /\ sessions[item.sessionID].wakeupTime = item.wakeupTime
  /\ sessions[item.sessionID].result = Nil

PopTimer(item) ==
  /\ phase = "timers"
  /\ item \in Due
  /\ \A other \in Due : item.wakeupTime <= other.wakeupTime
  /\ sleepList' = sleepList \ {item}
  /\ IF Expires(item)
     THEN /\ sessions' = [sessions EXCEPT ![item.sessionID].isTimeout = TRUE,
                                          ![item.sessionID].result = "expired"]
          /\ Enqueue(item.sessionID)
     ELSE UNCHANGED <<sessions, readyQueue>>
  /\ UNCHANGED <<sessionSeed, now, lastTickMS, tickVars, running>>

TimersDone ==
  /\ phase = "timers"
  /\ Due = {}
  /\ phase' = "resume"
  /\ head' = 1
  /\ queueSize' \in Lengths(readyQueue)
  /\ UNCHANGED <<sessionSeed, sessions, readyQueue, sleepList, now, lastTickMS, running>>

(* Every slot counts against the limit, the holes too: head - 1 is also the *)
(* code's resumeCount.                                                     *)
LoopEnds == head > queueSize \/ head - 1 >= MAX_RESUME_PER_TICK

(* A waiting coroutine returns from Wait with its answer, and Wait cleans   *)
(* up; a new one starts with its arguments; a failed one cannot be resumed. *)
ResumeNext ==
  /\ phase = "resume"
  /\ running = Nil
  /\ ~LoopEnds
  /\ head' = head + 1
  /\ LET s == readyQueue[head] IN
       IF s = Nil THEN UNCHANGED <<sessions, running>>
       ELSE IF sessions[s] = Nil THEN UNCHANGED <<sessions, running>>
       ELSE IF sessions[s].co = "failed" THEN UNCHANGED <<sessions, running>>
       ELSE /\ running' = s
            /\ sessions' = [sessions EXCEPT ![s] =
                 IF @.co = "created" THEN [@ EXCEPT !.co = "running"]
                 ELSE [co |-> "running", result |-> Nil, isTimeout |-> FALSE,
                       wakeupTime |-> Nil]]
  /\ UNCHANGED <<sessionSeed, readyQueue, sleepList, now, lastTickMS, phase, queueSize>>

\* Mutant: the whole queue is emptied, whatever the limit left in it.
TickEndsEmpty ==
  /\ phase = "resume"
  /\ running = Nil
  /\ LoopEnds
  /\ phase' = "idle"
  /\ readyQueue' = [i \in Slots |-> Nil]
  /\ head' = 1
  /\ queueSize' = 0
  /\ UNCHANGED <<sessionSeed, sessions, sleepList, now, lastTickMS, running>>

(* The processed slots are emptied, and the rest is left where it is.      *)
TickEnd ==
  /\ phase = "resume"
  /\ running = Nil
  /\ LoopEnds
  /\ phase' = "idle"
  /\ readyQueue' = [i \in Slots |-> IF i < head THEN Nil ELSE readyQueue[i]]
  /\ head' = 1
  /\ queueSize' = 0
  /\ UNCHANGED <<sessionSeed, sessions, sleepList, now, lastTickMS, running>>

-----------------------------------------------------------------------------
Yield == Return \/ Fail \/ \E t \in Timeouts \cup {Nil} : Wait(t)

OnTick ==
  \/ TickStart
  \/ \E item \in sleepList : PopTimer(item)
  \/ TimersDone
  \/ ResumeNext
  \/ TickEnd

Next ==
  \/ Spawn
  \/ \E s \in Sids, arg \in Args : Wakeup(s, arg)
  \/ \E s \in Sids : Kill(s)
  \/ Yield
  \/ Clock
  \/ OnTick

(* The event loop ticks, time passes, and a coroutine gives up control.     *)
Fairness == WF_vars(OnTick) /\ WF_vars(Clock) /\ WF_vars(Yield)

Spec     == Init /\ [][Next]_vars
FairSpec == Spec /\ Fairness
=============================================================================
