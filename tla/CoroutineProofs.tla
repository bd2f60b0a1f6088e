-------------------------- MODULE CoroutineProofs --------------------------
(***************************************************************************)
(* Theorems about the coroutine scheduler, for any number of coroutines,    *)
(* slots and timeouts, and whatever border the length of the queue is.      *)
(***************************************************************************)
EXTENDS CoroutineProps, TLAPS

\* table.insert fills a slot that was empty.
LEMMA EnqueueFills ==
  ASSUME TypeOK, NEW s \in Sids, Enqueue(s)
  PROVE  \E k \in Slots : readyQueue[k] = Nil /\ readyQueue' = [readyQueue EXCEPT ![k] = s]
<1>1. PICK n \in Lengths(readyQueue) : n < MaxIdx /\ readyQueue' = [readyQueue EXCEPT ![n + 1] = s]
  BY DEF Enqueue
<1>2. n \in Borders(readyQueue)
  BY LengthsAssumption DEF TypeOK
<1>3. n \in 0 .. MaxIdx /\ n + 1 \in Slots /\ readyQueue[n + 1] = Nil
  BY <1>1, <1>2, CoroutineAssumption DEF Borders, Slots
<1> QED BY <1>1, <1>3

LEMMA EnqueueTypes ==
  ASSUME TypeOK, NEW s \in Sids, Enqueue(s)
  PROVE  readyQueue' \in Queues
<1>1. PICK k \in Slots : readyQueue' = [readyQueue EXCEPT ![k] = s]
  BY EnqueueFills
<1> QED BY <1>1 DEF TypeOK, Queues

\* Who has control: a session runs exactly if its coroutine was resumed and has
\* not yielded, and only the resume loop of OnTick hands control over.
Control ==
  /\ running # Nil => phase = "resume"
  /\ running # Nil /\ sessions[running] # Nil => sessions[running].co = "running"
  /\ \A s \in Sids : sessions[s] # Nil /\ sessions[s].co = "running" => running = s

LEMMA TypesKeep == TypeOK /\ [Next]_vars => TypeOK'
<1> SUFFICES ASSUME TypeOK, [Next]_vars PROVE TypeOK'
  OBVIOUS
<1> USE CoroutineAssumption DEF TypeOK
<1>1. CASE Spawn
  <2>1. sessionSeed' \in Sids /\ sessionSeed' \in 0 .. MaxSessions
    BY <1>1 DEF Spawn, Sids
  <2>2. readyQueue' \in Queues
    BY <1>1, <2>1, EnqueueTypes DEF Spawn
  <2>3. [co |-> "created", result |-> "spawned", isTimeout |-> FALSE, wakeupTime |-> Nil] \in Session
    BY DEF Session
  <2>4. sessions' \in [Sids -> Session \cup {Nil}]
    BY <1>1, <2>1, <2>3 DEF Spawn
  <2> QED BY <1>1, <2>1, <2>2, <2>4 DEF Spawn, tickVars
<1>2. ASSUME NEW s \in Sids, NEW arg \in Args, Wakeup(s, arg) PROVE TypeOK'
  <2>1. readyQueue' \in Queues
    BY <1>2, EnqueueTypes DEF Wakeup
  <2>0. sessions[s] \in Session
    BY <1>2 DEF Wakeup
  <2>2. [sessions[s] EXCEPT !.result = arg, !.isTimeout = FALSE] \in Session
    BY <2>0 DEF Session
  <2>3. sessions' = [sessions EXCEPT ![s] = [sessions[s] EXCEPT !.isTimeout = FALSE, !.result = arg]]
    BY <1>2, <2>0 DEF Wakeup, Session
  <2>4. sessions' \in [Sids -> Session \cup {Nil}]
    BY <2>2, <2>3
  <2> QED BY <1>2, <2>1, <2>4 DEF Wakeup, tickVars
<1>3. ASSUME NEW s \in Sids, Kill(s) PROVE TypeOK'
  BY <1>3 DEF Kill, tickVars
<1>4. CASE Return
  BY <1>4 DEF Return, tickVars
<1>5. CASE Fail
  <2>1. sessions' \in [Sids -> Session \cup {Nil}]
    BY <1>5 DEF Fail, Session
  <2> QED BY <1>5, <2>1 DEF Fail, tickVars
<1>6. ASSUME NEW t \in Timeouts \cup {Nil}, Wait(t) PROVE TypeOK'
  <2> DEFINE deadline == IF t = Nil THEN Nil ELSE now + t
  <2>1. t # Nil => deadline \in Nat
    OBVIOUS
  <2>2. running \in Sids /\ sessions[running] \in Session
    BY <1>6 DEF Wait
  <2>5. \E w \in Nat \cup {Nil} : sessions' = [sessions EXCEPT ![running] =
          [sessions[running] EXCEPT !.co = "waiting", !.result = Nil, !.wakeupTime = w]]
    BY <1>6, <2>1, <2>2 DEF Wait, Session
  <2>6. \A w \in Nat \cup {Nil} :
          [sessions[running] EXCEPT !.co = "waiting", !.result = Nil, !.wakeupTime = w] \in Session
    BY <2>2 DEF Session
  <2>3. sessions' \in [Sids -> Session \cup {Nil}]
    BY <2>2, <2>5, <2>6
  <2>4. sleepList' \subseteq [sessionID : Sids, wakeupTime : Nat]
    BY <1>6, <2>1, <2>2 DEF Wait
  <2> QED BY <1>6, <2>3, <2>4 DEF Wait, tickVars
<1>7. CASE Clock
  BY <1>7 DEF Clock, tickVars
<1>8. CASE TickStart
  BY <1>8 DEF TickStart
<1>9. ASSUME NEW item \in sleepList, PopTimer(item) PROVE TypeOK'
  <2>1. item.sessionID \in Sids
    OBVIOUS
  <2>2. CASE Expires(item)
    <3>1. readyQueue' \in Queues
      BY <1>9, <2>1, <2>2, EnqueueTypes DEF PopTimer
    <3>2. sessions[item.sessionID] \in Session
      BY <2>1, <2>2 DEF Expires
    <3>3. sessions' = [sessions EXCEPT ![item.sessionID] =
                         [sessions[item.sessionID] EXCEPT !.isTimeout = TRUE, !.result = "expired"]]
      BY <1>9, <2>1, <2>2, <3>2 DEF PopTimer, Session
    <3>4. sessions' \in [Sids -> Session \cup {Nil}]
      BY <2>1, <3>2, <3>3 DEF Session
    <3> QED BY <1>9, <3>1, <3>4 DEF PopTimer, tickVars
  <2>3. CASE ~Expires(item)
    BY <1>9, <2>3 DEF PopTimer, tickVars
  <2> QED BY <2>2, <2>3
<1>10. CASE TimersDone
  <2>1. queueSize' \in 0 .. MaxIdx
    BY <1>10, LengthsAssumption DEF TimersDone, Borders
  <2> QED BY <1>10, <2>1 DEF TimersDone
<1>11. CASE ResumeNext
  <2>1. head \in Slots
    BY <1>11 DEF ResumeNext, LoopEnds, Slots
  <2>2. head' \in 1 .. MaxIdx + 1
    BY <1>11, <2>1 DEF ResumeNext, Slots
  <2>3. readyQueue[head] \in Sids \cup {Nil}
    BY <2>1 DEF Queues
  <2>5. CASE UNCHANGED <<sessions, running>>
    BY <1>11, <2>2, <2>5 DEF ResumeNext
  <2>6. CASE readyQueue[head] # Nil /\ sessions[readyQueue[head]] # Nil
             /\ running' = readyQueue[head]
    <3> DEFINE t == readyQueue[head]
               woken == IF sessions[t].co = "created" THEN [sessions[t] EXCEPT !.co = "running"]
                        ELSE [co |-> "running", result |-> Nil, isTimeout |-> FALSE,
                              wakeupTime |-> Nil]
    <3>1. t \in Sids /\ sessions[t] \in Session
      BY <2>3, <2>6
    <3>2. woken \in Session
      BY <3>1 DEF Session
    <3>3. sessions' = [sessions EXCEPT ![t] = woken] \/ sessions' = sessions
      BY <1>11 DEF ResumeNext
    <3>4. sessions' \in [Sids -> Session \cup {Nil}]
      BY <3>1, <3>2, <3>3
    <3> QED BY <1>11, <2>2, <2>6, <3>1, <3>4 DEF ResumeNext
  <2> QED BY <1>11, <2>5, <2>6 DEF ResumeNext
<1>12. CASE TickEnd
  BY <1>12 DEF TickEnd, Queues
<1>13. CASE UNCHANGED vars
  BY <1>13 DEF vars
<1> QED
  BY <1>1, <1>2, <1>3, <1>4, <1>5, <1>6, <1>7, <1>8, <1>9, <1>10, <1>11, <1>12, <1>13 DEF Next, Yield, OnTick

LEMMA InitTypes == Init => TypeOK
  BY CoroutineAssumption DEF Init, TypeOK, Queues, Sids, Slots

\* The fields of the scheduler keep their types.
THEOREM SchedulerTypes == Spec => []TypeOK
  BY InitTypes, TypesKeep, PTL DEF Spec

-----------------------------------------------------------------------------
\* Control over the sessions, and the ids that were given out.

\* A coroutine that never ran has its arguments, and so it is never timed out,
\* and one that runs has taken its answer.
Answers ==
  \A s \in Sids : sessions[s] # Nil =>
    /\ sessions[s].co = "created" => sessions[s].result # Nil /\ ~sessions[s].isTimeout
    /\ sessions[s].co = "running" => ~sessions[s].isTimeout

\* Ids beyond the seed belong to nobody.
Fresh ==
  /\ \A s \in Sids : sessions[s] # Nil => s <= sessionSeed
  /\ running # Nil => running <= sessionSeed

SInv == TypeOK /\ Control /\ Fresh /\ Answers /\ lastTickMS <= now /\ TimeoutIsDue

LEMMA InitInv == Init => SInv
<1> SUFFICES ASSUME Init PROVE SInv
  OBVIOUS
<1>1. TypeOK
  BY InitTypes
<1>2. Control /\ Fresh /\ Answers /\ TimeoutIsDue
  BY DEF Init, Control, Fresh, Answers, TimeoutIsDue, Suspended
<1> QED BY <1>1, <1>2 DEF SInv, Init

\* The two fields that an accepted Wakeup sets.
LEMMA WakeupIs ==
  ASSUME TypeOK, NEW s \in Sids, NEW arg \in Args, Wakeup(s, arg)
  PROVE  sessions' = [sessions EXCEPT ![s] = [sessions[s] EXCEPT !.isTimeout = FALSE, !.result = arg]]
<1>1. sessions[s] \in Session
  BY DEF Wakeup, TypeOK
<1> QED BY <1>1 DEF Wakeup, TypeOK, Session

LEMMA InvKeeps == SInv /\ [Next]_vars => SInv'
<1> SUFFICES ASSUME SInv, [Next]_vars PROVE SInv'
  OBVIOUS
<1>0. TypeOK'
  BY TypesKeep DEF SInv
<1> DEFINE Rest == Control /\ Fresh /\ Answers /\ lastTickMS <= now /\ TimeoutIsDue
<1> USE CoroutineAssumption DEF SInv, TypeOK, Control, Fresh, Answers, TimeoutIsDue, Suspended
<1>a. Nil \notin Sids /\ Sids \subseteq Nat
  BY DEF Sids
<1>1. CASE Spawn
  <2>1. sessionSeed + 1 \in Sids /\ sessions[sessionSeed + 1] = Nil
    BY <1>1 DEF Spawn, Sids
  <2>2. \A s \in Sids : sessions'[s] =
          IF s = sessionSeed + 1
          THEN [co |-> "created", result |-> "spawned", isTimeout |-> FALSE, wakeupTime |-> Nil]
          ELSE sessions[s]
    BY <1>1 DEF Spawn
  <2>3. Sids \subseteq Nat
    BY DEF Sids
  <2> QED BY <1>0, <1>1, <2>1, <2>2, <2>3 DEF Spawn, tickVars
<1>2. ASSUME NEW s \in Sids, NEW arg \in Args, Wakeup(s, arg) PROVE Rest'
  <2>0. sessions[s] \in Session
    BY <1>2 DEF Wakeup
  <2>1. sessions' = [sessions EXCEPT ![s] = [sessions[s] EXCEPT !.isTimeout = FALSE, !.result = arg]]
    BY <1>2, WakeupIs
  <2>2. /\ sessions'[s].co = sessions[s].co
        /\ sessions'[s].result = arg
        /\ sessions'[s].isTimeout = FALSE
    BY <2>0, <2>1 DEF Session
  <2>3. \A t \in Sids \ {s} : sessions'[t] = sessions[t]
    BY <2>1
  <2>4. UNCHANGED <<sessionSeed, sleepList, now, lastTickMS, phase, running>> /\ sessions[s] # Nil
    BY <1>2 DEF Wakeup, tickVars
  <2>5. \A t \in Sids : /\ sessions'[t] # Nil => sessions[t] # Nil /\ sessions'[t].co = sessions[t].co
                        /\ t # s => sessions'[t] = sessions[t]
    BY <2>2, <2>3, <2>4
  <2>6. Control' /\ Fresh'
    BY <2>4, <2>5
  <2>7. arg # Nil
    BY <1>2
  <2>8. Answers' /\ TimeoutIsDue'
    BY <2>2, <2>4, <2>5, <2>7
  <2> QED BY <2>4, <2>6, <2>8
<1>3. ASSUME NEW s \in Sids, Kill(s) PROVE Rest'
  BY <1>3 DEF Kill, tickVars
<1>4. CASE Return
  BY <1>4 DEF Return, tickVars
<1>5. CASE Fail
  <2>1. \A t \in Sids : \/ sessions'[t] = sessions[t] /\ t # running
                        \/ sessions'[t] = Nil
                        \/ sessions'[t].co = "failed" /\ t = running /\ sessions[t] # Nil
    BY <1>5 DEF Fail, Session
  <2> QED BY <1>0, <1>5, <2>1 DEF Fail, tickVars
<1>6. ASSUME NEW t \in Timeouts \cup {Nil}, Wait(t) PROVE Rest'
  <2>1. running \in Sids /\ sessions[running] \in Session
    BY <1>6 DEF Wait
  <2>2. /\ sessions'[running].co = "waiting"
        /\ sessions'[running].result = Nil
        /\ sessions'[running].isTimeout = sessions[running].isTimeout
    BY <1>6, <2>1 DEF Wait, Session
  <2>3. \A s \in Sids \ {running} : sessions'[s] = sessions[s]
    BY <1>6, <2>1 DEF Wait
  <2> QED BY <1>0, <1>6, <2>1, <2>2, <2>3 DEF Wait, tickVars
<1>7. CASE Clock
  BY <1>7 DEF Clock, tickVars
<1>8. CASE TickStart
  <2>1. \A s \in Sids : sessions[s] # Nil => sessions[s].wakeupTime \in Nat \cup {Nil}
    BY DEF Session
  <2> QED BY <1>8, <2>1 DEF TickStart
<1>9. ASSUME NEW item \in sleepList, PopTimer(item) PROVE Rest'
  <2> DEFINE s == item.sessionID
  <2>1. s \in Sids /\ item.wakeupTime \in Nat /\ item.wakeupTime <= lastTickMS /\ running = Nil
    BY <1>9 DEF PopTimer, Due
  <2>2. CASE Expires(item)
    <3>1. sessions[s] \in Session
      BY <2>1, <2>2 DEF Expires
    <3>2. sessions' = [sessions EXCEPT ![s] = [sessions[s] EXCEPT !.isTimeout = TRUE, !.result = "expired"]]
      BY <1>9, <2>1, <2>2, <3>1 DEF PopTimer, Session
    <3>3. /\ sessions'[s].co = sessions[s].co
          /\ sessions'[s].wakeupTime = item.wakeupTime
      BY <2>1, <2>2, <3>1, <3>2 DEF Session, Expires
    <3>4. \A t \in Sids \ {s} : sessions'[t] = sessions[t]
      BY <3>2
    <3>5. sessions[s].co # "created" /\ sessions[s].co # "running" /\ sessions[s] # Nil
      BY <1>a, <2>1, <2>2 DEF Expires
    <3> HIDE DEF s
    <3> QED BY <1>0, <1>9, <2>1, <3>3, <3>4, <3>5 DEF PopTimer, tickVars
  <2>3. CASE ~Expires(item)
    BY <1>9, <2>3 DEF PopTimer, tickVars
  <2> QED BY <2>2, <2>3
<1>10. CASE TimersDone
  <2>1. phase' = "resume" /\ UNCHANGED <<sessionSeed, sessions, now, lastTickMS, running>>
    BY <1>10 DEF TimersDone
  <2>2. running = Nil
    BY <1>10 DEF TimersDone
  <2> QED BY <1>0, <2>1, <2>2
<1>11. CASE ResumeNext
  <2>1. head \in Slots
    BY <1>11 DEF ResumeNext, LoopEnds, Slots
  <2>2. readyQueue[head] \in Sids \cup {Nil}
    BY <2>1 DEF Queues
  <2>3. UNCHANGED <<sessionSeed, now, lastTickMS, phase>> /\ phase = "resume"
    BY <1>11 DEF ResumeNext
  <2>5. CASE UNCHANGED <<sessions, running>>
    BY <1>0, <2>3, <2>5
  <2>6. CASE readyQueue[head] # Nil /\ sessions[readyQueue[head]] # Nil
             /\ running' = readyQueue[head]
    <3> DEFINE s == readyQueue[head]
    <3>1. s \in Sids /\ sessions[s] \in Session /\ running = Nil
      BY <1>11, <2>2, <2>6 DEF ResumeNext
    <3>3. \A t \in Sids \ {s} : sessions'[t] = sessions[t]
      BY <1>11, <3>1 DEF ResumeNext
    <3>4. CASE sessions'[s].co = "running" /\ sessions'[s].isTimeout = FALSE
      <4> running' = s /\ sessions[s] # Nil
        BY <2>6
      <4> HIDE DEF s
      <4> QED BY <1>0, <1>a, <2>3, <3>1, <3>3, <3>4
    <3>5. \/ UNCHANGED <<sessions, running>>
          \/ sessions'[s].co = "running" /\ sessions'[s].isTimeout = FALSE
      BY <1>11, <3>1 DEF ResumeNext, Session
    <3> QED BY <2>5, <3>4, <3>5
  <2> QED BY <1>11, <2>5, <2>6 DEF ResumeNext
<1>12. CASE TickEnd
  <2>1. running = Nil /\ UNCHANGED <<sessionSeed, sessions, now, lastTickMS, running>>
    BY <1>12 DEF TickEnd
  <2> QED BY <1>0, <2>1
<1>13. CASE UNCHANGED vars
  BY <1>13 DEF vars
<1>14. Rest'
  BY <1>1, <1>2, <1>3, <1>4, <1>5, <1>6, <1>7, <1>8, <1>9, <1>10, <1>11, <1>12, <1>13 DEF Next, Yield, OnTick
<1> QED BY <1>0, <1>14

\* A timer ends only the Wait that set it, and not before its time.
THEOREM NoEarlyTimeout == Spec => []TimeoutIsDue
<1>1. SInv => TimeoutIsDue
  BY DEF SInv
<1> QED BY InitInv, InvKeeps, <1>1, PTL DEF Spec

\* The first answer is the one that the coroutine gets: no handler, no timer and
\* no other coroutine replaces it before the session runs.
THEOREM FirstAnswerWins == Spec => AnswerKept
<1> DEFINE Kept == \A s \in Sids :
             Suspended(s) /\ sessions[s].result # Nil =>
               \/ running' = s
               \/ sessions'[s] = Nil
               \/ sessions'[s] = sessions[s]
<1>1. SInv /\ [Next]_vars => Kept
  <2> SUFFICES ASSUME SInv, Next, NEW s \in Sids, Suspended(s), sessions[s].result # Nil,
                      running' # s, sessions'[s] # Nil
               PROVE  sessions'[s] = sessions[s]
    BY DEF vars
  <2> USE DEF SInv, TypeOK
  <2>0. Nil \notin Sids /\ Sids \subseteq Nat /\ running # s
    BY CoroutineAssumption DEF Sids, Control, Suspended
  <2>1. CASE Spawn
    BY <2>0, <2>1 DEF Spawn, Fresh, Suspended
  <2>2. ASSUME NEW t \in Sids, NEW arg \in Args, Wakeup(t, arg)
        PROVE  sessions'[s] = sessions[s]
    BY <2>2 DEF Wakeup
  <2>3. ASSUME NEW t \in Sids, Kill(t) PROVE sessions'[s] = sessions[s]
    BY <2>3 DEF Kill
  <2>4. CASE Yield
    BY <2>0, <2>4 DEF Yield, Return, Fail, Wait
  <2>5. CASE Clock
    BY <2>5 DEF Clock
  <2>6. CASE TickStart \/ TimersDone \/ TickEnd
    BY <2>6 DEF TickStart, TimersDone, TickEnd
  <2>7. ASSUME NEW item \in sleepList, PopTimer(item) PROVE sessions'[s] = sessions[s]
    BY <2>7 DEF PopTimer, Expires
  <2>8. CASE ResumeNext
    BY <2>8 DEF ResumeNext
  <2> QED
    BY <2>1, <2>2, <2>3, <2>4, <2>5, <2>6, <2>7, <2>8 DEF Next, OnTick
<1> QED BY InitInv, InvKeeps, <1>1, PTL DEF Spec, AnswerKept

-----------------------------------------------------------------------------
\* The timers: who waits for a time has an item with that time in the heap, and
\* who does not wait has none.  Items of earlier Waits may be there as well.
Waits(s) == Suspended(s) /\ sessions[s].result = Nil /\ sessions[s].wakeupTime # Nil

Armed ==
  /\ \A s \in Sids : sessions[s] # Nil /\ sessions[s].co \in {"created", "running"}
       => sessions[s].wakeupTime = Nil
  /\ \A s \in Sids : Waits(s)
       => [sessionID |-> s, wakeupTime |-> sessions[s].wakeupTime] \in sleepList

\* What a step does to the sessions other than the one that it changes.
LEMMA ArmedFrame ==
  ASSUME Armed, NobodyOverdue, NEW s \in Sids,
         \A t \in Sids \ {s} : sessions'[t] = sessions[t],
         sessions'[s] # Nil /\ sessions'[s].co \in {"created", "running"}
           => sessions'[s].wakeupTime = Nil,
         ~Waits(s)',
         UNCHANGED <<sleepList, lastTickMS, phase>>
  PROVE  Armed' /\ NobodyOverdue'
BY DEF Armed, NobodyOverdue, Waits, Suspended

LEMMA ArmedKeeps == SInv /\ Armed /\ NobodyOverdue /\ [Next]_vars => Armed' /\ NobodyOverdue'
<1> SUFFICES ASSUME SInv, Armed, NobodyOverdue, [Next]_vars PROVE Armed' /\ NobodyOverdue'
  OBVIOUS
<1> USE CoroutineAssumption DEF SInv, TypeOK
<1>a. Nil \notin Sids /\ Sids \subseteq Nat /\ Nil # "spawned" /\ Nil # "expired"
  BY DEF Sids
<1>b. ASSUME UNCHANGED <<sessions, sleepList, lastTickMS>>, phase' = "timers" => phase = "timers",
             phase' # "timers" => phase # "timers"
      PROVE  Armed' /\ NobodyOverdue'
  BY <1>b DEF Armed, NobodyOverdue, Waits, Suspended
<1>1. CASE Spawn
  <2> DEFINE new == sessionSeed + 1
  <2>1. new \in Sids /\ UNCHANGED <<sleepList, lastTickMS, phase>>
    BY <1>1 DEF Spawn, Sids, tickVars
  <2>2. /\ \A t \in Sids \ {new} : sessions'[t] = sessions[t]
        /\ sessions'[new].wakeupTime = Nil
    BY <1>1, <2>1 DEF Spawn
  <2> HIDE DEF new
  <2> QED BY <2>1, <2>2, ArmedFrame DEF Waits
<1>2. ASSUME NEW s \in Sids, NEW arg \in Args, Wakeup(s, arg) PROVE Armed' /\ NobodyOverdue'
  <2>0. sessions[s] \in Session
    BY <1>2 DEF Wakeup
  <2>1. sessions' = [sessions EXCEPT ![s] = [sessions[s] EXCEPT !.isTimeout = FALSE, !.result = arg]]
    BY <1>2, <2>0 DEF Wakeup, Session
  <2>2. /\ sessions'[s].co = sessions[s].co /\ sessions'[s].result # Nil
        /\ sessions'[s].wakeupTime = sessions[s].wakeupTime
        /\ \A t \in Sids \ {s} : sessions'[t] = sessions[t]
    BY <2>0, <2>1 DEF Session
  <2> QED BY <1>2, <2>2, ArmedFrame DEF Wakeup, tickVars, Waits, Armed
<1>3. ASSUME NEW s \in Sids, Kill(s) PROVE Armed' /\ NobodyOverdue'
  BY <1>3, ArmedFrame DEF Kill, tickVars, Waits, Suspended
<1>4. CASE Return
  BY <1>4, ArmedFrame DEF Return, tickVars, Waits, Suspended
<1>5. CASE Fail
  <2>1. running \in Sids
    BY <1>5 DEF Fail
  <2>2. sessions'[running] = Nil \/ sessions'[running].co = "failed"
    BY <1>5, <2>1 DEF Fail, Session
  <2> QED BY <1>5, <2>1, <2>2, ArmedFrame DEF Fail, tickVars, Waits, Suspended
<1>6. ASSUME NEW t \in Timeouts \cup {Nil}, Wait(t) PROVE Armed' /\ NobodyOverdue'
  <2>1. running \in Sids /\ sessions[running] \in Session /\ phase = "resume"
        /\ sessions[running].wakeupTime = Nil
    BY <1>6 DEF Wait, Control, Armed
  <2>2. /\ sessions'[running].co = "waiting"
        /\ sessions'[running].wakeupTime = IF t = Nil THEN Nil ELSE now + t
        /\ \A s \in Sids \ {running} : sessions'[s] = sessions[s]
        /\ phase' = "resume" /\ lastTickMS' = lastTickMS
    BY <1>6, <2>1 DEF Wait, Session, tickVars
  <2>3. /\ sleepList \subseteq sleepList'
        /\ t # Nil => [sessionID |-> running, wakeupTime |-> now + t] \in sleepList'
    BY <1>6 DEF Wait
  <2>4. t # Nil => now + t > lastTickMS
    OBVIOUS
  <2> QED BY <2>1, <2>2, <2>3, <2>4 DEF Armed, NobodyOverdue, Waits, Suspended
<1>7. CASE Clock \/ TickEnd \/ UNCHANGED vars
  BY <1>b, <1>7 DEF Clock, TickEnd, vars, tickVars
<1>8. CASE TickStart
  BY <1>8 DEF TickStart, Armed, NobodyOverdue, Waits, Suspended
<1>9. ASSUME NEW item \in sleepList, PopTimer(item) PROVE Armed' /\ NobodyOverdue'
  <2> DEFINE s == item.sessionID
  <2>1. s \in Sids /\ phase' = "timers" /\ sleepList' = sleepList \ {item}
    BY <1>9 DEF PopTimer, tickVars
  <2>2. CASE Expires(item)
    <3>1. sessions[s] \in Session
      BY <2>1, <2>2 DEF Expires
    <3>2. sessions' = [sessions EXCEPT ![s] = [sessions[s] EXCEPT !.isTimeout = TRUE, !.result = "expired"]]
      BY <1>9, <2>1, <2>2, <3>1 DEF PopTimer, Session
    <3>3. /\ sessions'[s].co = sessions[s].co /\ sessions'[s].result # Nil
          /\ sessions'[s].wakeupTime = sessions[s].wakeupTime
          /\ \A t \in Sids \ {s} : sessions'[t] = sessions[t]
      BY <1>a, <2>1, <3>1, <3>2 DEF Session
    <3>4. \A t \in Sids \ {s}, w \in Nat : [sessionID |-> t, wakeupTime |-> w] # item
      OBVIOUS
    <3>5. \A t \in Sids : Waits(t)' => t # s /\ Waits(t)
      BY <3>3 DEF Waits, Suspended
    <3>6. \A t \in Sids : Waits(t) => sessions[t].wakeupTime \in Nat
      BY DEF Waits, Suspended, Session
    <3>7. sessions[s] # Nil
      BY <2>2 DEF Expires
    <3> HIDE DEF s
    <3> QED BY <2>1, <3>3, <3>4, <3>5, <3>6, <3>7 DEF Armed, NobodyOverdue
  <2>3. CASE ~Expires(item)
    <3>1. sessions' = sessions
      BY <1>9, <2>3 DEF PopTimer
    <3>2. \A t \in Sids : Waits(t)
            => [sessionID |-> t, wakeupTime |-> sessions[t].wakeupTime] # item
      BY <2>3 DEF Expires, Waits, Suspended
    <3> QED BY <2>1, <3>1, <3>2 DEF Armed, NobodyOverdue, Waits, Suspended
  <2> QED BY <2>2, <2>3
<1>10. CASE TimersDone
  <2>1. UNCHANGED <<sessions, sleepList, lastTickMS>> /\ Due = {}
    BY <1>10 DEF TimersDone
  <2>2. \A s \in Sids : Waits(s) => sessions[s].wakeupTime > lastTickMS
    <3> SUFFICES ASSUME NEW s \in Sids, Waits(s) PROVE sessions[s].wakeupTime > lastTickMS
      OBVIOUS
    <3> DEFINE item == [sessionID |-> s, wakeupTime |-> sessions[s].wakeupTime]
    <3>1. item \in sleepList /\ item.wakeupTime = sessions[s].wakeupTime
      BY DEF Armed
    <3>2. sessions[s].wakeupTime \in Nat
      BY DEF Waits, Suspended, Session
    <3>3. ~(item.wakeupTime <= lastTickMS)
      BY <2>1, <3>1 DEF Due
    <3> QED BY <3>1, <3>2, <3>3
  <2> QED BY <2>1, <2>2 DEF Armed, NobodyOverdue, Waits, Suspended
<1>11. CASE ResumeNext
  <2>1. head \in Slots
    BY <1>11 DEF ResumeNext, LoopEnds, Slots
  <2>2. readyQueue[head] \in Sids \cup {Nil} /\ UNCHANGED <<sleepList, lastTickMS, phase>>
    BY <1>11, <2>1 DEF ResumeNext, Queues
  <2>3. CASE sessions' = sessions
    BY <1>b, <2>2, <2>3
  <2>4. CASE readyQueue[head] # Nil /\ sessions[readyQueue[head]] # Nil /\ sessions' # sessions
    <3> DEFINE s == readyQueue[head]
    <3>1. s \in Sids /\ sessions[s] \in Session
      BY <2>2, <2>4
    <3>2. sessions' = [sessions EXCEPT ![s] =
            IF @.co = "created" THEN [@ EXCEPT !.co = "running"]
            ELSE [co |-> "running", result |-> Nil, isTimeout |-> FALSE, wakeupTime |-> Nil]]
      BY <1>11, <2>4 DEF ResumeNext
    <3>3. sessions'[s].co = "running" /\ sessions'[s].wakeupTime = Nil
      <4>1. CASE sessions[s].co = "created"
        <5>1. sessions[s].wakeupTime = Nil
          BY <2>4, <3>1, <4>1 DEF Armed
        <5>2. sessions'[s] = [sessions[s] EXCEPT !.co = "running"]
          BY <3>1, <3>2, <4>1
        <5> QED BY <3>1, <5>1, <5>2 DEF Session
      <4>2. CASE sessions[s].co # "created"
        BY <3>1, <3>2, <4>2
      <4> QED BY <4>1, <4>2
    <3>4. \A t \in Sids \ {s} : sessions'[t] = sessions[t]
      BY <3>2
    <3> HIDE DEF s
    <3> QED BY <2>2, <3>1, <3>3, <3>4, ArmedFrame DEF Waits, Suspended
  <2> QED BY <1>11, <2>3, <2>4 DEF ResumeNext
<1> QED
  BY <1>1, <1>2, <1>3, <1>4, <1>5, <1>6, <1>7, <1>8, <1>9, <1>10, <1>11 DEF Next, Yield, OnTick

\* A tick overlooks no Wait whose time has come, whatever items of earlier Waits
\* are in the heap, and whoever was answered, killed or spawned in between.
THEOREM EveryTimeoutIsServed == Spec => []NobodyOverdue
<1>1. Init => Armed /\ NobodyOverdue
  BY DEF Init, Armed, NobodyOverdue, Waits, Suspended
<1> QED BY InitInv, InvKeeps, ArmedKeeps, <1>1, PTL DEF Spec

-----------------------------------------------------------------------------
\* The ready queue, as long as nobody is spawned or woken by a running coroutine.

\* What the slots still to come hold: each session at most once, no session that
\* has no answer, and each suspended one that has.
QInv ==
  /\ \A i \in Slots : readyQueue[i] # Nil => readyQueue[i] <= sessionSeed
  /\ \A i, j \in Ahead : readyQueue[i] = readyQueue[j] /\ readyQueue[i] # Nil => i = j
  /\ \A s \in Sids : sessions[s] # Nil /\ sessions[s].result = Nil => ~Queued(s)
  /\ \A s \in Sids : Suspended(s) /\ sessions[s].result # Nil => Queued(s)
  /\ running # Nil => ~Queued(running)

LEMMA InitQueue == Init => QInv
  BY DEF Init, QInv, Queued, Ahead, Suspended

\* A session that was not in the queue is added to it.
LEMMA EnqueueAdds ==
  ASSUME TypeOK, QInv, phase # "resume", phase' = phase,
         NEW s \in Sids, ~Queued(s), Enqueue(s)
  PROVE  /\ Ahead = Slots /\ Ahead' = Slots
         /\ \A t \in Sids : Queued(t)' <=> Queued(t) \/ t = s
         /\ \A i, j \in Slots :
              readyQueue'[i] = readyQueue'[j] /\ readyQueue'[i] # Nil => i = j
         /\ \A i \in Slots : readyQueue'[i] \in {readyQueue[i], s}
<1>1. PICK k \in Slots : readyQueue[k] = Nil /\ readyQueue' = [readyQueue EXCEPT ![k] = s]
  BY EnqueueFills
<1>2. Ahead = Slots /\ Ahead' = Slots
  BY DEF Ahead
<1>3. \A i \in Slots : readyQueue'[i] = IF i = k THEN s ELSE readyQueue[i]
  BY <1>1 DEF TypeOK, Queues
<1>4. \A t \in Sids : Queued(t)' <=> Queued(t) \/ t = s
  <2>1. Nil \notin Sids
    BY CoroutineAssumption DEF Sids
  <2> QED BY <1>1, <1>2, <1>3, <2>1 DEF Queued
<1>5. \A i, j \in Slots : readyQueue'[i] = readyQueue'[j] /\ readyQueue'[i] # Nil => i = j
  BY <1>2, <1>3 DEF QInv, Queued
<1> QED BY <1>2, <1>3, <1>4, <1>5

LEMMA QueueKeeps ==
  ASSUME SInv, QInv, ~Nested, [Next]_vars
  PROVE  QInv'
<1> USE DEF SInv, TypeOK
<1>0. Nil \notin Sids /\ Sids \subseteq Nat
  BY CoroutineAssumption DEF Sids
<1>1. CASE Spawn
  <2> DEFINE new == sessionSeed + 1
  <2>1. sessionSeed \in Nat /\ new \in Sids /\ running = Nil
    BY <1>1, CoroutineAssumption DEF Spawn, Sids, CallerRuns, Control
  <2>0. sessions[new] = Nil
    BY <1>0, <2>1 DEF Fresh
  <2>2. phase # "resume" /\ phase' = phase /\ Enqueue(new)
    BY <1>1 DEF Spawn, CallerRuns, tickVars
  <2>3. ~Queued(new)
    <3>1. new # Nil /\ ~(new <= sessionSeed)
      BY <1>0, <2>1
    <3> HIDE DEF new
    <3> QED BY <3>1 DEF QInv, Queued, Ahead
  <2>4. /\ Ahead = Slots /\ Ahead' = Slots
        /\ \A t \in Sids : Queued(t)' <=> Queued(t) \/ t = new
        /\ \A i, j \in Slots :
             readyQueue'[i] = readyQueue'[j] /\ readyQueue'[i] # Nil => i = j
        /\ \A i \in Slots : readyQueue'[i] \in {readyQueue[i], new}
    BY <2>1, <2>2, <2>3, EnqueueAdds
  <2>5. /\ sessions'[new].result = "spawned"
        /\ \A t \in Sids \ {new} : sessions'[t] = sessions[t]
        /\ sessionSeed' = new /\ running' = Nil
    BY <1>1, <2>1 DEF Spawn
  <2>6. "spawned" # Nil
    BY CoroutineAssumption
  <2>7. \A i \in Slots : readyQueue[i] \in Sids \cup {Nil}
    BY DEF Queues
  <2> HIDE DEF new
  <2>8. \A i \in Slots : readyQueue'[i] # Nil => readyQueue'[i] <= sessionSeed'
    <3> SUFFICES ASSUME NEW i \in Slots, readyQueue'[i] # Nil
                 PROVE  readyQueue'[i] <= new
      BY <2>5
    <3>1. CASE readyQueue'[i] = new
      BY <1>0, <2>1, <3>1
    <3>2. CASE readyQueue'[i] = readyQueue[i]
      <4>1. readyQueue[i] \in Nat /\ readyQueue[i] <= sessionSeed
        BY <1>0, <2>7, <3>2 DEF QInv
      <4> QED BY <2>1, <3>2, <4>1 DEF new
    <3> QED BY <2>4, <3>1, <3>2
  <2>9. \A s \in Sids : sessions'[s] # Nil /\ sessions'[s].result = Nil => ~Queued(s)'
    BY <2>4, <2>5, <2>6 DEF QInv
  <2>10. \A s \in Sids : Suspended(s)' /\ sessions'[s].result # Nil => Queued(s)'
    BY <2>4, <2>5 DEF QInv, Suspended
  <2> QED BY <2>4, <2>5, <2>8, <2>9, <2>10 DEF QInv
<1>2. ASSUME NEW s \in Sids, NEW arg \in Args, Wakeup(s, arg) PROVE QInv'
  <2>1. /\ phase # "resume" /\ phase' = phase /\ running = Nil /\ running' = Nil
        /\ UNCHANGED sessionSeed /\ Enqueue(s) /\ ~Queued(s) /\ sessions[s] \in Session
        /\ s <= sessionSeed
    BY <1>2 DEF Wakeup, CallerRuns, Control, tickVars, QInv, Fresh
  <2>2. /\ Ahead = Slots /\ Ahead' = Slots
        /\ \A t \in Sids : Queued(t)' <=> Queued(t) \/ t = s
        /\ \A i, j \in Slots :
             readyQueue'[i] = readyQueue'[j] /\ readyQueue'[i] # Nil => i = j
        /\ \A i \in Slots : readyQueue'[i] \in {readyQueue[i], s}
    BY <2>1, EnqueueAdds
  <2>3. sessions' = [sessions EXCEPT ![s] = [sessions[s] EXCEPT !.isTimeout = FALSE, !.result = arg]]
    BY <1>2, <2>1 DEF Wakeup, Session
  <2>4. sessions'[s].result = arg /\ arg # Nil /\ \A t \in Sids \ {s} : sessions'[t] = sessions[t]
    BY <2>1, <2>3, CoroutineAssumption DEF Session
  <2>5. \A i \in Slots : readyQueue'[i] # Nil => readyQueue'[i] <= sessionSeed'
    BY <2>1, <2>2 DEF QInv
  <2>6. \A t \in Sids : sessions'[t] # Nil /\ sessions'[t].result = Nil => ~Queued(t)'
    BY <2>2, <2>4 DEF QInv
  <2>7. \A t \in Sids : Suspended(t)' /\ sessions'[t].result # Nil => Queued(t)'
    BY <2>2, <2>4 DEF QInv, Suspended
  <2> QED BY <2>1, <2>2, <2>5, <2>6, <2>7 DEF QInv
<1>3. ASSUME NEW s \in Sids, Kill(s) PROVE QInv'
  <2>1. \A t \in Sids : sessions'[t] = Nil \/ sessions'[t] = sessions[t]
    BY <1>3 DEF Kill
  <2> QED BY <1>3, <2>1 DEF Kill, tickVars, QInv, Queued, Ahead, Suspended
<1>4. CASE Return
  <2>1. \A t \in Sids : sessions'[t] = Nil \/ sessions'[t] = sessions[t]
    BY <1>4 DEF Return
  <2> QED BY <1>4, <2>1 DEF Return, tickVars, QInv, Queued, Ahead, Suspended
<1>5. CASE Fail
  <2>1. \A t \in Sids : \/ sessions'[t] = sessions[t]
                        \/ sessions'[t].co = "failed" /\ sessions'[t].result = sessions[t].result
                           /\ sessions[t] # Nil
    BY <1>5 DEF Fail, Session
  <2> QED BY <1>5, <2>1 DEF Fail, tickVars, QInv, Queued, Ahead, Suspended
<1>6. ASSUME NEW t \in Timeouts \cup {Nil}, Wait(t) PROVE QInv'
  <2>1. running \in Sids /\ sessions[running] \in Session /\ ~Queued(running)
    BY <1>6 DEF Wait, QInv
  <2>2. sessions'[running].result = Nil /\ \A s \in Sids \ {running} : sessions'[s] = sessions[s]
    BY <1>6, <2>1 DEF Wait, Session
  <2> QED BY <1>6, <2>1, <2>2 DEF Wait, tickVars, QInv, Queued, Ahead, Suspended
<1>7. CASE Clock \/ TickStart \/ TimersDone
  <2>1. UNCHANGED <<sessionSeed, sessions, readyQueue, running>>
    BY <1>7 DEF Clock, TickStart, TimersDone
  <2>2. Ahead' = Ahead
    BY <1>7 DEF Clock, TickStart, TimersDone, Ahead, Slots, tickVars
  <2> QED BY <2>1, <2>2 DEF QInv, Queued, Suspended
<1>8. ASSUME NEW item \in sleepList, PopTimer(item) PROVE QInv'
  <2> DEFINE s == item.sessionID
  <2>1. /\ phase # "resume" /\ phase' = phase /\ running = Nil /\ running' = Nil
        /\ UNCHANGED sessionSeed /\ s \in Sids
    BY <1>8 DEF PopTimer, Control, tickVars
  <2>2. CASE Expires(item)
    <3>1. sessions[s] \in Session /\ ~Queued(s) /\ Enqueue(s) /\ s <= sessionSeed
      BY <1>8, <2>1, <2>2 DEF PopTimer, Expires, QInv, Fresh
    <3>2. sessions' = [sessions EXCEPT ![s] = [sessions[s] EXCEPT !.isTimeout = TRUE, !.result = "expired"]]
      BY <1>8, <2>1, <2>2, <3>1 DEF PopTimer, Session
    <3> HIDE DEF s
    <3>3. /\ Ahead = Slots /\ Ahead' = Slots
          /\ \A t \in Sids : Queued(t)' <=> Queued(t) \/ t = s
          /\ \A i, j \in Slots :
               readyQueue'[i] = readyQueue'[j] /\ readyQueue'[i] # Nil => i = j
          /\ \A i \in Slots : readyQueue'[i] \in {readyQueue[i], s}
      BY <2>1, <3>1, EnqueueAdds
    <3>4. /\ sessions'[s].result = "expired" /\ "expired" # Nil
          /\ \A t \in Sids \ {s} : sessions'[t] = sessions[t]
      BY <2>1, <3>1, <3>2, CoroutineAssumption DEF Session
    <3>5. \A i \in Slots : readyQueue'[i] # Nil => readyQueue'[i] <= sessionSeed'
      BY <2>1, <3>1, <3>3 DEF QInv
    <3>6. \A t \in Sids : sessions'[t] # Nil /\ sessions'[t].result = Nil => ~Queued(t)'
      BY <3>3, <3>4 DEF QInv
    <3>7. \A t \in Sids : Suspended(t)' /\ sessions'[t].result # Nil => Queued(t)'
      BY <3>3, <3>4 DEF QInv, Suspended
    <3> QED BY <2>1, <3>3, <3>5, <3>6, <3>7 DEF QInv
  <2>3. CASE ~Expires(item)
    BY <1>8, <2>3 DEF PopTimer, tickVars, QInv, Queued, Ahead, Suspended
  <2> QED BY <2>2, <2>3
<1>9. CASE ResumeNext
  <2>1. /\ head \in Slots /\ head \in Ahead /\ head' = head + 1 /\ phase = "resume" /\ phase' = phase
        /\ running = Nil /\ UNCHANGED <<sessionSeed, readyQueue>>
    BY <1>9, CoroutineAssumption DEF ResumeNext, LoopEnds, Slots, Ahead
  <2>2. Ahead' = Ahead \ {head}
    BY <2>1 DEF Ahead, Slots
  <2>3. PICK s \in Sids \cup {Nil} : s = readyQueue[head]
    BY <2>1 DEF Queues
  <2>4. /\ \A t \in Sids : Queued(t)' => Queued(t)
        /\ \A t \in Sids : Queued(t) => Queued(t)' \/ t = s
    BY <2>1, <2>2, <2>3 DEF Queued
  <2>9. s # Nil => ~Queued(s)'
    BY <2>1, <2>2, <2>3 DEF Queued, QInv
  <2>5. \/ UNCHANGED <<sessions, running>> /\ (s # Nil => ~Suspended(s))
        \/ /\ s # Nil /\ running' = s /\ sessions'[s].co = "running"
           /\ \A t \in Sids \ {s} : sessions'[t] = sessions[t]
    <3>1. CASE s = Nil
      BY <1>9, <2>3, <3>1 DEF ResumeNext
    <3>2. CASE s # Nil
      <4>1. s \in Sids /\ (sessions[s] # Nil => sessions[s] \in Session)
        BY <2>3, <3>2
      <4> QED BY <1>9, <2>3, <3>2, <4>1 DEF ResumeNext, Suspended, Session
    <3> QED BY <3>1, <3>2
  <2>6. \A t \in Sids : sessions'[t] # Nil /\ sessions'[t].result = Nil => ~Queued(t)'
    BY <2>4, <2>5, <2>9 DEF QInv
  <2>7. ASSUME NEW t \in Sids, Suspended(t)', sessions'[t].result # Nil PROVE Queued(t)'
    <3>1. sessions'[t] = sessions[t] /\ t # s
      BY <1>0, <2>5, <2>7 DEF Suspended
    <3>2. Suspended(t) /\ sessions[t].result # Nil
      BY <2>7, <3>1 DEF Suspended
    <3> QED BY <2>4, <3>1, <3>2 DEF QInv
  <2>8. running' # Nil => ~Queued(running)'
    <3>1. running' # Nil => running' = s /\ s # Nil
      BY <2>1, <2>5
    <3> QED BY <2>9, <3>1 DEF Queued
  <2> QED BY <2>1, <2>2, <2>6, <2>7, <2>8 DEF QInv
<1>10. CASE TickEnd
  <2>1. phase = "resume" /\ Ahead' = Slots /\ running' = Nil /\ UNCHANGED <<sessionSeed, sessions>>
    BY <1>10 DEF TickEnd, Ahead
  <2>2. \A i \in Slots : readyQueue'[i] = IF i \in Ahead THEN readyQueue[i] ELSE Nil
    BY <1>10, <2>1 DEF TickEnd, Ahead, Slots
  <2>3. \A t \in Sids : Queued(t)' <=> Queued(t)
    BY <1>0, <2>1, <2>2 DEF Queued, Ahead
  <2> QED BY <2>1, <2>2, <2>3 DEF QInv, Suspended, Ahead
<1>11. CASE UNCHANGED vars
  BY <1>11 DEF vars, QInv, Queued, Ahead, Suspended
<1> QED
  BY <1>1, <1>2, <1>3, <1>4, <1>5, <1>6, <1>7, <1>8, <1>9, <1>10, <1>11 DEF Next, Yield, OnTick

\* As long as no running coroutine spawns or wakes another, a suspended coroutine
\* is in the ready queue exactly if it has an answer, and once: whatever border the
\* length of the queue is, and wherever the limit of a tick falls.
THEOREM NothingIsLost == Spec => [](~Nested => ReadyIffAnswered)
<1>1. Init => SInv /\ (~Nested => QInv)
  BY InitInv, InitQueue
<1>2. SInv /\ (~Nested => QInv) /\ [Next]_vars => SInv' /\ (~Nested => QInv)'
  BY InvKeeps, QueueKeeps
<1>3. SInv /\ (~Nested => QInv) => (~Nested => ReadyIffAnswered)
  BY DEF QInv, ReadyIffAnswered, Suspended
<1> QED BY <1>1, <1>2, <1>3, PTL DEF Spec
=============================================================================
