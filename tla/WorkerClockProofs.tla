------------------------- MODULE WorkerClockProofs -------------------------
(***************************************************************************)
(* Proofs about WorkerClock, for any goroutines, messages, actions and     *)
(* durations.                                                              *)
(***************************************************************************)
EXTENDS WorkerClock, SequenceTheorems, TLAPS

(* Between two receipts: what a message has rested and what is left of its *)
(* visibility timeout are together never less than the delay.              *)
RestedOrHidden == \A m \in Messages : hidden[m] + rested[m] >= RetryDelay

(* The time since the pause and what is left of a long poll are together   *)
(* never more than one long poll.                                          *)
PollsEnd ==
    /\ ~paused => pausedFor = 0
    /\ \A g \in Goroutines : At(g, "polling") => worker[g].left + pausedFor <= LongPoll

(* A goroutine at work has a message and counts its actions: none before   *)
(* the first, and the one it runs.                                         *)
Occupied(r) == r.at \in {"received", "acting", "running", "leftOK", "leftFailed", "failing",
                         "acking"}
Counted(r) ==
    /\ Occupied(r) => r.msg \in Messages
    /\ r.at = "received" => r.k = 0
    /\ r.at \in {"running", "leftOK", "leftFailed"} => r.k > 0
ActionsCounted == \A g \in Goroutines : Counted(worker[g])

(* The longest a goroutine will still be busy with its message, unless a   *)
(* process of an agent outlives its timeout.                               *)
TimeToGo(r) ==
    CASE r.at \in {"received", "acting", "running", "leftOK"} ->
            r.left + Longest[r.k] + 2 * CallTime
      [] r.at = "leftFailed" -> r.left + 2 * CallTime
      [] OTHER -> r.left

(* No process outlasts the visibility timeout of its message, and there is *)
(* one at most.                                                            *)
HiddenLongEnough(m) ==
    /\ \A g \in WorksOn(m) : TimeToGo(worker[g]) < hidden[m]
    /\ \A o \in OrphansOf(m) : o.left < hidden[m]
AtMostOne(m) ==
    /\ \A g, h \in WorksOn(m) : g = h
    /\ \A o, p \in OrphansOf(m) : o = p
    /\ WorksOn(m) = {} \/ OrphansOf(m) = {}

ClockInv == ClockTypeOK /\ RestedOrHidden /\ PollsEnd /\ ActionsCounted
Exclusive == \A m \in Messages \ overlong : HiddenLongEnough(m) /\ AtMostOne(m)

WorkerState == [at: Steps, msg: Messages \cup {NoMessage}, k: 0..NActions, left: Nat]

-----------------------------------------------------------------------------
(* Durations, and what a goroutine is after a step.                        *)

LEMMA Durations ==
    /\ NActions \in Nat
    /\ Longest[NActions] = 0
    /\ \A k \in 0..NActions : Longest[k] \in Nat
    /\ \A k \in 1..NActions : Timeout(k) \in Nat /\ Longest[k - 1] = Timeout(k) + Longest[k]
    /\ CallTime \in Nat
    /\ {LongPoll, Visibility, RetryDelay, ErrorPause, Nap} \subseteq Nat \ {0}
    /\ RetryDelay <= Visibility
<1>1. NActions \in Nat
    BY ClockAssumption, LenProperties DEF NActions
<1>2. ASSUME NEW k \in 1..NActions PROVE Timeout(k) \in Nat
    <2>1. Actions[k] \in [kind: {"webhook", "cli_agent"}, timeout: Nat]
        BY ClockAssumption, ElementOfSeq DEF NActions
    <2> QED
        BY <2>1, ClockAssumption DEF Timeout
<1> QED
    BY <1>1, <1>2, ClockAssumption

LEMMA AloneIsAState ==
    ASSUME NEW step \in Steps, NEW time \in Nat
    PROVE  Alone(step, time) \in WorkerState
BY Durations DEF Alone, WorkerState

LEMMA WentOn ==
    ASSUME ClockTypeOK, NEW g \in Goroutines, NEW step \in Steps, NEW time \in Nat,
           Go(g, step, time)
    PROVE  \E r \in WorkerState :
                /\ worker' = [worker EXCEPT ![g] = r]
                /\ r.at = step /\ r.left = time
                /\ r.msg = worker[g].msg /\ r.k = worker[g].k
<1> DEFINE r == [worker[g] EXCEPT !.at = step, !.left = time]
<1>1. worker[g] \in WorkerState
    BY DEF ClockTypeOK, WorkerState
<1>2. /\ r \in WorkerState
      /\ r.at = step /\ r.left = time /\ r.msg = worker[g].msg /\ r.k = worker[g].k
    BY <1>1 DEF WorkerState
<1>3. worker' = [worker EXCEPT ![g] = r]
    BY DEF Go
<1> HIDE DEF r
<1> QED
    BY <1>2, <1>3

LEMMA ActionStarted ==
    ASSUME ClockTypeOK, NEW g \in Goroutines, StartAction(g)
    PROVE  \E r \in WorkerState :
                /\ worker' = [worker EXCEPT ![g] = r]
                /\ r.at = "running" /\ r.left = Timeout(r.k)
                /\ r.msg = worker[g].msg /\ r.k = worker[g].k + 1
<1> DEFINE k == worker[g].k + 1
           r == [worker[g] EXCEPT !.at = "running", !.k = k, !.left = Timeout(k)]
<1>1. worker[g] \in WorkerState /\ worker[g].k < NActions
    BY DEF ClockTypeOK, WorkerState, StartAction
<1>2. k \in 1..NActions /\ k \in 0..NActions /\ Timeout(k) \in Nat /\ "running" \in Steps
    BY <1>1, Durations DEF WorkerState, Steps
<1>3. worker' = [worker EXCEPT ![g] = r]
    BY DEF StartAction
<1>4. /\ r \in WorkerState
      /\ r.at = "running" /\ r.left = Timeout(k) /\ r.msg = worker[g].msg /\ r.k = k
    BY <1>1, <1>2 DEF WorkerState
<1> HIDE DEF r
<1> QED
    BY <1>3, <1>4

(* Every step of a goroutine either goes on without the queue, or takes a  *)
(* message (and may lose it), or changes the visibility of its message.    *)
GoesOn(g, r) ==
    /\ UNCHANGED <<hidden, rested>>
    /\ Occupied(r) =>
        /\ Occupied(worker[g])
        /\ r.msg = Msg(g)
        /\ TimeToGo(r) <= TimeToGo(worker[g])
TakesMessage(g, r) ==
    \E m \in Messages :
        /\ hidden[m] = 0
        /\ hidden' = [hidden EXCEPT ![m] = Visibility]
        /\ rested' = [rested EXCEPT ![m] = 0]
        /\ Occupied(r) => r.msg = m /\ TimeToGo(r) <= 4 * CallTime + Longest[0]
BacksOff(g, r) ==
    /\ Occupied(worker[g]) /\ ~Occupied(r)
    /\ hidden' = [hidden EXCEPT ![Msg(g)] = RetryDelay]
    /\ UNCHANGED rested

Moves(g, r) ==
    /\ worker' = [worker EXCEPT ![g] = r]
    /\ r \in WorkerState
    /\ Counted(r)
    /\ r.at = "polling" => r.left = LongPoll /\ ~paused
    /\ deleted' \subseteq Messages
    /\ UNCHANGED <<userVars, otherVars>>
    /\ GoesOn(g, r) \/ TakesMessage(g, r) \/ BacksOff(g, r)

LEMMA IdleMoves ==
    ASSUME ClockInv, NEW g \in Goroutines,
           \/ BeginReceive(g) \/ NapWhilePaused(g) \/ Wake(g) \/ ReceiveNothing(g)
           \/ Ack(g)
    PROVE  \E r : Moves(g, r)
<1>1. ASSUME NEW step \in {"head", "napping", "polling"}, NEW time \in Nat,
             worker' = [worker EXCEPT ![g] = Alone(step, time)],
             step = "polling" => time = LongPoll /\ ~paused,
             deleted' \subseteq Messages,
             UNCHANGED <<hidden, rested, userVars, otherVars>>
      PROVE  Moves(g, Alone(step, time))
    <2>1. Alone(step, time) \in WorkerState
        BY AloneIsAState DEF Steps
    <2>2. Alone(step, time).at = step /\ Alone(step, time).left = time
        BY DEF Alone
    <2>3. ~Occupied(Alone(step, time))
        BY <2>2 DEF Occupied
    <2> QED
        BY <1>1, <2>1, <2>2, <2>3 DEF Moves, Counted, GoesOn
<1>2. LongPoll \in Nat /\ Nap \in Nat /\ deleted \subseteq Messages
    BY Durations DEF ClockInv, ClockTypeOK
<1>3. CASE BeginReceive(g)
    BY <1>1, <1>2, <1>3 DEF BeginReceive, Wait, queueVars
<1>4. CASE NapWhilePaused(g)
    BY <1>1, <1>2, <1>4 DEF NapWhilePaused, Wait, queueVars
<1>5. CASE Wake(g) \/ ReceiveNothing(g)
    BY <1>1, <1>2, <1>5 DEF Wake, ReceiveNothing, Wait, queueVars
<1>6. CASE Ack(g)
    <2>1. deleted' \subseteq Messages
        BY <1>2, <1>6 DEF Ack, ClockInv, ActionsCounted, Counted, Occupied, Busy, At, Msg
    <2> QED
        BY <1>1, <1>6, <2>1 DEF Ack, Wait
<1> QED
    BY <1>3, <1>4, <1>5, <1>6

LEMMA ReceiveMoves ==
    ASSUME ClockInv, NEW g \in Goroutines,
           (\E m \in Messages : Receive(g, m)) \/ ReceiveFails(g)
    PROVE  \E r : Moves(g, r)
<1>1. CASE \E m \in Messages : Receive(g, m)
    <2>1. PICK m \in Messages : Receive(g, m)
        BY <1>1
    <2> DEFINE r == [at |-> "received", msg |-> m, k |-> 0, left |-> 2 * CallTime]
    <2>2. /\ r \in WorkerState
          /\ r.at = "received" /\ r.msg = m /\ r.k = 0 /\ r.left = 2 * CallTime
        BY Durations DEF WorkerState, Steps
    <2>3. /\ worker' = [worker EXCEPT ![g] = r]
          /\ deleted' \subseteq Messages
          /\ UNCHANGED <<userVars, otherVars>>
          /\ hidden[m] = 0
          /\ hidden' = [hidden EXCEPT ![m] = Visibility]
          /\ rested' = [rested EXCEPT ![m] = 0]
        BY <2>1 DEF Receive, Visible, Hide, ClockInv, ClockTypeOK
    <2> HIDE DEF r
    <2>4. TimeToGo(r) <= 4 * CallTime + Longest[0]
        BY <2>2, Durations DEF TimeToGo
    <2> QED
        BY <2>2, <2>3, <2>4 DEF Moves, Counted, TakesMessage
<1>2. CASE ReceiveFails(g)
    <2> DEFINE r == Alone("sleeping", ErrorPause)
    <2>1. r \in WorkerState
        BY AloneIsAState, Durations DEF Steps
    <2>2. r.at = "sleeping" /\ ~Occupied(r)
        BY DEF Alone, Occupied
    <2>3. /\ worker' = [worker EXCEPT ![g] = r]
          /\ deleted' \subseteq Messages
          /\ UNCHANGED <<userVars, otherVars>>
          /\ \/ UNCHANGED <<hidden, rested>>
             \/ \E m \in Messages :
                    /\ hidden[m] = 0
                    /\ hidden' = [hidden EXCEPT ![m] = Visibility]
                    /\ rested' = [rested EXCEPT ![m] = 0]
        BY <1>2 DEF ReceiveFails, Wait, Visible, Hide, queueVars, ClockInv, ClockTypeOK
    <2> HIDE DEF r
    <2> QED
        BY <2>1, <2>2, <2>3 DEF Moves, Counted, TakesMessage, GoesOn
<1> QED
    BY <1>1, <1>2

LEMMA WorkMoves ==
    ASSUME ClockInv, NEW g \in Goroutines,
           \/ BeginWork(g) \/ StartAction(g) \/ ActionSucceeds(g) \/ ActionFails(g)
           \/ AgentLeavesProcess(g) \/ LeftProcessExits(g) \/ MarkDone(g)
    PROVE  \E r : Moves(g, r)
<1>1. /\ worker[g] \in WorkerState
      /\ deleted \subseteq Messages
      /\ Occupied(worker[g]) => worker[g].msg \in Messages
      /\ worker[g].at = "received" => worker[g].k = 0
      /\ worker[g].at \in {"running", "leftOK", "leftFailed"} => worker[g].k > 0
    BY DEF ClockInv, ClockTypeOK, WorkerState, ActionsCounted, Counted, Busy, Occupied, At,
           Lingers, Msg
<1>2. UNCHANGED <<hidden, deleted, rested, userVars, otherVars>>
    BY DEF BeginWork, StartAction, ActionSucceeds, ActionFails, AgentLeavesProcess,
           LeftProcessExits, MarkDone, queueVars
<1>3. ASSUME NEW r \in WorkerState, worker' = [worker EXCEPT ![g] = r],
             r.msg = worker[g].msg, Occupied(worker[g]), Occupied(r),
             r.at # "received", r.at \in {"running", "leftOK", "leftFailed"} => r.k > 0,
             TimeToGo(r) <= TimeToGo(worker[g])
      PROVE  Moves(g, r)
    BY <1>1, <1>2, <1>3 DEF Moves, Counted, GoesOn, Occupied, Msg
<1>4. CASE StartAction(g)
    <2>1. PICK r \in WorkerState :
                /\ worker' = [worker EXCEPT ![g] = r]
                /\ r.at = "running" /\ r.left = Timeout(r.k)
                /\ r.msg = worker[g].msg /\ r.k = worker[g].k + 1
        BY <1>4, ActionStarted DEF ClockInv
    <2>2. worker[g].at = "acting" /\ worker[g].k \in 0..NActions /\ r.k \in 0..NActions
        BY <1>1, <1>4, <2>1 DEF StartAction, At, WorkerState
    <2>3. Longest[worker[g].k] = Timeout(r.k) + Longest[r.k]
        BY <2>1, <2>2, Durations
    <2>4. TimeToGo(r) <= TimeToGo(worker[g])
        <3>1. /\ TimeToGo(r) = Timeout(r.k) + Longest[r.k] + 2 * CallTime
              /\ TimeToGo(worker[g]) = worker[g].left + Longest[worker[g].k] + 2 * CallTime
            BY <2>1, <2>2 DEF TimeToGo
        <3>2. r.k \in 1..NActions /\ worker[g].left \in Nat
            BY <1>1, <2>1, <2>2 DEF WorkerState
        <3>3. Timeout(r.k) \in Nat /\ Longest[r.k] \in Nat /\ 2 * CallTime \in Nat
            BY <2>2, <3>2, Durations
        <3> QED
            BY <2>3, <3>1, <3>2, <3>3
    <2>5. r.k > 0 /\ Occupied(worker[g]) /\ Occupied(r)
        BY <2>1, <2>2 DEF Occupied
    <2>6. Moves(g, r)
        BY <1>3, <2>1, <2>4, <2>5
    <2> QED
        BY <2>6
<1>5. ASSUME NEW step \in {"acting", "failing", "acking", "leftOK", "leftFailed"}, NEW time \in Nat,
             Go(g, step, time), Occupied(worker[g]),
             step \in {"leftOK", "leftFailed"} => worker[g].k > 0,
             \A r \in WorkerState :
                r.at = step /\ r.left = time /\ r.k = worker[g].k
                => TimeToGo(r) <= TimeToGo(worker[g])
      PROVE  \E r : Moves(g, r)
    <2>1. PICK r \in WorkerState :
                /\ worker' = [worker EXCEPT ![g] = r]
                /\ r.at = step /\ r.left = time
                /\ r.msg = worker[g].msg /\ r.k = worker[g].k
        BY <1>5, WentOn DEF ClockInv, Steps
    <2> QED
        BY <1>3, <1>5, <2>1 DEF Occupied
<1>6. worker[g].left \in Nat /\ worker[g].k \in 0..NActions /\ Longest[worker[g].k] \in Nat
      /\ 2 * CallTime \in Nat /\ 0 \in Nat
    BY <1>1, Durations DEF WorkerState
<1> USE DEF At, Occupied, TimeToGo
<1>7. CASE BeginWork(g)
    BY <1>5, <1>6, <1>7 DEF BeginWork
<1>8. CASE ActionSucceeds(g)
    BY <1>5, <1>6, <1>8 DEF ActionSucceeds
<1>9. CASE ActionFails(g)
    BY <1>5, <1>6, <1>9 DEF ActionFails
<1>10. CASE AgentLeavesProcess(g)
    <2>1. PICK step \in {"leftOK", "leftFailed"} : Go(g, step, worker[g].left)
        BY <1>10 DEF AgentLeavesProcess
    <2>2. worker[g].at = "running" /\ worker[g].k > 0
        BY <1>1, <1>10 DEF AgentLeavesProcess
    <2>3. \A r \in WorkerState :
            r.at = step /\ r.left = worker[g].left /\ r.k = worker[g].k
            => TimeToGo(r) <= TimeToGo(worker[g])
        BY <1>6, <2>2
    <2> QED
        BY <1>5, <1>6, <2>1, <2>2, <2>3
<1>11. CASE LeftProcessExits(g)
    BY <1>5, <1>6, <1>11 DEF LeftProcessExits, Lingers
<1>12. CASE MarkDone(g)
    BY <1>5, <1>6, <1>12 DEF MarkDone
<1> QED
    BY <1>4, <1>7, <1>8, <1>9, <1>10, <1>11, <1>12

LEMMA BackOffMoves ==
    ASSUME ClockInv, NEW g \in Goroutines, BackOff(g)
    PROVE  \E r : Moves(g, r)
<1> DEFINE r == Alone("head", 0)
<1>1. r \in WorkerState
    BY AloneIsAState DEF Steps
<1>2. r.at = "head" /\ ~Occupied(r)
    BY DEF Alone, Occupied
<1>3. /\ worker' = [worker EXCEPT ![g] = r]
      /\ deleted' \subseteq Messages
      /\ UNCHANGED <<userVars, otherVars, rested>>
      /\ Occupied(worker[g])
      /\ UNCHANGED hidden \/ hidden' = [hidden EXCEPT ![Msg(g)] = RetryDelay]
    BY DEF BackOff, Wait, At, Occupied, ClockInv, ClockTypeOK
<1> HIDE DEF r
<1> QED
    BY <1>1, <1>2, <1>3 DEF Moves, Counted, GoesOn, BacksOff

LEMMA GoroutineMoves ==
    ASSUME ClockInv, NEW g \in Goroutines, GoroutineStep(g)
    PROVE  \E r : Moves(g, r)
BY IdleMoves, ReceiveMoves, WorkMoves, BackOffMoves DEF GoroutineStep

-----------------------------------------------------------------------------
(* Types, rest and polls.                                                  *)

LEMMA MoveKeepsInv ==
    ASSUME ClockInv, NEW g \in Goroutines, NEW r, Moves(g, r)
    PROVE  ClockInv'
<1>1. UNCHANGED <<paused, pausedFor, orphans, overlong, stops>>
    BY DEF Moves, userVars, otherVars
<1>2. /\ worker \in [Goroutines -> WorkerState]
      /\ worker' = [worker EXCEPT ![g] = r]
      /\ r \in WorkerState
    BY DEF Moves, ClockInv, ClockTypeOK, WorkerState
<1>3. \A m \in Messages : /\ hidden[m] \in 0..Visibility /\ rested[m] \in 0..RetryDelay
                          /\ hidden[m] + rested[m] >= RetryDelay
    BY DEF ClockInv, ClockTypeOK, RestedOrHidden
<1>4. /\ hidden' \in [Messages -> 0..Visibility]
      /\ rested' \in [Messages -> 0..RetryDelay]
      /\ \A m \in Messages : hidden'[m] + rested'[m] >= RetryDelay
    <2>1. hidden \in [Messages -> 0..Visibility] /\ rested \in [Messages -> 0..RetryDelay]
        BY DEF ClockInv, ClockTypeOK
    <2>2. CASE UNCHANGED <<hidden, rested>>
        BY <1>3, <2>1, <2>2
    <2>3. CASE TakesMessage(g, r)
        BY <1>3, <2>1, <2>3, Durations DEF TakesMessage
    <2>4. CASE BacksOff(g, r)
        <3>1. Msg(g) \in Messages
            BY <2>4 DEF BacksOff, Occupied, ClockInv, ActionsCounted, Counted, Busy, Msg
        <3> QED
            BY <1>3, <2>1, <2>4, <3>1, Durations DEF BacksOff
    <2> QED
        BY <2>2, <2>3, <2>4 DEF Moves, GoesOn
<1>5. ClockTypeOK'
    <2>1. deleted' \subseteq Messages
        BY DEF Moves
    <2>2. worker' \in [Goroutines -> WorkerState]
        BY <1>2
    <2> QED
        BY <1>1, <1>4, <2>1, <2>2 DEF ClockInv, ClockTypeOK, WorkerState
<1>6. RestedOrHidden'
    BY <1>4 DEF RestedOrHidden
<1>7. PollsEnd'
    <2> SUFFICES ASSUME NEW h \in Goroutines, worker'[h].at = "polling"
                 PROVE  worker'[h].left + pausedFor <= LongPoll
        BY <1>1 DEF PollsEnd, At, ClockInv
    <2>1. CASE h = g
        BY <1>2, <2>1, Durations DEF Moves, ClockInv, PollsEnd
    <2>2. CASE h # g
        BY <1>2, <2>2 DEF ClockInv, PollsEnd, At
    <2> QED
        BY <2>1, <2>2
<1>8. ActionsCounted'
    <2> SUFFICES ASSUME NEW h \in Goroutines PROVE Counted(worker'[h])
        BY DEF ActionsCounted, Counted, Occupied, Busy, At, Lingers, Msg
    <2>1. CASE h = g
        BY <1>2, <2>1 DEF Moves
    <2>2. CASE h # g
        BY <1>2, <2>2 DEF ClockInv, ActionsCounted, Counted, Occupied, Busy, At, Lingers, Msg
    <2> QED
        BY <2>1, <2>2
<1> QED
    BY <1>5, <1>6, <1>7, <1>8 DEF ClockInv

LEMMA UserKeepsInv ==
    ASSUME ClockInv, PressPause \/ OrphanExits \/ UNCHANGED vars
    PROVE  ClockInv'
<1>1. UNCHANGED <<worker, hidden, deleted, overlong, rested, stops>> /\ orphans' \subseteq orphans
    BY DEF PressPause, OrphanExits, vars, queueVars, userVars, otherVars
<1>2. /\ paused' \in BOOLEAN
      /\ pausedFor' = pausedFor \/ pausedFor' = 0
      /\ ~paused' => pausedFor' = 0
    BY DEF PressPause, OrphanExits, vars, userVars, ClockInv, ClockTypeOK, PollsEnd
<1>3. ClockTypeOK'
    BY <1>1, <1>2, Durations DEF ClockInv, ClockTypeOK
<1>4. RestedOrHidden' /\ ActionsCounted'
    BY <1>1 DEF ClockInv, RestedOrHidden, ActionsCounted, Counted, Occupied, At, Busy, Lingers, Msg
<1>5. PollsEnd'
    <2> SUFFICES ASSUME NEW g \in Goroutines, worker[g].at = "polling"
                 PROVE  worker[g].left + pausedFor' <= LongPoll
        BY <1>1, <1>2 DEF PollsEnd, At
    <2>1. worker[g].left \in Nat /\ pausedFor \in Nat /\ LongPoll \in Nat
        BY Durations DEF ClockInv, ClockTypeOK
    <2>2. worker[g].left + pausedFor <= LongPoll
        BY DEF ClockInv, PollsEnd, At
    <2> QED
        BY <1>2, <2>1, <2>2
<1> QED
    BY <1>3, <1>4, <1>5 DEF ClockInv

LEMMA DownAndUpKeepInv ==
    ASSUME ClockInv, Stop \/ Start
    PROVE  ClockInv'
<1>1. PICK step \in {"down", "head"} : worker' = [g \in Goroutines |-> Alone(step, 0)]
    BY DEF Stop, Start
<1>2. \A g \in Goroutines : worker'[g] = Alone(step, 0)
    BY <1>1
<1>3. /\ Alone(step, 0) \in WorkerState /\ Alone(step, 0).at = step
      /\ ~Occupied(Alone(step, 0))
    BY AloneIsAState DEF Alone, Steps, Occupied
<1>4. UNCHANGED <<hidden, deleted, rested, overlong>>
    BY DEF Stop, Start, queueVars, otherVars
<1>5. /\ paused' \in BOOLEAN /\ pausedFor' \in 0..(LongPoll + 1)
      /\ ~paused' => pausedFor' = 0
      /\ stops' \in 0..MaxStops
    <2>1. CASE Stop
        <3>1. paused' = FALSE /\ pausedFor' = 0 /\ 0 \in 0..(LongPoll + 1)
            BY <2>1, Durations DEF Stop
        <3>2. stops' \in 0..MaxStops
            BY <2>1, ClockAssumption DEF Stop, ClockInv, ClockTypeOK
        <3> QED
            BY <3>1, <3>2, Zenon
    <2>2. CASE Start
        BY <2>2, Zenon DEF Start, userVars, otherVars, ClockInv, ClockTypeOK, PollsEnd
    <2> QED
        BY <2>1, <2>2
<1>6. orphans' \subseteq Process
    <2>1. CASE Stop
        <3>1. \A g \in Goroutines : Lingers(g) \/ At(g, "running") => ChildOf(g) \in Process
            BY DEF ChildOf, Process, Lingers, At, Busy, ClockInv, ClockTypeOK, ActionsCounted,
                   Counted, Occupied, Msg
        <3>2. orphans \subseteq Process
            BY DEF ClockInv, ClockTypeOK
        <3> QED
            BY <2>1, <3>1, <3>2 DEF Stop
    <2>2. CASE Start
        BY <2>2 DEF Start, otherVars, ClockInv, ClockTypeOK
    <2> QED
        BY <2>1, <2>2
<1>7. ClockTypeOK'
    <2>1. worker' \in [Goroutines -> WorkerState]
        BY <1>1, <1>3
    <2> QED
        BY <1>4, <1>5, <1>6, <2>1 DEF ClockInv, ClockTypeOK, WorkerState
<1>8. RestedOrHidden'
    BY <1>4 DEF ClockInv, RestedOrHidden
<1>9. PollsEnd' /\ ActionsCounted'
    BY <1>2, <1>3, <1>5 DEF PollsEnd, ActionsCounted, Counted, At, Busy, Lingers, Occupied
<1> QED
    BY <1>7, <1>8, <1>9 DEF ClockInv

LEMMA TickPasses ==
    ASSUME ClockInv, Tick
    PROVE  \A g \in Goroutines :
                /\ worker'[g] \in WorkerState
                /\ worker'[g].at = worker[g].at
                /\ worker'[g].msg = worker[g].msg
                /\ worker'[g].k = worker[g].k
                /\ worker'[g].left = Less(worker[g].left)
                /\ worker[g].left = 0 => Lingers(g) \/ At(g, "down")
<1> TAKE g \in Goroutines
<1>1. worker[g] \in WorkerState
    BY DEF ClockInv, ClockTypeOK, WorkerState
<1>2. worker'[g] = [worker[g] EXCEPT !.left = Less(worker[g].left)]
    BY DEF Tick
<1>3. Less(worker[g].left) \in Nat
    BY <1>1 DEF Less, WorkerState
<1>4. worker[g].left = 0 => Lingers(g) \/ At(g, "down")
    BY DEF Tick, Due
<1> QED
    BY <1>1, <1>2, <1>3, <1>4 DEF WorkerState

LEMMA TickKeepsInv ==
    ASSUME ClockInv, Tick
    PROVE  ClockInv'
<1>1. /\ worker' = [g \in Goroutines |-> [worker[g] EXCEPT !.left = Less(@)]]
      /\ hidden' = [m \in Messages |-> Less(hidden[m])]
      /\ rested' = [m \in Messages |-> More(rested[m], RetryDelay)]
      /\ pausedFor' = IF paused THEN More(pausedFor, LongPoll + 1) ELSE 0
      /\ UNCHANGED <<deleted, paused, stops>>
    BY DEF Tick
<1>2. \A m \in Messages : /\ hidden[m] \in 0..Visibility /\ rested[m] \in 0..RetryDelay
                          /\ hidden[m] + rested[m] >= RetryDelay
    BY DEF ClockInv, ClockTypeOK, RestedOrHidden
<1>3. \A m \in Messages : /\ Less(hidden[m]) \in 0..Visibility
                          /\ More(rested[m], RetryDelay) \in 0..RetryDelay
                          /\ Less(hidden[m]) + More(rested[m], RetryDelay) >= RetryDelay
    BY <1>2, Durations DEF Less, More
<1>4. /\ paused' \in BOOLEAN /\ pausedFor \in 0..(LongPoll + 1)
      /\ pausedFor' \in 0..(LongPoll + 1)
      /\ pausedFor' <= pausedFor + 1
      /\ ~paused' => pausedFor' = 0
    <2>1. /\ paused' \in BOOLEAN /\ (~paused' => pausedFor' = 0)
          /\ pausedFor \in 0..(LongPoll + 1)
        BY <1>1, Zenon DEF ClockInv, ClockTypeOK
    <2>2. pausedFor' = More(pausedFor, LongPoll + 1) \/ pausedFor' = 0
        BY <1>1, Zenon
    <2> QED
        BY <2>1, <2>2, Durations DEF More
<1>5. orphans' \subseteq Process /\ overlong' \subseteq Messages
    <2>1. orphans \subseteq Process /\ overlong \subseteq Messages
        BY DEF ClockInv, ClockTypeOK
    <2>2. ASSUME NEW o \in Process PROVE [o EXCEPT !.left = Less(o.left)] \in Process
        BY DEF Process, Less
    <2>3. orphans' = {[o EXCEPT !.left = Less(o.left)] : o \in orphans}
        BY DEF Tick
    <2>4. \A g \in Goroutines : Lingers(g) => Msg(g) \in Messages
        BY DEF ClockInv, ActionsCounted, Counted, Occupied, Busy, Lingers, At, Msg
    <2>5. \A o \in orphans : o.msg \in Messages
        BY <2>1 DEF Process
    <2> QED
        BY <2>1, <2>2, <2>3, <2>4, <2>5 DEF Tick
<1>6. ClockTypeOK'
    <2>1. worker' \in [Goroutines -> WorkerState]
        BY <1>1, TickPasses
    <2>2. hidden' \in [Messages -> 0..Visibility] /\ rested' \in [Messages -> 0..RetryDelay]
        BY <1>1, <1>3
    <2> QED
        BY <1>1, <1>4, <1>5, <2>1, <2>2 DEF ClockInv, ClockTypeOK, WorkerState
<1>7. RestedOrHidden'
    BY <1>1, <1>3 DEF RestedOrHidden
<1>8. PollsEnd'
    <2> SUFFICES ASSUME NEW g \in Goroutines, worker'[g].at = "polling"
                 PROVE  worker'[g].left + pausedFor' <= LongPoll
        BY <1>4 DEF PollsEnd, At
    <2>1. worker[g].left \in Nat
        BY DEF ClockInv, ClockTypeOK
    <2>2. /\ worker[g].at = "polling"
          /\ worker'[g].left = Less(worker[g].left)
          /\ worker[g].left # 0
        BY TickPasses DEF Lingers, At
    <2>3. worker[g].left + pausedFor <= LongPoll
        BY <2>2 DEF ClockInv, PollsEnd, At
    <2> QED
        BY <1>4, <2>1, <2>2, <2>3, Durations DEF Less
<1>9. ActionsCounted'
    BY TickPasses DEF ClockInv, ActionsCounted, Counted, Occupied, Busy, At, Lingers, Msg
<1> QED
    BY <1>6, <1>7, <1>8, <1>9 DEF ClockInv

LEMMA InitClockInv == Init => ClockInv
<1> SUFFICES ASSUME Init PROVE ClockInv
    OBVIOUS
<1>1. /\ Alone("head", 0) \in WorkerState /\ Alone("head", 0).at = "head"
      /\ ~Occupied(Alone("head", 0))
    BY AloneIsAState DEF Alone, Steps, Occupied
<1>2. ClockTypeOK
    <2>1. worker \in [Goroutines -> WorkerState]
        BY <1>1 DEF Init
    <2>2. /\ hidden \in [Messages -> 0..Visibility] /\ rested \in [Messages -> 0..RetryDelay]
          /\ pausedFor \in 0..(LongPoll + 1) /\ stops \in 0..MaxStops
        BY Durations, ClockAssumption DEF Init
    <2>3. deleted \subseteq Messages /\ orphans \subseteq Process /\ overlong \subseteq Messages
        BY DEF Init
    <2>4. paused \in BOOLEAN
        BY Zenon DEF Init
    <2> QED
        BY <2>1, <2>2, <2>3, <2>4 DEF ClockTypeOK, WorkerState
<1>3. RestedOrHidden
    BY Durations DEF Init, RestedOrHidden
<1>4. PollsEnd /\ ActionsCounted
    BY <1>1 DEF Init, PollsEnd, ActionsCounted, Counted, At, Busy, Lingers, Occupied
<1> QED
    BY <1>2, <1>3, <1>4 DEF ClockInv

LEMMA AlwaysClockInv == Spec => []ClockInv
<1>1. ASSUME ClockInv, [Next]_vars PROVE ClockInv'
    BY <1>1, GoroutineMoves, MoveKeepsInv, UserKeepsInv, DownAndUpKeepInv, TickKeepsInv DEF Next
<1> QED
    BY InitClockInv, <1>1, PTL DEF Spec

-----------------------------------------------------------------------------
(* One at a time.                                                          *)

LEMMA Workers ==
    \A m \in Messages :
        /\ WorksOn(m) = {g \in Goroutines : Occupied(worker[g]) /\ worker[g].msg = m}
        /\ WorksOn(m)' = {g \in Goroutines : Occupied(worker'[g]) /\ worker'[g].msg = m}
        /\ OrphansOf(m)' = {o \in orphans' : o.msg = m}
BY DEF WorksOn, OrphansOf, Busy, Occupied, Msg

LEMMA TimeToGoTyped ==
    ASSUME NEW r \in WorkerState
    PROVE  TimeToGo(r) \in Nat /\ r.left <= TimeToGo(r)
<1>1. r.left \in Nat /\ Longest[r.k] \in Nat /\ 2 * CallTime \in Nat
    BY Durations DEF WorkerState
<1> QED
    BY <1>1 DEF TimeToGo

LEMMA TimesTyped ==
    ASSUME ClockInv
    PROVE  /\ \A g \in Goroutines : /\ worker[g] \in WorkerState
                                   /\ TimeToGo(worker[g]) \in Nat
                                   /\ worker[g].left <= TimeToGo(worker[g])
           /\ \A o \in orphans : o.msg \in Messages /\ o.left \in Nat
           /\ \A m \in Messages : hidden[m] \in Nat
<1>1. \A g \in Goroutines : worker[g] \in WorkerState
    BY DEF ClockInv, ClockTypeOK, WorkerState
<1> QED
    BY <1>1, TimeToGoTyped DEF ClockInv, ClockTypeOK, Process

(* A message that is visible has nobody at work on it.                     *)
LEMMA NobodyOnVisible ==
    ASSUME ClockInv, Exclusive, NEW m \in Messages \ overlong, hidden[m] = 0
    PROVE  WorksOn(m) = {} /\ OrphansOf(m) = {}
BY TimesTyped DEF Exclusive, HiddenLongEnough, WorksOn, OrphansOf

LEMMA MoveKeepsExclusive ==
    ASSUME ClockInv, Exclusive, WithinVisibility, NEW g \in Goroutines, NEW r, Moves(g, r)
    PROVE  Exclusive'
<1> SUFFICES ASSUME NEW m \in Messages \ overlong
             PROVE  HiddenLongEnough(m)' /\ AtMostOne(m)'
    BY DEF Moves, otherVars, Exclusive
<1>1. HiddenLongEnough(m) /\ AtMostOne(m)
    BY DEF Exclusive
<1>2. OrphansOf(m)' = OrphansOf(m)
    BY DEF Moves, otherVars, OrphansOf
<1>3. /\ worker'[g] = r
      /\ \A h \in Goroutines : h # g => worker'[h] = worker[h]
    BY DEF Moves, ClockInv, ClockTypeOK
<1>4. \A h \in WorksOn(m)' : h # g => h \in WorksOn(m)
    BY <1>3, Workers
<1>5. CASE GoesOn(g, r)
    <2>1. g \in WorksOn(m)' => g \in WorksOn(m) /\ TimeToGo(r) <= TimeToGo(worker[g])
        BY <1>3, <1>5, Workers DEF GoesOn, Msg
    <2>2. WorksOn(m)' \subseteq WorksOn(m)
        BY <1>4, <2>1
    <2>3. AtMostOne(m)'
        BY <1>1, <1>2, <2>2 DEF AtMostOne
    <2>4. ASSUME NEW h \in WorksOn(m)' PROVE TimeToGo(worker'[h]) < hidden[m]
        <3>1. CASE h = g
            <4>1. TimeToGo(worker[g]) < hidden[m] /\ TimeToGo(r) <= TimeToGo(worker[g])
                BY <1>1, <2>1, <3>1 DEF HiddenLongEnough
            <4>2. TimeToGo(r) \in Nat
                BY TimeToGoTyped DEF Moves
            <4> QED
                BY <1>3, <3>1, <4>1, <4>2, TimesTyped
        <3>2. CASE h # g
            BY <1>1, <1>3, <2>2, <3>2 DEF HiddenLongEnough, WorksOn
        <3> QED
            BY <3>1, <3>2
    <2>5. HiddenLongEnough(m)'
        BY <1>1, <1>2, <1>5, <2>4 DEF HiddenLongEnough, GoesOn
    <2> QED
        BY <2>3, <2>5
<1>6. CASE TakesMessage(g, r)
    <2>1. PICK n \in Messages :
            /\ hidden[n] = 0
            /\ hidden' = [hidden EXCEPT ![n] = Visibility]
            /\ Occupied(r) => r.msg = n /\ TimeToGo(r) <= 4 * CallTime + Longest[0]
        BY <1>6 DEF TakesMessage
    <2>2. CASE m = n
        <3>1. WorksOn(m) = {} /\ OrphansOf(m) = {}
            BY <2>1, <2>2, NobodyOnVisible
        <3>2. WorksOn(m)' \subseteq {g}
            BY <1>4, <3>1
        <3>3. hidden'[m] = Visibility
            BY <2>1, <2>2 DEF ClockInv, ClockTypeOK
        <3>4. ASSUME g \in WorksOn(m)' PROVE TimeToGo(r) < Visibility
            <4>1. TimeToGo(r) <= 4 * CallTime + Longest[0]
                BY <1>3, <2>1, <3>4, Workers
            <4>2. TimeToGo(r) \in Nat
                BY TimeToGoTyped DEF Moves
            <4> QED
                BY <4>1, <4>2, Durations DEF WithinVisibility
        <3> QED
            BY <1>2, <1>3, <3>1, <3>2, <3>3, <3>4 DEF HiddenLongEnough, AtMostOne
    <2>3. CASE m # n
        <3>1. WorksOn(m)' \subseteq WorksOn(m) \ {g}
            BY <1>3, <1>4, <2>1, <2>3, Workers
        <3>2. hidden'[m] = hidden[m]
            BY <2>1, <2>3 DEF ClockInv, ClockTypeOK
        <3> QED
            BY <1>1, <1>2, <1>3, <3>1, <3>2 DEF HiddenLongEnough, AtMostOne, WorksOn
    <2> QED
        BY <2>2, <2>3
<1>7. CASE BacksOff(g, r)
    <2>1. WorksOn(m)' \subseteq WorksOn(m) \ {g}
        BY <1>3, <1>4, <1>7, Workers DEF BacksOff
    <2>2. CASE m = Msg(g)
        <3>1. g \in WorksOn(m)
            BY <1>7, <2>2, Workers DEF BacksOff, Msg
        <3>2. WorksOn(m)' = {} /\ OrphansOf(m) = {}
            BY <1>1, <2>1, <3>1 DEF AtMostOne
        <3> QED
            BY <1>2, <3>2 DEF HiddenLongEnough, AtMostOne
    <2>3. CASE m # Msg(g)
        <3>1. hidden'[m] = hidden[m]
            BY <1>7, <2>3 DEF BacksOff, ClockInv, ClockTypeOK
        <3> QED
            BY <1>1, <1>2, <1>3, <2>1, <3>1 DEF HiddenLongEnough, AtMostOne, WorksOn
    <2> QED
        BY <2>2, <2>3
<1> QED
    BY <1>5, <1>6, <1>7 DEF Moves

LEMMA StopKeepsExclusive ==
    ASSUME ClockInv, Exclusive, Stop
    PROVE  Exclusive'
<1> SUFFICES ASSUME NEW m \in Messages \ overlong
             PROVE  HiddenLongEnough(m)' /\ AtMostOne(m)'
    BY DEF Stop, Exclusive
<1>1. HiddenLongEnough(m) /\ AtMostOne(m)
    BY DEF Exclusive
<1>2. WorksOn(m)' = {}
    BY Workers DEF Stop, Alone, Occupied
<1>3. UNCHANGED hidden
    BY DEF Stop, queueVars
<1>4. OrphansOf(m)' \subseteq OrphansOf(m) \cup {ChildOf(g) : g \in WorksOn(m)}
    <2> SUFFICES ASSUME NEW o \in orphans', o.msg = m
                 PROVE  o \in OrphansOf(m) \/ \E g \in WorksOn(m) : o = ChildOf(g)
        BY Workers
    <2>1. CASE o \in orphans
        BY <2>1 DEF OrphansOf
    <2>2. CASE \E g \in Goroutines : (Lingers(g) \/ At(g, "running")) /\ o = ChildOf(g)
        BY <2>2 DEF ChildOf, WorksOn, Busy, Lingers, At
    <2> QED
        BY <2>1, <2>2 DEF Stop
<1>5. \A g \in WorksOn(m) : ChildOf(g).left < hidden[m]
    <2> TAKE g \in WorksOn(m)
    <2>1. worker[g].left <= TimeToGo(worker[g]) /\ TimeToGo(worker[g]) < hidden[m]
        BY <1>1, TimesTyped DEF HiddenLongEnough, WorksOn
    <2>2. worker[g].left \in Nat /\ TimeToGo(worker[g]) \in Nat /\ hidden[m] \in Nat
        BY TimesTyped DEF WorksOn, WorkerState
    <2> QED
        BY <2>1, <2>2 DEF ChildOf
<1> QED
    BY <1>1, <1>2, <1>3, <1>4, <1>5 DEF HiddenLongEnough, AtMostOne

LEMMA TickKeepsExclusive ==
    ASSUME ClockInv, Exclusive, Tick
    PROVE  Exclusive'
<1> SUFFICES ASSUME NEW m \in Messages, m \notin overlong'
             PROVE  HiddenLongEnough(m)' /\ AtMostOne(m)'
    BY DEF Exclusive
<1>1. HiddenLongEnough(m) /\ AtMostOne(m)
    BY DEF Exclusive, Tick
<1>2. WorksOn(m)' = WorksOn(m)
    BY TickPasses, Workers DEF Occupied
<1>3. hidden'[m] = Less(hidden[m]) /\ hidden[m] \in Nat
    BY TimesTyped DEF Tick
<1>4. ASSUME NEW g \in WorksOn(m) PROVE TimeToGo(worker'[g]) < hidden'[m]
    <2>1. g \in Goroutines /\ Occupied(worker[g]) /\ worker[g].msg = m
        BY Workers
    <2>2. worker[g].left # 0
        <3>1. ASSUME worker[g].left = 0 PROVE Lingers(g)
            BY <2>1, <3>1, TickPasses DEF At, Occupied
        <3> QED
            BY <2>1, <3>1 DEF Tick, Msg
    <2>3. /\ worker[g] \in WorkerState
          /\ worker'[g].at = worker[g].at /\ worker'[g].k = worker[g].k
          /\ worker'[g].left = worker[g].left - 1
        BY <2>1, <2>2, TickPasses DEF ClockInv, ClockTypeOK, WorkerState, Less
    <2>4. TimeToGo(worker'[g]) = TimeToGo(worker[g]) - 1
        BY <2>3, Durations DEF TimeToGo, WorkerState
    <2>5. TimeToGo(worker[g]) < hidden[m] /\ TimeToGo(worker[g]) \in Nat
        BY <1>1, <2>1, TimesTyped DEF HiddenLongEnough
    <2> QED
        BY <1>3, <2>4, <2>5 DEF Less
<1>5. \A o \in OrphansOf(m)' : \E p \in OrphansOf(m) :
            /\ p.left # 0 /\ p.left \in Nat
            /\ o = [p EXCEPT !.left = p.left - 1] /\ o.left = p.left - 1
    <2> SUFFICES ASSUME NEW o \in orphans', o.msg = m
                 PROVE  \E p \in OrphansOf(m) :
                    /\ p.left # 0 /\ p.left \in Nat
                    /\ o = [p EXCEPT !.left = p.left - 1]
                    /\ o.left = p.left - 1
        BY Workers
    <2>1. PICK p \in orphans : o = [p EXCEPT !.left = Less(p.left)]
        BY DEF Tick
    <2>2. p \in Process
        BY DEF ClockInv, ClockTypeOK
    <2>3. p.msg = m /\ o.left = Less(p.left)
        BY <2>1, <2>2 DEF Process
    <2>4. p.left # 0
        BY <2>3 DEF Tick
    <2> QED
        BY <2>1, <2>2, <2>3, <2>4 DEF Process, Less, OrphansOf
<1>6. ASSUME NEW o \in OrphansOf(m)' PROVE o.left < hidden'[m]
    <2>1. PICK p \in OrphansOf(m) : p.left # 0 /\ p.left \in Nat /\ o.left = p.left - 1
        BY <1>5
    <2>2. p.left < hidden[m]
        BY <1>1 DEF HiddenLongEnough
    <2> QED
        BY <1>3, <2>1, <2>2 DEF Less
<1> QED
    BY <1>1, <1>2, <1>4, <1>5, <1>6 DEF HiddenLongEnough, AtMostOne

LEMMA OthersKeepExclusive ==
    ASSUME ClockInv, Exclusive, PressPause \/ Start \/ OrphanExits \/ UNCHANGED vars
    PROVE  Exclusive'
<1>1. UNCHANGED <<hidden, overlong>> /\ orphans' \subseteq orphans
    BY DEF PressPause, Start, OrphanExits, vars, queueVars, otherVars
<1>2. \A m \in Messages : WorksOn(m)' \subseteq WorksOn(m) /\ OrphansOf(m)' \subseteq OrphansOf(m)
    BY <1>1, Workers DEF PressPause, Start, OrphanExits, vars, Alone, Occupied, OrphansOf
<1>3. \A m \in Messages : \A g \in WorksOn(m)' : worker'[g] = worker[g]
    BY Workers DEF PressPause, Start, OrphanExits, vars, Alone, Occupied
<1> QED
    BY <1>1, <1>2, <1>3 DEF Exclusive, HiddenLongEnough, AtMostOne

-----------------------------------------------------------------------------
(***************************************************************************)
(* Goroutines, timers and the queue stay within their types: no timer is   *)
(* set to more than its bound and none runs below zero.                    *)
(***************************************************************************)
THEOREM ClockTyped == Spec => []ClockTypeOK
<1>1. ClockInv => ClockTypeOK
    BY DEF ClockInv
<1> QED
    BY <1>1, AlwaysClockInv, PTL

(***************************************************************************)
(* Two receipts of a message are RetryDelay apart, whatever fails or stops *)
(* between them.                                                           *)
(***************************************************************************)
THEOREM ReceiptsAreApart == Spec => []AttemptsApart
<1>1. ASSUME ClockInv PROVE AttemptsApart
    <2> SUFFICES ASSUME NEW m \in Messages, hidden[m] = 0 PROVE rested[m] = RetryDelay
        BY DEF AttemptsApart
    <2>1. hidden[m] + rested[m] >= RetryDelay /\ rested[m] \in 0..RetryDelay
        BY <1>1 DEF ClockInv, ClockTypeOK, RestedOrHidden
    <2> QED
        BY <2>1, Durations
<1> QED
    BY <1>1, AlwaysClockInv, PTL

(***************************************************************************)
(* A pause is in effect after one long poll at the latest.                 *)
(***************************************************************************)
THEOREM PauseIsInTime == Spec => []PauseTakesEffect
<1>1. ASSUME ClockInv PROVE PauseTakesEffect
    <2> SUFFICES ASSUME pausedFor > LongPoll, NEW g \in Goroutines, At(g, "polling")
                 PROVE  FALSE
        BY DEF PauseTakesEffect
    <2>1. worker[g].left + pausedFor <= LongPoll /\ worker[g].left \in Nat /\ pausedFor \in Nat
        BY <1>1, Durations DEF ClockInv, ClockTypeOK, PollsEnd
    <2> QED
        BY <2>1, Durations
<1> QED
    BY <1>1, AlwaysClockInv, PTL

(***************************************************************************)
(* If the timeouts of the actions and the calls around them are below the  *)
(* visibility timeout in sum, one goroutine or one process that outlived   *)
(* its goroutine at a time works on a message, for any number of both; the *)
(* messages of processes that outlive their timeout are excepted.          *)
(***************************************************************************)
THEOREM WorkedOnOneAtATime == Spec => []OneAtATime
<1>1. CASE WithinVisibility
    <2>1. Init => Exclusive
        <3> SUFFICES ASSUME Init, NEW m \in Messages PROVE WorksOn(m) = {} /\ OrphansOf(m) = {}
            BY DEF Exclusive, HiddenLongEnough, AtMostOne
        <3> QED
            BY Workers DEF Init, Alone, Occupied, OrphansOf
    <2>2. ASSUME ClockInv, Exclusive, [Next]_vars PROVE Exclusive'
        BY <1>1, <2>2, GoroutineMoves, MoveKeepsExclusive, StopKeepsExclusive,
           TickKeepsExclusive, OthersKeepExclusive DEF Next
    <2>3. Exclusive => OneAtATime
        BY DEF Exclusive, AtMostOne, OneAtATime
    <2> QED
        BY <2>1, <2>2, <2>3, AlwaysClockInv, PTL DEF Spec
<1>2. CASE ~WithinVisibility
    <2>1. OneAtATime
        BY <1>2 DEF OneAtATime
    <2> QED
        BY <2>1, PTL
<1> QED
    BY <1>1, <1>2
=============================================================================
