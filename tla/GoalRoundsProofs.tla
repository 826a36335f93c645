--------------------------- MODULE GoalRoundsProofs ---------------------------
(***************************************************************************)
(* Proofs about the rounds of a goal, for every bound on the person, the   *)
(* loops and the caps.                                                     *)
(***************************************************************************)
EXTENDS GoalRounds, TLAPS, FiniteSetTheorems

InPreStep == pc \in {"pre", "inner", "outer"}

\* One synchronous piece runs at a time.  What goes on after a checkpoint finds
\* the agent idle, no wake latched and no other checkpoint due.
OnePiece ==
    /\ \A i, j \in Loops : loops[i] \in {"sync", "go"} /\ loops[j] \in {"sync", "go"} => i = j
    /\ \A i \in Loops : loops[i] = "go" => pc = "none" /\ ~wake /\ ~needsCheckpoint

\* Only an activity has a signal that is aborted.
SignalIsOfActivity == aborted => pc \notin {"none", "start"}

\* What is reserved or queued is of this goal or an earlier one, and a reservation
\* for this goal is within its cap.
NothingFromLater ==
    /\ attempt.ver <= goal.ver
    /\ attempt.ver = goal.ver => attempt.round <= goal.cap
    /\ \A k \in DOMAIN nextTurn : nextTurn[k].ver <= goal.ver
    /\ attempt.phase = "none" => attempt = NoAttempt

\* The round that is reserved is at one place: in the inbox once, or in the batch
\* of the proposed step; and an armed goal has no other of its rounds queued.
OnePlace ==
    /\ \A k \in DOMAIN nextTurn : nextTurn[k] # Prompt /\ nextTurn[k] = RoundOf(attempt) =>
         /\ attempt.phase = "queued"
         /\ \A m \in DOMAIN nextTurn : nextTurn[m] = nextTurn[k] => m = k
    /\ Armed => \A k \in DOMAIN nextTurn : nextTurn[k] # Prompt /\ nextTurn[k].ver = goal.ver =>
         attempt.phase = "queued" /\ nextTurn[k] = RoundOf(attempt)
    /\ InPreStep /\ claimed.round # NoRound /\ claimed.round = RoundOf(attempt) =>
         attempt.phase = "claimed"
    /\ pc = "inner" /\ claimed.round # NoRound => claimed.round = RoundOf(attempt)

\* An idle agent has dealt with the reservation of an armed goal.
IdleIsSettled ==
    pc = "none" /\ Armed /\ attempt.ver = goal.ver => attempt.phase \notin {"queued", "claimed"}

\* A message behind the reserved round has made the reservation stale.
BehindIsStale ==
    /\ \A k, m \in DOMAIN nextTurn :
         k < m /\ nextTurn[k] # Prompt /\ nextTurn[k] = RoundOf(attempt) /\ nextTurn[m] = Prompt =>
           attempt.stale
    /\ InPreStep /\ behind /\ claimed.round # NoRound /\ claimed.round = RoundOf(attempt) =>
         attempt.stale

\* An armed goal of a halted agent is about to be disarmed or paused.
HaltIsUnderWay ==
    halted /\ Armed =>
        \/ aborted /\ pc \in {"pre", "inner", "outer", "step"}
        \/ pc = "exit" /\ attempt.phase \in {"claimed", "admitted"} /\ attempt.cancelled

\* On the way back to the loop the fence has answered.  A round that it let in is
\* the reserved one; and the goal is still as the fence has seen it, if nobody can
\* come between.
FenceStands ==
    pc = "outer" =>
        /\ decision # "none"
        /\ decision = "enter" /\ claimed.round # NoRound /\ ~aborted =>
             /\ claimed.round = RoundOf(attempt)
             /\ ~halted /\ ~behind
             /\ ~OuterAwaits =>
                  /\ goal.phase = "active" /\ goal.ver = claimed.round.ver
                  /\ claimed.round.round = goal.rounds + 1 /\ claimed.round.round <= goal.cap

\* The round of the open turn is the one that the driver tracks.
TurnIsTracked == turnRound # NoRound => pc = "step" /\ attempt.phase = "admitted"

\* What was appended since the last checkpoint is known to the driver of an armed
\* goal: a checkpoint is due or under way, or the round is still to be consumed.
UnstoredIsKnown ==
    ~durable => \/ needsCheckpoint \/ attempt.phase = "admitted" \/ ~Armed
                \/ \E i \in Loops : loops[i] = "flush"

IInv ==
    /\ TypeOK
    /\ OnePiece /\ SignalIsOfActivity
    /\ NothingFromLater /\ OnePlace /\ IdleIsSettled
    /\ BehindIsStale /\ HaltIsUnderWay
    /\ FenceStands
    /\ TurnIsTracked /\ UnstoredIsKnown
    /\ ~OuterAwaits => RoundIsAdmissible

LoopStates == {"off", "sync", "next", "flush", "overtaken", "go"}

-----------------------------------------------------------------------------
(* The helpers of the model. *)

\* The messages in the inbox are rounds, a person's among them.
LEMMA QueueIsTyped ==
    ASSUME TypeOK
    PROVE  \A k \in DOMAIN nextTurn :
              nextTurn[k] \in Rounds /\ nextTurn[k].ver \in Nat /\ nextTurn[k].round \in Nat
<1>1. \A k \in DOMAIN nextTurn : nextTurn[k] \in Rounds
  BY DEF TypeOK
<1> QED BY <1>1 DEF Rounds

\* A message that is appended to the inbox is behind all others.
LEMMA QueueGrows ==
    ASSUME TypeOK, NEW r \in Rounds, nextTurn' = Append(nextTurn, r)
    PROVE  /\ nextTurn' \in Seq(Rounds) /\ Len(nextTurn) \in Nat
           /\ DOMAIN nextTurn = 1..Len(nextTurn)
           /\ DOMAIN nextTurn' = DOMAIN nextTurn \cup {Len(nextTurn) + 1}
           /\ \A k \in DOMAIN nextTurn : nextTurn'[k] = nextTurn[k] /\ k < Len(nextTurn) + 1
           /\ nextTurn'[Len(nextTurn) + 1] = r
<1>1. /\ nextTurn' \in Seq(Rounds) /\ Len(nextTurn) \in Nat
      /\ DOMAIN nextTurn = 1..Len(nextTurn) /\ DOMAIN nextTurn' = 1..(Len(nextTurn) + 1)
      /\ \A k \in 1..Len(nextTurn) : nextTurn'[k] = nextTurn[k]
      /\ nextTurn'[Len(nextTurn) + 1] = r
  BY DEF TypeOK
<1> QED BY <1>1

\* The first message is claimed and the others move up.
LEMMA QueueShrinks ==
    ASSUME TypeOK, nextTurn # <<>>, nextTurn' = Tail(nextTurn)
    PROVE  /\ nextTurn' \in Seq(Rounds) /\ 1 \in DOMAIN nextTurn /\ Head(nextTurn) = nextTurn[1]
           /\ \A k \in DOMAIN nextTurn' : /\ k \in Nat /\ k + 1 \in DOMAIN nextTurn /\ k + 1 # 1
                                         /\ nextTurn'[k] = nextTurn[k + 1]
<1>1. /\ nextTurn' \in Seq(Rounds) /\ Len(nextTurn) \in Nat /\ Len(nextTurn) >= 1
      /\ DOMAIN nextTurn = 1..Len(nextTurn) /\ DOMAIN nextTurn' = 1..(Len(nextTurn) - 1)
      /\ \A k \in 1..(Len(nextTurn) - 1) : nextTurn'[k] = nextTurn[k + 1]
      /\ Head(nextTurn) = nextTurn[1]
  BY DEF TypeOK
<1> QED BY <1>1

\* A reservation that is marked stale or cancelled stays the same reservation.
LEMMA Marked ==
    ASSUME TypeOK,
           \/ attempt' = attempt
           \/ /\ attempt.phase # "none"
              /\ attempt' \in {[attempt EXCEPT !.stale = TRUE], [attempt EXCEPT !.cancelled = TRUE]}
    PROVE  /\ attempt' \in [ver : Nat, round : Nat,
                            phase : {"none", "queued", "claimed", "admitted"},
                            cancelled : BOOLEAN, stale : BOOLEAN]
           /\ RoundOf(attempt)' = RoundOf(attempt)
           /\ attempt'.ver = attempt.ver /\ attempt'.round = attempt.round
           /\ attempt'.phase = attempt.phase
           /\ (attempt.stale => attempt'.stale) /\ (attempt.cancelled => attempt'.cancelled)
           /\ attempt.phase = "none" => attempt' = attempt
BY DEF TypeOK, RoundOf

\* FreeLoop returns a loop that is off, within the bound.
LEMMA FreeLoopIsOff ==
    ASSUME NEW l \in [Loops -> LoopStates], WithinLoops(l), run = 0
    PROVE  FreeLoop(l) \in Loops /\ l[FreeLoop(l)] = "off"
BY DEF WithinLoops, FreeLoop

\* What is appended overtakes the checkpoints that are under way, and nothing else.
LEMMA OvertakenIsTyped ==
    ASSUME NEW l \in [Loops -> LoopStates]
    PROVE  /\ Overtaken(l) \in [Loops -> LoopStates]
           /\ \A i \in Loops : Overtaken(l)[i] = IF l[i] = "flush" THEN "overtaken" ELSE l[i]
BY DEF Overtaken, LoopStates

\* requestDrive starts at most one loop.
LEMMA DriveStartsOne ==
    ASSUME NEW l \in [Loops -> LoopStates], RequestDrive(l)
    PROVE  /\ loops' \in [Loops -> LoopStates] /\ requested' = TRUE
           /\ \A i \in Loops : loops'[i] = l[i] \/ (l[i] = "off" /\ loops'[i] = "sync")
           /\ \A i, j \in Loops : loops'[i] # l[i] /\ loops'[j] # l[j] => i = j
<1>1. CASE run # 0
  BY <1>1 DEF RequestDrive
<1>2. CASE run = 0
  <2> DEFINE free == FreeLoop(l)
  <2>1. free \in Loops /\ l[free] = "off"
    BY <1>2, FreeLoopIsOff DEF RequestDrive
  <2>2. loops' = [l EXCEPT ![free] = "sync"] /\ requested' = TRUE
    BY <1>2 DEF RequestDrive
  <2> HIDE DEF free
  <2> QED BY <2>1, <2>2 DEF LoopStates
<1> QED BY <1>1, <1>2

\* Where nothing synchronous runs, the loop that requestDrive starts is the only
\* one that does.
LEMMA OnePieceStarts ==
    ASSUME TypeOK, Idle, RequestDrive(loops) \/ RequestDrive(Overtaken(loops))
    PROVE  OnePiece' /\ loops' \in [Loops -> LoopStates] /\ requested' = TRUE
<1>0. loops \in [Loops -> LoopStates] /\ \A i \in Loops : loops[i] \notin {"sync", "go"}
  BY DEF TypeOK, Idle, LoopStates
<1>1. PICK l \in [Loops -> LoopStates] :
          RequestDrive(l) /\ \A i \in Loops : l[i] \notin {"sync", "go"}
  BY <1>0, OvertakenIsTyped
<1>2. /\ loops' \in [Loops -> LoopStates] /\ requested' = TRUE
      /\ \A i \in Loops : loops'[i] = l[i] \/ (l[i] = "off" /\ loops'[i] = "sync")
      /\ \A i, j \in Loops : loops'[i] # l[i] /\ loops'[j] # l[j] => i = j
  BY <1>1, DriveStartsOne
<1> QED BY <1>1, <1>2 DEF OnePiece

\* requestDrive cuts no checkpoint short.
LEMMA DriveKeepsFlush ==
    ASSUME TypeOK, RequestDrive(loops), NEW i \in Loops, loops[i] = "flush"
    PROVE  loops'[i] = "flush"
<1>1. loops \in [Loops -> LoopStates]
  BY DEF TypeOK, LoopStates
<1> QED BY <1>1, DriveStartsOne

\* A change of the goal that the driver makes itself: what becomes of the loops.
LEMMA DriverChangeLoops ==
    ASSUME TypeOK, NEW l \in [Loops -> LoopStates], NEW phase, DriverChanges(phase, l)
    PROVE  /\ loops' \in [Loops -> LoopStates]
           /\ \A i \in Loops : loops'[i] = l[i] \/ (l[i] = "off" /\ loops'[i] = "flush")
<1>1. CASE run # 0
  BY <1>1 DEF DriverChanges
<1>2. CASE run = 0
  <2> DEFINE free == FreeLoop(l)
  <2>1. free \in Loops /\ l[free] = "off"
    BY <1>2, FreeLoopIsOff DEF DriverChanges
  <2>2. loops' = [l EXCEPT ![free] = "flush"]
    BY <1>2 DEF DriverChanges
  <2> HIDE DEF free
  <2> QED BY <2>1, <2>2 DEF LoopStates
<1> QED BY <1>1, <1>2

\* ... and of the goal.
LEMMA DriverChangeGoal ==
    ASSUME TypeOK, NEW l, NEW phase \in {"paused", "blocked"}, DriverChanges(phase, l)
    PROVE  /\ goal' \in [phase : {"none", "active", "paused", "blocked", "complete", "corrupt"},
                         ver : Nat, rounds : 0..MaxCap, cap : 1..MaxCap]
           /\ goal'.ver = goal.ver + 1 /\ goal'.phase = phase /\ goal'.cap = goal.cap
           /\ armed' = FALSE /\ durable' = FALSE /\ needsCheckpoint' \in BOOLEAN
<1>1. PICK g \in [phase : {"none", "active", "paused", "blocked", "complete", "corrupt"},
                  ver : Nat, rounds : 0..MaxCap, cap : 1..MaxCap] : g = goal
  BY DEF TypeOK
<1>2. goal' = [g EXCEPT !.phase = phase, !.ver = g.ver + 1]
  BY <1>1 DEF DriverChanges
<1>3. goal' = [phase |-> phase, ver |-> g.ver + 1, rounds |-> g.rounds, cap |-> g.cap]
  BY <1>2
<1>4. armed' = FALSE /\ durable' = FALSE /\ needsCheckpoint' \in BOOLEAN
  BY DEF DriverChanges
<1> QED BY <1>1, <1>3, <1>4

-----------------------------------------------------------------------------
(* The parts of the invariant that say nothing of loops and checkpoints. *)

RoundsOK ==
    /\ SignalIsOfActivity /\ NothingFromLater /\ OnePlace /\ IdleIsSettled
    /\ BehindIsStale /\ HaltIsUnderWay /\ FenceStands /\ TurnIsTracked
    /\ ~OuterAwaits => RoundIsAdmissible

\* A step that leaves the rounds alone, and arms nothing, keeps what holds of them.
LEMMA RoundsKept ==
    ASSUME IInv, armed' => armed,
           UNCHANGED <<goal, attempt, nextTurn, pc, aborted, claimed, decision, turnRound, behind,
                       halted>>
    PROVE  RoundsOK'
<1>1. /\ SignalIsOfActivity' /\ NothingFromLater' /\ TurnIsTracked'
      /\ ~OuterAwaits => RoundIsAdmissible'
  BY DEF IInv, SignalIsOfActivity, NothingFromLater, TurnIsTracked, RoundIsAdmissible
<1>2. OnePlace' /\ IdleIsSettled'
  BY DEF IInv, OnePlace, IdleIsSettled, Armed, InPreStep
<1>3. BehindIsStale' /\ HaltIsUnderWay' /\ FenceStands'
  BY DEF IInv, BehindIsStale, HaltIsUnderWay, FenceStands, Armed, InPreStep
<1> QED BY <1>1, <1>2, <1>3 DEF RoundsOK

\* A change of the goal outdates every reservation and every queued round.
LEMMA RoundsOutdated ==
    ASSUME IInv, TypeOK', goal'.ver = goal.ver + 1, goal'.phase # "corrupt",
           pc = "outer" => OuterAwaits,
           halted' => halted /\ (Armed' => Armed),
           UNCHANGED <<attempt, nextTurn, pc, aborted, claimed, decision, turnRound, behind>>
    PROVE  RoundsOK'
<1>0. /\ goal.ver \in Nat /\ attempt.ver \in Nat /\ attempt.ver <= goal.ver
      /\ \A k \in DOMAIN nextTurn : nextTurn[k].ver \in Nat /\ nextTurn[k].ver <= goal.ver
  BY QueueIsTyped DEF IInv, TypeOK, NothingFromLater
<1>1. /\ attempt.ver < goal'.ver
      /\ \A k \in DOMAIN nextTurn : nextTurn[k].ver < goal'.ver
  BY <1>0
<1>2. NothingFromLater'
  BY <1>0, <1>1 DEF IInv, NothingFromLater
<1>3. OnePlace' /\ IdleIsSettled'
  BY <1>0, <1>1 DEF IInv, OnePlace, IdleIsSettled, Armed, InPreStep
<1>4. BehindIsStale' /\ HaltIsUnderWay' /\ FenceStands'
  BY DEF IInv, BehindIsStale, HaltIsUnderWay, FenceStands, InPreStep
<1>5. SignalIsOfActivity' /\ TurnIsTracked' /\ RoundIsAdmissible'
  BY DEF IInv, SignalIsOfActivity, TurnIsTracked, RoundIsAdmissible
<1> QED BY <1>2, <1>3, <1>4, <1>5 DEF RoundsOK

\* The parts make up the invariant.
LEMMA Assembled ==
    ASSUME TypeOK', OnePiece', UnstoredIsKnown', RoundsOK'
    PROVE  IInv'
BY DEF IInv, RoundsOK

-----------------------------------------------------------------------------
(* Changes of the goal. *)

\* commit: what a change does, whoever makes it.
LEMMA ChangeEffect ==
    ASSUME IInv, Idle, NEW g \in [phase : {"none", "active", "paused", "blocked", "complete"},
                                  ver : Nat, rounds : 0..MaxCap, cap : 1..MaxCap],
           NEW a \in BOOLEAN, Change(g, a)
    PROVE  /\ goal' \in [phase : {"none", "active", "paused", "blocked", "complete"},
                         ver : Nat, rounds : 0..MaxCap, cap : 1..MaxCap]
           /\ goal'.ver = goal.ver + 1 /\ goal'.phase = g.phase
           /\ armed' = a /\ durable' = FALSE /\ needsCheckpoint' = TRUE /\ requested' = TRUE
           /\ loops' \in [Loops -> LoopStates]
           /\ OnePiece' /\ UnstoredIsKnown'
<1>1. goal.ver \in Nat /\ goal' = [g EXCEPT !.ver = goal.ver + 1]
  BY DEF IInv, TypeOK, Change
<1>2. OnePiece' /\ loops' \in [Loops -> LoopStates] /\ requested' = TRUE
  BY OnePieceStarts DEF IInv, Change
<1> QED BY <1>1, <1>2 DEF Change, UnstoredIsKnown

\* A change by a person or by the model between the awaits keeps the invariant.
LEMMA ChangeStep ==
    ASSUME IInv, Between, NEW g \in [phase : {"none", "active", "paused", "blocked", "complete"},
                                     ver : Nat, rounds : 0..MaxCap, cap : 1..MaxCap],
           NEW a \in BOOLEAN, Change(g, a),
           halted' \in BOOLEAN, halted' => halted /\ (g.phase = "active" /\ a => Armed),
           UNCHANGED <<attempt, competing, run, activity, inbox, bounds, behind>>
    PROVE  IInv'
<1>1. /\ goal' \in [phase : {"none", "active", "paused", "blocked", "complete"},
                    ver : Nat, rounds : 0..MaxCap, cap : 1..MaxCap]
      /\ goal'.ver = goal.ver + 1 /\ goal'.phase = g.phase
      /\ armed' = a /\ durable' = FALSE /\ needsCheckpoint' = TRUE /\ requested' = TRUE
      /\ loops' \in [Loops -> LoopStates]
      /\ OnePiece' /\ UnstoredIsKnown'
  BY ChangeEffect DEF Between
<1>2. TypeOK'
  <2>1. goal' \in [phase : {"none", "active", "paused", "blocked", "complete", "corrupt"},
                   ver : Nat, rounds : 0..MaxCap, cap : 1..MaxCap]
    BY <1>1
  <2>2. UNCHANGED <<attempt, run, pc, claimed, turnRound, decision, nextTurn, nextStep, competing,
                    aborted, wake, behind>>
    BY DEF activity, turn, inbox
  <2>3. /\ attempt' \in [ver : Nat, round : Nat, phase : {"none", "queued", "claimed", "admitted"},
                         cancelled : BOOLEAN, stale : BOOLEAN]
        /\ run' \in Loops \cup {0}
        /\ pc' \in {"none", "start", "pre", "inner", "outer", "step", "exit"}
        /\ claimed' \in [round : Rounds, others : Nat] /\ turnRound' \in Rounds
        /\ decision' \in {"none", "throw", "reject", "enter", "empty"}
        /\ nextTurn' \in Seq(Rounds) /\ nextStep' \in Nat
    BY <2>2 DEF IInv, TypeOK
  <2>4. /\ competing' \in BOOLEAN /\ aborted' \in BOOLEAN /\ wake' \in BOOLEAN
        /\ behind' \in BOOLEAN /\ halted' \in BOOLEAN
    BY <2>2 DEF IInv, TypeOK
  <2>5. loops' \in [Loops -> {"off", "sync", "next", "flush", "overtaken", "go"}]
    BY <1>1 DEF LoopStates
  <2>6. /\ armed' \in BOOLEAN /\ durable' \in BOOLEAN /\ needsCheckpoint' \in BOOLEAN
        /\ requested' \in BOOLEAN
    BY <1>1
  <2> QED BY <2>1, <2>3, <2>4, <2>5, <2>6, Zenon DEF TypeOK
<1>3. RoundsOK'
  <2>1. goal'.phase # "corrupt" /\ (pc = "outer" => OuterAwaits)
    BY <1>1 DEF Between
  <2>2. halted' => halted /\ (Armed' => Armed)
    BY <1>1 DEF Armed
  <2>3. UNCHANGED <<attempt, nextTurn, pc, aborted, claimed, decision, turnRound, behind>>
    BY DEF activity, turn, inbox
  <2>4. goal'.ver = goal.ver + 1
    BY <1>1
  <2> QED BY <1>2, <2>1, <2>2, <2>3, <2>4, RoundsOutdated, Zenon
<1> QED BY <1>1, <1>2, <1>3, Assembled

\* What a person may do to the goal.
LEMMA PersonStep ==
    ASSUME IInv, PersonChangesGoal
    PROVE  IInv'
<1> DEFINE Goals == [phase : {"none", "active", "paused", "blocked", "complete"},
                     ver : Nat, rounds : 0..MaxCap, cap : 1..MaxCap]
<1>0. /\ Between /\ UNCHANGED <<attempt, competing, run, activity, inbox, bounds, behind>>
      /\ 0 \in 0..MaxCap /\ 1 \in 1..MaxCap
      /\ halted \in BOOLEAN /\ armed \in BOOLEAN
  BY GoalAssumption DEF PersonChangesGoal, IInv, TypeOK
<1>1. goal.phase # "corrupt" => goal \in Goals
  BY DEF IInv, TypeOK
<1>2. CASE Create
  <2>1. PICK cap \in 1..MaxCap :
           Change([goal EXCEPT !.phase = "active", !.rounds = 0, !.cap = cap], TRUE)
    BY <1>2 DEF Create
  <2>2. [goal EXCEPT !.phase = "active", !.rounds = 0, !.cap = cap] \in Goals /\ halted' = FALSE
    BY <1>0, <1>1, <1>2 DEF Create
  <2> QED BY <1>0, <2>1, <2>2, ChangeStep
<1>3. CASE Edit
  <2>1. PICK cap \in 1..MaxCap : Change([goal EXCEPT !.cap = cap], armed)
    BY <1>3 DEF Edit
  <2>2. /\ [goal EXCEPT !.cap = cap] \in Goals /\ halted' = halted
        /\ [goal EXCEPT !.cap = cap].phase = "active" /\ armed => Armed
    BY <1>1, <1>3 DEF Edit, Exists, Armed
  <2> QED BY <1>0, <2>1, <2>2, ChangeStep
<1>4. CASE Pause
  <2>1. /\ Change([goal EXCEPT !.phase = "paused"], FALSE) /\ halted' = halted
        /\ [goal EXCEPT !.phase = "paused"] \in Goals
    BY <1>1, <1>4 DEF Pause
  <2> QED BY <1>0, <2>1, ChangeStep
<1>5. CASE Resume
  <2>1. /\ Change([goal EXCEPT !.phase = "active"], TRUE) /\ halted' = FALSE
        /\ [goal EXCEPT !.phase = "active"] \in Goals
    BY <1>1, <1>5 DEF Resume, Exists
  <2> QED BY <1>0, <2>1, ChangeStep
<1>6. CASE Complete
  <2>1. /\ Change([goal EXCEPT !.phase = "complete"], FALSE) /\ halted' = halted
        /\ [goal EXCEPT !.phase = "complete"] \in Goals
    BY <1>1, <1>6 DEF Complete
  <2> QED BY <1>0, <2>1, ChangeStep
<1>7. CASE Clear
  <2>1. /\ Change([goal EXCEPT !.phase = "none", !.rounds = 0, !.cap = 1], FALSE)
        /\ halted' = halted
        /\ [goal EXCEPT !.phase = "none", !.rounds = 0, !.cap = 1] \in Goals
    BY <1>0, <1>1, <1>7 DEF Clear, Exists
  <2> QED BY <1>0, <2>1, ChangeStep
<1> QED BY <1>2, <1>3, <1>4, <1>5, <1>6, <1>7 DEF PersonChangesGoal

\* What the model may do to it.
LEMMA ModelStep ==
    ASSUME IInv, ModelSettlesGoal
    PROVE  IInv'
<1>1. PICK phase \in {"complete", "blocked"} :
         /\ IF phase = "blocked" THEN goal.phase = "active" ELSE goal.phase \notin {"none", "complete"}
         /\ Change([goal EXCEPT !.phase = phase], FALSE)
  BY DEF ModelSettlesGoal
<1>2. [goal EXCEPT !.phase = phase] \in [phase : {"none", "active", "paused", "blocked", "complete"},
                                         ver : Nat, rounds : 0..MaxCap, cap : 1..MaxCap]
  BY DEF IInv, TypeOK
<1>3. /\ Between /\ UNCHANGED <<attempt, competing, run, activity, inbox, bounds, history>>
      /\ halted \in BOOLEAN
  BY DEF ModelSettlesGoal, IInv, TypeOK
<1> QED BY <1>1, <1>2, <1>3, ChangeStep DEF history

-----------------------------------------------------------------------------
(* A person's messages and cancels. *)

\* A prompt is behind whatever round is queued, and marks the reservation.
LEMMA SendPromptStep ==
    ASSUME IInv, SendPrompt
    PROVE  IInv'
<1> DEFINE n == Len(nextTurn) + 1
<1>0. /\ TypeOK /\ Between /\ Prompt \in Rounds
      /\ nextTurn' = Append(nextTurn, Prompt)
      /\ UNCHANGED <<goal, armed, durable, needsCheckpoint, requested, loops, run, aborted, claimed,
                     decision, turnRound, nextStep, behind, halted>>
      /\ competing' = TRUE /\ wake' = aborted
      /\ pc' = IF pc = "none" THEN "start" ELSE pc
  BY DEF SendPrompt, IInv, Prompt, NoRound, Rounds, goals, triggers, turn, history, Running
<1>1. /\ nextTurn' \in Seq(Rounds)
      /\ DOMAIN nextTurn' = DOMAIN nextTurn \cup {n}
      /\ \A k \in DOMAIN nextTurn : nextTurn'[k] = nextTurn[k] /\ k < n /\ k \in Nat
      /\ nextTurn'[n] = Prompt /\ n \in Nat
  BY <1>0, QueueGrows
<1>2. /\ attempt' \in [ver : Nat, round : Nat,
                       phase : {"none", "queued", "claimed", "admitted"},
                       cancelled : BOOLEAN, stale : BOOLEAN]
      /\ RoundOf(attempt)' = RoundOf(attempt)
      /\ attempt'.ver = attempt.ver /\ attempt'.round = attempt.round
      /\ attempt'.phase = attempt.phase
      /\ (attempt.stale => attempt'.stale) /\ (attempt.cancelled => attempt'.cancelled)
      /\ attempt.phase = "none" => attempt' = attempt
  BY <1>0, Marked DEF SendPrompt
<1>3. attempt.phase = "queued" => attempt'.stale
  BY <1>0 DEF SendPrompt, TypeOK
<1>4. TypeOK'
  BY <1>0, <1>1, <1>2 DEF TypeOK
<1>5. OnePiece' /\ UnstoredIsKnown'
  BY <1>0, <1>2 DEF Between, Idle, OnePiece, IInv, UnstoredIsKnown, Armed
<1>6. SignalIsOfActivity' /\ TurnIsTracked' /\ (~OuterAwaits => RoundIsAdmissible')
  BY <1>0, <1>2 DEF IInv, SignalIsOfActivity, TurnIsTracked, RoundIsAdmissible
<1>7. NothingFromLater'
  <2>1. Prompt.ver <= goal.ver
    BY <1>0 DEF Prompt, NoRound, TypeOK
  <2> QED BY <1>0, <1>1, <1>2, <2>1 DEF IInv, NothingFromLater
<1>8. OnePlace' /\ IdleIsSettled'
  BY <1>0, <1>1, <1>2 DEF IInv, OnePlace, IdleIsSettled, Armed, InPreStep
<1>9. BehindIsStale'
  <2>1. ASSUME NEW k \in DOMAIN nextTurn', NEW m \in DOMAIN nextTurn',
               k < m, nextTurn'[k] # Prompt, nextTurn'[k] = RoundOf(attempt)', nextTurn'[m] = Prompt
        PROVE  attempt'.stale
    <3>1. k \in DOMAIN nextTurn /\ nextTurn[k] = RoundOf(attempt)
      BY <1>1, <1>2, <2>1
    <3>2. attempt.phase = "queued"
      BY <1>1, <2>1, <3>1 DEF IInv, OnePlace
    <3> QED BY <1>3, <3>2
  <2> QED BY <1>0, <1>2, <2>1 DEF IInv, BehindIsStale, InPreStep
<1>10. HaltIsUnderWay' /\ FenceStands'
  BY <1>0, <1>2 DEF IInv, HaltIsUnderWay, FenceStands, Armed, Between
<1> QED BY <1>4, <1>5, <1>6, <1>7, <1>8, <1>9, <1>10, Assembled DEF RoundsOK

\* A message for the next step touches no round.
LEMMA SteerStep ==
    ASSUME IInv, Steer
    PROVE  IInv'
<1>0. /\ TypeOK /\ Between
      /\ UNCHANGED <<goal, armed, durable, attempt, competing, needsCheckpoint, requested, loops, run,
                     aborted, wake, claimed, decision, turnRound, nextTurn, behind, halted>>
      /\ nextStep' = nextStep + 1
      /\ pc' = IF pc = "none" THEN "start" ELSE pc
  BY DEF Steer, IInv, goals, driver, triggers, turn, history, Running
<1>1. TypeOK'
  BY <1>0 DEF TypeOK
<1>2. OnePiece' /\ UnstoredIsKnown'
  BY <1>0 DEF Between, Idle, OnePiece, IInv, UnstoredIsKnown, Armed
<1>3. /\ SignalIsOfActivity' /\ TurnIsTracked' /\ (~OuterAwaits => RoundIsAdmissible')
      /\ NothingFromLater'
  BY <1>0 DEF IInv, SignalIsOfActivity, TurnIsTracked, RoundIsAdmissible, NothingFromLater, Steer
<1>4. OnePlace' /\ IdleIsSettled'
  BY <1>0 DEF IInv, OnePlace, IdleIsSettled, Armed, InPreStep
<1>5. BehindIsStale' /\ HaltIsUnderWay' /\ FenceStands'
  BY <1>0 DEF IInv, BehindIsStale, HaltIsUnderWay, FenceStands, Armed, InPreStep
<1> QED BY <1>1, <1>2, <1>3, <1>4, <1>5, Assembled DEF RoundsOK

\* A cancel halts an armed goal, and its signal is what will disarm it.
LEMMA UserCancelStep ==
    ASSUME IInv, UserCancel
    PROVE  IInv'
<1>0. /\ TypeOK /\ Between
      /\ UNCHANGED <<goal, armed, durable, competing, needsCheckpoint, requested, loops, run, pc,
                     claimed, decision, turnRound, behind>>
      /\ aborted' = (pc # "none")
      /\ halted' = (halted \/ (pc # "none" /\ ~aborted /\ Armed))
      /\ \/ UNCHANGED <<attempt, wake, nextTurn, nextStep>>
         \/ nextTurn' = <<>> /\ nextStep' = 0 /\ wake' = FALSE
  BY DEF UserCancel, IInv, goals, triggers, turn, inbox, Running
<1>1. \/ attempt' = attempt
      \/ attempt.phase # "none" /\ attempt' = [attempt EXCEPT !.cancelled = TRUE]
  BY DEF UserCancel, IInv, OnePlace
<1>2. /\ attempt' \in [ver : Nat, round : Nat,
                       phase : {"none", "queued", "claimed", "admitted"},
                       cancelled : BOOLEAN, stale : BOOLEAN]
      /\ RoundOf(attempt)' = RoundOf(attempt)
      /\ attempt'.ver = attempt.ver /\ attempt'.round = attempt.round
      /\ attempt'.phase = attempt.phase
      /\ (attempt.stale => attempt'.stale) /\ (attempt.cancelled => attempt'.cancelled)
      /\ attempt.phase = "none" => attempt' = attempt
  BY <1>0, <1>1, Marked
<1>3. nextTurn' = nextTurn \/ (nextTurn' = <<>> /\ DOMAIN nextTurn' = {})
  BY <1>0
<1>4. TypeOK'
  <2>1. nextTurn \in Seq(Rounds) /\ nextStep \in Nat /\ wake \in BOOLEAN
    BY <1>0 DEF TypeOK
  <2>2. nextTurn' \in Seq(Rounds) /\ nextStep' \in Nat /\ wake' \in BOOLEAN
    <3>1. CASE UNCHANGED <<attempt, wake, nextTurn, nextStep>>
      BY <2>1, <3>1
    <3>2. CASE nextTurn' = <<>> /\ nextStep' = 0 /\ wake' = FALSE
      <4>1. <<>> \in Seq(Rounds)
        OBVIOUS
      <4> QED BY <3>2, <4>1
    <3> QED BY <1>0, <3>1, <3>2
  <2>3. aborted' \in BOOLEAN /\ halted' \in BOOLEAN
    BY <1>0
  <2> QED BY <1>0, <1>2, <2>2, <2>3 DEF TypeOK
<1>5. OnePiece' /\ UnstoredIsKnown'
  BY <1>0, <1>2 DEF Between, Idle, OnePiece, IInv, UnstoredIsKnown, Armed
<1>6. /\ SignalIsOfActivity' /\ TurnIsTracked' /\ (~OuterAwaits => RoundIsAdmissible')
      /\ NothingFromLater'
  <2>1. NothingFromLater'
    BY <1>0, <1>2, <1>3 DEF IInv, NothingFromLater
  <2>2. SignalIsOfActivity'
    BY <1>0 DEF SignalIsOfActivity, Between
  <2> QED BY <1>0, <1>2, <2>1, <2>2 DEF IInv, TurnIsTracked, RoundIsAdmissible
<1>7. OnePlace' /\ IdleIsSettled'
  BY <1>0, <1>2, <1>3 DEF IInv, OnePlace, IdleIsSettled, Armed, InPreStep
<1>8. BehindIsStale'
  BY <1>0, <1>2, <1>3 DEF IInv, BehindIsStale, InPreStep
<1>9. HaltIsUnderWay' /\ FenceStands'
  BY <1>0, <1>2 DEF IInv, TypeOK, HaltIsUnderWay, FenceStands, Armed, Between
<1> QED BY <1>4, <1>5, <1>6, <1>7, <1>8, <1>9, Assembled DEF RoundsOK

-----------------------------------------------------------------------------
(* The agent: the start of a turn, and the fence. *)

\* The latched wake of an idle agent starts a turn.
LEMMA ReplayWakeStep ==
    ASSUME IInv, ReplayWake
    PROVE  IInv'
<1>0. /\ TypeOK /\ pc = "none" /\ pc' = "start" /\ wake /\ wake' = FALSE
      /\ \A i \in Loops : loops[i] # "sync"
      /\ UNCHANGED <<goal, armed, durable, attempt, competing, needsCheckpoint, requested, loops, run,
                     aborted, claimed, decision, turnRound, nextTurn, nextStep, behind, halted>>
  BY DEF ReplayWake, IInv, goals, driver, triggers, turn, inbox, history
<1>1. TypeOK'
  <2>1. pc' = "start" /\ wake' \in BOOLEAN
    BY <1>0
  <2>2. UNCHANGED <<goal, armed, durable, attempt, competing, needsCheckpoint, requested, loops, run,
                    aborted, claimed, decision, turnRound, nextTurn, nextStep, behind, halted>>
    BY <1>0
  <2>3. TypeOK
    BY <1>0
  <2> QED BY <2>1, <2>2, <2>3 DEF TypeOK
<1>2. OnePiece' /\ UnstoredIsKnown'
  BY <1>0 DEF OnePiece, IInv, UnstoredIsKnown, Armed
<1>3. /\ SignalIsOfActivity' /\ TurnIsTracked' /\ (~OuterAwaits => RoundIsAdmissible')
      /\ NothingFromLater'
  BY <1>0 DEF IInv, SignalIsOfActivity, TurnIsTracked, RoundIsAdmissible, NothingFromLater
<1>4. OnePlace' /\ IdleIsSettled'
  BY <1>0 DEF IInv, OnePlace, IdleIsSettled, Armed, InPreStep
<1>5. BehindIsStale' /\ HaltIsUnderWay' /\ FenceStands'
  BY <1>0 DEF IInv, BehindIsStale, HaltIsUnderWay, FenceStands, Armed, InPreStep
<1> QED BY <1>1, <1>2, <1>3, <1>4, <1>5, Assembled DEF RoundsOK

\* A round is claimed from the inbox, where it was once; and a message behind it
\* had made its reservation stale.
LEMMA StartTurnStep ==
    ASSUME IInv, StartTurn
    PROVE  IInv'
<1> DEFINE head == IF nextTurn = <<>> THEN NoRound ELSE Head(nextTurn)
           own == head # NoRound /\ head = RoundOf(attempt)
<1>0. /\ TypeOK /\ pc = "start" /\ pc' = "pre" /\ nextStep' = 0
      /\ UNCHANGED <<goal, armed, durable, competing, needsCheckpoint, requested, loops, run,
                     aborted, wake, decision, turnRound, halted>>
      /\ claimed'.round = head
      /\ attempt' = IF own THEN [attempt EXCEPT !.phase = "claimed"] ELSE attempt
      /\ behind' = (head # NoRound /\ \E k \in 2..Len(nextTurn) : nextTurn[k] = Prompt)
      /\ nextTurn' = IF nextTurn = <<>> THEN <<>> ELSE Tail(nextTurn)
  BY DEF StartTurn, IInv, goals, triggers
<1>1. /\ nextTurn' \in Seq(Rounds) /\ head \in Rounds
      /\ head # NoRound => nextTurn # <<>> /\ 1 \in DOMAIN nextTurn /\ head = nextTurn[1]
      /\ \A k \in DOMAIN nextTurn' : /\ k \in Nat /\ k + 1 \in DOMAIN nextTurn /\ k + 1 # 1
                                     /\ nextTurn'[k] = nextTurn[k + 1]
  <2>1. CASE nextTurn = <<>>
    <3>1. nextTurn' = <<>> /\ DOMAIN nextTurn' = {} /\ <<>> \in Seq(Rounds)
      BY <1>0, <2>1
    <3> QED BY <2>1, <3>1 DEF NoRound, Rounds
  <2>2. CASE nextTurn # <<>>
    <3>1. /\ nextTurn' \in Seq(Rounds) /\ 1 \in DOMAIN nextTurn /\ Head(nextTurn) = nextTurn[1]
          /\ \A k \in DOMAIN nextTurn' : /\ k \in Nat /\ k + 1 \in DOMAIN nextTurn /\ k + 1 # 1
                                         /\ nextTurn'[k] = nextTurn[k + 1]
      BY <1>0, <2>2, QueueShrinks
    <3> QED BY <1>0, <2>2, <3>1, QueueIsTyped
  <2> QED BY <2>1, <2>2
<1>2. claimed' \in [round : Rounds, others : Nat]
  <2>1. claimed' = [round |-> head,
                    others |-> nextStep + IF nextTurn # <<>> /\ head = Prompt THEN 1 ELSE 0]
    BY DEF StartTurn
  <2> HIDE DEF head
  <2>2. nextStep + (IF nextTurn # <<>> /\ head = Prompt THEN 1 ELSE 0) \in Nat
    BY <1>0 DEF TypeOK
  <2> QED BY <1>1, <2>1, <2>2
<1> HIDE DEF head
<1>3. /\ own => attempt.phase = "queued"
      /\ own => \A k \in DOMAIN nextTurn' : nextTurn'[k] # head
  BY <1>1 DEF IInv, OnePlace, Prompt
<1>4. /\ attempt' \in [ver : Nat, round : Nat,
                       phase : {"none", "queued", "claimed", "admitted"},
                       cancelled : BOOLEAN, stale : BOOLEAN]
      /\ RoundOf(attempt)' = RoundOf(attempt)
      /\ attempt'.ver = attempt.ver /\ attempt'.round = attempt.round
      /\ attempt'.phase = IF own THEN "claimed" ELSE attempt.phase
      /\ attempt'.stale = attempt.stale
      /\ attempt'.phase = "none" => attempt' = attempt
  BY <1>0 DEF TypeOK, RoundOf
<1> HIDE DEF own
<1>5. TypeOK'
  BY <1>0, <1>1, <1>2, <1>4 DEF TypeOK
<1>6. OnePiece' /\ UnstoredIsKnown'
  BY <1>0, <1>3, <1>4 DEF OnePiece, IInv, UnstoredIsKnown, Armed
<1>7. /\ SignalIsOfActivity' /\ TurnIsTracked' /\ (~OuterAwaits => RoundIsAdmissible')
      /\ NothingFromLater'
  BY <1>0, <1>1, <1>4 DEF IInv, SignalIsOfActivity, TurnIsTracked, RoundIsAdmissible,
                          NothingFromLater
<1>8. OnePlace' /\ IdleIsSettled'
  <2>1. ASSUME NEW k \in DOMAIN nextTurn', nextTurn'[k] # Prompt, nextTurn'[k] = RoundOf(attempt)'
        PROVE  /\ attempt'.phase = "queued"
               /\ \A m \in DOMAIN nextTurn' : nextTurn'[m] = nextTurn'[k] => m = k
    <3>1. /\ k + 1 \in DOMAIN nextTurn /\ nextTurn[k + 1] = nextTurn'[k]
          /\ nextTurn[k + 1] = RoundOf(attempt)
      BY <1>1, <1>4, <2>1
    <3>2. /\ attempt.phase = "queued"
          /\ \A m \in DOMAIN nextTurn : nextTurn[m] = nextTurn[k + 1] => m = k + 1
      BY <2>1, <3>1 DEF IInv, OnePlace
    <3>3. ~own
      BY <1>3, <1>4, <2>1 DEF own
    <3>4. ASSUME NEW m \in DOMAIN nextTurn', nextTurn'[m] = nextTurn'[k] PROVE m = k
      <4>1. m + 1 = k + 1 /\ m \in Nat /\ k \in Nat
        BY <1>1, <3>1, <3>2, <3>4
      <4> QED BY <4>1
    <3> QED BY <1>4, <3>2, <3>3, <3>4
  <2>2. ASSUME Armed, NEW k \in DOMAIN nextTurn', nextTurn'[k] # Prompt, nextTurn'[k].ver = goal.ver
        PROVE  attempt'.phase = "queued" /\ nextTurn'[k] = RoundOf(attempt)'
    <3>1. k + 1 \in DOMAIN nextTurn /\ nextTurn[k + 1] = nextTurn'[k]
      BY <1>1
    <3>2. attempt.phase = "queued" /\ nextTurn[k + 1] = RoundOf(attempt)
      BY <2>2, <3>1 DEF IInv, OnePlace
    <3>3. ~own
      BY <1>3, <3>1, <3>2 DEF own
    <3> QED BY <1>4, <3>1, <3>2, <3>3
  <2>3. claimed'.round # NoRound /\ claimed'.round = RoundOf(attempt)' => attempt'.phase = "claimed"
    BY <1>0, <1>4 DEF own
  <2> QED BY <1>0, <2>1, <2>2, <2>3 DEF OnePlace, IdleIsSettled, Armed
<1>9. BehindIsStale'
  <2>1. ASSUME NEW k \in DOMAIN nextTurn', NEW m \in DOMAIN nextTurn',
               k < m, nextTurn'[k] # Prompt, nextTurn'[k] = RoundOf(attempt)', nextTurn'[m] = Prompt
        PROVE  attempt'.stale
    <3>1. /\ k \in Nat /\ m \in Nat /\ k + 1 < m + 1
          /\ k + 1 \in DOMAIN nextTurn /\ nextTurn[k + 1] = nextTurn'[k]
          /\ m + 1 \in DOMAIN nextTurn /\ nextTurn[m + 1] = nextTurn'[m]
      BY <1>1, <2>1
    <3> QED BY <1>4, <2>1, <3>1 DEF IInv, BehindIsStale
  <2>2. ASSUME behind', claimed'.round # NoRound, claimed'.round = RoundOf(attempt)'
        PROVE  attempt'.stale
    <3>1. PICK k \in 2..Len(nextTurn) : nextTurn[k] = Prompt
      BY <1>0, <2>2
    <3>2. 1 \in DOMAIN nextTurn /\ head = nextTurn[1] /\ head = RoundOf(attempt)
      BY <1>0, <1>1, <1>4, <2>2
    <3>3. k \in DOMAIN nextTurn /\ 1 < k
      BY <1>0, <3>1 DEF TypeOK
    <3> QED BY <1>0, <1>4, <2>2, <3>1, <3>2, <3>3 DEF IInv, BehindIsStale, Prompt
  <2> QED BY <2>1, <2>2 DEF BehindIsStale
<1>10. HaltIsUnderWay' /\ FenceStands'
  BY <1>0 DEF IInv, HaltIsUnderWay, FenceStands, Armed
<1> QED BY <1>5, <1>6, <1>7, <1>8, <1>9, <1>10, Assembled DEF RoundsOK

\* The fence, and the listeners behind it: a batch with a round goes on to the
\* loop only with the reservation as it stands; a reservation that is dropped is
\* the claimed one.
LEMMA FenceAnswers ==
    ASSUME IInv, TypeOK', pc \in {"pre", "inner"}, pc' = "outer",
           \/ attempt' = attempt
           \/ /\ attempt' = NoAttempt
              /\ claimed.round # NoRound /\ claimed.round = RoundOf(attempt),
           decision' = "enter" /\ claimed.round # NoRound /\ ~aborted =>
              attempt' = attempt /\ ValidReservation,
           ~aborted \/ pc = "inner", decision' # "none",
           UNCHANGED <<goal, armed, aborted, claimed, turnRound, nextTurn, behind, halted>>
    PROVE  RoundsOK'
<1>0. TypeOK /\ RoundOf(NoAttempt) = NoRound
  BY DEF IInv, RoundOf, NoAttempt, NoRound
<1>1. /\ NoAttempt.ver = 0 /\ NoAttempt.round = 0 /\ NoAttempt.phase = "none"
      /\ goal.ver \in Nat /\ goal.cap \in Nat /\ attempt.ver \in Nat
  BY <1>0 DEF NoAttempt, TypeOK
<1>2. attempt' = NoAttempt /\ attempt' # attempt => attempt.phase = "claimed"
  BY DEF IInv, OnePlace, InPreStep
<1>3. NothingFromLater'
  BY <1>1 DEF IInv, NothingFromLater
<1>4. SignalIsOfActivity' /\ (~OuterAwaits => RoundIsAdmissible') /\ IdleIsSettled'
  BY DEF IInv, SignalIsOfActivity, RoundIsAdmissible, IdleIsSettled
<1>5. TurnIsTracked'
  BY DEF IInv, TurnIsTracked
<1>6. RoundOf(attempt)' = IF attempt' = attempt THEN RoundOf(attempt) ELSE NoRound
  BY <1>0 DEF RoundOf
<1>7. OnePlace'
  <2>1. CASE attempt' = attempt
    BY <1>6, <2>1 DEF IInv, OnePlace, Armed, InPreStep
  <2>2. CASE attempt' # attempt
    BY <1>2, <1>6, <2>2 DEF IInv, OnePlace, Armed, Prompt
  <2> QED BY <2>1, <2>2
<1>8. BehindIsStale'
  <2>1. CASE attempt' = attempt
    BY <1>6, <2>1 DEF IInv, BehindIsStale, InPreStep
  <2>2. CASE attempt' # attempt
    BY <1>6, <2>2 DEF BehindIsStale, Prompt
  <2> QED BY <2>1, <2>2
<1>9. HaltIsUnderWay'
  BY DEF IInv, HaltIsUnderWay, Armed
<1>10. FenceStands'
  <2>1. ASSUME decision' = "enter", claimed.round # NoRound, ~aborted
        PROVE  /\ claimed.round = RoundOf(attempt)'
               /\ ~halted /\ ~behind
               /\ goal.phase = "active" /\ goal.ver = claimed.round.ver
               /\ claimed.round.round = goal.rounds + 1 /\ claimed.round.round <= goal.cap
    <3>1. attempt' = attempt /\ ValidReservation
      BY <2>1
    <3>2. claimed.round = RoundOf(attempt) /\ Armed /\ ~attempt.stale
      BY <3>1 DEF ValidReservation
    <3>3. ~halted
      BY <2>1, <3>2 DEF IInv, HaltIsUnderWay
    <3>4. ~behind
      BY <2>1, <3>2 DEF IInv, BehindIsStale, InPreStep
    <3>5. attempt.ver = goal.ver /\ attempt.round = claimed.round.round
      BY <3>1, <3>2 DEF ValidReservation, RoundOf
    <3>6. claimed.round.round <= goal.cap
      BY <3>5 DEF IInv, NothingFromLater
    <3> QED BY <1>6, <3>1, <3>2, <3>3, <3>4, <3>6 DEF ValidReservation, Armed
  <2> QED BY <2>1 DEF FenceStands
<1> QED BY <1>3, <1>4, <1>5, <1>7, <1>8, <1>9, <1>10 DEF RoundsOK

\* The fence's first look.
LEMMA FenceStep ==
    ASSUME IInv, Fence
    PROVE  IInv'
<1>0. /\ TypeOK /\ Idle /\ pc = "pre" /\ ~aborted
      /\ UNCHANGED <<goal, armed, durable, competing, run, aborted, wake, claimed, turnRound,
                     nextTurn, behind, halted, needsCheckpoint>>
  BY DEF Fence, IInv, goals, history, triggers
<1>1. CASE claimed.round = NoRound \/ ValidReservation
  <2>1. /\ pc' = "inner"
        /\ UNCHANGED <<attempt, requested, loops, nextStep, decision>>
    BY <1>1 DEF Fence, triggers
  <2>2. TypeOK'
    BY <1>0, <2>1 DEF TypeOK
  <2>3. OnePiece' /\ UnstoredIsKnown'
    BY <1>0, <2>1 DEF OnePiece, Idle, IInv, UnstoredIsKnown, Armed
  <2>4. /\ SignalIsOfActivity' /\ TurnIsTracked' /\ (~OuterAwaits => RoundIsAdmissible')
        /\ NothingFromLater' /\ IdleIsSettled' /\ FenceStands'
    BY <1>0, <2>1 DEF IInv, SignalIsOfActivity, TurnIsTracked, RoundIsAdmissible, NothingFromLater,
                      IdleIsSettled, FenceStands
  <2>5. claimed.round # NoRound => claimed.round = RoundOf(attempt)
    BY <1>1 DEF ValidReservation
  <2>6. OnePlace'
    BY <1>0, <2>1, <2>5 DEF IInv, OnePlace, Armed, InPreStep, RoundOf
  <2>7. BehindIsStale' /\ HaltIsUnderWay'
    BY <1>0, <2>1 DEF IInv, BehindIsStale, HaltIsUnderWay, Armed, InPreStep, RoundOf
  <2> QED BY <2>2, <2>3, <2>4, <2>6, <2>7, Assembled DEF RoundsOK
<1>2. CASE ~(claimed.round = NoRound \/ ValidReservation)
  <2>1. /\ pc' = "outer" /\ decision' = "reject"
        /\ attempt' = IF claimed.round = RoundOf(attempt) THEN NoAttempt ELSE attempt
        /\ nextStep' = nextStep + claimed.others
        /\ RequestDrive(loops)
        /\ claimed.round # NoRound
    BY <1>2 DEF Fence
  <2>2. OnePiece' /\ loops' \in [Loops -> LoopStates] /\ requested' = TRUE
    BY <1>0, <2>1, OnePieceStarts
  <2>3. TypeOK'
    <3>1. nextStep' \in Nat
      BY <1>0, <2>1 DEF TypeOK
    <3>2. attempt' \in [ver : Nat, round : Nat, phase : {"none", "queued", "claimed", "admitted"},
                        cancelled : BOOLEAN, stale : BOOLEAN]
      BY <1>0, <2>1 DEF TypeOK, NoAttempt
    <3> QED BY <1>0, <2>1, <2>2, <3>1, <3>2 DEF TypeOK, LoopStates
  <2>4. RoundsOK'
    BY <1>0, <2>1, <2>3, FenceAnswers
  <2>5. UnstoredIsKnown'
    <3>1. attempt.phase = "admitted" => attempt' = attempt
      BY <1>0, <2>1 DEF IInv, OnePlace, InPreStep
    <3>2. \A i \in Loops : loops[i] = "flush" => loops'[i] = "flush"
      BY <1>0, <2>1, DriveKeepsFlush
    <3> QED BY <1>0, <3>1, <3>2 DEF IInv, UnstoredIsKnown, Armed
  <2> QED BY <2>2, <2>3, <2>4, <2>5, Assembled
<1> QED BY <1>1, <1>2

\* A listener rejects a round and the goal is blocked.
LEMMA RejectBlocks ==
    ASSUME IInv, Inner, decision' = "reject", attempt' = NoAttempt, Armed, UNCHANGED nextStep,
           Change([goal EXCEPT !.phase = "blocked"], FALSE)
    PROVE  IInv'
<1>0. /\ TypeOK /\ Idle /\ pc = "inner" /\ pc' = "outer"
      /\ UNCHANGED <<competing, run, aborted, wake, claimed, turnRound, nextTurn, behind, halted>>
  BY DEF Inner, IInv, history
<1>1. [goal EXCEPT !.phase = "blocked"] \in
         [phase : {"none", "active", "paused", "blocked", "complete"},
          ver : Nat, rounds : 0..MaxCap, cap : 1..MaxCap]
  BY <1>0 DEF TypeOK
<1>2. /\ goal' \in [phase : {"none", "active", "paused", "blocked", "complete"},
                    ver : Nat, rounds : 0..MaxCap, cap : 1..MaxCap]
      /\ goal'.ver = goal.ver + 1 /\ goal'.phase = "blocked"
      /\ armed' = FALSE /\ durable' = FALSE /\ needsCheckpoint' = TRUE /\ requested' = TRUE
      /\ loops' \in [Loops -> LoopStates]
      /\ OnePiece' /\ UnstoredIsKnown'
  <2>1. [goal EXCEPT !.phase = "blocked"].phase = "blocked"
    BY <1>0 DEF TypeOK
  <2> QED BY <1>0, <1>1, <2>1, ChangeEffect
<1>3. /\ NoAttempt \in [ver : Nat, round : Nat, phase : {"none", "queued", "claimed", "admitted"},
                        cancelled : BOOLEAN, stale : BOOLEAN]
      /\ NoAttempt.ver = 0 /\ NoAttempt.round = 0 /\ NoAttempt.phase = "none"
      /\ RoundOf(attempt)' = NoRound
  BY DEF NoAttempt, NoRound, RoundOf
<1>4. TypeOK'
  <2>1. goal' \in [phase : {"none", "active", "paused", "blocked", "complete", "corrupt"},
                   ver : Nat, rounds : 0..MaxCap, cap : 1..MaxCap]
    BY <1>2
  <2> QED BY <1>0, <1>2, <1>3, <2>1 DEF TypeOK, LoopStates
<1>5. NothingFromLater'
  <2>1. goal.ver \in Nat /\ \A k \in DOMAIN nextTurn : nextTurn[k].ver \in Nat
    BY <1>0, QueueIsTyped DEF TypeOK
  <2>2. \A k \in DOMAIN nextTurn : nextTurn[k].ver <= goal'.ver
    BY <1>2, <2>1 DEF IInv, NothingFromLater
  <2>3. 0 <= goal'.ver /\ 0 <= goal'.cap
    BY <1>2
  <2> QED BY <1>0, <1>3, <2>2, <2>3 DEF NothingFromLater
<1>6. ~Armed'
  BY <1>2 DEF Armed
<1>7. OnePlace' /\ IdleIsSettled' /\ BehindIsStale' /\ HaltIsUnderWay' /\ FenceStands'
  BY <1>0, <1>3, <1>6 DEF OnePlace, IdleIsSettled, BehindIsStale, HaltIsUnderWay, FenceStands, Prompt
<1>8. SignalIsOfActivity' /\ TurnIsTracked' /\ RoundIsAdmissible'
  BY <1>0, <1>2 DEF IInv, SignalIsOfActivity, TurnIsTracked, RoundIsAdmissible
<1> QED BY <1>2, <1>4, <1>5, <1>7, <1>8, Assembled DEF RoundsOK

\* The listeners answer, and the fence takes its second look.
LEMMA InnerStep ==
    ASSUME IInv, Inner
    PROVE  IInv'
<1>0. /\ TypeOK /\ Idle /\ pc = "inner" /\ pc' = "outer"
      /\ UNCHANGED <<competing, run, aborted, wake, claimed, turnRound, nextTurn, behind, halted>>
      /\ InnerThrows \/ InnerRejects \/ InnerEnters
  BY DEF Inner, IInv, history
<1>1. claimed.round # NoRound => claimed.round = RoundOf(attempt) /\ attempt.phase = "claimed"
  BY <1>0 DEF IInv, OnePlace, InPreStep
<1>2. nextStep \in Nat /\ claimed.others \in Nat
      /\ NoAttempt \in [ver : Nat, round : Nat, phase : {"none", "queued", "claimed", "admitted"},
                        cancelled : BOOLEAN, stale : BOOLEAN]
  BY <1>0 DEF TypeOK, NoAttempt
<1>3. CASE /\ UNCHANGED <<goals, triggers>>
           /\ attempt' = attempt \/ (claimed.round # NoRound /\ attempt' = NoAttempt)
           /\ decision' \in {"throw", "reject", "enter", "empty"} /\ nextStep' \in Nat
           /\ decision' = "enter" /\ claimed.round # NoRound /\ ~aborted =>
                 attempt' = attempt /\ ValidReservation
  <2>1. TypeOK'
    BY <1>0, <1>2, <1>3 DEF TypeOK, goals, triggers
  <2>2. OnePiece' /\ UnstoredIsKnown'
    BY <1>0, <1>1, <1>3 DEF OnePiece, Idle, IInv, UnstoredIsKnown, Armed, goals, triggers
  <2>3. RoundsOK'
    BY <1>0, <1>1, <1>3, <2>1, FenceAnswers DEF goals
  <2> QED BY <2>1, <2>2, <2>3, Assembled
<1>4. CASE /\ UNCHANGED goals /\ DropRound
           /\ claimed.round # NoRound
           /\ decision' \in {"throw", "reject"} /\ nextStep' \in Nat
  <2>1. /\ attempt' = NoAttempt /\ RequestDrive(loops) /\ UNCHANGED <<needsCheckpoint, goal, armed, durable>>
    BY <1>4 DEF DropRound, goals
  <2>2. OnePiece' /\ loops' \in [Loops -> LoopStates] /\ requested' = TRUE
    BY <1>0, <2>1, OnePieceStarts
  <2>3. TypeOK'
    BY <1>0, <1>2, <1>4, <2>1, <2>2 DEF TypeOK, LoopStates
  <2>4. RoundsOK'
    BY <1>0, <1>1, <1>4, <2>1, <2>3, FenceAnswers
  <2>5. UnstoredIsKnown'
    <3>1. \A i \in Loops : loops[i] = "flush" => loops'[i] = "flush"
      BY <1>0, <2>1, DriveKeepsFlush
    <3> QED BY <1>1, <1>4, <2>1, <3>1 DEF IInv, UnstoredIsKnown, Armed
  <2> QED BY <2>2, <2>3, <2>4, <2>5, Assembled
<1>5. CASE InnerThrows
  BY <1>2, <1>3, <1>4, <1>5 DEF InnerThrows, goals, triggers
<1>6. CASE InnerRejects
  <2>1. CASE claimed.round # NoRound /\ ~aborted /\ Armed /\ goal.ver = claimed.round.ver
    BY <1>6, <2>1, RejectBlocks DEF InnerRejects
  <2>2. CASE ~(claimed.round # NoRound /\ ~aborted /\ Armed /\ goal.ver = claimed.round.ver)
    BY <1>2, <1>3, <1>6, <2>2 DEF InnerRejects
  <2> QED BY <2>1, <2>2
<1>7. CASE InnerEnters
  <2>1. PICK answer \in {"enter", "empty"} :
          LET restored == nextStep + IF answer = "enter" THEN claimed.others ELSE 0
          IN /\ IF claimed.round = NoRound \/ (~aborted /\ ValidReservation)
                THEN decision' = answer /\ UNCHANGED <<attempt, triggers, nextStep>>
                ELSE IF aborted
                THEN decision' = answer /\ nextStep' = restored /\ UNCHANGED <<attempt, triggers>>
                ELSE decision' = "reject" /\ nextStep' = restored /\ DropRound
             /\ UNCHANGED goals
    BY <1>7 DEF InnerEnters
  <2>2. nextStep + (IF answer = "enter" THEN claimed.others ELSE 0) \in Nat
    BY <1>2
  <2>3. CASE claimed.round = NoRound \/ (~aborted /\ ValidReservation)
    BY <1>2, <1>3, <2>1, <2>3
  <2>4. CASE ~(claimed.round = NoRound \/ (~aborted /\ ValidReservation)) /\ aborted
    BY <1>3, <2>1, <2>2, <2>4
  <2>5. CASE ~(claimed.round = NoRound \/ (~aborted /\ ValidReservation)) /\ ~aborted
    BY <1>4, <2>1, <2>2, <2>5
  <2> QED BY <2>3, <2>4, <2>5
<1> QED BY <1>0, <1>5, <1>6, <1>7

-----------------------------------------------------------------------------
(* The turn ends, or its step begins. *)

\* The end of a turn keeps the invariant: what it appends is known to the driver
\* by the round of the turn, and an abort leaves the goal armed only with a round
\* that is marked cancelled.
LEMMA EndTurnStep ==
    ASSUME IInv, Idle, pc \in {"pre", "outer", "step"},
           NEW kind \in {"aborted", "error", "blocked", "completed", "max-tokens"},
           NEW next \in {"exit", "start"},
           aborted => kind = "aborted" /\ next = "exit",
           nextStep' \in Nat, EndTurn(kind, next)
    PROVE  IInv'
<1>0. /\ TypeOK
      /\ UNCHANGED <<goal, competing, needsCheckpoint, requested, run, nextTurn, behind, halted>>
      /\ claimed' = NoBatch /\ decision' = "none" /\ turnRound' = NoRound /\ pc' = next
  BY DEF EndTurn, IInv, history
<1>1. /\ attempt' \in [ver : Nat, round : Nat, phase : {"none", "queued", "claimed", "admitted"},
                       cancelled : BOOLEAN, stale : BOOLEAN]
      /\ RoundOf(attempt)' = RoundOf(attempt)
      /\ attempt'.ver = attempt.ver /\ attempt'.round = attempt.round
      /\ attempt'.phase = attempt.phase
      /\ (attempt.stale => attempt'.stale) /\ (attempt.cancelled => attempt'.cancelled)
      /\ attempt.phase = "none" => attempt' = attempt
  <2>1. \/ attempt' = attempt
        \/ attempt.phase # "none" /\ attempt' = [attempt EXCEPT !.cancelled = TRUE]
    BY DEF EndTurn
  <2> QED BY <1>0, <2>1, Marked
<1>2. armed' \in BOOLEAN /\ (armed' => armed)
  BY <1>0 DEF EndTurn
<1>3. kind = "aborted" /\ armed' => attempt.phase \in {"claimed", "admitted"} /\ attempt'.cancelled
  BY <1>0 DEF EndTurn, TypeOK
<1>4. /\ aborted' \in BOOLEAN /\ wake' \in BOOLEAN
      /\ next = "start" => aborted' = FALSE
      /\ next = "exit" => aborted' = aborted
  BY <1>0 DEF EndTurn, TypeOK
<1>5. \/ durable' = durable /\ loops' = loops
      \/ turnRound # NoRound /\ durable' = FALSE /\ loops' = Overtaken(loops)
  BY DEF EndTurn
<1>6. /\ loops' \in [Loops -> LoopStates]
      /\ \A i \in Loops : loops'[i] \notin {"sync", "go"}
  <2>1. loops \in [Loops -> LoopStates] /\ \A i \in Loops : loops[i] \notin {"sync", "go"}
    BY <1>0 DEF TypeOK, LoopStates, Idle
  <2> QED BY <1>5, <2>1, OvertakenIsTyped
<1>7. TypeOK'
  <2>1. claimed' \in [round : Rounds, others : Nat] /\ turnRound' \in Rounds
    BY <1>0 DEF NoBatch, NoRound, Rounds
  <2>2. durable' \in BOOLEAN
    BY <1>0, <1>5 DEF TypeOK
  <2> QED BY <1>0, <1>1, <1>2, <1>4, <1>6, <2>1, <2>2 DEF TypeOK, LoopStates
<1>8. OnePiece'
  BY <1>6 DEF OnePiece
<1>9. UnstoredIsKnown'
  <2>1. CASE durable' = durable /\ loops' = loops
    BY <1>0, <1>1, <1>2, <2>1 DEF IInv, UnstoredIsKnown, Armed
  <2>2. CASE turnRound # NoRound
    BY <1>1, <2>2 DEF IInv, TurnIsTracked, UnstoredIsKnown
  <2> QED BY <1>5, <2>1, <2>2
<1>10. SignalIsOfActivity' /\ TurnIsTracked' /\ IdleIsSettled' /\ FenceStands'
       /\ (~OuterAwaits => RoundIsAdmissible')
  BY <1>0, <1>4 DEF IInv, SignalIsOfActivity, TurnIsTracked, IdleIsSettled, FenceStands,
                    RoundIsAdmissible
<1>11. Armed' => Armed
  BY <1>0, <1>2 DEF Armed
<1>12. NothingFromLater' /\ OnePlace'
  BY <1>0, <1>1, <1>11 DEF IInv, NothingFromLater, OnePlace, InPreStep
<1>13. BehindIsStale'
  BY <1>0, <1>1 DEF IInv, BehindIsStale, InPreStep
<1>14. HaltIsUnderWay'
  <2>1. ASSUME halted', Armed'
        PROVE  pc' = "exit" /\ attempt'.phase \in {"claimed", "admitted"} /\ attempt'.cancelled
    <3>1. aborted
      BY <1>0, <1>11, <2>1 DEF IInv, HaltIsUnderWay
    <3> QED BY <1>0, <1>1, <1>3, <2>1, <3>1 DEF Armed
  <2> QED BY <2>1 DEF HaltIsUnderWay
<1> QED BY <1>7, <1>8, <1>9, <1>10, <1>12, <1>13, <1>14, Assembled DEF RoundsOK

\* A listener of pre-step throws.
LEMMA PreFailsStep == ASSUME IInv, PreFails PROVE IInv'
<1>1. nextStep' \in Nat
  BY DEF PreFails, IInv, TypeOK
<1>2. CASE aborted
  BY <1>1, <1>2, EndTurnStep DEF PreFails
<1>3. CASE ~aborted
  BY <1>1, <1>3, EndTurnStep DEF PreFails
<1> QED BY <1>2, <1>3

\* The fence or a listener keeps the batch out.
LEMMA NotEnteredStep == ASSUME IInv, NotEntered PROVE IInv'
<1>0. /\ nextStep' \in Nat /\ Idle /\ pc = "outer"
      /\ decision \in {"none", "throw", "reject", "enter", "empty"}
  BY DEF NotEntered, IInv, TypeOK
<1>1. CASE aborted
  BY <1>0, <1>1, EndTurnStep DEF NotEntered
<1>2. CASE ~aborted
  <2>1. decision # "enter"
    BY <1>2 DEF NotEntered
  <2>2. CASE decision = "throw"
    BY <1>0, <1>2, <2>2, EndTurnStep DEF NotEntered
  <2>3. CASE decision = "reject"
    BY <1>0, <1>2, <2>3, EndTurnStep DEF NotEntered
  <2>4. CASE decision = "empty"
    BY <1>0, <1>2, <2>4, EndTurnStep DEF NotEntered
  <2>5. CASE decision = "none"
    BY <1>0, <2>5 DEF IInv, FenceStands
  <2> QED BY <1>0, <2>1, <2>2, <2>3, <2>4, <2>5
<1> QED BY <1>1, <1>2

\* The turn ends, and the driver consumes its round.
LEMMA TurnEndsStep == ASSUME IInv, TurnEnds PROVE IInv'
<1>0. nextStep \in Nat /\ Idle /\ pc = "step"
  BY DEF TurnEnds, IInv, TypeOK
<1>1. CASE aborted /\ EndTurn("aborted", "exit") /\ UNCHANGED nextStep
  BY <1>0, <1>1, EndTurnStep
<1>2. CASE ~aborted /\ EndTurn("error", "exit") /\ UNCHANGED nextStep
  BY <1>0, <1>2, EndTurnStep
<1>3. CASE ~aborted /\ nextStep > 0 /\ EndTurn("blocked", "exit") /\ nextStep' = 0
  BY <1>0, <1>3, EndTurnStep
<1>4. CASE /\ ~aborted /\ nextStep = 0
           /\ \E kind \in {"completed", "max-tokens"} :
                EndTurn(kind, IF nextTurn = <<>> THEN "exit" ELSE "start")
           /\ UNCHANGED nextStep
  <2>1. PICK kind \in {"completed", "max-tokens"}, next \in {"exit", "start"} : EndTurn(kind, next)
    BY <1>4
  <2> QED BY <1>0, <1>4, <2>1, EndTurnStep
<1> QED BY <1>1, <1>2, <1>3, <1>4 DEF TurnEnds

\* A round that enters is the reserved one, and the next of its goal if nobody
\* came between.
LEMMA AdmitStep ==
    ASSUME IInv, Admit
    PROVE  IInv'
<1>0. /\ TypeOK /\ Idle /\ pc = "outer" /\ ~aborted /\ decision = "enter"
      /\ turnRound' = claimed.round /\ claimed' = NoBatch /\ decision' = "none" /\ pc' = "step"
      /\ UNCHANGED <<armed, competing, needsCheckpoint, requested, run, aborted, wake, nextTurn,
                     nextStep, behind, halted>>
  BY DEF Admit, IInv, inbox, history
<1>1. claimed' \in [round : Rounds, others : Nat] /\ turnRound' \in Rounds
  BY <1>0 DEF TypeOK, NoBatch, NoRound, Rounds
<1>2. SignalIsOfActivity' /\ IdleIsSettled' /\ FenceStands'
  BY <1>0 DEF SignalIsOfActivity, IdleIsSettled, FenceStands
<1>3. CASE claimed.round = NoRound
  <2>1. UNCHANGED <<goal, attempt, durable, loops>>
    BY <1>3 DEF Admit
  <2>2. TypeOK'
    BY <1>0, <1>1, <2>1 DEF TypeOK
  <2>3. OnePiece' /\ UnstoredIsKnown'
    BY <1>0, <2>1 DEF OnePiece, Idle, IInv, UnstoredIsKnown, Armed
  <2>4. /\ TurnIsTracked' /\ (~OuterAwaits => RoundIsAdmissible') /\ NothingFromLater'
    BY <1>0, <1>3, <2>1 DEF IInv, TurnIsTracked, RoundIsAdmissible, NothingFromLater
  <2>5. OnePlace' /\ BehindIsStale' /\ HaltIsUnderWay'
    BY <1>0, <2>1 DEF IInv, OnePlace, BehindIsStale, HaltIsUnderWay, Armed, InPreStep, RoundOf
  <2> QED BY <1>2, <2>2, <2>3, <2>4, <2>5, Assembled DEF RoundsOK
<1>4. CASE claimed.round # NoRound
  <2>0. /\ claimed.round = RoundOf(attempt) /\ ~halted /\ attempt.phase = "claimed"
        /\ attempt' = [attempt EXCEPT !.phase = "admitted"]
        /\ durable' = FALSE /\ loops' = Overtaken(loops)
    BY <1>0, <1>4 DEF IInv, FenceStands, OnePlace, InPreStep, Admit
  <2>1. /\ attempt' \in [ver : Nat, round : Nat, phase : {"none", "queued", "claimed", "admitted"},
                         cancelled : BOOLEAN, stale : BOOLEAN]
        /\ attempt'.phase = "admitted" /\ RoundOf(attempt)' = RoundOf(attempt)
        /\ attempt'.ver = attempt.ver /\ attempt'.round = attempt.round
        /\ attempt'.stale = attempt.stale
    BY <1>0, <2>0 DEF TypeOK, RoundOf
  <2>2. /\ goal' \in [phase : {"none", "active", "paused", "blocked", "complete", "corrupt"},
                      ver : Nat, rounds : 0..MaxCap, cap : 1..MaxCap]
        /\ goal'.ver = goal.ver /\ goal'.cap = goal.cap
        /\ goal'.phase = "active" => goal.phase = "active"
        /\ ~OuterAwaits => goal'.phase = "active"
    <3> DEFINE next == /\ goal.phase = "active" /\ goal.ver = claimed.round.ver
                       /\ claimed.round.round = goal.rounds + 1
                       /\ claimed.round.round <= goal.cap
    <3>1. goal' = IF next THEN [goal EXCEPT !.rounds = @ + 1] ELSE [goal EXCEPT !.phase = "corrupt"]
      BY <1>4 DEF Admit
    <3>2. ~OuterAwaits => next
      BY <1>0, <1>4 DEF IInv, FenceStands
    <3>3. next => goal.rounds + 1 \in 0..MaxCap
      BY <1>0, GoalAssumption DEF TypeOK
    <3>4. next => goal.phase = "active"
      OBVIOUS
    <3> HIDE DEF next
    <3> QED BY <1>0, <3>1, <3>2, <3>3, <3>4 DEF TypeOK
  <2>3. loops' \in [Loops -> LoopStates] /\ \A i \in Loops : loops'[i] \notin {"sync", "go"}
    <3>1. loops \in [Loops -> LoopStates] /\ \A i \in Loops : loops[i] \notin {"sync", "go"}
      BY <1>0 DEF TypeOK, LoopStates, Idle
    <3> QED BY <2>0, <3>1, OvertakenIsTyped
  <2>4. TypeOK'
    BY <1>0, <1>1, <2>0, <2>1, <2>2, <2>3 DEF TypeOK, LoopStates
  <2>5. OnePiece' /\ UnstoredIsKnown' /\ TurnIsTracked' /\ (~OuterAwaits => RoundIsAdmissible')
    BY <1>0, <2>1, <2>2, <2>3 DEF OnePiece, UnstoredIsKnown, TurnIsTracked, RoundIsAdmissible
  <2>6. NothingFromLater' /\ HaltIsUnderWay'
    BY <1>0, <2>0, <2>1, <2>2 DEF IInv, NothingFromLater, HaltIsUnderWay
  <2>7. Armed' => Armed
    BY <1>0, <2>2 DEF Armed
  <2>8. OnePlace' /\ BehindIsStale'
    BY <1>0, <2>0, <2>1, <2>2, <2>7 DEF IInv, OnePlace, BehindIsStale, InPreStep
  <2> QED BY <1>2, <2>4, <2>5, <2>6, <2>8, Assembled DEF RoundsOK
<1> QED BY <1>3, <1>4

\* The turn goes on to a later step.
LEMMA LaterStepStep == ASSUME IInv, LaterStep PROVE IInv'
<1>1. /\ nextStep' = 0
      /\ UNCHANGED <<goal, armed, durable, attempt, competing, needsCheckpoint, requested, loops,
                     run, pc, aborted, wake, claimed, decision, turnRound, nextTurn, behind,
                     halted>>
  BY DEF LaterStep, goals, driver, triggers, activity, turn, history
<1>2. TypeOK'
  BY <1>1 DEF IInv, TypeOK
<1>3. OnePiece' /\ UnstoredIsKnown'
  BY <1>1 DEF IInv, OnePiece, UnstoredIsKnown, Armed
<1> QED BY <1>1, <1>2, <1>3, RoundsKept, Assembled

\* The agent goes idle: a goal whose round was cancelled or never entered is
\* paused, and any other reservation of an armed goal has entered.
LEMMA RetireStep ==
    ASSUME IInv, Retire
    PROVE  IInv'
<1>0. /\ TypeOK /\ Idle /\ pc = "exit" /\ pc' = "none" /\ aborted' = FALSE
      /\ competing' = FALSE
      /\ UNCHANGED <<claimed, decision, turnRound, nextTurn, nextStep, behind, halted>>
  BY DEF Retire, IInv, turn, inbox, history
<1> DEFINE stopped == (attempt.phase \in {"queued", "claimed"} \/ attempt.cancelled) /\ Armed
<1>1. loops \in [Loops -> LoopStates] /\ \A i \in Loops : loops[i] \notin {"sync", "go"}
  BY <1>0 DEF TypeOK, LoopStates, Idle
<1>2. wake' \in BOOLEAN
  BY DEF Retire
<1>3. turnRound' = NoRound
  BY <1>0 DEF IInv, TurnIsTracked
<1>4. CASE stopped
  <2>1. /\ attempt' = NoAttempt /\ DriverChanges("paused", Overtaken(loops)) /\ requested' = TRUE
        /\ run' = IF run # 0 THEN run ELSE FreeLoop(loops)
    BY <1>4 DEF Retire
  <2>2. /\ Overtaken(loops) \in [Loops -> LoopStates]
        /\ \A i \in Loops : Overtaken(loops)[i] \notin {"sync", "go"}
        /\ \A i \in Loops : Overtaken(loops)[i] = "off" => loops[i] = "off"
    BY <1>1, OvertakenIsTyped
  <2>3. loops' \in [Loops -> LoopStates] /\ \A i \in Loops : loops'[i] \notin {"sync", "go"}
    BY <1>0, <2>1, <2>2, DriverChangeLoops
  <2>4. run' \in Loops \cup {0}
    <3>1. CASE run # 0
      BY <1>0, <2>1, <3>1 DEF TypeOK
    <3>2. CASE run = 0
      <4>1. FreeLoop(Overtaken(loops)) \in Loops
        BY <2>1, <2>2, <3>2, FreeLoopIsOff DEF DriverChanges
      <4>2. WithinLoops(loops)
        BY <2>1, <2>2, <3>2 DEF DriverChanges, WithinLoops
      <4> QED BY <1>1, <2>1, <3>2, <4>2, FreeLoopIsOff
    <3> QED BY <3>1, <3>2
  <2>5. /\ goal' \in [phase : {"none", "active", "paused", "blocked", "complete", "corrupt"},
                      ver : Nat, rounds : 0..MaxCap, cap : 1..MaxCap]
        /\ goal'.ver = goal.ver + 1 /\ goal'.phase = "paused" /\ goal'.cap = goal.cap
        /\ armed' = FALSE /\ durable' = FALSE /\ needsCheckpoint' \in BOOLEAN
    BY <1>0, <2>1, DriverChangeGoal
  <2>6. /\ NoAttempt \in [ver : Nat, round : Nat, phase : {"none", "queued", "claimed", "admitted"},
                          cancelled : BOOLEAN, stale : BOOLEAN]
        /\ NoAttempt.ver = 0 /\ NoAttempt.round = 0 /\ NoAttempt.phase = "none"
        /\ RoundOf(attempt)' = NoRound
    BY <2>1 DEF NoAttempt, NoRound, RoundOf
  <2>7. TypeOK'
    BY <1>0, <1>2, <2>1, <2>3, <2>4, <2>5, <2>6 DEF TypeOK, LoopStates
  <2>8. OnePiece' /\ UnstoredIsKnown'
    BY <2>3, <2>5 DEF OnePiece, UnstoredIsKnown, Armed
  <2>9. NothingFromLater'
    <3>1. goal.ver \in Nat /\ goal.cap \in Nat /\ \A k \in DOMAIN nextTurn : nextTurn[k].ver \in Nat
      BY <1>0, QueueIsTyped DEF TypeOK
    <3> QED BY <1>0, <2>1, <2>5, <2>6, <3>1 DEF IInv, NothingFromLater
  <2>10. OnePlace' /\ IdleIsSettled' /\ BehindIsStale' /\ HaltIsUnderWay' /\ FenceStands'
    BY <1>0, <2>5, <2>6 DEF OnePlace, IdleIsSettled, BehindIsStale, HaltIsUnderWay, FenceStands,
                            Prompt, Armed, InPreStep
  <2>11. SignalIsOfActivity' /\ TurnIsTracked' /\ RoundIsAdmissible'
    BY <1>0, <1>3, <2>5 DEF SignalIsOfActivity, TurnIsTracked, RoundIsAdmissible
  <2> QED BY <2>7, <2>8, <2>9, <2>10, <2>11, Assembled DEF RoundsOK
<1>5. CASE ~stopped
  <2>1. RequestDrive(loops) /\ UNCHANGED <<goal, armed, durable, attempt, needsCheckpoint, run>>
    BY <1>5 DEF Retire, goals
  <2>2. OnePiece' /\ loops' \in [Loops -> LoopStates] /\ requested' = TRUE
    BY <1>0, <2>1, OnePieceStarts
  <2>3. TypeOK'
    <3>1. pc' = "none" /\ aborted' \in BOOLEAN /\ competing' \in BOOLEAN
      BY <1>0
    <3>2. UNCHANGED <<goal, armed, durable, attempt, needsCheckpoint, run, claimed, decision,
                      turnRound, nextTurn, nextStep, behind, halted>>
      BY <1>0, <2>1
    <3> QED BY <1>0, <1>2, <2>2, <3>1, <3>2 DEF TypeOK, LoopStates
  <2>4. UnstoredIsKnown'
    <3>1. \A i \in Loops : loops[i] = "flush" => loops'[i] = "flush"
      BY <1>0, <2>1, DriveKeepsFlush
    <3> QED BY <2>1, <3>1 DEF IInv, UnstoredIsKnown, Armed
  <2>5. /\ SignalIsOfActivity' /\ TurnIsTracked' /\ (~OuterAwaits => RoundIsAdmissible')
        /\ NothingFromLater' /\ FenceStands'
    BY <1>0, <1>3, <2>1 DEF IInv, SignalIsOfActivity, TurnIsTracked, RoundIsAdmissible,
                            NothingFromLater, FenceStands
  <2>6. OnePlace' /\ BehindIsStale'
    BY <1>0, <2>1 DEF IInv, OnePlace, BehindIsStale, InPreStep, Armed, RoundOf
  <2>7. IdleIsSettled' /\ HaltIsUnderWay'
    BY <1>0, <1>5, <2>1 DEF IInv, IdleIsSettled, HaltIsUnderWay, Armed
  <2> QED BY <2>2, <2>3, <2>4, <2>5, <2>6, <2>7, Assembled DEF RoundsOK
<1> QED BY <1>4, <1>5

-----------------------------------------------------------------------------
(* The scheduling loops. *)

\* The loop i has the floor: a synchronous piece of it runs, or can begin.
HasFloor(i) ==
    /\ loops[i] \in {"sync", "next", "go"}
    /\ \A j \in Loops \ {i} : loops[j] \notin {"sync", "go"}

\* A loop that goes to its next pass, or to a checkpoint, leaves the others alone.
LEMMA GoesEffect ==
    ASSUME TypeOK, NEW i \in Loops, NEW where \in LoopStates, Goes(i, where)
    PROVE  /\ loops' \in [Loops -> LoopStates] /\ run' \in Loops \cup {0}
           /\ loops'[i] = where /\ \A j \in Loops \ {i} : loops'[j] = loops[j]
BY DEF TypeOK, Goes, LoopStates

\* A loop that has the floor goes to its next pass or to a checkpoint.
LEMMA NextPass ==
    ASSUME IInv, NEW i \in Loops, HasFloor(i), NEW where \in {"next", "flush"}, Goes(i, where)
    PROVE  /\ OnePiece'
           /\ \A j \in Loops : loops[j] = "flush" => loops'[j] = "flush"
<1>1. /\ loops'[i] = where /\ \A j \in Loops \ {i} : loops'[j] = loops[j]
  BY GoesEffect DEF IInv, LoopStates
<1> QED BY <1>1 DEF HasFloor, OnePiece

\* A pass that finds the agent busy, and one that begins a checkpoint.
LEMMA YieldStep ==
    ASSUME IInv, NEW i \in Loops, HasFloor(i), Yield(i) \/ BeginCheckpoint(i)
    PROVE  IInv'
<1>1. PICK where \in {"next", "flush"} :
          /\ Goes(i, where) /\ requested' = FALSE
          /\ where = "next" => needsCheckpoint' = needsCheckpoint
          /\ where = "flush" => needsCheckpoint' = FALSE
  BY DEF Yield, BeginCheckpoint, unscheduled
<1>2. UNCHANGED <<goal, armed, durable, attempt, competing, pc, aborted, wake, claimed, decision,
                  turnRound, nextTurn, nextStep, behind, halted>>
  BY DEF Yield, BeginCheckpoint, unscheduled, goals, activity, turn, inbox, history
<1>3. /\ loops' \in [Loops -> LoopStates] /\ run' \in Loops \cup {0} /\ loops'[i] = where
  BY <1>1, GoesEffect DEF IInv, LoopStates
<1>4. OnePiece' /\ \A j \in Loops : loops[j] = "flush" => loops'[j] = "flush"
  BY <1>1, NextPass
<1>5. TypeOK'
  <2>1. needsCheckpoint' \in BOOLEAN /\ requested' \in BOOLEAN
    BY <1>1 DEF IInv, TypeOK
  <2> QED BY <1>2, <1>3, <2>1 DEF IInv, TypeOK, LoopStates
<1>6. UnstoredIsKnown'
  BY <1>1, <1>2, <1>3, <1>4 DEF IInv, UnstoredIsKnown, Armed
<1> QED BY <1>2, <1>4, <1>5, <1>6, RoundsKept, Assembled

\* The reservation of the activity that ended is dropped; an armed goal has none
\* of its rounds left in the inbox.
LEMMA ConsumeStep ==
    ASSUME IInv, NEW i \in Loops, HasFloor(i), pc = "none", ConsumeAttempt(i)
    PROVE  IInv'
<1>1. /\ attempt' = NoAttempt /\ needsCheckpoint' = TRUE /\ requested' = TRUE /\ Goes(i, "next")
      /\ UNCHANGED <<goal, armed, durable, competing, pc, aborted, wake, claimed, decision,
                     turnRound, nextTurn, nextStep, behind, halted>>
  BY DEF ConsumeAttempt, goals, activity, turn, inbox, history
<1>2. /\ loops' \in [Loops -> LoopStates] /\ run' \in Loops \cup {0}
  BY <1>1, GoesEffect DEF IInv, LoopStates
<1>3. OnePiece'
  BY <1>1, NextPass
<1>4. /\ NoAttempt \in [ver : Nat, round : Nat, phase : {"none", "queued", "claimed", "admitted"},
                        cancelled : BOOLEAN, stale : BOOLEAN]
      /\ NoAttempt.ver = 0 /\ NoAttempt.round = 0 /\ NoAttempt.phase = "none"
      /\ RoundOf(attempt)' = NoRound
  BY <1>1 DEF NoAttempt, NoRound, RoundOf
<1>5. TypeOK'
  BY <1>1, <1>2, <1>4 DEF IInv, TypeOK, LoopStates
<1>6. UnstoredIsKnown'
  BY <1>1 DEF UnstoredIsKnown
<1>7. NothingFromLater'
  <2>1. goal.ver \in Nat /\ goal.cap \in Nat
    BY DEF IInv, TypeOK
  <2> QED BY <1>1, <1>4, <2>1 DEF IInv, NothingFromLater
<1>8. OnePlace'
  <2>1. ASSUME Armed, NEW k \in DOMAIN nextTurn, nextTurn[k] # Prompt, nextTurn[k].ver = goal.ver
        PROVE  FALSE
    <3>1. attempt.phase = "queued" /\ nextTurn[k] = RoundOf(attempt)
      BY <2>1 DEF IInv, OnePlace
    <3>2. attempt.ver = goal.ver
      BY <2>1, <3>1 DEF RoundOf
    <3> QED BY <2>1, <3>1, <3>2 DEF IInv, IdleIsSettled
  <2> QED BY <1>1, <1>4, <2>1 DEF OnePlace, Armed, Prompt, InPreStep
<1>9. IdleIsSettled' /\ BehindIsStale' /\ FenceStands'
  BY <1>1, <1>4 DEF IdleIsSettled, BehindIsStale, FenceStands, Prompt, InPreStep
<1>10. /\ HaltIsUnderWay' /\ SignalIsOfActivity' /\ TurnIsTracked'
       /\ (~OuterAwaits => RoundIsAdmissible')
  BY <1>1 DEF IInv, HaltIsUnderWay, SignalIsOfActivity, TurnIsTracked, RoundIsAdmissible, Armed
<1> QED BY <1>3, <1>5, <1>6, <1>7, <1>8, <1>9, <1>10, Assembled DEF RoundsOK

\* A pass that finds the goal not armed.
LEMMA RestStep ==
    ASSUME IInv, NEW i \in Loops, HasFloor(i), Rest(i)
    PROVE  IInv'
<1>1. /\ Goes(i, "next") /\ ~Armed /\ requested' \in BOOLEAN
      /\ UNCHANGED <<goal, armed, durable, attempt, competing, needsCheckpoint, pc, aborted, wake,
                     claimed, decision, turnRound, nextTurn, nextStep, behind, halted>>
  BY DEF Rest, Cleared, unscheduled, goals, activity, turn, inbox, history
<1>2. /\ loops' \in [Loops -> LoopStates] /\ run' \in Loops \cup {0}
  BY <1>1, GoesEffect DEF IInv, LoopStates
<1>3. OnePiece'
  BY <1>1, NextPass
<1>4. TypeOK'
  BY <1>1, <1>2 DEF IInv, TypeOK, LoopStates
<1>5. UnstoredIsKnown'
  BY <1>1 DEF UnstoredIsKnown, Armed
<1> QED BY <1>1, <1>3, <1>4, <1>5, RoundsKept, Assembled

\* The rounds are used up: the goal is blocked, which starts another loop if
\* state.run holds none yet.
LEMMA BlockStep ==
    ASSUME IInv, NEW i \in Loops, HasFloor(i), pc = "none", BlockAtLimit(i)
    PROVE  IInv'
<1> DEFINE left == [Overtaken(loops) EXCEPT ![i] = "next"]
<1>1. /\ TypeOK /\ DriverChanges("blocked", left) /\ requested' \in BOOLEAN
      /\ run' = IF loops[i] = "sync" THEN i ELSE IF run # 0 THEN run ELSE FreeLoop(left)
      /\ UNCHANGED <<attempt, competing, pc, aborted, wake, claimed, decision, turnRound,
                     nextTurn, nextStep, behind, halted>>
  BY DEF BlockAtLimit, IInv, activity, turn, inbox, history
<1>2. left \in [Loops -> LoopStates] /\ \A j \in Loops : left[j] \notin {"sync", "go"}
  <2>1. loops \in [Loops -> LoopStates]
    BY <1>1 DEF TypeOK, LoopStates
  <2>2. /\ Overtaken(loops) \in [Loops -> LoopStates]
        /\ \A j \in Loops : Overtaken(loops)[j] = IF loops[j] = "flush" THEN "overtaken" ELSE loops[j]
    BY <2>1, OvertakenIsTyped
  <2>3. \A j \in Loops : left[j] = IF j = i THEN "next" ELSE Overtaken(loops)[j]
    BY <2>2
  <2> QED BY <2>2, <2>3 DEF HasFloor, LoopStates
<1> HIDE DEF left
<1>3. loops' \in [Loops -> LoopStates] /\ \A j \in Loops : loops'[j] \notin {"sync", "go"}
  BY <1>1, <1>2, DriverChangeLoops
<1>4. run' \in Loops \cup {0}
  <2>1. run = 0 => FreeLoop(left) \in Loops
    BY <1>1, <1>2, FreeLoopIsOff DEF DriverChanges
  <2> QED BY <1>1, <2>1 DEF TypeOK
<1>5. /\ goal' \in [phase : {"none", "active", "paused", "blocked", "complete", "corrupt"},
                    ver : Nat, rounds : 0..MaxCap, cap : 1..MaxCap]
      /\ goal'.ver = goal.ver + 1 /\ goal'.phase = "blocked" /\ goal'.cap = goal.cap
      /\ armed' = FALSE /\ durable' = FALSE /\ needsCheckpoint' \in BOOLEAN
  BY <1>1, DriverChangeGoal
<1>6. TypeOK'
  <2>1. /\ armed' \in BOOLEAN /\ durable' \in BOOLEAN /\ needsCheckpoint' \in BOOLEAN
        /\ requested' \in BOOLEAN
    BY <1>1, <1>5
  <2>2. UNCHANGED <<attempt, competing, pc, aborted, wake, claimed, decision, turnRound,
                    nextTurn, nextStep, behind, halted>>
    BY <1>1
  <2>3. goal' \in [phase : {"none", "active", "paused", "blocked", "complete", "corrupt"},
                   ver : Nat, rounds : 0..MaxCap, cap : 1..MaxCap]
    BY <1>5
  <2> QED BY <1>3, <1>4, <2>1, <2>2, <2>3 DEF IInv, TypeOK, LoopStates
<1>7. OnePiece' /\ UnstoredIsKnown'
  BY <1>3, <1>5 DEF OnePiece, UnstoredIsKnown, Armed
<1>8. RoundsOK'
  <2>1. ~Armed'
    BY <1>5 DEF Armed
  <2>2. halted' => halted /\ (Armed' => Armed)
    BY <1>1, <2>1
  <2> QED BY <1>1, <1>5, <1>6, <2>2, RoundsOutdated
<1> QED BY <1>6, <1>7, <1>8, Assembled

\* The next round is reserved: it is the only one of its goal in the inbox.
LEMMA ReserveStep ==
    ASSUME IInv, NEW i \in Loops, HasFloor(i), pc = "none", ~needsCheckpoint, Reserve(i)
    PROVE  IInv'
<1> DEFINE r == [ver |-> goal.ver, round |-> goal.rounds + 1]
<1>1. /\ TypeOK /\ attempt = NoAttempt /\ Armed /\ goal.rounds < goal.cap
      /\ attempt' = [ver |-> goal.ver, round |-> goal.rounds + 1, phase |-> "queued",
                     cancelled |-> FALSE, stale |-> FALSE]
      /\ nextTurn' = Append(nextTurn, r)
      /\ pc' = "start" /\ wake' = FALSE /\ Goes(i, "next")
      /\ UNCHANGED <<goal, armed, durable, competing, needsCheckpoint, aborted, claimed, decision,
                     turnRound, nextStep, behind, halted>>
  BY DEF Reserve, IInv, goals, turn, history
<1>2. requested' \in BOOLEAN
  BY DEF Reserve, Cleared
<1>3. /\ goal.ver \in Nat /\ goal.rounds + 1 \in Nat /\ goal.rounds + 1 # 0 /\ goal.cap \in Nat
      /\ goal.rounds + 1 <= goal.cap
  BY <1>1 DEF TypeOK
<1>4. /\ r \in Rounds /\ r # Prompt /\ r.ver = goal.ver
      /\ RoundOf(attempt)' = r /\ attempt'.phase = "queued" /\ attempt # attempt'
      /\ attempt'.ver = goal.ver /\ attempt'.round = goal.rounds + 1
  BY <1>1, <1>3 DEF Rounds, Prompt, NoRound, RoundOf, NoAttempt
<1> HIDE DEF r
<1>5. /\ nextTurn' \in Seq(Rounds) /\ Len(nextTurn) \in Nat
      /\ DOMAIN nextTurn = 1..Len(nextTurn)
      /\ DOMAIN nextTurn' = DOMAIN nextTurn \cup {Len(nextTurn) + 1}
      /\ \A k \in DOMAIN nextTurn : nextTurn'[k] = nextTurn[k] /\ k < Len(nextTurn) + 1
      /\ nextTurn'[Len(nextTurn) + 1] = r
  BY <1>1, <1>4, QueueGrows
<1>6. \A k \in DOMAIN nextTurn : nextTurn[k] = Prompt \/ nextTurn[k].ver # goal.ver
  BY <1>1 DEF IInv, OnePlace, NoAttempt
<1>7. \A k \in DOMAIN nextTurn' :
         nextTurn'[k] # Prompt /\ nextTurn'[k].ver = goal.ver => k = Len(nextTurn) + 1
  BY <1>5, <1>6
<1>8. /\ loops' \in [Loops -> LoopStates] /\ run' \in Loops \cup {0}
  BY <1>1, GoesEffect DEF LoopStates
<1>9. OnePiece' /\ \A j \in Loops : loops[j] = "flush" => loops'[j] = "flush"
  BY <1>1, NextPass
<1>10. TypeOK'
  <2>1. attempt' \in [ver : Nat, round : Nat, phase : {"none", "queued", "claimed", "admitted"},
                      cancelled : BOOLEAN, stale : BOOLEAN]
    BY <1>1, <1>3
  <2>2. loops' \in [Loops -> {"off", "sync", "next", "flush", "overtaken", "go"}]
    BY <1>8 DEF LoopStates
  <2>3. /\ goal' \in [phase : {"none", "active", "paused", "blocked", "complete", "corrupt"},
                      ver : Nat, rounds : 0..MaxCap, cap : 1..MaxCap]
        /\ claimed' \in [round : Rounds, others : Nat] /\ turnRound' \in Rounds
        /\ decision' \in {"none", "throw", "reject", "enter", "empty"}
        /\ nextStep' \in Nat
    BY <1>1 DEF TypeOK
  <2>4. /\ armed' \in BOOLEAN /\ durable' \in BOOLEAN /\ competing' \in BOOLEAN
        /\ needsCheckpoint' \in BOOLEAN /\ aborted' \in BOOLEAN
        /\ behind' \in BOOLEAN /\ halted' \in BOOLEAN
    BY <1>1 DEF TypeOK
  <2>5. /\ pc' \in {"none", "start", "pre", "inner", "outer", "step", "exit"}
        /\ wake' \in BOOLEAN
    BY <1>1
  <2> QED BY <1>2, <1>5, <1>8, <2>1, <2>2, <2>3, <2>4, <2>5, Zenon DEF TypeOK
<1>11. UnstoredIsKnown'
  BY <1>1, <1>9 DEF IInv, UnstoredIsKnown, NoAttempt, Armed
<1>12. NothingFromLater'
  <2>1. \A k \in DOMAIN nextTurn : nextTurn[k].ver <= goal.ver
    BY DEF IInv, NothingFromLater
  <2>2. \A k \in DOMAIN nextTurn' : nextTurn'[k].ver <= goal.ver
    BY <1>3, <1>4, <1>5, <2>1
  <2> QED BY <1>1, <1>3, <1>4, <2>2 DEF NothingFromLater
<1>13. OnePlace'
  <2>1. ASSUME NEW k \in DOMAIN nextTurn', nextTurn'[k] # Prompt, nextTurn'[k] = r
        PROVE  \A m \in DOMAIN nextTurn' : nextTurn'[m] = nextTurn'[k] => m = k
    BY <1>4, <1>7, <2>1
  <2>2. ASSUME NEW k \in DOMAIN nextTurn', nextTurn'[k] # Prompt, nextTurn'[k].ver = goal.ver
        PROVE  nextTurn'[k] = r
    BY <1>5, <1>7, <2>2
  <2> QED BY <1>1, <1>4, <2>1, <2>2 DEF OnePlace, InPreStep
<1>14. BehindIsStale'
  <2>1. ASSUME NEW k \in DOMAIN nextTurn', NEW m \in DOMAIN nextTurn',
               k < m, nextTurn'[k] # Prompt, nextTurn'[k] = r
        PROVE  FALSE
    <3>1. k = Len(nextTurn) + 1
      BY <1>4, <1>7, <2>1
    <3> QED BY <1>5, <2>1, <3>1
  <2> QED BY <1>1, <1>4, <2>1 DEF BehindIsStale, InPreStep
<1>15. /\ IdleIsSettled' /\ FenceStands' /\ HaltIsUnderWay' /\ SignalIsOfActivity'
       /\ TurnIsTracked' /\ (~OuterAwaits => RoundIsAdmissible')
  BY <1>1 DEF IInv, IdleIsSettled, FenceStands, HaltIsUnderWay, SignalIsOfActivity, TurnIsTracked,
              RoundIsAdmissible, Armed
<1> QED BY <1>9, <1>10, <1>11, <1>12, <1>13, <1>14, <1>15, Assembled DEF RoundsOK

\* A pass of drive that stands behind its checkpoint.
LEMMA AfterCheckpointStep ==
    ASSUME IInv, NEW i \in Loops, HasFloor(i), pc = "none", ~needsCheckpoint, AfterCheckpoint(i)
    PROVE  IInv'
BY ConsumeStep, RestStep, BlockStep, ReserveStep DEF AfterCheckpoint

\* The loop that a step of drive belongs to has the floor.
LEMMA FloorIsTaken ==
    ASSUME IInv, NEW i \in Loops, loops[i] \in {"sync", "go"} \/ (loops[i] = "next" /\ Idle)
    PROVE  HasFloor(i)
BY DEF IInv, OnePiece, Idle, HasFloor

\* A pass of drive from its beginning.
LEMMA DriveStep == ASSUME IInv, NEW i \in Loops, Drive(i) PROVE IInv'
<1>1. HasFloor(i)
  BY FloorIsTaken DEF Drive
<1>2. \/ Yield(i) \/ BeginCheckpoint(i)
      \/ pc = "none" /\ ~needsCheckpoint /\ AfterCheckpoint(i)
  BY DEF Drive, Ready
<1> QED BY <1>1, <1>2, YieldStep, AfterCheckpointStep

\* A loop continues behind its checkpoint.
LEMMA GoesOnStep == ASSUME IInv, NEW i \in Loops, GoesOn(i) PROVE IInv'
<1>1. HasFloor(i)
  BY FloorIsTaken DEF GoesOn
<1>2. pc = "none" /\ ~needsCheckpoint /\ AfterCheckpoint(i)
  BY DEF GoesOn, IInv, OnePiece
<1> QED BY <1>1, <1>2, AfterCheckpointStep

\* A loop ends; what state.run holds is of no matter to the invariant.
LEMMA RetireLoopStep == ASSUME IInv, NEW i \in Loops, RetireLoop(i) PROVE IInv'
<1>1. /\ TypeOK /\ Idle /\ loops' = [loops EXCEPT ![i] = "off"] /\ run' = 0 /\ loops[i] = "next"
      /\ UNCHANGED <<goal, armed, durable, attempt, competing, needsCheckpoint, requested, pc,
                     aborted, wake, claimed, decision, turnRound, nextTurn, nextStep, behind,
                     halted>>
  BY DEF RetireLoop, IInv, unscheduled, goals, activity, turn, inbox, history
<1>2. /\ loops' \in [Loops -> LoopStates]
      /\ \A j \in Loops : loops'[j] = IF j = i THEN "off" ELSE loops[j]
  BY <1>1 DEF TypeOK, LoopStates
<1>3. TypeOK'
  BY <1>1, <1>2 DEF TypeOK, LoopStates
<1>4. OnePiece'
  BY <1>1, <1>2 DEF OnePiece, Idle
<1>5. UnstoredIsKnown'
  BY <1>1, <1>2 DEF IInv, UnstoredIsKnown, Armed
<1> QED BY <1>1, <1>3, <1>4, <1>5, RoundsKept, Assembled

\* A checkpoint settles.
LEMMA CheckpointedStep == ASSUME IInv, NEW i \in Loops, Checkpointed(i) PROVE IInv'
<1>1. /\ TypeOK /\ Idle /\ loops[i] \in {"flush", "overtaken"}
      /\ UNCHANGED <<goal, armed, attempt, competing, needsCheckpoint, requested, pc, aborted, wake,
                     claimed, decision, turnRound, nextTurn, nextStep, behind, halted>>
  BY DEF Checkpointed, Flushing, Between, IInv, activity, turn, inbox, history
<1>2. PICK where \in {"go", "next"} :
          /\ Goes(i, where)
          /\ where = "go" => pc = "none" /\ ~wake /\ ~needsCheckpoint
  BY <1>1 DEF Checkpointed, Ready, Idle
<1>3. /\ loops' \in [Loops -> LoopStates] /\ run' \in Loops \cup {0}
      /\ loops'[i] = where /\ \A j \in Loops \ {i} : loops'[j] = loops[j]
  BY <1>1, <1>2, GoesEffect DEF LoopStates
<1>4. /\ durable' \in BOOLEAN
      /\ ~durable' => ~durable /\ loops[i] = "overtaken"
  BY <1>1 DEF Checkpointed
<1>5. TypeOK'
  <2>1. durable' \in BOOLEAN
    BY <1>4
  <2> QED BY <1>1, <1>3, <2>1 DEF TypeOK, LoopStates
<1>6. OnePiece'
  BY <1>1, <1>2, <1>3 DEF OnePiece, Idle
<1>7. UnstoredIsKnown'
  BY <1>1, <1>3, <1>4 DEF IInv, UnstoredIsKnown, Armed
<1> QED BY <1>1, <1>5, <1>6, <1>7, RoundsKept, Assembled

\* A checkpoint of drive is rejected.
LEMMA CheckpointFailsStep == ASSUME IInv, NEW i \in Loops, CheckpointFails(i) PROVE IInv'
<1>1. /\ TypeOK /\ Idle /\ armed' = FALSE /\ Goes(i, "next")
      /\ UNCHANGED <<goal, durable, attempt, competing, needsCheckpoint, requested, pc, aborted,
                     wake, claimed, decision, turnRound, nextTurn, nextStep, behind, halted>>
  BY DEF CheckpointFails, Flushing, Between, IInv, activity, turn, inbox, history
<1>2. /\ loops' \in [Loops -> LoopStates] /\ run' \in Loops \cup {0}
      /\ loops'[i] = "next" /\ \A j \in Loops \ {i} : loops'[j] = loops[j]
  BY <1>1, GoesEffect DEF LoopStates
<1>3. TypeOK'
  <2>1. armed' \in BOOLEAN
    BY <1>1
  <2>2. UNCHANGED <<goal, durable, attempt, competing, needsCheckpoint, requested, pc, aborted,
                    wake, claimed, decision, turnRound, nextTurn, nextStep, behind, halted>>
    BY <1>1
  <2> QED BY <1>2, <2>1, <2>2 DEF IInv, TypeOK, LoopStates
<1>4. OnePiece' /\ UnstoredIsKnown'
  BY <1>1, <1>2 DEF OnePiece, Idle, UnstoredIsKnown, Armed
<1> QED BY <1>1, <1>3, <1>4, RoundsKept, Assembled

-----------------------------------------------------------------------------
(* The invariant. *)

\* The invariant holds at the start.
LEMMA Initially == ASSUME Init PROVE IInv
<1>1. TypeOK
  <2>1. /\ goal \in [phase : {"none", "active", "paused", "blocked", "complete", "corrupt"},
                     ver : Nat, rounds : 0..MaxCap, cap : 1..MaxCap]
    BY GoalAssumption DEF Init
  <2>2. /\ attempt \in [ver : Nat, round : Nat, phase : {"none", "queued", "claimed", "admitted"},
                        cancelled : BOOLEAN, stale : BOOLEAN]
        /\ claimed \in [round : Rounds, others : Nat] /\ turnRound \in Rounds
        /\ nextTurn \in Seq(Rounds)
    BY DEF Init, NoAttempt, NoBatch, NoRound, Rounds
  <2> QED BY <2>1, <2>2 DEF Init, TypeOK
<1>2. OnePiece /\ UnstoredIsKnown /\ SignalIsOfActivity
  BY DEF Init, OnePiece, UnstoredIsKnown, SignalIsOfActivity
<1>3. NothingFromLater /\ OnePlace /\ IdleIsSettled /\ BehindIsStale
  BY DEF Init, NothingFromLater, OnePlace, IdleIsSettled, BehindIsStale, NoAttempt, Armed, InPreStep
<1>4. HaltIsUnderWay /\ FenceStands /\ TurnIsTracked /\ RoundIsAdmissible
  BY DEF Init, HaltIsUnderWay, FenceStands, TurnIsTracked, RoundIsAdmissible
<1> QED BY <1>1, <1>2, <1>3, <1>4 DEF IInv

\* Nothing changes.
LEMMA StutterStep == ASSUME IInv, UNCHANGED vars PROVE IInv'
<1>1. UNCHANGED <<goal, armed, durable, attempt, competing, needsCheckpoint, requested, loops, run,
                  pc, aborted, wake, claimed, decision, turnRound, nextTurn, nextStep, behind,
                  halted>>
  BY DEF vars, goals, driver, triggers, activity, turn, inbox, history
<1>2. TypeOK'
  BY <1>1 DEF IInv, TypeOK
<1>3. OnePiece' /\ UnstoredIsKnown'
  BY <1>1 DEF IInv, OnePiece, UnstoredIsKnown, Armed
<1> QED BY <1>1, <1>2, <1>3, RoundsKept, Assembled

\* Every step keeps the invariant.
LEMMA StepKeepsInvariant == ASSUME IInv, [Next]_vars PROVE IInv'
<1>1. CASE PersonChangesGoal \/ ModelSettlesGoal
  BY <1>1, PersonStep, ModelStep
<1>2. CASE SendPrompt \/ Steer \/ UserCancel
  BY <1>2, SendPromptStep, SteerStep, UserCancelStep
<1>3. CASE AgentStep
  BY <1>3, ReplayWakeStep, StartTurnStep, FenceStep, InnerStep, PreFailsStep, NotEnteredStep,
     AdmitStep, LaterStepStep, TurnEndsStep, RetireStep DEF AgentStep
<1>4. ASSUME NEW i \in Loops, LoopStep(i) PROVE IInv'
  BY <1>4, DriveStep, GoesOnStep, RetireLoopStep, CheckpointedStep, CheckpointFailsStep
     DEF LoopStep
<1>5. CASE UNCHANGED vars
  BY <1>5, StutterStep
<1> QED BY <1>1, <1>2, <1>3, <1>4, <1>5 DEF Next

\* The invariant holds throughout.
LEMMA Invariance == Spec => []IInv
BY Initially, StepKeepsInvariant, PTL DEF Spec

\* The variables of the goal, of its driver and of the agent keep their types, and
\* no more rounds enter than the goal's cap allows.
THEOREM GoalIsTyped == Spec => []TypeOK
<1>1. IInv => TypeOK
  BY DEF IInv
<1> QED BY <1>1, Invariance, PTL

\* If no listener outside the driver's own awaits between the fence's second look
\* and the step, the log never holds a round that the fold of the goal refuses.
THEOREM RoundsAreAdmissible == ~OuterAwaits => (Spec => []RoundIsAdmissible)
<1> SUFFICES ASSUME ~OuterAwaits PROVE Spec => []RoundIsAdmissible
  OBVIOUS
<1>1. IInv => RoundIsAdmissible
  BY DEF IInv
<1> QED BY <1>1, Invariance, PTL

-----------------------------------------------------------------------------
(* What no step does. *)

\* A reservation is made by Reserve alone, with the agent idle.
LEMMA ReserveReserves ==
    ASSUME IInv, [Next]_vars, Reserves
    PROVE  /\ pc = "none" /\ Armed /\ ~needsCheckpoint
           /\ \E i \in Loops : HasFloor(i)
<1>1. attempt = NoAttempt /\ attempt'.phase = "queued" /\ attempt.phase = "none"
  BY DEF Reserves, NoAttempt
<1>2. attempt' # attempt /\ attempt' # NoAttempt
  BY <1>1
<1>3. attempt' # [attempt EXCEPT !.phase = "claimed"] /\ attempt' # [attempt EXCEPT !.cancelled = TRUE]
  BY <1>1 DEF NoAttempt
<1>4. ~(PersonChangesGoal \/ ModelSettlesGoal \/ SendPrompt \/ Steer \/ UNCHANGED vars)
  BY <1>1, <1>2 DEF PersonChangesGoal, ModelSettlesGoal, SendPrompt, Steer, vars, driver
<1>5. ~UserCancel
  BY <1>2, <1>3 DEF UserCancel
<1>6. ~(ReplayWake \/ StartTurn \/ Fence \/ LaterStep)
  BY <1>1, <1>2, <1>3 DEF ReplayWake, StartTurn, Fence, LaterStep, driver
<1>7. ~(Inner \/ Retire)
  BY <1>2 DEF Inner, InnerThrows, InnerRejects, InnerEnters, DropRound, Retire
<1>8. ~(PreFails \/ NotEntered \/ TurnEnds)
  BY <1>2, <1>3 DEF PreFails, NotEntered, TurnEnds, EndTurn
<1>9. ~Admit
  <2>1. attempt' = [attempt EXCEPT !.phase = "admitted"] => attempt'.phase = "admitted"
    BY <1>1 DEF NoAttempt
  <2> QED BY <1>1, <1>2, <2>1 DEF Admit
<1>10. PICK i \in Loops : LoopStep(i)
  BY <1>4, <1>5, <1>6, <1>7, <1>8, <1>9 DEF Next, AgentStep
<1>11. ~(RetireLoop(i) \/ Checkpointed(i) \/ CheckpointFails(i))
  BY <1>2 DEF RetireLoop, Checkpointed, CheckpointFails
<1>12. ~(Yield(i) \/ BeginCheckpoint(i) \/ ConsumeAttempt(i) \/ Rest(i) \/ BlockAtLimit(i))
  BY <1>2 DEF Yield, BeginCheckpoint, ConsumeAttempt, Rest, BlockAtLimit
<1>13. Reserve(i) /\ (Drive(i) \/ GoesOn(i))
  BY <1>10, <1>11, <1>12 DEF LoopStep, Drive, GoesOn, AfterCheckpoint
<1>14. pc = "none" /\ ~needsCheckpoint
  BY <1>12, <1>13 DEF Drive, GoesOn, Ready, IInv, OnePiece
<1>15. HasFloor(i)
  BY <1>13, FloorIsTaken DEF Drive, GoesOn
<1> QED BY <1>13, <1>14, <1>15 DEF Reserve

\* A round enters by Admit alone, with the fence's consent.
LEMMA AdmitAdmits ==
    ASSUME [Next]_vars, Admits
    PROVE  ~aborted /\ decision = "enter"
<1>1. pc = "outer" /\ pc' = "step"
  BY DEF Admits
<1>2. ~(PersonChangesGoal \/ ModelSettlesGoal \/ SendPrompt \/ Steer \/ UserCancel \/ UNCHANGED vars)
  BY <1>1 DEF PersonChangesGoal, ModelSettlesGoal, SendPrompt, Steer, UserCancel, vars, activity,
              Running
<1>3. ~(ReplayWake \/ StartTurn \/ Fence \/ Inner \/ PreFails \/ LaterStep \/ TurnEnds \/ Retire)
  BY <1>1 DEF ReplayWake, StartTurn, Fence, Inner, PreFails, LaterStep, TurnEnds, Retire
<1>4. ~NotEntered
  BY <1>1 DEF NotEntered, EndTurn
<1>5. ASSUME NEW i \in Loops PROVE ~LoopStep(i)
  BY <1>1 DEF LoopStep, Drive, GoesOn, AfterCheckpoint, Yield, BeginCheckpoint, ConsumeAttempt,
              Rest, BlockAtLimit, Reserve, RetireLoop, Checkpointed, CheckpointFails, unscheduled,
              activity
<1> QED BY <1>2, <1>3, <1>4, <1>5 DEF Next, AgentStep, Admit

\* A round is neither reserved nor admitted against a person who has cancelled, or
\* who has a message waiting behind it; whether or not listeners await.
THEOREM ThePersonComesFirst == Spec => PersonComesFirst
<1>1. ASSUME IInv, [Next]_vars
      PROVE  [/\ (Reserves \/ Admits) => ~halted
              /\ Admits => ~behind]_vars
  <2>1. Reserves => ~halted
    BY <1>1, ReserveReserves DEF IInv, HaltIsUnderWay
  <2>2. Admits => ~halted /\ ~behind
    BY <1>1, AdmitAdmits DEF IInv, FenceStands, Admits
  <2> QED BY <2>1, <2>2
<1> QED BY <1>1, Invariance, PTL DEF Spec, PersonComesFirst

\* With one loop driving, a round is reserved only when all that was appended to
\* the log is stored; whether or not listeners await.
THEOREM RoundsFollowCheckpoints == Spec => CheckpointBeforeRound
<1> DEFINE Running1 == {i \in Loops : loops[i] # "off"}
<1>1. ASSUME IInv, [Next]_vars, Reserves, Cardinality(Running1) = 1
      PROVE  durable
  <2>1. PICK i \in Loops : HasFloor(i)
    BY <1>1, ReserveReserves
  <2>2. Armed /\ ~needsCheckpoint /\ attempt = NoAttempt /\ attempt.phase = "none"
    BY <1>1, ReserveReserves DEF Reserves, NoAttempt
  <2>3. ASSUME ~durable PROVE FALSE
    <3>1. PICK j \in Loops : loops[j] = "flush"
      BY <1>1, <2>2, <2>3 DEF IInv, UnstoredIsKnown
    <3>2. i \in Running1 /\ j \in Running1 /\ i # j
      BY <2>1, <3>1 DEF HasFloor
    <3>3. Loops \in SUBSET Nat /\ IsFiniteSet(Loops)
      BY GoalAssumption, FS_Interval DEF Loops
    <3>4. IsFiniteSet(Running1)
      BY <3>3, FS_Subset
    <3>5. PICK x : Running1 = {x}
      BY <1>1, <3>4, FS_Singleton
    <3> QED BY <3>2, <3>5
  <2> QED BY <2>3
<1>2. ASSUME IInv, [Next]_vars
      PROVE  [Reserves /\ Cardinality({i \in Loops : loops[i] # "off"}) = 1 => durable]_vars
  BY <1>1, <1>2
<1> QED BY <1>2, Invariance, PTL DEF Spec, CheckpointBeforeRound
=============================================================================
