------------------------------ MODULE Notices ------------------------------
(***************************************************************************)
(* The registry of background jobs composed with the delivery of its       *)
(* completion notices (tool-jobs) and as much of an owner's agent loop as  *)
(* that sees: whether it is idle, what waits in its inbox, the claims of   *)
(* its steps, and how a turn ends.  An owner is busy until its driver has  *)
(* retired, which is later than the last look at the inbox (ending).       *)
(*                                                                         *)
(* A settlement and the delivery of its notice are one synchronous piece.  *)
(* A busy owner is injected; an idle one is woken, as long as notices have *)
(* not opened more turns than the budget since it took in a person's       *)
(* message.                                                                *)
(***************************************************************************)
EXTENDS JobRegistry

CONSTANTS
    Budget,         \* maxConsecutiveWakes
    Wakes,          \* completionDelivery = 'wakeup'
    MaxPrompts,     \* bound: the messages of a person to each owner
    LateNotices     \* whether a notice may come after a completed turn's last
                    \* look at the inbox and before its driver has retired

ASSUME NoticesAssumption ==
    /\ Budget \in Nat /\ Wakes \in BOOLEAN /\ MaxPrompts \in Nat
    /\ LateNotices \in BOOLEAN

VARIABLES
    busy,       \* owners whose status is running
    ending,     \* how the driver of a busy owner came to end, until it retires:
                \* "none", "completed", "broken", "cancelled" or "latched"
    notice,     \* where the notice of a job is
    human,      \* owners with a person's message in the inbox
    spent,      \* spentWakes
    prompts,    \* messages a person sent
    opened,     \* history: turns that notices opened
    stalled     \* history: owners whose last turn broke off with a notice left

agents == <<busy, ending, notice, human, spent, prompts, opened, stalled>>
allVars == <<vars, agents>>

NInit ==
    /\ Init
    /\ busy = {} /\ human = {} /\ stalled = {}
    /\ ending = [o \in Owners |-> "none"]
    /\ notice = [j \in Jobs |-> "none"]
    /\ spent = [o \in Owners |-> 0]
    /\ prompts = [o \in Owners |-> 0]
    /\ opened = [o \in Owners |-> 0]

Held(o) == {j \in Jobs : owner[j] = o /\ notice[j] = "held"}

\* The claim of a step takes all that waits.
Heard(S) == [j \in Jobs |-> IF j \in S THEN "heard" ELSE notice[j]]

\* Mutant of Deliver: the turn that a notice opens is not counted.
DeliverUncounted(j, o) ==
    /\ IF Wakes /\ o \notin busy /\ spent[o] < Budget
       THEN /\ opened' = [opened EXCEPT ![o] = @ + 1]
            /\ busy' = busy \cup {o}
            /\ notice' = Heard(Held(o) \cup {j})
            /\ human' = human \ {o} /\ stalled' = stalled \ {o}
       ELSE /\ notice' = [notice EXCEPT ![j] = "held"]
            /\ UNCHANGED <<opened, busy, human, stalled>>
    /\ UNCHANGED <<spent, prompts>>

\* The listener of a settlement that nobody has reported: a turn of an idle owner
\* begins, and claims the notice at once, or the notice waits for a step.
Deliver(j, o) ==
    /\ IF Wakes /\ o \notin busy /\ spent[o] < Budget
       THEN /\ opened' = [opened EXCEPT ![o] = @ + 1]
            /\ busy' = busy \cup {o}
            /\ notice' = Heard(Held(o) \cup {j})
            /\ human' = human \ {o} /\ stalled' = stalled \ {o}
            /\ spent' = [spent EXCEPT ![o] = IF o \in human THEN 0 ELSE @ + 1]
       ELSE /\ notice' = [notice EXCEPT ![j] = "held"]
            /\ UNCHANGED <<spent, opened, busy, human, stalled>>
    /\ UNCHANGED prompts

\* The registry takes a step.  A disposed owner loses its inbox.
RegistryStep ==
    /\ Next
    /\ LET told == {j \in Jobs : noticed'[j] > noticed[j]}
           left == {o \in Owners : agent[o] = "live" /\ agent'[o] # "live"}
       IN /\ \A j \in told : /\ Deliver(j, owner[j])
                             /\ ending[owner[j]] = "completed" => LateNotices
          /\ told = {} =>
               /\ busy' = busy \ left
               /\ human' = human \ left /\ stalled' = stalled \ left
               /\ notice' = [j \in Jobs |-> IF owner[j] \in left /\ notice[j] = "held"
                                            THEN "dropped" ELSE notice[j]]
               /\ UNCHANGED <<spent, prompts, opened>>
          /\ ending' = [o \in Owners |-> IF o \in left THEN "none" ELSE ending[o]]

\* A step of the owner begins: it claims what waits, and a person's message among
\* it refills the budget.
Claims(o, humans) ==
    /\ notice' = Heard(Held(o))
    /\ human' = human \ {o} /\ stalled' = stalled \ {o}
    /\ spent' = IF humans THEN [spent EXCEPT ![o] = 0] ELSE spent

\* A person sends a message.  It starts an idle owner, waits for the next step of a
\* busy one, and is latched by one whose driver is aborted.
HumanSends(o) ==
    /\ agent[o] = "live" /\ prompts[o] < MaxPrompts
    /\ prompts' = [prompts EXCEPT ![o] = @ + 1]
    /\ \/ /\ o \notin busy
          /\ Claims(o, TRUE)
          /\ UNCHANGED ending
       \/ /\ o \in busy
          /\ human' = human \cup {o}
          /\ ending' = [ending EXCEPT ![o] = IF @ = "cancelled" THEN "latched" ELSE @]
          /\ UNCHANGED <<notice, spent, stalled>>
    /\ busy' = busy \cup {o}
    /\ UNCHANGED <<vars, opened>>

\* The next step of a turn, or the next turn of the driver.
NextStep(o) ==
    /\ o \in busy /\ ending[o] = "none" /\ (o \in human \/ Held(o) # {})
    /\ Claims(o, o \in human)
    /\ UNCHANGED <<vars, busy, ending, prompts, opened>>

\* The driver ends; its owner stays busy until it retires.
Ends(o, how) ==
    /\ ending' = [ending EXCEPT ![o] = how]
    /\ UNCHANGED <<vars, busy, notice, human, spent, prompts, opened, stalled>>

\* Mutant of TurnCompletes: the turn closes over what waits in the inbox.
TurnClosesOver(o) ==
    /\ o \in busy /\ ending[o] = "none"
    /\ Ends(o, "completed")

\* The last look at the inbox: a turn that completes does not close over what waits.
TurnCompletes(o) ==
    /\ o \in busy \ human /\ ending[o] = "none" /\ Held(o) = {}
    /\ Ends(o, "completed")

\* A turn that is rejected or fails, or whose first step has nothing to say, leaves
\* what waits where it is.
TurnBreaks(o) ==
    /\ o \in busy /\ ending[o] = "none"
    /\ Ends(o, "broken")

\* A cancel aborts the driver, at any time before it retires, and clears what waits
\* and the latch unless they are kept.
Cancels(o, keepInbox) ==
    /\ agent[o] = "live" /\ (o \in busy \/ o \in human \/ Held(o) # {})
    /\ ending' = [ending EXCEPT ![o] =
            CASE o \notin busy -> @
              [] keepInbox /\ @ = "latched" -> @
              [] OTHER -> "cancelled"]
    /\ IF keepInbox
       THEN UNCHANGED <<notice, human, stalled>>
       ELSE /\ notice' = [j \in Jobs |-> IF j \in Held(o) THEN "dropped" ELSE notice[j]]
            /\ human' = human \ {o} /\ stalled' = stalled \ {o}
    /\ UNCHANGED <<vars, busy, spent, prompts, opened>>

\* kick's finally: the owner becomes idle, and a latched message opens a turn.
Retire(o) ==
    /\ o \in busy /\ ending[o] # "none"
    /\ ending' = [ending EXCEPT ![o] = "none"]
    /\ \/ /\ ending[o] = "latched"
          /\ Claims(o, TRUE)
          /\ UNCHANGED busy
       \/ /\ ending[o] # "latched"
          /\ busy' = busy \ {o}
          /\ stalled' = IF ending[o] # "completed" /\ Held(o) # {}
                        THEN stalled \cup {o} ELSE stalled
          /\ UNCHANGED <<notice, human, spent>>
    /\ UNCHANGED <<vars, prompts, opened>>

NNext ==
    \/ RegistryStep
    \/ \E o \in Owners : HumanSends(o)
    \/ \E o \in Owners : NextStep(o)
    \/ \E o \in Owners : TurnCompletes(o)
    \/ \E o \in Owners : TurnBreaks(o)
    \/ \E o \in Owners, keepInbox \in BOOLEAN : Cancels(o, keepInbox)
    \/ \E o \in Owners : Retire(o)

NSpec == NInit /\ [][NNext]_allVars

\* The fairness of the registry, whose steps deliver the notices, and the
\* retirement of a driver that has ended.  A person and the owner's turns owe
\* nothing.
NFairSpec == NSpec /\ Fairness /\ \A o \in Owners : WF_allVars(Retire(o))

-----------------------------------------------------------------------------
\* Background jobs do not keep an agent running: between a person's messages the
\* notices open no more turns than the budget, whatever settles in whatever order.
TurnsWithinBudget == \A o \in Owners : opened[o] <= Budget * (1 + prompts[o])

\* A completion that was announced to a live owner is not lost on the way: until a
\* step claims it, it waits for a busy owner, for one that used up its budget, or
\* for one whose last turn was cancelled, rejected, failed or had nothing to say,
\* and whom the next message starts.  "The notice waits in its next-step inbox,
\* which the turn cannot close over" (tool-jobs), as long as none comes between
\* the last look of a completed turn and the retirement of its driver.
HeldNoticeHasReason ==
    \A j \in Jobs : notice[j] = "held" =>
        /\ agent[owner[j]] = "live"
        /\ \/ ~Wakes \/ spent[owner[j]] = Budget
           \/ owner[j] \in busy \cup stalled
=============================================================================
