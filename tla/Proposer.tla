------------------------------ MODULE Proposer ------------------------------
(***************************************************************************)
(* How a node decides to propose: the proposing loop with its timer, the   *)
(* goroutines it starts, the idle flag they meet on, and the engine that   *)
(* replaces the proposer when the chain configuration changes the          *)
(* scheduler.  The two proposers of syncmode share this code; what one     *)
(* round of proposing does to the chain is module CoreEngine.              *)
(***************************************************************************)
EXTENDS Integers, FiniteSets

CONSTANTS
    LastProposer,       \* bound: the proposers the engine creates are 1..LastProposer
    Round,              \* names for the proposeBlock goroutines
    ProposerConfigs     \* the configurations and bounds to start from

ASSUME ProposerBounds == LastProposer \in Nat \ {0}

ProposerId == 1..LastProposer

\* DebugConfig.IsHaltPropose; bounds on the proposers created and on the goroutines alive.
ProposerConfig == [isHaltPropose : BOOLEAN, last : ProposerId, rounds : SUBSET Round]

ASSUME ProposerConfigsAssumption == ProposerConfigs \subseteq ProposerConfig

VARIABLES
    config,             \* the configuration
    blockProposer,      \* the engine's current proposer
    engine,             \* "started", "swapping" inside updateChinConfig, or "stopped"
    looping,            \* [ProposerId -> BOOLEAN]: startProposingLoop runs
    isProposer, idle,   \* [ProposerId -> BOOLEAN]: the fields of the proposer
    armed, tick,        \* [ProposerId -> BOOLEAN]: proposeTimer runs; its channel holds a value
    rearm,              \* the proposers whose status handler still has to reset the timer
    owner,              \* [Round -> ProposerId]: the proposer a goroutine belongs to
    round,              \* [Round -> RoundStep]: proposeBlock
    outdated,           \* the goroutines whose proposingHeight has been committed meanwhile
    proposing, halting  \* [Round -> SendStep]: proposing, and the debug goroutine

proposerVars == <<config, blockProposer, engine, looping, isProposer, idle,
                  armed, tick, rearm, owner, round, outdated, proposing, halting>>

RoundStep == {"none", "last", "busy", "height", "again", "set", "wait", "setIdle", "reset", "arm"}
SendStep == {"none", "work", "yield", "send", "halt"}

engineVars == <<config, blockProposer, engine, looping>>
timerVars == <<armed, tick, rearm>>
roundVars == <<owner, round, outdated, proposing, halting>>

ProposerTypeOK ==
    /\ config \in ProposerConfig
    /\ blockProposer \in ProposerId /\ engine \in {"started", "swapping", "stopped"}
    /\ looping \in [ProposerId -> BOOLEAN]
    /\ isProposer \in [ProposerId -> BOOLEAN] /\ idle \in [ProposerId -> BOOLEAN]
    /\ armed \in [ProposerId -> BOOLEAN] /\ tick \in [ProposerId -> BOOLEAN]
    /\ rearm \subseteq ProposerId
    /\ owner \in [Round -> ProposerId] /\ round \in [Round -> RoundStep]
    /\ outdated \subseteq Round
    /\ proposing \in [Round -> SendStep] /\ halting \in [Round -> SendStep]

\* NewDeterministicBlockProposer: idle, not the proposer, the timer stopped.
NewProposerState ==
    /\ isProposer = [p \in ProposerId |-> FALSE]
    /\ idle = [p \in ProposerId |-> TRUE]
    /\ armed = [p \in ProposerId |-> FALSE]
    /\ tick = [p \in ProposerId |-> FALSE]

\* The first proposer has been started, the others do not exist yet.
ProposerInit ==
    /\ config \in ProposerConfigs
    /\ blockProposer = 1 /\ engine = "started"
    /\ looping = [p \in ProposerId |-> p = 1]
    /\ NewProposerState
    /\ rearm = {}
    /\ owner = [r \in Round |-> 1]
    /\ round = [r \in Round |-> "none"]
    /\ outdated = {}
    /\ proposing = [r \in Round |-> "none"]
    /\ halting = [r \in Round |-> "none"]

-----------------------------------------------------------------------------
(* idleMu.  Its critical sections are single steps, except that of yieldProposing: *)
(* it keeps the mutex while it waits for a receiver on finishProposeC.             *)

Sending(r) == proposing[r] = "send" \/ halting[r] = "send"
IdleMuFree(p) == \A r \in Round : owner[r] = p => ~Sending(r)

\* Mutant: the flag is not tested and set in one step.
SetNotIdleAlways(p) == p \in ProposerId

\* What setNotIdle returns; it leaves the proposer not idle either way.
SetNotIdle(p) == idle[p]

-----------------------------------------------------------------------------
(* startProposingLoop *)

\* go bp.proposeBlock()
GoProposeBlock(p) ==
    \E r \in config.rounds :
        /\ round[r] = "none" /\ proposing[r] = "none" /\ halting[r] = "none"
        /\ owner' = [owner EXCEPT ![r] = p]
        /\ round' = [round EXCEPT ![r] = "last"]
        /\ UNCHANGED <<outdated, proposing, halting>>

TimerFires(p) ==
    /\ armed[p]
    /\ armed' = [armed EXCEPT ![p] = FALSE]
    /\ tick' = [tick EXCEPT ![p] = TRUE]
    /\ UNCHANGED <<engineVars, isProposer, idle, rearm, roundVars>>

\* Mutant: a tick of the timer starts nothing.
LoopDropsTick(p) ==
    /\ looping[p] /\ tick[p]
    /\ tick' = [tick EXCEPT ![p] = FALSE]
    /\ UNCHANGED <<engineVars, isProposer, idle, armed, rearm, roundVars>>

LoopTakesTick(p) ==
    /\ looping[p] /\ tick[p]
    /\ tick' = [tick EXCEPT ![p] = FALSE]
    /\ IF isProposer[p] THEN GoProposeBlock(p) ELSE UNCHANGED roundVars
    /\ UNCHANGED <<engineVars, isProposer, idle, armed, rearm>>

\* OnReceiveTxPoolSignal hands a BLOCK_PROPOSE signal to the loop (to a stopped loop: never).
LoopTakesSignal(p) ==
    /\ looping[p] /\ isProposer[p]
    /\ GoProposeBlock(p)
    /\ UNCHANGED <<engineVars, isProposer, idle, timerVars>>

-----------------------------------------------------------------------------
(* proposeBlock, of goroutine r *)

RoundGoes(r, to) == round' = [round EXCEPT ![r] = to]

\* GetLastCommittedBlock
ReadLastBlock(r) ==
    /\ round[r] = "last"
    /\ RoundGoes(r, "busy")
    /\ UNCHANGED <<engineVars, isProposer, idle, timerVars, owner, outdated, proposing, halting>>

\* shouldProposeByBFT: the proposer is idle, and the height is still the next one.
ShouldProposeByBFT(r) ==
    /\ \/ /\ round[r] = "busy" /\ IdleMuFree(owner[r])
          /\ RoundGoes(r, IF idle[owner[r]] THEN "height" ELSE "reset")
          /\ outdated' = IF idle[owner[r]] THEN outdated ELSE outdated \ {r}
       \/ /\ round[r] = "height"
          /\ RoundGoes(r, IF r \in outdated THEN "reset" ELSE "again")
          /\ outdated' = outdated \ {r}
    /\ UNCHANGED <<engineVars, isProposer, idle, timerVars, owner, proposing, halting>>

IsIdle(r) ==
    /\ round[r] = "again" /\ IdleMuFree(owner[r])
    /\ RoundGoes(r, IF idle[owner[r]] THEN "set" ELSE "reset")
    /\ UNCHANGED <<engineVars, isProposer, idle, timerVars, owner, outdated, proposing, halting>>

\* Mutant: proposeBlock does not wait for the signal on finishProposeC.
StartWithoutWait(r) ==
    /\ round[r] = "set" /\ IdleMuFree(owner[r])
    /\ idle' = [idle EXCEPT ![owner[r]] = FALSE]
    /\ SetNotIdle(owner[r])
    /\ RoundGoes(r, "setIdle")
    /\ proposing' = [proposing EXCEPT ![r] = "work"]
    /\ UNCHANGED <<engineVars, isProposer, timerVars, owner, outdated, halting>>

\* setNotIdle; whoever wins starts proposing (and, when debugging, a yield) and waits.
StartProposing(r) ==
    /\ round[r] = "set" /\ IdleMuFree(owner[r])
    /\ idle' = [idle EXCEPT ![owner[r]] = FALSE]
    /\ \/ /\ SetNotIdle(owner[r])
          /\ RoundGoes(r, "wait")
          /\ proposing' = [proposing EXCEPT ![r] = "work"]
          /\ halting' = [halting EXCEPT ![r] = IF config.isHaltPropose THEN "yield" ELSE "none"]
       \/ /\ ~ SetNotIdle(owner[r])
          /\ RoundGoes(r, "reset")
          /\ UNCHANGED <<proposing, halting>>
    /\ UNCHANGED <<engineVars, isProposer, timerVars, owner, outdated>>

\* The deferred setIdle.
SetIdle(r) ==
    /\ round[r] = "setIdle" /\ IdleMuFree(owner[r])
    /\ idle' = [idle EXCEPT ![owner[r]] = TRUE]
    /\ RoundGoes(r, "reset")
    /\ UNCHANGED <<engineVars, isProposer, timerVars, owner, outdated, proposing, halting>>

\* Mutant: the deferred function does not reset the timer.
DeferredNoReset(r) ==
    /\ round[r] = "reset"
    /\ RoundGoes(r, "none")
    /\ UNCHANGED <<engineVars, isProposer, idle, timerVars, owner, outdated, proposing, halting>>

\* The deferred function: if this node is the proposer, the timer is reset.
DeferredIsSelfProposer(r) ==
    /\ round[r] = "reset"
    /\ RoundGoes(r, IF isProposer[owner[r]] THEN "arm" ELSE "none")
    /\ UNCHANGED <<engineVars, isProposer, idle, timerVars, owner, outdated, proposing, halting>>

DeferredReset(r) ==
    /\ round[r] = "arm"
    /\ armed' = [armed EXCEPT ![owner[r]] = TRUE]
    /\ RoundGoes(r, "none")
    /\ UNCHANGED <<engineVars, isProposer, idle, tick, rearm, owner, outdated, proposing, halting>>

-----------------------------------------------------------------------------
(* proposing, yieldProposing *)

\* Mutant: a return without the deferred yieldProposing.
ProposingJustReturns(r) ==
    /\ proposing[r] = "work"
    /\ proposing' = [proposing EXCEPT ![r] = "none"]
    /\ UNCHANGED <<engineVars, isProposer, idle, timerVars, owner, round, outdated, halting>>

\* proposing ends, on whichever of its returns, and runs the deferred yieldProposing.
ProposingReturns(r) ==
    /\ proposing[r] = "work"
    /\ proposing' = [proposing EXCEPT ![r] = "yield"]
    /\ UNCHANGED <<engineVars, isProposer, idle, timerVars, owner, round, outdated, halting>>

\* yieldProposing takes idleMu; an idle proposer has nobody to signal.
YieldStep(r) == IF idle[owner[r]] THEN "none" ELSE "send"

YieldProposing(r) ==
    /\ IdleMuFree(owner[r])
    /\ \/ /\ proposing[r] = "yield"
          /\ proposing' = [proposing EXCEPT ![r] = YieldStep(r)]
          /\ UNCHANGED halting
       \/ /\ halting[r] = "yield"
          /\ halting' = [halting EXCEPT ![r] = YieldStep(r)]
          /\ UNCHANGED proposing
    /\ UNCHANGED <<engineVars, isProposer, idle, timerVars, owner, round, outdated>>

\* finishProposeC is unbuffered: the sender s and a waiting round r of its proposer go on.
FinishPropose(r, s) ==
    /\ round[r] = "wait" /\ owner[s] = owner[r] /\ Sending(s)
    /\ RoundGoes(r, "setIdle")
    /\ IF proposing[s] = "send"
       THEN proposing' = [proposing EXCEPT ![s] = "none"] /\ UNCHANGED halting
       ELSE halting' = [halting EXCEPT ![s] = "halt"] /\ UNCHANGED proposing
    /\ UNCHANGED <<engineVars, isProposer, idle, timerVars, owner, outdated>>

\* OnReceiveYieldProposeSignal, once yieldProposing returned true: txScheduler.Halt().
HaltScheduler(r) ==
    /\ halting[r] = "halt"
    /\ halting' = [halting EXCEPT ![r] = "none"]
    /\ UNCHANGED <<engineVars, isProposer, idle, timerVars, owner, round, outdated, proposing>>

-----------------------------------------------------------------------------
(* The engine's messages *)

\* setIsSelfProposer: the flag and the timer change under proposerMu.
SetIsSelfProposer(p, status) ==
    /\ isProposer' = [isProposer EXCEPT ![p] = status]
    /\ armed' = [armed EXCEPT ![p] = status]

\* OnReceiveProposeStatusChange, under statusMu; an unchanged status is ignored.
StatusChange(p, status) ==
    /\ p = blockProposer /\ p \notin rearm
    /\ status # isProposer[p]
    /\ SetIsSelfProposer(p, status)
    /\ rearm' = IF status THEN rearm \cup {p} ELSE rearm
    /\ UNCHANGED <<engineVars, idle, tick, roundVars>>

\* Its last line, the second reset of the timer.
StatusChangeReset(p) ==
    /\ p \in rearm
    /\ armed' = [armed EXCEPT ![p] = TRUE]
    /\ rearm' = rearm \ {p}
    /\ UNCHANGED <<engineVars, isProposer, idle, tick, roundVars>>

\* Stop of the current proposer, by updateChinConfig or by the engine's Stop.
StopProposer(to) ==
    /\ engine = "started" /\ looping[blockProposer]
    /\ to = "swapping" => blockProposer < config.last
    /\ engine' = to
    /\ looping' = [looping EXCEPT ![blockProposer] = FALSE]
    /\ armed' = [armed EXCEPT ![blockProposer] = FALSE]
    /\ UNCHANGED <<config, blockProposer, isProposer, idle, tick, rearm, roundVars>>

\* The rest of updateChinConfig: a new proposer replaces the old one and starts.
UpdateChinConfig ==
    /\ engine = "swapping"
    /\ engine' = "started"
    /\ blockProposer' = blockProposer + 1
    /\ looping' = [looping EXCEPT ![blockProposer + 1] = TRUE]
    /\ UNCHANGED <<config, isProposer, idle, timerVars, roundVars>>

\* A block is committed, by consensus or by block synchronisation.
BlockCommitted ==
    /\ outdated' = {r \in Round : round[r] \in {"busy", "height"}}
    /\ UNCHANGED <<engineVars, isProposer, idle, timerVars, owner, round, proposing, halting>>

-----------------------------------------------------------------------------

RoundNext(r) ==
    \/ ReadLastBlock(r) \/ ShouldProposeByBFT(r) \/ IsIdle(r) \/ StartProposing(r) \/ SetIdle(r)
    \/ DeferredIsSelfProposer(r) \/ DeferredReset(r)
    \/ \E s \in Round : FinishPropose(r, s)

ProposerNext ==
    \/ \E p \in ProposerId :
        \/ TimerFires(p) \/ LoopTakesTick(p) \/ LoopTakesSignal(p)
        \/ \E status \in BOOLEAN : StatusChange(p, status)
        \/ StatusChangeReset(p)
    \/ \E r \in Round :
        RoundNext(r) \/ ProposingReturns(r) \/ YieldProposing(r) \/ HaltScheduler(r)
    \/ \E to \in {"swapping", "stopped"} : StopProposer(to)
    \/ UpdateChinConfig \/ BlockCommitted

(***************************************************************************)
(* Goroutines are scheduled, timers fire, and the loop takes a tick that   *)
(* stays in the timer's channel.  That proposing returns rests on the      *)
(* scheduler's own timeout.                                                *)
(***************************************************************************)
ProposerFairness ==
    /\ \A p \in ProposerId :
        /\ WF_proposerVars(TimerFires(p)) /\ WF_proposerVars(LoopTakesTick(p))
    /\ \A r \in Round :
        WF_proposerVars(RoundNext(r) \/ ProposingReturns(r) \/ YieldProposing(r))

ProposerSpec == ProposerInit /\ [][ProposerNext]_proposerVars
FairProposerSpec == ProposerSpec /\ ProposerFairness

-----------------------------------------------------------------------------

InRound(r) == round[r] \in {"wait", "setIdle"}

(***************************************************************************)
(* Of the proposeBlock goroutines of a proposer at most one is past        *)
(* setNotIdle and before setIdle, whatever timer ticks, pool signals,      *)
(* status changes and debug yields come together, and the idle flag says   *)
(* whether there is one.                                                   *)
(***************************************************************************)
OneRound ==
    \A p \in ProposerId :
        /\ \A r, s \in Round : owner[r] = p /\ owner[s] = p /\ InRound(r) /\ InRound(s) => r = s
        /\ idle[p] <=> \A r \in Round : owner[r] = p => ~InRound(r)

(***************************************************************************)
(* Without the debug option a proposer never builds two blocks at once,    *)
(* and whoever builds one is waited for by its own proposeBlock: a late    *)
(* yieldProposing never ends the wait of another round.                    *)
(***************************************************************************)
OneProposing ==
    ~config.isHaltPropose =>
        \A p \in ProposerId : \A r, s \in Round :
            /\ owner[r] = p /\ owner[s] = p /\ proposing[r] # "none" /\ proposing[s] # "none" => r = s
            /\ proposing[r] # "none" => round[r] = "wait"

(***************************************************************************)
(* A proposer that is the consensus proposer and whose loop runs has its   *)
(* timer running, a tick to take, or a proposeBlock under way that will    *)
(* look at the status again: a loss and regain of the status between the   *)
(* two halves of the deferred reset does not leave it waiting for ever.    *)
(***************************************************************************)
TimerNotLost ==
    \A p \in ProposerId :
        looping[p] /\ isProposer[p] =>
            \/ armed[p] \/ tick[p]
            \/ \E r \in Round : owner[r] = p /\ round[r] # "none"

(***************************************************************************)
(* Without the debug option every round ends: the proposer becomes idle    *)
(* again although yieldProposing holds idleMu while it sends.              *)
(***************************************************************************)
RoundsEnd ==
    ~config.isHaltPropose => \A r \in Round : round[r] = "wait" ~> round[r] = "none"

(***************************************************************************)
(* A node that stays the consensus proposer, with its loop running, keeps  *)
(* proposing, unless for ever a block is committed between the two times a *)
(* round reads the last block.                                             *)
(***************************************************************************)
KeepsProposing ==
    \A p \in ProposerId :
        /\ ~config.isHaltPropose
        /\ <>[](looping[p] /\ isProposer[p] /\ outdated = {})
        => []<>(\E r \in Round : owner[r] = p /\ proposing[r] = "work")
=============================================================================
