--------------------------- MODULE ProposerProofs ---------------------------
(***************************************************************************)
(* The idle flag, finishProposeC and the timer, for any number of          *)
(* proposers and of proposeBlock goroutines.                               *)
(***************************************************************************)
EXTENDS Proposer, TLAPS

\* Only the debug option starts the goroutine that yields from outside.
NoHalting == ~config.isHaltPropose => \A r \in Round : halting[r] = "none"

\* updateChinConfig has stopped a proposer that is not the last one the bound allows.
SwapHasNext == engine = "swapping" => blockProposer < config.last

\* A proposer that does not exist yet is not the consensus proposer.
NotCreated == \A p \in ProposerId : p > blockProposer => ~isProposer[p]

ProposerAux == SwapHasNext /\ NoHalting /\ NotCreated

\* The inductive invariant.
ProposerInv ==
    /\ ProposerTypeOK /\ ProposerAux
    /\ OneRound /\ OneProposing /\ TimerNotLost

\* Every step keeps the types.
LEMMA ProposerTypes ==
    ProposerTypeOK /\ SwapHasNext /\ [ProposerNext]_proposerVars => ProposerTypeOK'
<1> SUFFICES ASSUME ProposerTypeOK, SwapHasNext, [ProposerNext]_proposerVars PROVE ProposerTypeOK'
    OBVIOUS
<1> USE DEF ProposerTypeOK, engineVars, timerVars, roundVars, RoundGoes, RoundStep, SendStep
<1>1. ASSUME NEW p \in ProposerId,
             \/ TimerFires(p) \/ LoopTakesTick(p) \/ LoopTakesSignal(p)
             \/ \E status \in BOOLEAN : StatusChange(p, status)
             \/ StatusChangeReset(p)
      PROVE ProposerTypeOK'
    <2>1. CASE TimerFires(p)
        BY <2>1 DEF TimerFires
    <2>2. CASE LoopTakesTick(p)
        BY <2>2 DEF LoopTakesTick, GoProposeBlock, ProposerConfig
    <2>3. CASE LoopTakesSignal(p)
        BY <2>3 DEF LoopTakesSignal, GoProposeBlock, ProposerConfig
    <2>4. CASE \E status \in BOOLEAN : StatusChange(p, status)
        BY <2>4 DEF StatusChange, SetIsSelfProposer
    <2>5. CASE StatusChangeReset(p)
        BY <2>5 DEF StatusChangeReset
    <2> QED
        BY <1>1, <2>1, <2>2, <2>3, <2>4, <2>5
<1>2. ASSUME NEW r \in Round, RoundNext(r) PROVE ProposerTypeOK'
    <2>1. CASE ReadLastBlock(r)
        BY <2>1 DEF ReadLastBlock
    <2>2. CASE ShouldProposeByBFT(r)
        BY <2>2 DEF ShouldProposeByBFT
    <2>3. CASE IsIdle(r)
        BY <2>3 DEF IsIdle
    <2>4. CASE StartProposing(r)
        BY <2>4 DEF StartProposing
    <2>5. CASE SetIdle(r)
        BY <2>5 DEF SetIdle
    <2>6. CASE DeferredIsSelfProposer(r)
        BY <2>6 DEF DeferredIsSelfProposer
    <2>7. CASE DeferredReset(r)
        BY <2>7 DEF DeferredReset
    <2>8. CASE \E s \in Round : FinishPropose(r, s)
        BY <2>8 DEF FinishPropose
    <2> QED
        BY <1>2, <2>1, <2>2, <2>3, <2>4, <2>5, <2>6, <2>7, <2>8 DEF RoundNext
<1>3. ASSUME NEW r \in Round, ProposingReturns(r) PROVE ProposerTypeOK'
    BY <1>3 DEF ProposingReturns
<1>4. ASSUME NEW r \in Round, YieldProposing(r) PROVE ProposerTypeOK'
    BY <1>4 DEF YieldProposing, YieldStep
<1>5. ASSUME NEW r \in Round, HaltScheduler(r) PROVE ProposerTypeOK'
    BY <1>5 DEF HaltScheduler
<1>6. ASSUME NEW to \in {"swapping", "stopped"}, StopProposer(to) PROVE ProposerTypeOK'
    BY <1>6 DEF StopProposer
<1>7. CASE UpdateChinConfig
    <2>1. blockProposer + 1 \in ProposerId
        BY <1>7, ProposerBounds DEF UpdateChinConfig, SwapHasNext, ProposerConfig, ProposerId
    <2> QED
        BY <1>7, <2>1 DEF UpdateChinConfig
<1>8. CASE BlockCommitted
    BY <1>8 DEF BlockCommitted
<1>9. CASE UNCHANGED proposerVars
    BY <1>9 DEF proposerVars
<1> QED
    BY <1>1, <1>2, <1>3, <1>4, <1>5, <1>6, <1>7, <1>8, <1>9 DEF ProposerNext

\* Every step keeps the three auxiliary facts.
LEMMA ProposerAuxiliary ==
    ASSUME ProposerInv, [ProposerNext]_proposerVars
    PROVE  ProposerAux'
<1> USE DEF ProposerInv, ProposerTypeOK, SwapHasNext, NoHalting, NotCreated, ProposerAux, engineVars, timerVars, roundVars
<1>1. ASSUME UNCHANGED <<engineVars, halting, isProposer>> PROVE ProposerAux'
    BY <1>1
<1>2. ASSUME NEW p \in ProposerId,
             \/ TimerFires(p) \/ LoopTakesTick(p) \/ LoopTakesSignal(p)
             \/ StatusChangeReset(p)
      PROVE UNCHANGED <<engineVars, halting, isProposer>>
    BY <1>2 DEF TimerFires, LoopTakesTick, LoopTakesSignal, GoProposeBlock,
                StatusChangeReset
<1>3. ASSUME NEW r \in Round,
             \/ ReadLastBlock(r) \/ ShouldProposeByBFT(r) \/ IsIdle(r) \/ SetIdle(r)
             \/ DeferredIsSelfProposer(r) \/ DeferredReset(r) \/ ProposingReturns(r)
             \/ BlockCommitted \/ UNCHANGED proposerVars
      PROVE UNCHANGED <<engineVars, halting, isProposer>>
    BY <1>3 DEF ReadLastBlock, ShouldProposeByBFT, IsIdle, SetIdle, DeferredIsSelfProposer,
                DeferredReset, ProposingReturns, BlockCommitted, proposerVars
<1>4. ASSUME NEW r \in Round, StartProposing(r) PROVE ProposerAux'
    BY <1>4 DEF StartProposing
<1>5. ASSUME NEW r \in Round, NEW s \in Round, FinishPropose(r, s) PROVE ProposerAux'
    BY <1>5 DEF FinishPropose, Sending
<1>6. ASSUME NEW r \in Round, YieldProposing(r) PROVE ProposerAux'
    BY <1>6 DEF YieldProposing
<1>7. ASSUME NEW r \in Round, HaltScheduler(r) PROVE ProposerAux'
    BY <1>7 DEF HaltScheduler
<1>8. ASSUME NEW to \in {"swapping", "stopped"}, StopProposer(to) PROVE ProposerAux'
    BY <1>8 DEF StopProposer
<1>9. CASE UpdateChinConfig
    BY <1>9 DEF UpdateChinConfig, ProposerId
<1>10. CASE BlockCommitted \/ UNCHANGED proposerVars
    BY <1>10 DEF BlockCommitted, proposerVars
<1>11. ASSUME NEW p \in ProposerId, NEW status \in BOOLEAN, StatusChange(p, status)
       PROVE ProposerAux'
    BY <1>11 DEF StatusChange, SetIsSelfProposer, ProposerId
<1> QED
    BY <1>1, <1>2, <1>3, <1>4, <1>5, <1>6, <1>7, <1>8, <1>9, <1>10, <1>11 DEF ProposerNext, RoundNext

\* A step that starts no goroutine and moves none into or out of its round keeps OneRound.
LEMMA RoundsUntouched ==
    ASSUME ProposerInv, UNCHANGED idle,
           \A r \in Round : InRound(r)' = InRound(r) /\ (InRound(r) => owner'[r] = owner[r])
    PROVE  OneRound'
BY DEF ProposerInv, OneRound

\* Every step keeps OneRound.
LEMMA OneRoundStep ==
    ASSUME ProposerInv, ProposerTypeOK', [ProposerNext]_proposerVars
    PROVE  OneRound'
<1> USE DEF ProposerTypeOK, InRound, engineVars, timerVars, roundVars, RoundGoes
<1> ProposerTypeOK /\ OneRound
    BY DEF ProposerInv
<1>1. ASSUME NEW p \in ProposerId,
             \/ TimerFires(p) \/ LoopTakesTick(p) \/ LoopTakesSignal(p)
             \/ \E status \in BOOLEAN : StatusChange(p, status)
             \/ StatusChangeReset(p)
      PROVE OneRound'
    BY <1>1, RoundsUntouched DEF TimerFires, LoopTakesTick, LoopTakesSignal, GoProposeBlock,
                                 StatusChange, StatusChangeReset
<1>2. ASSUME NEW r \in Round,
             \/ ReadLastBlock(r) \/ ShouldProposeByBFT(r) \/ IsIdle(r)
             \/ DeferredIsSelfProposer(r) \/ DeferredReset(r)
      PROVE OneRound'
    BY <1>2, RoundsUntouched DEF ReadLastBlock, ShouldProposeByBFT, IsIdle,
                                 DeferredIsSelfProposer, DeferredReset
<1>3. ASSUME NEW r \in Round, ProposingReturns(r) \/ YieldProposing(r) \/ HaltScheduler(r)
      PROVE OneRound'
    BY <1>3, RoundsUntouched DEF ProposingReturns, YieldProposing, HaltScheduler
<1>4. ASSUME NEW r \in Round, NEW s \in Round, FinishPropose(r, s) PROVE OneRound'
    BY <1>4, RoundsUntouched DEF FinishPropose
<1>5. ASSUME NEW r \in Round, StartProposing(r) PROVE OneRound'
    <2>1. CASE idle[owner[r]]
        <3>1. /\ idle' = [idle EXCEPT ![owner[r]] = FALSE] /\ owner' = owner
              /\ round' = [round EXCEPT ![r] = "wait"]
            BY <1>5, <2>1 DEF StartProposing, SetNotIdle
        <3> QED
            BY <2>1, <3>1 DEF OneRound
    <2>2. CASE ~idle[owner[r]]
        <3>1. /\ idle' = idle /\ owner' = owner /\ round[r] = "set"
              /\ round' = [round EXCEPT ![r] = "reset"]
            BY <1>5, <2>2 DEF StartProposing, SetNotIdle
        <3> QED
            BY <3>1, RoundsUntouched
    <2> QED
        BY <2>1, <2>2
<1>6. ASSUME NEW r \in Round, SetIdle(r) PROVE OneRound'
    <2>1. /\ idle' = [idle EXCEPT ![owner[r]] = TRUE] /\ owner' = owner
          /\ round[r] = "setIdle" /\ round' = [round EXCEPT ![r] = "reset"]
        BY <1>6 DEF SetIdle
    <2> QED
        BY <2>1 DEF OneRound
<1>7. ASSUME \/ \E to \in {"swapping", "stopped"} : StopProposer(to)
             \/ UpdateChinConfig \/ BlockCommitted \/ UNCHANGED proposerVars
      PROVE OneRound'
    BY <1>7, RoundsUntouched DEF StopProposer, UpdateChinConfig, BlockCommitted, proposerVars
<1> QED
    BY <1>1, <1>2, <1>3, <1>4, <1>5, <1>6, <1>7 DEF ProposerNext, RoundNext

\* Every step keeps OneProposing: the sender on finishProposeC is the receiver's own.
LEMMA OneProposingStep ==
    ASSUME ProposerInv, OneRound', ProposerTypeOK', [ProposerNext]_proposerVars
    PROVE  OneProposing'
<1> USE DEF ProposerTypeOK, engineVars, timerVars, roundVars, RoundGoes
<1>0. ProposerTypeOK /\ NoHalting /\ OneRound /\ OneProposing /\ OneRound'
    BY DEF ProposerInv, ProposerAux
<1>a. SUFFICES ASSUME ~config.isHaltPropose', NEW r \in Round, proposing'[r] # "none"
              PROVE  round'[r] = "wait"
    BY <1>0 DEF OneProposing, OneRound, InRound
<1>b. config' = config
    BY DEF ProposerNext, RoundNext, TimerFires, LoopTakesTick, LoopTakesSignal, StatusChange,
           StatusChangeReset, ReadLastBlock, ShouldProposeByBFT, IsIdle, StartProposing, SetIdle,
           DeferredIsSelfProposer, DeferredReset, FinishPropose, ProposingReturns, YieldProposing,
           HaltScheduler, StopProposer, UpdateChinConfig, BlockCommitted, proposerVars
<1>c. /\ \A s \in Round : halting[s] = "none"
      /\ \A s \in Round : proposing[s] # "none" => round[s] = "wait"
      /\ \A s, t \in Round :
            owner[s] = owner[t] /\ round[s] = "wait" /\ round[t] = "wait" => s = t
    BY <1>0, <1>a, <1>b DEF NoHalting, OneProposing, OneRound, InRound
<1>1. ASSUME NEW p \in ProposerId,
             \/ TimerFires(p) \/ LoopTakesTick(p) \/ LoopTakesSignal(p)
             \/ \E status \in BOOLEAN : StatusChange(p, status)
             \/ StatusChangeReset(p)
      PROVE round'[r] = "wait"
    BY <1>0, <1>1, <1>a, <1>c DEF TimerFires, LoopTakesTick, LoopTakesSignal, GoProposeBlock,
                      StatusChange, StatusChangeReset
<1>2. ASSUME NEW s \in Round,
             \/ ReadLastBlock(s) \/ ShouldProposeByBFT(s) \/ IsIdle(s) \/ SetIdle(s)
             \/ DeferredIsSelfProposer(s) \/ DeferredReset(s)
      PROVE round'[r] = "wait"
    BY <1>0, <1>2, <1>a, <1>c DEF ReadLastBlock, ShouldProposeByBFT, IsIdle, SetIdle,
                                  DeferredIsSelfProposer, DeferredReset
<1>3. ASSUME NEW s \in Round, ProposingReturns(s) \/ YieldProposing(s) \/ HaltScheduler(s)
      PROVE round'[r] = "wait"
    BY <1>0, <1>3, <1>a, <1>c DEF ProposingReturns, YieldProposing, HaltScheduler
<1>4. ASSUME NEW s \in Round, StartProposing(s) PROVE round'[r] = "wait"
    BY <1>0, <1>4, <1>a, <1>c DEF StartProposing
<1>5. ASSUME NEW s \in Round, NEW t \in Round, FinishPropose(s, t) PROVE round'[r] = "wait"
    <2>1. proposing[t] = "send" /\ s = t
        BY <1>0, <1>5, <1>c DEF FinishPropose, Sending
    <2> QED
        BY <1>0, <1>5, <1>a, <1>c, <2>1 DEF FinishPropose
<1>6. ASSUME \/ \E to \in {"swapping", "stopped"} : StopProposer(to)
             \/ UpdateChinConfig \/ BlockCommitted \/ UNCHANGED proposerVars
      PROVE round'[r] = "wait"
    BY <1>0, <1>6, <1>a, <1>c DEF StopProposer, UpdateChinConfig, BlockCommitted, proposerVars
<1> QED
    BY <1>1, <1>2, <1>3, <1>4, <1>5, <1>6 DEF ProposerNext, RoundNext

\* Every step keeps TimerNotLost.
LEMMA TimerNotLostStep ==
    ASSUME ProposerInv, ProposerTypeOK', [ProposerNext]_proposerVars
    PROVE  TimerNotLost'
<1> USE DEF ProposerTypeOK, engineVars, timerVars, roundVars, RoundGoes
<1>0. ProposerTypeOK /\ TimerNotLost
    BY DEF ProposerInv
<1>a. SUFFICES ASSUME NEW q \in ProposerId, looping'[q], isProposer'[q],
                      ~armed'[q], ~tick'[q]
              PROVE  \E r \in Round : owner'[r] = q /\ round'[r] # "none"
    BY DEF TimerNotLost
<1>b. looping[q] /\ isProposer[q] => \/ armed[q] \/ tick[q]
                                    \/ \E r \in Round : owner[r] = q /\ round[r] # "none"
    BY <1>0 DEF TimerNotLost
<1> DEFINE Goal == \E r \in Round : owner'[r] = q /\ round'[r] # "none"
<1>1. ASSUME NEW p \in ProposerId, TimerFires(p) PROVE Goal
    BY <1>0, <1>1, <1>a, <1>b DEF TimerFires
<1>2. ASSUME NEW p \in ProposerId, LoopTakesTick(p) PROVE Goal
    <2>1. CASE isProposer[p]
        <3>1. PICK r \in Round :
                /\ round[r] = "none"
                /\ owner' = [owner EXCEPT ![r] = p] /\ round' = [round EXCEPT ![r] = "last"]
            BY <1>0, <1>2, <2>1 DEF LoopTakesTick, GoProposeBlock, ProposerConfig
        <3>2. tick' = [tick EXCEPT ![p] = FALSE] /\ UNCHANGED <<looping, isProposer, armed>>
            BY <1>2 DEF LoopTakesTick
        <3>3. CASE p = q
            BY <1>0, <3>1, <3>3
        <3>4. CASE p # q
            <4>1. PICK s \in Round : owner[s] = q /\ round[s] # "none"
                BY <1>0, <1>a, <1>b, <3>2, <3>4
            <4> QED
                BY <1>0, <3>1, <4>1
        <3> QED
            BY <3>3, <3>4
    <2>2. CASE ~isProposer[p]
        BY <1>0, <1>2, <2>2, <1>a, <1>b DEF LoopTakesTick
    <2> QED
        BY <2>1, <2>2
<1>3. ASSUME NEW p \in ProposerId, LoopTakesSignal(p) PROVE Goal
    <2>1. PICK r \in Round :
            /\ round[r] = "none"
            /\ owner' = [owner EXCEPT ![r] = p] /\ round' = [round EXCEPT ![r] = "last"]
        BY <1>0, <1>3 DEF LoopTakesSignal, GoProposeBlock, ProposerConfig
    <2>2. PICK s \in Round : owner[s] = q /\ round[s] # "none"
        BY <1>0, <1>3, <1>a, <1>b DEF LoopTakesSignal
    <2> QED
        BY <1>0, <2>1, <2>2
<1>4. ASSUME NEW p \in ProposerId, \E status \in BOOLEAN : StatusChange(p, status) PROVE Goal
    BY <1>0, <1>4, <1>a, <1>b DEF StatusChange, SetIsSelfProposer
<1>5. ASSUME NEW p \in ProposerId, StatusChangeReset(p) PROVE Goal
    BY <1>0, <1>5, <1>a, <1>b DEF StatusChangeReset
<1>6. ASSUME NEW r \in Round,
             ReadLastBlock(r) \/ ShouldProposeByBFT(r) \/ IsIdle(r) \/ SetIdle(r)
      PROVE Goal
    BY <1>0, <1>6, <1>a, <1>b DEF ReadLastBlock, ShouldProposeByBFT, IsIdle, SetIdle
<1>7. ASSUME NEW r \in Round, StartProposing(r) PROVE Goal
    BY <1>0, <1>7, <1>a, <1>b DEF StartProposing
<1>8. ASSUME NEW r \in Round, DeferredIsSelfProposer(r) \/ DeferredReset(r) PROVE Goal
    BY <1>0, <1>8, <1>a, <1>b DEF DeferredIsSelfProposer, DeferredReset
<1>9. ASSUME NEW r \in Round, NEW s \in Round, FinishPropose(r, s) PROVE Goal
    BY <1>0, <1>9, <1>a, <1>b DEF FinishPropose
<1>10. ASSUME NEW r \in Round, ProposingReturns(r) \/ YieldProposing(r) \/ HaltScheduler(r)
       PROVE Goal
    BY <1>0, <1>10, <1>a, <1>b DEF ProposingReturns, YieldProposing, HaltScheduler
<1>11. ASSUME \/ \E to \in {"swapping", "stopped"} : StopProposer(to)
              \/ BlockCommitted \/ UNCHANGED proposerVars
       PROVE Goal
    BY <1>0, <1>11, <1>a, <1>b DEF StopProposer, BlockCommitted, proposerVars
<1>12. CASE UpdateChinConfig
    <2>1. q # blockProposer + 1
        BY <1>0, <1>12, <1>a DEF UpdateChinConfig, ProposerInv, ProposerAux, NotCreated, ProposerId
    <2> QED
        BY <1>0, <1>12, <1>a, <1>b, <2>1 DEF UpdateChinConfig, ProposerId
<1> QED
    BY <1>1, <1>2, <1>3, <1>4, <1>5, <1>6, <1>7, <1>8, <1>9, <1>10, <1>11, <1>12
    DEF ProposerNext, RoundNext

LEMMA ProposerInvInit == ProposerInit => ProposerInv
BY ProposerBounds, ProposerConfigsAssumption
   DEF ProposerInit, NewProposerState, ProposerInv, ProposerTypeOK, ProposerAux, SwapHasNext,
       NoHalting, NotCreated, OneRound, OneProposing, TimerNotLost, InRound, ProposerId,
       RoundStep, SendStep

LEMMA ProposerInvStep == ProposerInv /\ [ProposerNext]_proposerVars => ProposerInv'
<1> SUFFICES ASSUME ProposerInv, [ProposerNext]_proposerVars PROVE ProposerInv'
    OBVIOUS
<1>1. ProposerTypeOK'
    BY ProposerTypes DEF ProposerInv, ProposerAux
<1>2. OneRound'
    BY <1>1, OneRoundStep
<1> QED
    BY <1>1, <1>2, ProposerAuxiliary, OneProposingStep, TimerNotLostStep DEF ProposerInv

(***************************************************************************)
(* The proposer's state has its type, for any number of proposers and      *)
(* goroutines.                                                             *)
(***************************************************************************)
THEOREM ProposerTypeCorrect == ProposerSpec => []ProposerTypeOK
<1>1. ProposerInv => ProposerTypeOK
    BY DEF ProposerInv
<1> QED
    BY <1>1, ProposerInvInit, ProposerInvStep, PTL DEF ProposerSpec

(***************************************************************************)
(* At most one proposeBlock of a proposer is between setNotIdle and        *)
(* setIdle, and the idle flag says whether there is one.                   *)
(***************************************************************************)
THEOREM OneRoundAtATime == ProposerSpec => []OneRound
<1>1. ProposerInv => OneRound
    BY DEF ProposerInv
<1> QED
    BY <1>1, ProposerInvInit, ProposerInvStep, PTL DEF ProposerSpec

(***************************************************************************)
(* Without the debug option a proposer builds one block at a time, and its *)
(* own proposeBlock waits for it.                                          *)
(***************************************************************************)
THEOREM OneProposingAtATime == ProposerSpec => []OneProposing
<1>1. ProposerInv => OneProposing
    BY DEF ProposerInv
<1> QED
    BY <1>1, ProposerInvInit, ProposerInvStep, PTL DEF ProposerSpec

(***************************************************************************)
(* A consensus proposer whose loop runs always has something that will     *)
(* make it look at proposing again.                                        *)
(***************************************************************************)
THEOREM TimerIsNotLost == ProposerSpec => []TimerNotLost
<1>1. ProposerInv => TimerNotLost
    BY DEF ProposerInv
<1> QED
    BY <1>1, ProposerInvInit, ProposerInvStep, PTL DEF ProposerSpec
=============================================================================
