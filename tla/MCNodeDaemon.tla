---------------------------- MODULE MCNodeDaemon ----------------------------
(***************************************************************************)
(* NodeDaemon for TLC: names and images as model values.                   *)
(***************************************************************************)
EXTENDS NodeDaemon, TLC

CONSTANTS n1, n2, a, b

OneSet    == {n1}
TwoSets   == {n1, n2}
OneImage  == {a}
TwoImages == {a, b}

DefaultOnly  == {"Default"}
BothPolicies == {"Default", "MirrorOnly"}

\* Neither names nor images are told apart by anything.
Symmetry == Permutations(NodeImageSets) \cup Permutations(Images)

\* The daemon has just started on a node whose NodeImageSets, all wanting every
\* image, exist already and have been reconciled to the finalizer.
Adopted == [NoNis EXCEPT !.live = TRUE, !.uid = 1, !.generation = 1, !.images = Images,
                         !.policy = "Default", !.finalizer = TRUE]

Adopts ==
    /\ api = [n \in NodeImageSets |-> Adopted]
    /\ cache = api
    /\ requests = NodeImageSets
    /\ secret \in SecretStates /\ secretCache = secret
    /\ recPc = "idle" /\ recNis = None /\ recObj = NoNis /\ recSecret = None
    /\ LoopInit

Boots == PullerInit /\ RunnerInit /\ WatcherInit

AdoptInit == Boots /\ Adopts /\ edits = 1 /\ foreign = 0 /\ restarts = 0 /\ faults = 0

AdoptSpec == AdoptInit /\ [][Next]_vars

\* An edit while the registry refuses the pull secrets so far, or a foreign step,
\* and with either a failing call.
RefusedInit ==
    /\ Boots
    /\ Adopts
    /\ \/ secret = "refused" /\ edits = MaxEdits - 1 /\ foreign = MaxForeign
       \/ edits = MaxEdits /\ foreign = 0
    /\ restarts = 0 /\ faults = 0

RefusedSpec == RefusedInit /\ [][Next]_vars

\* Deletion and re-creation and a restart, or one edit among evictions.
EitherInit ==
    /\ Boots
    /\ Adopts
    /\ \/ edits = 1 /\ foreign = MaxForeign /\ restarts = 0
       \/ edits = MaxEdits - 1 /\ foreign = 0 /\ restarts = MaxRestarts
    /\ faults = 0

EitherSpec == EitherInit /\ [][Next]_vars

\* Counters start where they leave a budget to spend: one creation among
\* evictions or restarts, or two edits of an adopted NodeImageSet.
BudgetInit ==
    /\ Boots
    /\ \/ /\ ReconcilerInit
          /\ edits = 1 /\ faults = 0
          /\ \/ foreign = 0 /\ restarts = MaxRestarts
             \/ foreign = MaxForeign /\ restarts = 0
       \/ /\ Adopts
          /\ edits = 0 /\ foreign = MaxForeign /\ restarts = MaxRestarts /\ faults = MaxFaults

BudgetSpec == BudgetInit /\ [][Next]_vars /\ Fairness

Accepted == {"accepted"}
Mixed    == {"accepted", "refused"}

=============================================================================
