-------------------------- MODULE OneShotImporter --------------------------
(***************************************************************************)
(* The one-shot importer: it lists the kinds in order, creates everything  *)
(* on a list at once in goroutines of their own, and waits for them before *)
(* it lists the next kind.  The simulator server imports before it starts  *)
(* to serve, and gives up its start if the import fails.                   *)
(***************************************************************************)
EXTENDS ResourceApplier, Sequences

CONSTANTS
    Order,     \* DefaultGVRs: every kind once, after those its objects refer to
    Selected   \* the objects the label selector selects

ASSUME ImporterAssumption ==
    /\ Order \in Seq(Kinds)
    /\ \A k \in Kinds : \E i \in DOMAIN Order : Order[i] = k
    /\ \A i, j \in DOMAIN Order : Order[i] = Order[j] => i = j
    /\ \A o \in Objects : \A n \in RefersTo[o] : \A i, j \in DOMAIN Order :
          Order[i] = KindOf[n] /\ Order[j] = KindOf[o] => i < j
    /\ Selected \subseteq Objects

VARIABLES
    phase,    \* the kinds that are listed already
    outcome   \* how the import ended

importerVars == <<phase, outcome>>

ImporterTypeOK ==
    /\ phase \in 0 .. Len(Order)
    /\ outcome \in {"running", "done", "failed"}

ImporterInit ==
    /\ phase = 0
    /\ outcome = "running"

\* Mutant: the importer does not wait.
MutAllCreated == TRUE

\* The wait group's counter is zero.
AllCreated == \A o \in Objects : job[o] = Idle

ImportResource ==
    /\ outcome = "running"
    /\ phase < Len(Order)
    /\ AllCreated
    /\ phase' = phase + 1
    /\ job' = [o \in Objects |->
                 IF /\ KindOf[o] = Order[phase + 1]
                    /\ o \in Selected
                    /\ Exists(src, o)
                   THEN Begin(o, "create", src[o])
                   ELSE job[o]]
    /\ UNCHANGED <<srcVars, dstVars, troubles, behind, outcome>>

ListFails ==
    /\ outcome = "running"
    /\ phase < Len(Order)
    /\ AllCreated
    /\ Trouble
    /\ outcome' = "failed"
    /\ UNCHANGED <<srcVars, dstVars, applierVars, phase>>

ImportReturns ==
    /\ outcome = "running"
    /\ phase = Len(Order)
    /\ AllCreated
    /\ outcome' = "done"
    /\ UNCHANGED <<srcVars, dstVars, troubles, applierVars, phase>>

ImporterStep == ImportResource \/ ImportReturns
=============================================================================
