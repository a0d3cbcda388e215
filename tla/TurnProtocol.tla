------------------------------ MODULE TurnProtocol ------------------------------
(***************************************************************************)
(* A turn as the host of an engine sees it: where its future may be        *)
(* suspended, what the cancellation flag does to it, and that its model    *)
(* passes are bounded.  ConversationEngine implements it; the hosts that   *)
(* serve a bridge are modelled on top of it.                               *)
(*                                                                         *)
(*   idle       no turn                                                    *)
(*   begun      submitted, the future has not been polled                  *)
(*   running    inside a poll                                              *)
(*   awaiting   suspended in ModelDriver::stream                           *)
(*   asking     suspended in PermissionResolver::resolve                   *)
(***************************************************************************)
EXTENDS Naturals

CONSTANT Limits     \* the values max_turns may have

ASSUME TurnAssumption == Limits \subseteq Nat

VARIABLES
    turn,
    cancelled,      \* the CancellationFlag
    passes,         \* model passes of this turn
    limit           \* max_turns of this turn

turnVars == <<turn, cancelled, passes, limit>>

TurnInit ==
    /\ turn = "idle"
    /\ cancelled = FALSE
    /\ passes = 0
    /\ limit \in Limits

TurnBegins ==
    /\ turn = "idle"
    /\ turn' = "begun"
    /\ cancelled' = FALSE
    /\ limit' \in Limits
    /\ UNCHANGED passes

TurnIsCancelled ==
    /\ turn # "idle"
    /\ cancelled' = TRUE
    /\ UNCHANGED <<turn, passes, limit>>

TurnIsPolled ==
    /\ turn = "begun"
    /\ ~ cancelled
    /\ turn' = "running"
    /\ UNCHANGED <<cancelled, passes, limit>>

\* Only an uncancelled turn asks the model.
TurnAwaitsModel ==
    /\ turn = "running"
    /\ ~ cancelled
    /\ passes < limit
    /\ turn' = "awaiting"
    /\ passes' = passes + 1
    /\ UNCHANGED <<cancelled, limit>>

ModelAnswers ==
    /\ turn = "awaiting"
    /\ turn' = "running"
    /\ UNCHANGED <<cancelled, passes, limit>>

\* A cancelled turn may still ask: the flag is not read between the calls of a pass.
TurnAsks ==
    /\ turn = "running"
    /\ turn' = "asking"
    /\ UNCHANGED <<cancelled, passes, limit>>

TurnResumes ==
    /\ turn = "asking"
    /\ turn' = "running"
    /\ UNCHANGED <<cancelled, passes, limit>>

TurnLeaves ==
    /\ turn # "idle"
    /\ turn' = "idle"
    /\ passes' = 0
    /\ UNCHANGED <<cancelled, limit>>

TurnNext ==
    \/ TurnBegins \/ TurnIsCancelled \/ TurnIsPolled \/ TurnAwaitsModel \/ ModelAnswers
    \/ TurnAsks \/ TurnResumes \/ TurnLeaves

TurnSpec == TurnInit /\ [][TurnNext]_turnVars

TurnTypeOK ==
    /\ turn \in {"idle", "begun", "running", "awaiting", "asking"}
    /\ cancelled \in BOOLEAN
    /\ limit \in Limits
    /\ passes \in 0 .. limit
=============================================================================
