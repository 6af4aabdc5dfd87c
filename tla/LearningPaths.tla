---------------------------- MODULE LearningPaths ----------------------------
(***************************************************************************)
(* What the transactions of services/learning_path_store.py do: the        *)
(* creation of a path, replayed under its idempotency key, and the         *)
(* append-only list of stages that canonical quizzes completed.            *)
(*                                                                         *)
(* A path is immutable; its progress is the sequence of completion rows    *)
(* ordered by stage, one per stage, and completed_through is its length.   *)
(* Every write runs under BEGIN IMMEDIATE or SELECT ... FOR UPDATE of the  *)
(* path row, so each is a function of the rows it locked.  User and        *)
(* document ids are checked at the same places as the path id and are not  *)
(* told apart; the row hashes that detect tampering are left out.          *)
(***************************************************************************)
EXTENDS Naturals, Sequences

CONSTANT TotalStages, None

(***************************************************************************)
(* Creation                                                                *)
(***************************************************************************)
NoPath == [binding |-> None, candidate |-> None]

\* The first committed candidate is the path of the key, whoever asks next.
CreateAnswer(path, binding) ==
    CASE path = NoPath              -> "created"
      [] path.binding = binding     -> "replayed"
      [] OTHER                      -> "payload_mismatch"

CreatePath(path, binding, candidate) ==
    IF path = NoPath THEN [binding |-> binding, candidate |-> candidate] ELSE path

(***************************************************************************)
(* Progress                                                                *)
(***************************************************************************)
CompletedThrough(progress) == Len(progress)

\* _bind_learning_path_start: only the first stage not yet completed.
StageOpen(progress, stage) ==
    stage <= TotalStages /\ stage = CompletedThrough(progress) + 1

ReceiptsOf(progress, quiz) ==
    {n \in DOMAIN progress : progress[n].quiz = quiz}

CompletionAnswer(progress, stage, quiz, report) ==
    LET receipts == ReceiptsOf(progress, quiz)
    IN CASE stage > TotalStages -> "stage_missing"
         [] stage <= TotalStages /\ receipts # {} ->
                IF \A n \in receipts : n = stage /\ progress[n].report = report
                THEN "replayed" ELSE "conflict"
         [] stage <= CompletedThrough(progress) /\ receipts = {} -> "already_completed"
         [] stage = CompletedThrough(progress) + 1 /\ stage <= TotalStages /\ receipts = {} ->
                "completed"
         [] OTHER -> "stage_locked"

Accepted == {"replayed", "already_completed", "completed"}

CompleteStageRow(progress, stage, quiz, report) ==
    IF CompletionAnswer(progress, stage, quiz, report) = "completed"
    THEN Append(progress, [quiz |-> quiz, report |-> report])
    ELSE progress
=============================================================================
