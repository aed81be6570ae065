----------------------------- MODULE MCJobQueue -----------------------------
(* Small instances of JobQueue for TLC. *)
EXTENDS JobQueue, TLC

CONSTANTS w1, w2

ExecutionOnly == {"execution_submit"}
AnyKind == {"execution_submit", "other_type"}
TwoPriorities == {10, 100}
OnePriority == {10}
OneWorker == {w1}
WorkerAndApi == {w1, w2}
CrashesAndErrors == {"crash", "save_error"}
ErrorsOnly == {"save_error"}
=============================================================================
