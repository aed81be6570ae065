--------------------------- MODULE MCLiveExecution --------------------------
(* Small instances of LiveExecution for TLC. *)
EXTENDS LiveExecution, TLC

CONSTANTS w1, w2, a1, a2, t1, t2

ExecutionOnly == {"execution_submit"}
TicketPriority == {10}
OneWorker == {w1}
WorkerAndApi == {w1, w2}
OneRequest == {a1}
TwoRequests == {a1, a2}
OneTicket == {t1}
TwoVenues == {"binance", "hyperliquid"}
OneVenue == {"hyperliquid"}
OnAndOff == BOOLEAN
OnlyOn == {TRUE}
TwoTickets == {t1, t2}
CleanFailures == {"crash", "refused", "unreachable"}
AmbiguousFailures == {"crash", "save_error", "refused", "unreachable", "lost_answer"}
RaceSymmetry == Permutations({a1, a2}) \cup Permutations({t1, t2})
RacingFailures == {"crash", "api_crash"}
=============================================================================
