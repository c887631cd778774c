----------------------------- MODULE MCExecutor -----------------------------
(* Fixtures that return, raise whatever there is to raise, or hang. *)
EXTENDS Executor
AnyEnding == {"returned", "raised", "raised TimeoutError", "raised BaseException"}
=============================================================================
