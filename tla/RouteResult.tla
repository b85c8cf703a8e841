---------------------------- MODULE RouteResult ----------------------------
(***************************************************************************)
(* The three-way routing result and the selection among recoverable        *)
(* errors (servant-server/src/result.rs).  An error is a record of its     *)
(* status code and of who raised it ("router" or a leaf's id), so that two *)
(* errors with one status are still told apart: left bias is visible.      *)
(***************************************************************************)
EXTENDS Naturals, Sequences

CONSTANT None   \* Option::None, wherever the code has one

Route(resp) == [tag |-> "Route", val |-> resp]
Fail(err) == [tag |-> "Fail", val |-> err]
FailFatal(err) == [tag |-> "FailFatal", val |-> err]

Error(code, by) == [code |-> code, by |-> by]

NotFound == Error(404, "router")

(***************************************************************************)
(* 404 < 405 < 401 < 415 < 406 < (others) < 400.                           *)
(***************************************************************************)
Priority(code) ==
  CASE code = 404 -> 0
    [] code = 405 -> 1
    [] code = 401 -> 2
    [] code = 415 -> 3
    [] code = 406 -> 4
    [] code = 400 -> 6
    [] OTHER -> 5

(***************************************************************************)
(* combine_fail: a newer error replaces the best one only when its         *)
(* priority is strictly higher, so that ties keep the earlier error.       *)
(***************************************************************************)
CombineFail(best, new) ==
  IF best = None \/ Priority(new.code) > Priority(best.code) THEN new ELSE best
=============================================================================
