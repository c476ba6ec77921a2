----------------------------- MODULE MCMonitor -----------------------------
(* Instances of Monitor for TLC. *)
EXTENDS Monitor

(* One application with a URL probed in every round and a throttled one. *)
AppsUrls == {<<1, 1>>, <<1, 2>>}
AppsInterval == [u \in AppsUrls |-> IF u = <<1, 2>> THEN 1 ELSE NULL]
=============================================================================
