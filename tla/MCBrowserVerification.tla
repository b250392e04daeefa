----------------------- MODULE MCBrowserVerification -----------------------
(* Model checking of BrowserVerification on a small instance.              *)
EXTENDS BrowserVerification

\* Bound: an attempt is followed only beside earlier ones whose adapter was killed,
\* which may have left a server, a probe and a browser behind.
BesideLeftovers == \A a \in Attempt, b \in Attempt : a > b /\ pc[a] # "idle" => pc[b] = "dead"
=============================================================================
