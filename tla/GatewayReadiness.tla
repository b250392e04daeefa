--------------------------- MODULE GatewayReadiness ---------------------------
(***************************************************************************)
(* What a default gateway writes about itself into gateway_state.json, and *)
(* what devkit_gateway_readiness.py makes of it.  The file is on the data  *)
(* volume, so that it outlives the gateway and the container that wrote    *)
(* it; the gateway itself is Hermes' and modelled as far as it is read.    *)
(***************************************************************************)

VARIABLES
  gateway,  \* whether the gateway of the container runs
  roles,    \* whether a retired role has a home under profiles/
  record    \* gateway_state.json

\* own: the process that wrote it is the gateway that runs now.
\* served: unknown before it is published, then the sole default profile,
\* several profiles, or several with a retired role among them.
Record == [own : BOOLEAN, state : {"none", "starting", "running"},
           served : {"unknown", "sole", "multiplex", "legacy"}]

Records == {[own |-> FALSE, state |-> "none", served |-> "unknown"],
            [own |-> FALSE, state |-> "running", served |-> "sole"],
            [own |-> FALSE, state |-> "running", served |-> "multiplex"]}

\* A gateway that ends leaves the file as it is.
RecordOutlives == record' = [record EXCEPT !.own = @ /\ gateway']

GatewayReports ==
  /\ gateway /\ ~record.own
  /\ record' = [own |-> TRUE, state |-> "starting", served |-> "unknown"]

\* The roles that have a home at that moment are served along.
GatewayPublishes ==
  /\ gateway /\ record.own /\ record.served = "unknown"
  /\ \E s \in IF roles THEN {"legacy"} ELSE {"sole", "multiplex"} :
       record' = [record EXCEPT !.served = s]

GatewayRuns ==
  /\ gateway /\ record.own /\ record.state = "starting"
  /\ record' = [record EXCEPT !.state = "running"]

GatewayStep == GatewayReports \/ GatewayPublishes \/ GatewayRuns

Serves ==
  \/ record.served = "sole" /\ record.state = "running"
  \/ record.served = "multiplex"

\* classify(): the live process is verified, and the record is its own.  For a sole
\* profile classify compares the pid itself; for several it relies on Hermes, whose
\* recorded_served_profiles is taken to answer only for the gateway that runs.
ReadyMutant == gateway /\ Serves  \* mutant: takes the record of an earlier gateway
Ready == gateway /\ record.own /\ Serves

\* notify_multiplexer_profiles_changed: a live gateway that serves several
\* profiles looks again which there are.
Rescan ==
  /\ gateway /\ record.own /\ record.served \in {"multiplex", "legacy"}
  /\ record' = [record EXCEPT !.served = IF roles THEN "legacy" ELSE "multiplex"]
==============================================================================
