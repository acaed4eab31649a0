---------------------------- MODULE MonitorPhase ----------------------------
(***************************************************************************)
(* The status values of a stream monitor (internal/model/model.go) and the *)
(* states of the two Kubernetes objects that carry a monitor: its          *)
(* StreamMonitor custom resource and its worker pod.                       *)
(***************************************************************************)

\* model.MonitorStatus, the values the gateway and the workers write.
\* StatusScheduled is declared in the source but nothing ever writes it.
Active   == {"initializing", "waiting", "monitoring"}
Terminal == {"completed", "stopped", "error"}
Phase    == Active \cup Terminal

\* A StreamMonitor object: not in the API server, stored with the empty status
\* every new object has, or stored with a phase.
ObjectState == {"absent", "unset"} \cup Phase

\* A worker pod.  "stopping" is a running pod with a deletion timestamp: its
\* process has got SIGTERM and has not exited yet.
PodState   == {"none", "running", "stopping", "succeeded", "failed"}
Terminated == {"succeeded", "failed"}
=============================================================================
