-------------------------- MODULE DeploymentDetect --------------------------
(***************************************************************************)
(* nico-common deployment_detect.rs: the ladder of probes that guesses the *)
(* deployment type from the shape of the cluster.                          *)
(*                                                                         *)
(* A shape is [services, namespaces, crds, denied]: what is there, and     *)
(* which of the three kinds of question the API server refuses.            *)
(***************************************************************************)
EXTENDS Config, FiniteSets

(* KubeClusterShapeProbe: a 404 is an answer, any other error is not. *)
Refuses(shape, kind) == kind \in shape.denied

RestService == [namespace |-> "nico-rest", name |-> "nico-rest-api"]
MockService == [namespace |-> "nico-rest", name |-> "nico-rest-mock-core"]
CoreService == [namespace |-> "forge-system", name |-> "carbide-api"]

RestCrds == {"sites.nico.nvidia.io"}
CoreCrds == {"machines.forge.nvidia.com", "dpus.forge.nvidia.com"}

(* What stands for core and rest: both is full, one of them its own type.  *)
Matched(core, rest) ==
  CASE core /\ rest   -> <<"full">>
    [] core /\ ~rest  -> <<"core-only">>
    [] ~core /\ rest  -> <<"rest-only-mock">>
    [] ~core /\ ~rest -> << >>

(* workload_probe *)
WorkloadProbe(shape) ==
  LET Runs(s) == s \in shape.services
  IN  CASE Runs(MockService)                        -> <<"rest-only-mock">>
        [] ~Runs(MockService) /\ Runs(CoreService) /\ Runs(RestService) -> <<"full">>
        [] ~Runs(MockService) /\ Runs(CoreService) /\ "nico-rest" \notin shape.namespaces -> <<"core-only">>
        [] OTHER -> << >>

(* namespace_inventory_probe *)
NamespaceInventory(shape) ==
  Matched("forge-system" \in shape.namespaces, "nico-rest" \in shape.namespaces)

(* crd_inventory_probe *)
CrdInventory(shape) ==
  Matched(shape.crds \cap CoreCrds # {}, shape.crds \cap RestCrds # {})

(* run_detection_ladder: each rung is climbed only when those below it did *)
(* not match; a refused question on the way up is an error.                *)
Ladder(shape) ==
  LET rungs == <<WorkloadProbe(shape), NamespaceInventory(shape), CrdInventory(shape)>>
      early == \E i \in 1 .. 2 : rungs[i] # << >>
      hit   == FirstGiven(rungs)
      asked == {"services", "namespaces"} \cup IF early THEN {} ELSE {"crds"}
  IN  [ok      |-> \A kind \in asked : ~Refuses(shape, kind),
       matched |-> hit,
       (* What a failed detection shows: namespaces it may not list are none. *)
       saw     |-> IF hit # << >> \/ Refuses(shape, "namespaces") THEN {} ELSE shape.namespaces]
=============================================================================
