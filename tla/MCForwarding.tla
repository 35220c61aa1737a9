---------------------------- MODULE MCForwarding ----------------------------
(***************************************************************************)
(* Forwarding for TLC, with the addresses of the deployments: Docker gives *)
(* each node a host name, which is its ID, and the same ports; the files   *)
(* configs/node*.yaml put all nodes on one host, with ports of their own.  *)
(***************************************************************************)
EXTENDS Forwarding, TLC

CONSTANTS n1, n2, n3, localhost

DockerHost == [n \in Node |-> n]
DockerRaftPort == [n \in Node |-> 5001]
DockerHTTPPort == [n \in Node |-> 8080]

LocalHost == [n \in Node |-> localhost]
LocalRaftPort == n1 :> 5001 @@ n2 :> 5002 @@ n3 :> 5003
LocalHTTPPort == n1 :> 8081 @@ n2 :> 8082 @@ n3 :> 8083
=============================================================================
