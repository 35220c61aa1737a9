SPECIFICATION Spec
CONSTANTS
  n1 = n1
  n2 = n2
  n3 = n3
  localhost = localhost
  Node = {n1, n2, n3}
  Write = {w1}
  Read = {}
  Nobody = Nobody
  HostOf <- DockerHost
  RaftPort <- DockerRaftPort
  HTTPPort <- DockerHTTPPort
  MaxTerm = 2
  MaxHops = 3
CHECK_DEADLOCK FALSE
INVARIANT NotLeaderMeansNothingDone
