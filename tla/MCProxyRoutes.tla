--------------------------- MODULE MCProxyRoutes ---------------------------
(* Instances of ProxyRoutes for TLC. *)
EXTENDS ProxyRoutes, TLC

CONSTANTS c1, c2, s1, s2, s3

OneServer    == <<s1>>
TwoServers   == <<s1, s2>>
ThreeServers == <<s1, s2, s3>>

ClientSymmetry == Permutations({c1, c2} \cap Clients)
=============================================================================
