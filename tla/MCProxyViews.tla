---------------------------- MODULE MCProxyViews ----------------------------
(* An instance of ProxyViews for TLC. *)
EXTENDS ProxyViews

CONSTANTS c1, s1, s2, s3, here, there, away

TwoServers   == <<s1, s2>>
ThreeServers == <<s1, s2, s3>>
=============================================================================
