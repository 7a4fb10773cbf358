-------------------------- MODULE MCContainerCache --------------------------
(***************************************************************************)
(* ContainerCache for TLC: lndbtc listens for Docker events, the proxy is  *)
(* in the manager's list of services only.                                 *)
(***************************************************************************)
EXTENDS ContainerCache

CONSTANTS lndbtc, proxy

OneService == {lndbtc}
TwoServices == {lndbtc, proxy}
=============================================================================
