-------------------------- MODULE MCSwitchMonitoring --------------------------
(***************************************************************************)
(* Finite instances of SwitchMonitoring: one switch that may be discovered *)
(* by the scanner, under its address, or entered by hand.                  *)
(***************************************************************************)
EXTENDS SwitchMonitoring, TLC

CONSTANTS h1, ip1, core

OneIpName == h1 :> ip1

\* Nothing is entered by hand.
NoPairs == {}

\* Every name always stands for the same host.
StablePairs == {<<core, h1>>}
ByAddress   == {<<ip1, h1>>}
===============================================================================
