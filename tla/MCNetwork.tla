------------------------------ MODULE MCNetwork ------------------------------
(* Network for TLC: one public peer, which shares its address with the      *)
(* daemon, one local address, and one request beside the worker.            *)
EXTENDS Network

CONSTANTS public, local, worker, request

MCHost == {public, local}
MCLocal == {local}
MCSelf == {public}
MCCaller == {worker, request}
MCRequest == {request}
=============================================================================
