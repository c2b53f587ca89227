------------------------------ MODULE MCThreads ------------------------------
(***************************************************************************)
(* The two places where threads meet: on a Catalog (SharedCatalog) and in  *)
(* the C API (CApi), where each handle has a catalog of its own.           *)
(***************************************************************************)
EXTENDS MCCApi, MCSharedCatalog

ThreadsInit == Init /\ SharedInit

(* Bound: the one steps only while the other is where it started; neither  *)
(* touches the other's state.                                              *)
ThreadsNext ==
    \/ Next /\ SharedInit /\ UNCHANGED sharedVars
    \/ SharedNext /\ Init /\ UNCHANGED vars

ThreadsSpec == ThreadsInit /\ [][ThreadsNext]_<<vars, sharedVars>>

Symmetry == CallSymmetry \cup CatalogSymmetry
=============================================================================
