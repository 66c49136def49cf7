------------------------------- MODULE Searches -------------------------------
(***************************************************************************)
(* The searches of a graph side by side: DFS, hasPath (Dfs) and RPO (Rpo)  *)
(* colour the same nodes, and each of them takes it for granted that the   *)
(* others left the nodes WHITE: DFS refuses a root that is not, RPO takes  *)
(* a BLACK node for listed.  Calls follow each other in any order.  What a *)
(* call returned is gone when a call of the other search is made.          *)
(***************************************************************************)
EXTENDS Dfs, Rpo

dfsLocals == <<saved, root, endKey, stack, rest, vec, pc>>
allVars   == <<dfsVars, rpoLocals>>

CallsInit == Init /\ RpoInit

CallDFS(r, e) ==
  /\ stage # "scan" /\ DFS(r, e)
  /\ start' = 0 /\ found' = <<>> /\ head' = 0 /\ look' = {} /\ stage' = "idle"

CallRPO(r) ==
  /\ pc # "scan" /\ RPO(r)
  /\ saved' = [n \in Node |-> "WHITE"]
  /\ root' = KEY_UNDEF /\ endKey' = KEY_UNDEF
  /\ UNCHANGED <<stack, rest>>
  /\ vec' = <<>> /\ pc' = "idle"

CallStep ==
  \/ stage # "scan" /\ Step /\ UNCHANGED rpoLocals
  \/ pc # "scan" /\ RpoStep /\ UNCHANGED dfsLocals
CallsNext ==
  \/ CallStep
  \/ \E r, e \in Key \cup {KEY_UNDEF} : CallDFS(r, e)
  \/ \E r \in Key : CallRPO(r)

(* One thread runs a call to its end; nothing obliges it to make a call.   *)
CallsSpec == CallsInit /\ [][CallsNext]_allVars /\ WF_allVars(CallStep)

-----------------------------------------------------------------------------
(* PROPERTIES *)

(* What is checked of the calls is stated in Dfs and Rpo: whatever was     *)
(* searched before, each of them answers as it would on its own.           *)

(* Every call returns.                                                     *)
CallsReturn ==
  /\ pc = "scan" ~> pc = "done"
  /\ stage = "scan" ~> stage = "done"
=============================================================================
