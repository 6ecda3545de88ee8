------------------------------- MODULE MCHost -------------------------------
(* Four components of a host that share no state with each other: which of    *)
(* them a behaviour is about is chosen in its initial state, and the others   *)
(* rest in theirs, where none of their fair actions is enabled.                *)
EXTENDS Generation, Sidecar, LocalTurn, WebPool

VARIABLE part

hostVars == <<part, generationVars, sidecarVars, localTurnVars, webPoolVars>>

HostInit ==
  /\ part \in {"generation", "sidecar", "turn", "pool"}
  /\ GenerationInit /\ SidecarInit /\ LocalTurnInit /\ WebPoolInit

HostNext ==
  \/ /\ part = "generation" /\ GenerationNext
     /\ UNCHANGED <<part, sidecarVars, localTurnVars, webPoolVars>>
  \/ /\ part = "sidecar" /\ SidecarNext
     /\ UNCHANGED <<part, generationVars, localTurnVars, webPoolVars>>
  \/ /\ part = "turn" /\ LocalTurnNext
     /\ UNCHANGED <<part, generationVars, sidecarVars, webPoolVars>>
  \/ /\ part = "pool" /\ WebPoolNext
     /\ UNCHANGED <<part, generationVars, sidecarVars, localTurnVars>>

(* GenerationFairness, LocalTurnFairness and WebPoolFairness, each of its own part. *)
HostFairness ==
  /\ \A c \in Client : WF_generationVars(part = "generation" /\ ClientStep(c))
  /\ \A g \in Gen : WF_generationVars(part = "generation" /\ (EndStream(g) \/ Release(g)))
  /\ WF_localTurnVars(part = "turn" /\ Thread)
  /\ WF_localTurnVars(part = "turn" /\ Tick)
  /\ WF_localTurnVars(part = "turn" /\ DescendantExits)
  /\ \A c \in Caller : /\ WF_webPoolVars(part = "pool" /\ Offer(c))
                        /\ WF_webPoolVars(part = "pool" /\ Await(c))
  /\ \A w \in Worker : /\ WF_webPoolVars(part = "pool" /\ Receive(w))
                        /\ WF_webPoolVars(part = "pool" /\ Complete(w))

HostSpec == HostInit /\ [][HostNext]_hostVars /\ HostFairness
=============================================================================
