------------------------------ MODULE MCChannel ------------------------------
(***************************************************************************)
(* Two settings of Channel: three sessions without deadlines in which the  *)
(* server's ends may finish first, and two sessions with deadlines and all *)
(* that can happen besides.                                                *)
(***************************************************************************)
EXTENDS Channel, FiniteSetsExt

CONSTANT
  MaxTimed,  \* bound: sessions in the setting with deadlines
  MaxTotal   \* bound: messages that all ends send together

VARIABLE about  \* the setting of this behaviour

Calm == INSTANCE Channel WITH Silence <- 0, Events <- {"serverEnds"}

MCInit == Init /\ about \in {"calm", "timed"}

Total == MapThenSumSet(LAMBDA i : sent[Client][i] + sent[Server][i], Sessions)

MCNext ==
  /\ \/ about = "calm" /\ Calm!Next
     \/ about = "timed" /\ Next /\ started' <= MaxTimed
  /\ Total' <= MaxTotal
  /\ UNCHANGED about

MCSpec == MCInit /\ [][MCNext]_<<channelVars, about>> /\ Fairness
=============================================================================
