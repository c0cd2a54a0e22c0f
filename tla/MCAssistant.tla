----------------------------- MODULE MCAssistant -----------------------------
(* The conversation with the concierge, and the cutting of texts into the  *)
(* passages it retrieves: two parts that share no state.  A behaviour      *)
(* moves one of them and leaves the other where it began.  In a            *)
(* conversation two guests post, and either a manager asks for a reply, or *)
(* a host answers and a stranger tries to post; the texts are all of at    *)
(* most MaxLength characters.  See Assistant.cfg and EmergencyMissed.cfg.  *)
EXTENDS Concierge, ChunkText

CONSTANTS g1, g2, h1, x1, m1

Guests == {g1, g2}

VARIABLE part  \* the calls of the conversation, or {}: a text

AssistantVars == <<part, vars, textVars>>

AssistantInit == part \in {Guests \cup {m1}, Guests \cup {h1, x1}, {}} /\ Init /\ TextInit

AssistantNext ==
  /\ UNCHANGED part
  /\ \/ Next /\ (\A c \in Calls \ part : call'[c] = call[c]) /\ UNCHANGED textVars
     \/ part = {} /\ TextNext /\ UNCHANGED vars

AssistantSpec ==
  AssistantInit /\ [][AssistantNext]_AssistantVars /\ Fairness /\ TextFairness
=============================================================================
