----------------------------- MODULE MCConsumers -----------------------------
(***************************************************************************)
(* Small instances of the two consumers whose work outlives a message.     *)
(* They share no state: a behaviour picks one and runs it, the other stays *)
(* as it begins.                                                           *)
(***************************************************************************)
EXTENDS Counters, Media

VARIABLE part

counterVars == vars
consumerVars == <<part, counterVars, mediaVars>>

ConsumersInit ==
  /\ part \in {"counters", "media"}
  /\ Init /\ MediaInit
  /\ part = "media" \/ owner = CHOOSE w \in Workers : TRUE

CountersStep == part = "counters" /\ Next /\ UNCHANGED <<part, mediaVars>>
MediaStep == part = "media" /\ MediaNext /\ UNCHANGED <<part, counterVars>>

\* The fairness of FairSpec and of FairMediaSpec, while their part runs.
ConsumersSpec ==
  /\ ConsumersInit /\ [][CountersStep \/ MediaStep]_consumerVars
  /\ WF_counterVars(part = "counters" /\ Consume)
  /\ WF_counterVars(part = "counters" /\ Ticker)
  /\ \A w \in Workers : WF_mediaVars(part = "media" /\ Handle(w))

=============================================================================
