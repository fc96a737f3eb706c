---------------------------- MODULE MessageStream ----------------------------
(***************************************************************************)
(* What one direction of a connection promises, and what GameServer,       *)
(* GuiClient and ConsoleClient take it for: messages arrive whole, as they *)
(* were sent and in the order they were sent; some of the last may never.  *)
(***************************************************************************)
EXTENDS Naturals, Sequences

VARIABLES sent,     \* the messages handed over, in order
          arrived   \* the messages the other end has been given

streamVars == <<sent, arrived>>

StreamInit == sent = << >> /\ arrived = << >>

Send == /\ Len(sent') = Len(sent) + 1
        /\ SubSeq(sent', 1, Len(sent)) = sent
        /\ UNCHANGED arrived

Arrive == /\ Len(arrived) < Len(sent)
          /\ arrived' = Append(arrived, sent[Len(arrived) + 1])
          /\ UNCHANGED sent

StreamNext == Send \/ Arrive

StreamSpec == StreamInit /\ [][StreamNext]_streamVars
=============================================================================
