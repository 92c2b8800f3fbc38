--------------------------- MODULE MCDecisionLoop ---------------------------
(***************************************************************************)
(* DecisionLoop with small sets of agent answers.                          *)
(***************************************************************************)
EXTENDS DecisionLoop

Answer(truncated, next, action) == [truncated |-> truncated, next |-> next, action |-> action]

\* The event types of the shipped bbgo.yaml, and position_closed.
MCEvents == {"news_changed", "kline_changed", "indicator_changed", "position_changed",
             "update_finish", "position_closed"}

MCAnswers ==
  {Answer(FALSE, <<>>, "open_limit"),
   Answer(TRUE, <<"open_limit", "unknown">>, ""),
   Answer(FALSE, <<"get_indicator">>, "no_action")}

MCChatAnswers ==
  {Answer(FALSE, <<>>, "get_indicator"), Answer(TRUE, <<"open_market">>, "open_limit")}

MCCommandAnswers ==
  {Answer(FALSE, <<"get_indicator">>, "no_action"), Answer(FALSE, <<>>, "get_indicator")}

MCNoChats == {}
MCNoChatSession == [c \in {} |-> 0]
MCChats == {"chat"}
MCChatSession == [c \in MCChats |-> 1]
=============================================================================
