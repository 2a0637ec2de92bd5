----------------------------- MODULE CandleTopic -----------------------------
(***************************************************************************)
(* What the topic market.candles promises its readers, whatever happens to *)
(* the connection and to the collector: per interval, candles are closed   *)
(* in the order of their open times, each once, and nothing more is said   *)
(* of a candle once it is closed ("downstream agents never analyse a       *)
(* candle that can still change", hyperliquid_collector.py).               *)
(***************************************************************************)
EXTENDS Integers, Sequences

CONSTANT Intervals

VARIABLE topic   \* what was published, a sequence of [interval, open, ver, closed]

ClosedUpTo(i, o) == \E k \in DOMAIN topic :
                      topic[k].interval = i /\ topic[k].closed /\ topic[k].open >= o

TopicInit == topic = << >>

(* A step publishes a candle that is over, its successor's first version,  *)
(* or both.                                                                *)
TopicNext ==
  LET new == SubSeq(topic', Len(topic) + 1, Len(topic'))
  IN  /\ SubSeq(topic', 1, Len(topic)) = topic
      /\ Len(new) \in 1..2
      /\ \A k \in DOMAIN new :
           /\ new[k].interval \in Intervals
           /\ ~ClosedUpTo(new[k].interval, new[k].open)
      /\ Len(new) = 2 => /\ new[1].interval = new[2].interval
                         /\ new[1].closed /\ ~new[2].closed
                         /\ new[1].open < new[2].open

TopicSpec == TopicInit /\ [][TopicNext]_topic
=============================================================================
