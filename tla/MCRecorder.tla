----------------------------- MODULE MCRecorder -----------------------------
(* Small instances of the recorder: which messages arrive, in which order. *)
EXTENDS Recorder

Msg(stream, at) == [stream |-> stream, symbol |-> "BTC", at |-> at, closed |-> TRUE]
OneSymbol == {"BTC"}

(* Books at the boundary of the throttle, closed candles and an open one.  *)
Throttled ==
  <<Msg("orderbook", 1), Msg("candles", 1), [Msg("candles", 2) EXCEPT !.closed = FALSE],
    Msg("orderbook", 2), Msg("candles", 2), Msg("orderbook", 3)>>

(* A book, a candle, and around it three rows of open interest for a retry *)
(* buffer of one.                                                          *)
ThreeStreams ==
  <<Msg("orderbook", 1), Msg("perp_metrics", 2), Msg("perp_metrics", 3),
    Msg("candles", 4), Msg("perp_metrics", 4)>>

(* A single stream that outgrows its retry buffer. *)
OneStream == <<Msg("perp_metrics", 1), Msg("perp_metrics", 2), Msg("perp_metrics", 3)>>
=============================================================================
