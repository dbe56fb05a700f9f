----------------------------- MODULE MCCollector -----------------------------
\* Instances of Collector for TLC.
EXTENDS Collector, TLC

Trades == {"trades"}
Ticker == {"book_ticker"}
Level2 == {"level2"}
=============================================================================
