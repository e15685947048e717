--------------------------- MODULE MCQueuedDelivery ---------------------------
EXTENDS QueuedDelivery

\* Signals without arguments and with two.
MCSignals == {<<>>, <<"value", "reference">>}
=============================================================================
