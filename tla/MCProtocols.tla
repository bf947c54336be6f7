---------------------------- MODULE MCProtocols ----------------------------
\* Two blocks of one byte of transactions.  Of each, the second chunk is empty.
EXTENDS Protocols

TwoBlocks == <<[header |-> <<2>>, transactions |-> <<3>>],
               [header |-> <<0>>, transactions |-> <<1>>]>>
=============================================================================
