--------------------------- MODULE MCDeployment ---------------------------
\* Two seeds; the key drawn last is not the greatest.
EXTENDS Deployment

TwoStreams == <<<<3, 1, 4, 2>>, <<7, 5, 8, 6>>>>
===========================================================================
