----------------------------- MODULE MCConnection -----------------------------
\* Connection with three connections, one restart of the X server and three
\* root pixmaps: enough for a connection that is made while two earlier ones
\* are still to be hung up, on both sides of a restart.
EXTENDS Connection
===============================================================================
