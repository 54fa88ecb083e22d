------------------------------- MODULE MCProgram ------------------------------
\* One kind of call, as in render_frame: more grains than there are threads.
EXTENDS Program

MCCalls == {[start |-> 0, end |-> Horizon, grain |-> 1]}
=============================================================================
