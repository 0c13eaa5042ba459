-------------------------- MODULE MCWriterAdmissions --------------------------
EXTENDS WriterAdmissions

CONSTANTS w1, w2, f1, f2, r1
===============================================================================
