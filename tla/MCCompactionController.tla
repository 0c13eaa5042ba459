------------------------ MODULE MCCompactionController ------------------------
EXTENDS CompactionController

CONSTANT t1
===============================================================================
