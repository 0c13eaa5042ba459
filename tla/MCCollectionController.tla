------------------------ MODULE MCCollectionController ------------------------
EXTENDS CollectionController

CONSTANTS w1, w2
===============================================================================
