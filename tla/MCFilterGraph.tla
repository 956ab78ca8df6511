----------------------------- MODULE MCFilterGraph -----------------------------
EXTENDS FilterGraph

MCSegments == {<<0, 0, 0, 0>>, <<1, 2, 2, 3>>}
===============================================================================
