----------------------------- MODULE MCThreadpool -----------------------------
EXTENDS Threadpool
MCGraphs == { <<"matmul", "nop">>, <<"rows", "rows">> }
=============================================================================
