------------------------------- MODULE MCFtdi -------------------------------
EXTENDS FtdiStream
MCReadSizes == {1, 2}
MCWriteSizes == {3}
=============================================================================
